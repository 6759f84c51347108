------------------------- MODULE CatalogueImportProofs -------------------------
(***************************************************************************)
(* What holds of the catalogue for any files, commands and edits.          *)
(***************************************************************************)
EXTENDS CatalogueImport, TLAPS

Fields == {"pc", "kind", "rows", "update", "rel", "seen", "stale", "lost"}
Coded == {"institution", "career", "course"}

\* What a command has read is a file that passed the checks of its kind.
Readable(kind, rows) ==
    /\ DOMAIN rows \subseteq Int
    /\ kind \in Coded => Distinct(rows, "code")

RowsInv(c) ==
    cmd[c].pc \in {"valid", "rehearse", "found", "write"} => Readable(cmd[c].kind, cmd[c].rows)

\* A row that was found is still in its table, or is known to be lost.
SeenInv(c) == cmd[c].pc = "write" => \A k \in DOMAIN cmd[c].seen :
    /\ cmd[c].kind # "cutoff" => cmd[c].seen[k] = k
    /\ <<cmd[c].kind, k>> \in Keyed(cmd[c].lost)
       \/ /\ cmd[c].kind = "institution" => k \in DOMAIN institutions
          /\ cmd[c].kind = "career" => k \in DOMAIN careers
          /\ cmd[c].kind = "course" => k \in DOMAIN courses
          /\ cmd[c].kind = "requirement" => k \in DOMAIN requirements

ShapeInv ==
    /\ cmd = [c \in Commands |-> cmd[c]]
    /\ \A c \in Commands : cmd[c] = [x \in Fields |-> cmd[c][x]]

FormFields == {"id", "pc", "kind", "code", "row", "name", "slug", "lost", "beaten"}
FormsInv == \A f \in open : f = [x \in FormFields |-> f[x]] /\ f.kind \in Coded

ImportInv == ShapeInv /\ FormsInv /\ \A c \in Commands : RowsInv(c) /\ SeenInv(c)

LEMMA AtFields ==
    ASSUME NEW pc
    PROVE  /\ At(pc) = [x \in Fields |-> At(pc)[x]]
           /\ At(pc).pc = pc
BY DEF At, Fields

\* A file that passed the checks, as a command keeps it.
Started(kind, rows, update, dry) ==
    [At(IF dry THEN "rehearse" ELSE "valid")
        EXCEPT !.kind = kind, !.rows = rows, !.update = update]

LEMMA StartedFields ==
    ASSUME NEW kind, NEW rows, NEW update, NEW dry
    PROVE  LET e == Started(kind, rows, update, dry) IN
           /\ e = [x \in Fields |-> e[x]]
           /\ e.pc \in {"rehearse", "valid"} /\ e.kind = kind /\ e.rows = rows
BY DEF Started, At, Fields

LEMMA ReadDoes ==
    ASSUME NEW c \in Commands, Read(c)
    PROVE  /\ UNCHANGED tables
           /\ \/ Fail(c)
              \/ \E kind, rows, update, dry :
                   Readable(kind, rows) /\ cmd' = [cmd EXCEPT ![c] = Started(kind, rows, update, dry)]
<1>1. ASSUME NEW f \in Files PROVE DOMAIN ReadRows(f) \subseteq Int
  <2>1. DOMAIN ReadRows(f) = 1..Len(f.rows)
    BY FilesAssumption DEF ReadRows
  <2> QED BY <2>1
<1> DEFINE Reads(kind) == \E f \in Files : \E update, dry :
              \/ Fail(c)
              \/ /\ Readable(kind, ReadRows(f))
                 /\ cmd' = [cmd EXCEPT ![c] = Started(kind, ReadRows(f), update, dry)]
<1>2. CASE ImportInstitutions(c)
  <2>1. UNCHANGED tables
    BY <1>2 DEF ImportInstitutions, Begin
  <2>2. PICK f \in Files, update \in BOOLEAN, dry \in BOOLEAN :
          \/ Fail(c)
          \/ /\ ValidInstitutions(ReadRows(f))
             /\ cmd' = [cmd EXCEPT ![c] = Started("institution", ReadRows(f), update, dry)]
    BY <1>2 DEF ImportInstitutions, Begin, Started
  <2>3. ValidInstitutions(ReadRows(f)) => Readable("institution", ReadRows(f))
    BY <1>1 DEF Readable, ValidInstitutions
  <2>4. Reads("institution")
    BY <2>2, <2>3
  <2> HIDE DEF Reads
  <2> QED BY <2>1, <2>4 DEF Reads
<1>3. CASE ImportCareers(c)
  <2>1. UNCHANGED tables
    BY <1>3 DEF ImportCareers, Begin
  <2>2. PICK f \in Files, update \in BOOLEAN, dry \in BOOLEAN :
          \/ Fail(c)
          \/ /\ ValidCareers(ReadRows(f))
             /\ cmd' = [cmd EXCEPT ![c] = Started("career", ReadRows(f), update, dry)]
    BY <1>3 DEF ImportCareers, Begin, Started
  <2>3. ValidCareers(ReadRows(f)) => Readable("career", ReadRows(f))
    BY <1>1 DEF Readable, ValidCareers
  <2>4. Reads("career")
    BY <2>2, <2>3
  <2> HIDE DEF Reads
  <2> QED BY <2>1, <2>4 DEF Reads
<1>4. CASE ImportCourses(c)
  <2>1. UNCHANGED tables
    BY <1>4 DEF ImportCourses, Begin
  <2>2. PICK f \in Files, update \in BOOLEAN, dry \in BOOLEAN :
          \/ Fail(c)
          \/ /\ ValidCourses(ReadRows(f))
             /\ cmd' = [cmd EXCEPT ![c] = Started("course", ReadRows(f), update, dry)]
    BY <1>4 DEF ImportCourses, Begin, Started
  <2>3. ValidCourses(ReadRows(f)) => Readable("course", ReadRows(f))
    BY <1>1 DEF Readable, ValidCourses
  <2>4. Reads("course")
    BY <2>2, <2>3
  <2> HIDE DEF Reads
  <2> QED BY <2>1, <2>4 DEF Reads
<1>5. CASE ImportRequirements(c)
  <2>1. UNCHANGED tables
    BY <1>5 DEF ImportRequirements, Begin
  <2>2. PICK f \in Files, update \in BOOLEAN, dry \in BOOLEAN :
          \/ Fail(c)
          \/ /\ ValidRequirements(ReadRows(f))
             /\ cmd' = [cmd EXCEPT ![c] = Started("requirement", ReadRows(f), update, dry)]
    BY <1>5 DEF ImportRequirements, Begin, Started
  <2>3. ValidRequirements(ReadRows(f)) => Readable("requirement", ReadRows(f))
    BY <1>1 DEF Readable, Coded
  <2>4. Reads("requirement")
    BY <2>2, <2>3
  <2> HIDE DEF Reads
  <2> QED BY <2>1, <2>4 DEF Reads
<1>6. CASE ImportCutoffs(c)
  <2>1. UNCHANGED tables
    BY <1>6 DEF ImportCutoffs, Begin
  <2>2. PICK f \in Files, update \in BOOLEAN, dry \in BOOLEAN :
          \/ Fail(c)
          \/ /\ ValidCutoffs(ReadRows(f))
             /\ cmd' = [cmd EXCEPT ![c] = Started("cutoff", ReadRows(f), update, dry)]
    BY <1>6 DEF ImportCutoffs, Begin, Started
  <2>3. ValidCutoffs(ReadRows(f)) => Readable("cutoff", ReadRows(f))
    BY <1>1 DEF Readable, Coded
  <2>4. Reads("cutoff")
    BY <2>2, <2>3
  <2> HIDE DEF Reads
  <2> QED BY <2>1, <2>4 DEF Reads
<1> QED BY <1>2, <1>3, <1>4, <1>5, <1>6 DEF Read

LEMMA LookDoes ==
    ASSUME NEW c \in Commands, Look(c), ~FindExisting(c)
    PROVE  /\ UNCHANGED tables
           /\ \/ Fail(c) \/ Commit(c)
              \/ /\ cmd[c].pc \in {"valid", "rehearse"}
                 /\ \E rel : cmd' = [cmd EXCEPT ![c].pc = "found", ![c].rel = rel]
BY DEF Look, TransformInstitutions, TransformCareers, TransformCourses,
   TransformRequirements, TransformCutoffs, Transform, Commit

LEMMA WriteDoes ==
    ASSUME NEW c \in Commands, Write(c)
    PROVE  /\ Fail(c) \/ Commit(c)
           /\ DOMAIN institutions \subseteq DOMAIN institutions'
           /\ DOMAIN careers \subseteq DOMAIN careers'
           /\ DOMAIN courses \subseteq DOMAIN courses'
           /\ DOMAIN requirements \subseteq DOMAIN requirements'
<1>1. CASE WriteInstitutions(c)
  BY <1>1 DEF WriteInstitutions, After
<1>2. CASE WriteCareers(c)
  BY <1>2 DEF WriteCareers, After
<1>3. CASE WriteCourses(c)
  BY <1>3 DEF WriteCourses, After
<1>4. CASE WriteRequirements(c)
  BY <1>4 DEF WriteRequirements, After
<1>5. CASE WriteCutoffs(c)
  BY <1>5 DEF WriteCutoffs
<1>6. CASE AddCareerTags(c)
  BY <1>6 DEF AddCareerTags
<1> QED BY <1>1, <1>2, <1>3, <1>4, <1>5, <1>6 DEF Write

\* Whatever an administrator deletes is lost to the commands under way, and what
\* a form inserts again is there for them.
Untouched(c) ==
    /\ cmd'[c] = [x \in Fields |-> cmd'[c][x]]
    /\ cmd'[c].pc = cmd[c].pc /\ cmd'[c].kind = cmd[c].kind /\ cmd'[c].rows = cmd[c].rows
    /\ cmd'[c].seen = cmd[c].seen /\ cmd'[c].update = cmd[c].update

\* Row k of a kind is in its table or known to be lost, and stays so.
Accounted(c, kind, table, k) ==
    k \in DOMAIN table \/ <<kind, k>> \in Keyed(cmd[c].lost)
StaysAccounted(c, kind, old, new) ==
    \A k : Accounted(c, kind, old, k) => k \in DOMAIN new \/ <<kind, k>> \in Keyed(cmd'[c].lost)
AllAccounted(c) ==
    /\ StaysAccounted(c, "institution", institutions, institutions')
    /\ StaysAccounted(c, "career", careers, careers')
    /\ StaysAccounted(c, "course", courses, courses')
    /\ StaysAccounted(c, "requirement", requirements, requirements')

LEMMA ForgetDoes ==
    ASSUME ShapeInv, NEW gone, Forget(gone)
    PROVE  /\ ShapeInv'
           /\ \A c \in Commands :
                /\ Untouched(c)
                /\ Keyed(cmd[c].lost) \subseteq Keyed(cmd'[c].lost)
                /\ cmd[c].pc = "write" => gone \subseteq Keyed(cmd'[c].lost)
<1>1. ASSUME NEW c \in Commands
      PROVE  /\ Untouched(c)
             /\ cmd'[c].lost = IF cmd[c].pc \in {"found", "write"}
                               THEN cmd[c].lost \cup (gone \X {edits'}) ELSE cmd[c].lost
  BY DEF Forget, ShapeInv, Fields, Untouched
<1>2. ShapeInv'
  BY <1>1 DEF Forget, ShapeInv, Untouched
<1>3. ASSUME NEW c \in Commands, cmd[c].pc = "write", NEW g \in gone
      PROVE  g \in Keyed(cmd'[c].lost)
  <2>1. <<g, edits'>> \in cmd'[c].lost
    BY <1>1, <1>3
  <2> QED BY <2>1 DEF Keyed
<1>4. ASSUME NEW c \in Commands PROVE Keyed(cmd[c].lost) \subseteq Keyed(cmd'[c].lost)
  BY <1>1 DEF Keyed
<1> QED BY <1>1, <1>2, <1>3, <1>4

LEMMA ReviveDoes ==
    ASSUME ShapeInv, NEW f, Revive(f)
    PROVE  /\ ShapeInv'
           /\ \A c \in Commands :
                /\ Untouched(c)
                /\ \A p \in Keyed(cmd[c].lost) : p = RowOf(f) \/ p \in Keyed(cmd'[c].lost)
<1>1. ASSUME NEW c \in Commands
      PROVE  Untouched(c) /\ cmd'[c].lost = cmd[c].lost \ Undone(f)
  BY DEF Revive, ShapeInv, Fields, Untouched
<1>2. ShapeInv'
  BY <1>1 DEF Revive, ShapeInv, Untouched
<1> QED BY <1>1, <1>2 DEF Keyed, Undone

LEMMA UnchangedTouches ==
    ASSUME ShapeInv, UNCHANGED cmd
    PROVE  /\ ShapeInv'
           /\ \A c \in Commands : Untouched(c) /\ Keyed(cmd'[c].lost) = Keyed(cmd[c].lost)
BY DEF ShapeInv, Untouched

LEMMA AdministerDoes ==
    ASSUME ShapeInv, FormsInv, Administer
    PROVE  ShapeInv' /\ \A c \in Commands : Untouched(c) /\ (cmd[c].pc = "write" => AllAccounted(c))
<1> USE DEF AllAccounted, StaysAccounted, Accounted
<1>1. ASSUME NEW k, DeleteInstitution(k)
      PROVE  ShapeInv' /\ \A c \in Commands : Untouched(c) /\ (cmd[c].pc = "write" => AllAccounted(c))
  <2> DEFINE gone == {l \in DOMAIN courses : courses[l].institution = k}
             required == {l \in DOMAIN requirements : l[1] \in gone}
             cut == {l \in DOMAIN cutoffs : l[1] \in gone \/ l[3] = k}
             all == {<<"institution", k>>} \cup {<<"course", l>> : l \in gone}
                      \cup {<<"requirement", l>> : l \in required} \cup {<<"cutoff", l>> : l \in cut}
  <2>1. Forget(all)
    BY <1>1 DEF DeleteInstitution
  <2>2. /\ DOMAIN institutions' = {l \in DOMAIN institutions : l # k}
        /\ DOMAIN courses' = {l \in DOMAIN courses : l \notin gone}
        /\ DOMAIN requirements' = {l \in DOMAIN requirements : l \notin required}
        /\ careers' = careers
    BY <1>1 DEF DeleteInstitution, Without
  <2>3. /\ <<"institution", k>> \in all /\ \A l \in gone : <<"course", l>> \in all
        /\ \A l \in required : <<"requirement", l>> \in all
    OBVIOUS
  <2> HIDE DEF gone, required, cut, all
  <2> QED BY <2>1, <2>2, <2>3, ForgetDoes
<1>2. ASSUME NEW k, DeleteCareer(k)
      PROVE  ShapeInv' /\ \A c \in Commands : Untouched(c) /\ (cmd[c].pc = "write" => AllAccounted(c))
  <2>1. Forget({<<"career", k>>})
    BY <1>2 DEF DeleteCareer
  <2>2. /\ DOMAIN careers' = {l \in DOMAIN careers : l # k}
        /\ DOMAIN courses' = DOMAIN courses
        /\ institutions' = institutions /\ requirements' = requirements
    BY <1>2 DEF DeleteCareer, Without
  <2> QED BY <2>1, <2>2, ForgetDoes
<1>3. ASSUME UNCHANGED <<cmd, institutions, careers, courses, requirements>>
      PROVE  ShapeInv' /\ \A c \in Commands : Untouched(c) /\ (cmd[c].pc = "write" => AllAccounted(c))
  BY <1>3, UnchangedTouches
<1>4. ASSUME NEW f \in open, SaveForm(f), Savable(f)
      PROVE  ShapeInv' /\ \A c \in Commands : Untouched(c) /\ (cmd[c].pc = "write" => AllAccounted(c))
  <2>1. Revive(f) /\ UNCHANGED requirements
    BY <1>4 DEF SaveForm
  <2>2. f.kind \in Coded
    BY DEF FormsInv
  <2>3. DOMAIN Saved(f) = DOMAIN Table(f.kind) \cup {f.code}
    BY DEF Saved
  <2>4. /\ institutions' = IF f.kind = "institution" THEN Saved(f) ELSE institutions
        /\ careers' = IF f.kind = "career" THEN Saved(f) ELSE careers
        /\ courses' = IF f.kind = "course" THEN Saved(f) ELSE courses
    BY <1>4 DEF SaveForm
  <2>5. /\ DOMAIN institutions \subseteq DOMAIN institutions'
        /\ DOMAIN careers \subseteq DOMAIN careers'
        /\ DOMAIN courses \subseteq DOMAIN courses'
        /\ f.kind = "institution" => f.code \in DOMAIN institutions'
        /\ f.kind = "career" => f.code \in DOMAIN careers'
        /\ f.kind = "course" => f.code \in DOMAIN courses'
    BY <2>3, <2>4 DEF Table
  <2> QED BY <2>1, <2>2, <2>5, ReviveDoes DEF RowOf, Coded
<1> QED BY <1>1, <1>2, <1>3, <1>4 DEF Administer, OpenForm, CheckName, SaveForm, tables

\* Forms keep their shape whatever is done to them.
LEMMA FormsNext == FormsInv /\ [Next]_vars => FormsInv'
<1> SUFFICES ASSUME FormsInv, [Next]_vars PROVE FormsInv'
  OBVIOUS
<1> USE DEF FormsInv
<1>1. ASSUME NEW gone, Forget(gone) PROVE FormsInv'
  BY <1>1 DEF Forget, FormFields
<1>2. ASSUME NEW kind \in Coded, NEW k, NEW n, OpenForm(kind, k, n) PROVE FormsInv'
  BY <1>2 DEF OpenForm, FormFields
<1>3. ASSUME NEW f \in open, CheckName(f) PROVE FormsInv'
  BY <1>3 DEF CheckName, FormFields
<1>4. ASSUME NEW f \in open, SaveForm(f) PROVE FormsInv'
  <2>1. CASE ~Savable(f)
    BY <1>4, <2>1 DEF SaveForm
  <2>2. CASE Savable(f)
    <3>1. open' = {[g EXCEPT !.lost = @ \ Undone(f)] : g \in open \ {f}}
      BY <1>4, <2>2 DEF SaveForm, Revive
    <3>2. \A g \in open : LET h == [g EXCEPT !.lost = @ \ Undone(f)] IN
            h = [x \in FormFields |-> h[x]] /\ h.kind \in Coded
      BY DEF FormFields
    <3> QED BY <3>1, <3>2, Zenon
  <2> QED BY <2>1, <2>2
<1>5. CASE Administer
  BY <1>1, <1>2, <1>3, <1>4, <1>5 DEF Administer, DeleteInstitution, DeleteCareer, Coded
<1>6. CASE UNCHANGED open
  BY <1>6
<1> QED BY <1>5, <1>6 DEF Next, vars, forms

LEMMA ImportStarts == Init => ImportInv
<1> SUFFICES ASSUME Init PROVE ImportInv
  OBVIOUS
<1>1. ShapeInv /\ FormsInv
  BY AtFields DEF Init, ShapeInv, FormsInv
<1>2. ASSUME NEW c \in Commands PROVE cmd[c].pc = "idle"
  BY AtFields DEF Init
<1> QED BY <1>1, <1>2 DEF ImportInv, RowsInv, SeenInv

\* A step of another command takes nothing away that this one has found.
LEMMA OthersKeep ==
    ASSUME NEW c \in Commands, RowsInv(c), SeenInv(c), cmd'[c] = cmd[c],
           DOMAIN institutions \subseteq DOMAIN institutions',
           DOMAIN careers \subseteq DOMAIN careers',
           DOMAIN courses \subseteq DOMAIN courses',
           DOMAIN requirements \subseteq DOMAIN requirements'
    PROVE  RowsInv(c)' /\ SeenInv(c)'
BY DEF RowsInv, SeenInv

\* A command that is put somewhere else has nothing found.
LEMMA MovedKeeps ==
    ASSUME ShapeInv, NEW c \in Commands, NEW e, cmd' = [cmd EXCEPT ![c] = e],
           e = [x \in Fields |-> e[x]],
           e.pc \in {"failed", "done"} \/ (e.pc \in {"valid", "rehearse"} /\ Readable(e.kind, e.rows))
    PROVE  ShapeInv' /\ RowsInv(c)' /\ SeenInv(c)' /\ \A d \in Commands \ {c} : cmd'[d] = cmd[d]
<1>1. cmd'[c] = e /\ \A d \in Commands \ {c} : cmd'[d] = cmd[d]
  BY DEF ShapeInv
<1>2. ShapeInv'
  BY <1>1 DEF ShapeInv
<1> QED BY <1>1, <1>2 DEF RowsInv, SeenInv

LEMMA ImportNext == ImportInv /\ [Next]_vars => ImportInv'
<1> SUFFICES ASSUME ImportInv, [Next]_vars PROVE ImportInv'
  OBVIOUS
<1> USE DEF ImportInv
<1>0. FormsInv'
  BY FormsNext
<1> DEFINE Larger == /\ DOMAIN institutions \subseteq DOMAIN institutions'
                     /\ DOMAIN careers \subseteq DOMAIN careers'
                     /\ DOMAIN courses \subseteq DOMAIN courses'
                     /\ DOMAIN requirements \subseteq DOMAIN requirements'
<1>1. ASSUME NEW c \in Commands, NEW e, cmd' = [cmd EXCEPT ![c] = e], Larger,
             e = [x \in Fields |-> e[x]],
             e.pc \in {"failed", "done"} \/ (e.pc \in {"valid", "rehearse"} /\ Readable(e.kind, e.rows))
      PROVE  ImportInv'
  <2>1. ShapeInv' /\ RowsInv(c)' /\ SeenInv(c)' /\ \A d \in Commands \ {c} : cmd'[d] = cmd[d]
    BY <1>1, MovedKeeps
  <2>2. \A d \in Commands \ {c} : RowsInv(d)' /\ SeenInv(d)'
    BY <1>1, <2>1, OthersKeep
  <2> QED BY <1>0, <2>1, <2>2
<1>2. ASSUME NEW c \in Commands, Fail(c) \/ Commit(c), Larger PROVE ImportInv'
  <2> HIDE DEF Larger
  <2>1. CASE Fail(c)
    <3> DEFINE e == At("failed")
    <3>1. e = [x \in Fields |-> e[x]] /\ e.pc = "failed"
      BY AtFields
    <3>2. cmd' = [cmd EXCEPT ![c] = e]
      BY <2>1 DEF Fail
    <3> HIDE DEF e
    <3> QED BY <1>1, <1>2, <3>1, <3>2
  <2>2. CASE Commit(c)
    <3> DEFINE e == At("done")
    <3>1. e = [x \in Fields |-> e[x]] /\ e.pc = "done"
      BY AtFields
    <3>2. cmd' = [cmd EXCEPT ![c] = e]
      BY <2>2 DEF Commit
    <3> HIDE DEF e
    <3> QED BY <1>1, <1>2, <3>1, <3>2
  <2> QED BY <1>2, <2>1, <2>2
<1>3. ASSUME NEW c \in Commands, Read(c) PROVE ImportInv'
  <2>1. Larger
    BY <1>3, ReadDoes DEF tables
  <2> HIDE DEF Larger
  <2>2. ASSUME NEW kind, NEW rows, NEW update, NEW dry, Readable(kind, rows),
               cmd' = [cmd EXCEPT ![c] = Started(kind, rows, update, dry)]
        PROVE  ImportInv'
    <3> DEFINE e == Started(kind, rows, update, dry)
    <3>1. e = [x \in Fields |-> e[x]] /\ e.pc \in {"rehearse", "valid"} /\ e.kind = kind /\ e.rows = rows
      BY StartedFields
    <3> HIDE DEF e
    <3>2. cmd' = [cmd EXCEPT ![c] = e]
      BY <2>2 DEF e
    <3> QED BY <1>1, <2>1, <2>2, <3>1, <3>2
  <2> QED BY <1>2, <1>3, <2>1, <2>2, ReadDoes
<1>4. ASSUME NEW c \in Commands, Look(c) PROVE ImportInv'
  <2>1. Larger
    BY <1>4, LookDoes DEF tables, FindExisting
  <2>2. CASE FindExisting(c)
    <3>1. PICK seen \in Picks({k \in Keys(c) : Matching(c, k) # {}}, LAMBDA k : Matching(c, k)) :
            cmd' = [cmd EXCEPT ![c].pc = "write", ![c].seen = seen, ![c].stale = @ \cup cmd[c].lost,
                               ![c].lost = {}]
      BY <2>2 DEF FindExisting
    <3>2. /\ cmd'[c].pc = "write" /\ cmd'[c].seen = seen /\ cmd'[c].lost = {}
          /\ cmd'[c].kind = cmd[c].kind /\ cmd'[c].rows = cmd[c].rows
          /\ ShapeInv' /\ \A d \in Commands \ {c} : cmd'[d] = cmd[d]
      <4> DEFINE e == [cmd[c] EXCEPT !.pc = "write", !.seen = seen,
                                     !.stale = @ \cup cmd[c].lost, !.lost = {}]
      <4>1. cmd' = [cmd EXCEPT ![c] = e]
        BY <3>1 DEF ShapeInv
      <4>2. /\ e = [x \in Fields |-> e[x]] /\ e.pc = "write" /\ e.seen = seen /\ e.lost = {}
            /\ e.kind = cmd[c].kind /\ e.rows = cmd[c].rows
        BY DEF ShapeInv, Fields
      <4> HIDE DEF e
      <4>3. cmd'[c] = e /\ \A d \in Commands \ {c} : cmd'[d] = cmd[d]
        BY <4>1 DEF ShapeInv
      <4>4. ShapeInv'
        BY <4>1, <4>2, <4>3 DEF ShapeInv
      <4> QED BY <4>2, <4>3, <4>4
    <3>3. \A k \in DOMAIN seen : seen[k] \in Matching(c, k)
      BY <3>1 DEF Picks
    <3>4. RowsInv(c)'
      BY <2>2, <3>2 DEF RowsInv, FindExisting
    <3>5. SeenInv(c)'
      <4>1. UNCHANGED tables
        BY <2>2 DEF FindExisting
      <4> SUFFICES ASSUME NEW k \in DOMAIN seen
                   PROVE  /\ cmd[c].kind # "cutoff" => seen[k] = k
                          /\ cmd[c].kind = "institution" => k \in DOMAIN institutions
                          /\ cmd[c].kind = "career" => k \in DOMAIN careers
                          /\ cmd[c].kind = "course" => k \in DOMAIN courses
                          /\ cmd[c].kind = "requirement" => k \in DOMAIN requirements
        BY <3>2, <4>1 DEF SeenInv, tables
      <4>2. cmd[c].kind # "cutoff" => seen[k] = k /\ k \in Existing(c)
        BY <3>3 DEF Matching
      <4> QED BY <4>2 DEF Existing
    <3>6. \A d \in Commands \ {c} : RowsInv(d)' /\ SeenInv(d)'
      BY <2>1, <3>2, OthersKeep
    <3> QED BY <1>0, <3>2, <3>4, <3>5, <3>6
  <2>3. ASSUME NEW rel, cmd[c].pc \in {"valid", "rehearse"},
               cmd' = [cmd EXCEPT ![c].pc = "found", ![c].rel = rel]
        PROVE  ImportInv'
    <3>1. /\ cmd'[c].pc = "found" /\ cmd'[c].kind = cmd[c].kind /\ cmd'[c].rows = cmd[c].rows
          /\ ShapeInv' /\ \A d \in Commands \ {c} : cmd'[d] = cmd[d]
      BY <2>3 DEF ShapeInv, Fields
    <3>2. RowsInv(c)' /\ SeenInv(c)'
      BY <2>3, <3>1 DEF RowsInv, SeenInv
    <3>3. \A d \in Commands \ {c} : RowsInv(d)' /\ SeenInv(d)'
      BY <2>1, <3>1, OthersKeep
    <3> QED BY <1>0, <3>1, <3>2, <3>3
  <2> HIDE DEF Larger
  <2> QED BY <1>2, <1>4, <2>1, <2>2, <2>3, LookDoes
<1>5. ASSUME NEW c \in Commands, Write(c) PROVE ImportInv'
  BY <1>2, <1>5, WriteDoes
<1>6. CASE Administer
  <2>1. ShapeInv' /\ \A c \in Commands : Untouched(c) /\ (cmd[c].pc = "write" => AllAccounted(c))
    BY <1>6, AdministerDoes
  <2>2. ASSUME NEW c \in Commands PROVE RowsInv(c)' /\ SeenInv(c)'
    <3>1. RowsInv(c)'
      BY <2>1 DEF RowsInv, Untouched
    <3>2. SeenInv(c)'
      BY <2>1 DEF SeenInv, Untouched, AllAccounted, StaysAccounted, Accounted
    <3> QED BY <3>1, <3>2
  <2> QED BY <1>0, <2>1, <2>2
<1>7. CASE UNCHANGED vars
  BY <1>0, <1>7 DEF ShapeInv, RowsInv, SeenInv, vars, tables
<1> QED BY <1>3, <1>4, <1>5, <1>6, <1>7 DEF Next

LEMMA MaxOfOne == ASSUME NEW i \in Int PROVE Max({i}) = i
BY DEF Max

\* Only the command that writes comes from "write" to "done".
LEMMA OnlyWrites ==
    ASSUME ImportInv, [Next]_vars, NEW c \in Commands, cmd[c].pc = "write", cmd'[c].pc = "done"
    PROVE  Write(c) /\ ~Fail(c)
<1> USE DEF ImportInv
<1>0. ASSUME NEW d \in Commands, NEW e, cmd' = [cmd EXCEPT ![d] = e]
      PROVE  IF d = c THEN cmd'[c] = e ELSE cmd'[c] = cmd[c]
  BY <1>0 DEF ShapeInv
<1>1. ASSUME NEW d \in Commands, Fail(d) PROVE FALSE
  <2>1. cmd'[c] = At("failed") \/ cmd'[c] = cmd[c]
    BY <1>0, <1>1 DEF Fail
  <2> QED BY <2>1, AtFields
<1>2. ASSUME NEW d \in Commands, Read(d) PROVE FALSE
  <2>1. ASSUME NEW kind, NEW rows, NEW update, NEW dry,
               cmd' = [cmd EXCEPT ![d] = Started(kind, rows, update, dry)]
        PROVE  FALSE
    BY <1>0, <2>1, StartedFields
  <2> QED BY <1>1, <1>2, <2>1, ReadDoes
<1>3. ASSUME NEW d \in Commands, Look(d) PROVE FALSE
  <2>1. CASE FindExisting(d)
    BY <2>1 DEF ShapeInv, Fields, FindExisting
  <2>2. ASSUME NEW rel, cmd' = [cmd EXCEPT ![d].pc = "found", ![d].rel = rel] PROVE FALSE
    BY <2>2 DEF ShapeInv, Fields
  <2>3. cmd[d].pc = "write" => FindExisting(d)
    BY <1>3 DEF Look, TransformInstitutions, TransformCareers, TransformCourses,
       TransformRequirements, TransformCutoffs, Transform
  <2>4. ASSUME Commit(d) PROVE d = c
    BY <1>0, <2>4 DEF Commit
  <2> QED BY <1>1, <1>3, <2>1, <2>2, <2>3, <2>4, LookDoes
<1>4. ASSUME NEW d \in Commands, Write(d) PROVE Write(c)
  <2>1. Commit(d)
    BY <1>1, <1>4, WriteDoes
  <2>2. d = c
    BY <1>0, <2>1 DEF Commit
  <2> QED BY <1>4, <2>2
<1>5. CASE Administer
  BY <1>5, AdministerDoes DEF Untouched
<1>6. CASE UNCHANGED vars
  BY <1>6 DEF vars
<1> QED BY <1>1, <1>2, <1>3, <1>4, <1>5, <1>6 DEF Next

--------------------------------------------------------------------------------
\* A named table whose slugs are made of its names, but for the rows overtaken.
FollowsNames(kind, table, but) ==
    \A k \in DOMAIN table : <<kind, k>> \notin but => table[k].slug = Slugify[table[k].name]

\* A form that nobody was faster than writes the slug of its name.
FormFollows(f) == f.kind # "course" /\ ~f.beaten =>
    /\ f.pc = "loaded" => f.row.slug = Slugify[f.row.name]
    /\ f.pc = "checked" => f.slug = Slugify[f.name]

SlugsInv ==
    /\ FollowsNames("institution", institutions, overtaken)
    /\ FollowsNames("career", careers, overtaken)
    /\ \A f \in open : FormFollows(f)

\* Rows that are as they were have the slugs they had.
LEMMA SameFollow ==
    ASSUME NEW kind, NEW old, NEW new, FollowsNames(kind, old, overtaken),
           \A p \in overtaken : p[1] = kind /\ Same(old, new, p[2]) => p \in overtaken',
           \A k \in DOMAIN new :
             (k \in DOMAIN old /\ new[k] = old[k]) \/ new[k].slug = Slugify[new[k].name]
    PROVE  FollowsNames(kind, new, overtaken')
BY DEF FollowsNames, Same

LEMMA SettleKeeps ==
    ASSUME Settle, NEW p \in overtaken
    PROVE  /\ p[1] = "institution" /\ Same(institutions, institutions', p[2]) => p \in overtaken'
           /\ p[1] = "career" /\ Same(careers, careers', p[2]) => p \in overtaken'
BY DEF Settle

\* What an import leaves of a named table (After, written out).
NamedTable(c, table) ==
    LET fresh == {KeyOf(c, i) : i \in Fresh(c)} IN
    [k \in DOMAIN table \cup fresh |->
        IF k \in fresh THEN NamedRow(c, table, CHOOSE i \in Fresh(c) : KeyOf(c, i) = k)
        ELSE IF k \in Targets(c) THEN NamedRow(c, table, LastFor(c, k)) ELSE table[k]]

\* A row that is written takes name and slug from the same row of the file.
LEMMA WrittenFollow ==
    ASSUME NEW c, NEW table, NEW k \in DOMAIN NamedTable(c, table)
    PROVE  LET new == NamedTable(c, table) IN
           (k \in DOMAIN table /\ new[k] = table[k]) \/ new[k].slug = Slugify[new[k].name]
<1>1. \/ k \in DOMAIN table /\ NamedTable(c, table)[k] = table[k]
      \/ \E i : NamedTable(c, table)[k] = NamedRow(c, table, i)
  BY DEF NamedTable
<1>2. ASSUME NEW i PROVE NamedRow(c, table, i).slug = Slugify[NamedRow(c, table, i).name]
  BY DEF NamedRow
<1> QED BY <1>1, <1>2

\* Slugs follow in the table a form has been saved in.
LEMMA SavedFollow ==
    ASSUME NEW f, f.kind # "course", FormFollows(f), f.pc = "checked",
           FollowsNames(f.kind, Table(f.kind), overtaken),
           overtaken' = IF f.beaten THEN overtaken \cup {RowOf(f)} ELSE overtaken \ {RowOf(f)}
    PROVE  FollowsNames(f.kind, Saved(f), overtaken')
<1> SUFFICES ASSUME NEW k \in DOMAIN Saved(f), <<f.kind, k>> \notin overtaken'
             PROVE  Saved(f)[k].slug = Slugify[Saved(f)[k].name]
  BY DEF FollowsNames
<1>1. CASE k = f.code
  <2>1. ~f.beaten
    BY <1>1 DEF RowOf
  <2>2. Saved(f)[k] = [name |-> f.name, slug |-> f.slug, data |-> f.row.data]
    BY <1>1 DEF Saved
  <2> QED BY <2>1, <2>2 DEF FormFollows
<1>2. CASE k # f.code
  <2>1. Saved(f)[k] = Table(f.kind)[k] /\ k \in DOMAIN Table(f.kind)
    BY <1>2 DEF Saved
  <2>2. <<f.kind, k>> # RowOf(f)
    BY <1>2 DEF RowOf
  <2> QED BY <2>1, <2>2 DEF FollowsNames
<1> QED BY <1>1, <1>2

\* The tables are as they were for the other kinds.
LEMMA OtherFollow ==
    ASSUME NEW f, NEW kind, kind # f.kind, NEW table, FollowsNames(kind, table, overtaken),
           overtaken' = IF f.beaten THEN overtaken \cup {RowOf(f)} ELSE overtaken \ {RowOf(f)}
    PROVE  FollowsNames(kind, table, overtaken')
BY DEF FollowsNames, RowOf

\* What the check of the name decides is right where nobody was faster.
LEMMA CheckFollows ==
    ASSUME FormsInv, SlugsInv, NEW f \in open, CheckName(f)
    PROVE  \A g \in open' : FormFollows(g)
<1> DEFINE again == Table(f.kind)[f.code].name # f.name
           checked == [f EXCEPT !.pc = "checked",
                          !.slug = IF again THEN SlugFor(f.kind, f.name) ELSE f.row.slug,
                          !.beaten = ~again /\ (@ \/ f.row.name # f.name)]
<1>1. open' \subseteq open \cup {checked}
  BY DEF CheckName
<1>2. FormFollows(f) /\ f.pc = "loaded"
  BY DEF SlugsInv, CheckName
<1>3. /\ checked.pc = "checked" /\ checked.kind = f.kind /\ checked.name = f.name
      /\ checked.slug = IF again THEN SlugFor(f.kind, f.name) ELSE f.row.slug
      /\ checked.beaten = (~again /\ (f.beaten \/ f.row.name # f.name))
  BY DEF FormsInv, FormFields
<1> HIDE DEF checked, again
<1>4. FormFollows(checked)
  BY <1>2, <1>3 DEF FormFollows, SlugFor
<1> QED BY <1>1, <1>4 DEF SlugsInv

\* Nothing but the writes of institutions and careers and the requests of
\* administrators touches a slug of theirs.
LEMMA SlugsNext == ImportInv /\ SlugsInv /\ [Next]_vars => SlugsInv'
<1> SUFFICES ASSUME ImportInv, SlugsInv, [Next]_vars PROVE SlugsInv'
  OBVIOUS
<1> USE DEF SlugsInv
<1>1. ASSUME NEW c \in Commands, Read(c) \/ Look(c), UNCHANGED <<forms, overtaken>> PROVE SlugsInv'
  <2>1. UNCHANGED tables
    BY <1>1, ReadDoes, LookDoes DEF FindExisting
  <2> QED BY <1>1, <2>1 DEF tables, forms
<1>2. ASSUME Settle,
             \A k \in DOMAIN institutions' :
               (k \in DOMAIN institutions /\ institutions'[k] = institutions[k])
                 \/ institutions'[k].slug = Slugify[institutions'[k].name],
             \A k \in DOMAIN careers' :
               (k \in DOMAIN careers /\ careers'[k] = careers[k])
                 \/ careers'[k].slug = Slugify[careers'[k].name]
      PROVE  /\ FollowsNames("institution", institutions', overtaken')
             /\ FollowsNames("career", careers', overtaken')
  BY <1>2, SettleKeeps, SameFollow
<1>3. ASSUME NEW c \in Commands, Write(c), UNCHANGED forms, Settle PROVE SlugsInv'
  <2>1. \A f \in open' : FormFollows(f)
    BY <1>3 DEF forms
  <2>2. \A k \in DOMAIN institutions' :
               (k \in DOMAIN institutions /\ institutions'[k] = institutions[k])
                 \/ institutions'[k].slug = Slugify[institutions'[k].name]
    <3>1. institutions' = institutions \/ institutions' = NamedTable(c, institutions)
      BY <1>3 DEF Write, WriteInstitutions, WriteCareers, WriteCourses, WriteRequirements,
         WriteCutoffs, AddCareerTags, After, NamedTable
    <3> QED BY <3>1, WrittenFollow
  <2>3. \A k \in DOMAIN careers' :
               (k \in DOMAIN careers /\ careers'[k] = careers[k])
                 \/ careers'[k].slug = Slugify[careers'[k].name]
    <3>1. careers' = careers \/ careers' = NamedTable(c, careers)
      BY <1>3 DEF Write, WriteInstitutions, WriteCareers, WriteCourses, WriteRequirements,
         WriteCutoffs, AddCareerTags, After, NamedTable
    <3> QED BY <3>1, WrittenFollow
  <2> QED BY <1>2, <1>3, <2>1, <2>2, <2>3
<1>4. ASSUME NEW gone, Forget(gone) PROVE \A f \in open' : FormFollows(f)
  <2>1. \A f \in open : LET g == [f EXCEPT !.lost = @ \cup (gone \X {edits'})] IN FormFollows(g)
    BY DEF ImportInv, FormsInv, FormFields, FormFollows
  <2> QED BY <1>4, <2>1 DEF Forget
<1>5. ASSUME NEW k, DeleteInstitution(k) \/ DeleteCareer(k), Settle PROVE SlugsInv'
  <2>1. \A f \in open' : FormFollows(f)
    BY <1>4, <1>5 DEF DeleteInstitution, DeleteCareer
  <2>2. /\ \A l \in DOMAIN institutions' : l \in DOMAIN institutions /\ institutions'[l] = institutions[l]
        /\ \A l \in DOMAIN careers' : l \in DOMAIN careers /\ careers'[l] = careers[l]
    BY <1>5 DEF DeleteInstitution, DeleteCareer, Without
  <2> QED BY <1>2, <1>5, <2>1, <2>2
<1>6. ASSUME NEW kind \in Coded, NEW k \in DOMAIN Table(kind), NEW n, OpenForm(kind, k, n)
      PROVE  SlugsInv'
  <2> DEFINE f == [id |-> edits', pc |-> "loaded", kind |-> kind, code |-> k,
                   row |-> Table(kind)[k], name |-> n, slug |-> Null, lost |-> {},
                   beaten |-> <<kind, k>> \in overtaken]
  <2>1. open' = open \cup {f} /\ UNCHANGED <<institutions, careers, overtaken>>
    BY <1>6 DEF OpenForm, tables
  <2>2. FormFollows(f)
    BY DEF FormFollows, FollowsNames, Table, Coded
  <2> HIDE DEF f
  <2> QED BY <2>1, <2>2
<1>7. ASSUME NEW f \in open, CheckName(f) PROVE SlugsInv'
  BY <1>7, CheckFollows DEF CheckName, tables, ImportInv
<1>8. ASSUME NEW f \in open, SaveForm(f) PROVE SlugsInv'
  <2>1. CASE ~Savable(f)
    BY <1>8, <2>1 DEF SaveForm
  <2>2. CASE Savable(f)
    <3>1. \A g \in open' : FormFollows(g)
      <4>1. \A g \in open : LET h == [g EXCEPT !.lost = @ \ Undone(f)] IN FormFollows(h)
        BY DEF ImportInv, FormsInv, FormFields, FormFollows
      <4>2. open' = {[g EXCEPT !.lost = @ \ Undone(f)] : g \in open \ {f}}
        BY <1>8, <2>2 DEF SaveForm, Revive
      <4> QED BY <4>1, <4>2, Zenon
    <3>2. /\ overtaken' = IF f.beaten THEN overtaken \cup {RowOf(f)} ELSE overtaken \ {RowOf(f)}
          /\ f.pc = "checked" /\ FormFollows(f) /\ f.kind \in Coded
          /\ institutions' = IF f.kind = "institution" THEN Saved(f) ELSE institutions
          /\ careers' = IF f.kind = "career" THEN Saved(f) ELSE careers
      BY <1>8, <2>2 DEF SaveForm, ImportInv, FormsInv
    <3>3. FollowsNames("institution", institutions', overtaken')
      BY <3>2, SavedFollow, OtherFollow DEF Table
    <3>4. FollowsNames("career", careers', overtaken')
      BY <3>2, SavedFollow, OtherFollow DEF Table
    <3> QED BY <3>1, <3>3, <3>4
  <2> QED BY <2>1, <2>2
<1>9. CASE UNCHANGED vars
  BY <1>9 DEF vars, tables, forms
<1>10. CASE Administer
  BY <1>10, <1>5, <1>6, <1>7, <1>8 DEF Administer, Coded
<1> QED BY <1>1, <1>3, <1>9, <1>10 DEF Next

\* What the tables hold at first was written by the same rules.
CataloguesFollow ==
    \A t \in Catalogues :
        FollowsNames("institution", t.institutions, {}) /\ FollowsNames("career", t.careers, {})

\* From a catalogue whose slugs follow its names, no import, update or form of
\* an administrator leaves an old slug under a new name, but a form that finds
\* the new name there already.
THEOREM SlugsAlwaysFollow == ASSUME CataloguesFollow PROVE Spec => []SlugsFollowNames
<1>1. Init => SlugsInv
  BY DEF Init, CataloguesFollow, FollowsNames, SlugsInv
<1>2. SlugsInv => SlugsFollowNames
  BY DEF SlugsInv, SlugsFollowNames, FollowsNames
<1> QED BY <1>1, <1>2, SlugsNext, ImportStarts, ImportNext, PTL DEF Spec

--------------------------------------------------------------------------------
\* Without --update nothing is a target of an UPDATE.
LEMMA NoTargets == ASSUME NEW c, ~cmd[c].update PROVE Targets(c) = {}
BY DEF Targets, Edited

\* A table that is left alone keeps its rows.
LEMMA KeptSame == ASSUME NEW keys, NEW table PROVE KeptBut(keys, table, table)
BY DEF KeptBut, Same

AllKept(c) ==
    /\ KeptBut({}, institutions, institutions') /\ KeptBut({}, careers, careers')
    /\ KeptBut({}, courses, courses') /\ KeptBut({}, requirements, requirements')
    /\ KeptBut({}, cutoffs, cutoffs') /\ KeptBut(Retagged(c), careerTags, careerTags')

\* An import of careers unlinks only the careers it gives tags.
LEMMA TagsKept ==
    ASSUME NEW c, WriteCareers(c)
    PROVE  KeptBut(Retagged(c), careerTags, careerTags')
<1>1. CASE UNCHANGED careerTags
  BY <1>1 DEF KeptBut, Same
<1>2. CASE ~UNCHANGED careerTags
  <2>1. PICK new : careerTags' = [l \in {m \in DOMAIN careerTags : m[1] \notin Cleared(c, new)} |-> careerTags[l]]
    BY <1>2 DEF WriteCareers
  <2>2. cmd[c].kind = "career"
    BY DEF WriteCareers, Writing
  <2>3. \A l \in DOMAIN careerTags : l \notin Retagged(c) => l[1] \notin Cleared(c, new)
    BY <2>2 DEF Cleared, Retagged
  <2> QED BY <2>1, <2>3 DEF KeptBut, Same
<1> QED BY <1>1, <1>2

LEMMA KeepsRows ==
    ASSUME ImportInv, [Next]_vars,
           NEW c \in Commands, cmd[c].pc = "write", cmd'[c].pc = "done", ~cmd[c].update
    PROVE  AllKept(c)
<1>1. Write(c) /\ ~Fail(c)
  BY OnlyWrites
<1>2. Targets(c) = {}
  BY NoTargets
<1> USE DEF KeptBut, Same
<1>3. CASE WriteInstitutions(c)
  BY <1>1, <1>2, <1>3 DEF WriteInstitutions, AllKept, After, Insertable
<1>4. CASE WriteCareers(c)
  <2>1. KeptBut({}, careers, careers')
    BY <1>1, <1>2, <1>4 DEF WriteCareers, CareersFail, After, Insertable
  <2>2. KeptBut(Retagged(c), careerTags, careerTags')
    BY <1>4, TagsKept
  <2>3. UNCHANGED <<institutions, courses, requirements, cutoffs>>
    BY <1>4 DEF WriteCareers
  <2> QED BY <2>1, <2>2, <2>3 DEF AllKept
<1>5. CASE WriteCourses(c)
  BY <1>1, <1>2, <1>5 DEF WriteCourses, AllKept, After, Insertable
<1>6. CASE WriteRequirements(c)
  BY <1>1, <1>2, <1>6 DEF WriteRequirements, AllKept, After, Insertable
<1>7. CASE WriteCutoffs(c)
  <2>1. KeptBut({}, cutoffs, cutoffs')
    BY <1>1, <1>2, <1>7 DEF WriteCutoffs
  <2> QED BY <1>7, <2>1 DEF WriteCutoffs, AllKept
<1>8. CASE AddCareerTags(c)
  BY <1>8 DEF AddCareerTags
<1> QED BY <1>1, <1>3, <1>4, <1>5, <1>6, <1>7, <1>8 DEF Write

\* For any file and whatever else runs, an import without --update keeps every
\* row as it is, and the tags of every career it gives none.
THEOREM RowsAlwaysKept == Spec => ImportsKeepRows
<1>1. ImportInv /\ [Next]_vars =>
        [\A c \in Commands : cmd[c].pc = "write" /\ cmd'[c].pc = "done" /\ ~cmd[c].update =>
            /\ KeptBut({}, institutions, institutions') /\ KeptBut({}, careers, careers')
            /\ KeptBut({}, courses, courses') /\ KeptBut({}, requirements, requirements')
            /\ KeptBut({}, cutoffs, cutoffs') /\ KeptBut(Retagged(c), careerTags, careerTags')]_vars
  BY KeepsRows DEF AllKept
<1> QED BY <1>1, ImportStarts, ImportNext, PTL DEF Spec, ImportsKeepRows

--------------------------------------------------------------------------------
\* The row of the file that a key is written from is the one that has it.
LEMMA WrittenFrom ==
    ASSUME ImportInv, NEW c \in Commands, cmd[c].pc = "write", cmd[c].update,
           cmd[c].kind # "cutoff", NEW i \in DOMAIN cmd[c].rows,
           \A j \in DOMAIN cmd[c].rows : KeyOf(c, j) = KeyOf(c, i) => j = i,
           <<cmd[c].kind, KeyOf(c, i)>> \notin Keyed(cmd[c].lost)
    PROVE  \/ /\ i \in Fresh(c)
              /\ (CHOOSE j \in Fresh(c) : KeyOf(c, j) = KeyOf(c, i)) = i
           \/ /\ KeyOf(c, i) \in DOMAIN cmd[c].seen
              /\ KeyOf(c, i) \notin {KeyOf(c, j) : j \in Fresh(c)}
              /\ KeyOf(c, i) \in Targets(c) /\ LastFor(c, KeyOf(c, i)) = i
<1> DEFINE k == KeyOf(c, i)
<1>1. CASE i \in Fresh(c)
  <2>1. \A j \in Fresh(c) : KeyOf(c, j) = k <=> j = i
    BY <1>1 DEF Fresh
  <2> HIDE DEF k
  <2>2. (CHOOSE j \in Fresh(c) : KeyOf(c, j) = k) = i
    BY <1>1, <2>1
  <2> QED BY <1>1, <2>2 DEF k
<1>2. CASE i \notin Fresh(c)
  <2>1. k \in DOMAIN cmd[c].seen /\ i \in Edited(c)
    BY <1>2 DEF Fresh, Edited
  <2>2. \A l \in DOMAIN cmd[c].seen : cmd[c].seen[l] = l
    BY DEF ImportInv, SeenInv
  <2>3. k \notin {KeyOf(c, j) : j \in Fresh(c)}
    BY <2>1 DEF Fresh
  <2>4. cmd[c].seen[KeyOf(c, i)] = k
    BY <2>1, <2>2
  <2>5. k \in Targets(c)
    BY <2>1, <2>4 DEF Targets
  <2>6. {j \in Edited(c) : cmd[c].seen[KeyOf(c, j)] = k} = {i}
    <3>1. \A j \in Edited(c) : j \in DOMAIN cmd[c].rows /\ KeyOf(c, j) \in DOMAIN cmd[c].seen
      BY DEF Edited, Fresh
    <3>2. \A j \in Edited(c) : cmd[c].seen[KeyOf(c, j)] = k => j = i
      BY <2>2, <3>1
    <3> QED BY <2>1, <2>4, <3>2
  <2>7. i \in Int
    BY DEF ImportInv, RowsInv, Readable
  <2>8. LastFor(c, k) = i
    <3>1. Max({j \in Edited(c) : cmd[c].seen[KeyOf(c, j)] = k}) = Max({i})
      BY <2>6, Zenon
    <3> QED BY <2>7, <3>1, MaxOfOne DEF LastFor
  <2> QED BY <2>1, <2>3, <2>5, <2>8
<1> QED BY <1>1, <1>2
\* What the table that a row of the file belongs to says of it after the write.
Reflected(c, i) ==
    LET row == cmd[c].rows[i]  k == KeyOf(c, i) IN
    CASE cmd[c].kind = "institution" ->
             \/ <<cmd[c].kind, k>> \in Keyed(cmd[c].lost)
             \/ institutions'[k] = [name |-> row.name, slug |-> Slugify[row.name], data |-> row.data]
      [] cmd[c].kind = "career" ->
             \/ <<cmd[c].kind, k>> \in Keyed(cmd[c].lost)
             \/ careers'[k] = [name |-> row.name, slug |-> Slugify[row.name], data |-> row.data]
      [] cmd[c].kind = "course" ->
             \/ <<cmd[c].kind, k>> \in Keyed(cmd[c].lost)
             \/ /\ courses'[k].name = row.name /\ courses'[k].data = row.data
                /\ courses'[k].institution = cmd[c].rel[i].institution
                /\ courses'[k].career = cmd[c].rel[i].career
      [] cmd[c].kind = "requirement" ->
             \/ <<cmd[c].kind, k>> \in Keyed(cmd[c].lost)
             \/ \E j \in DOMAIN cmd[c].rows : j # i /\ KeyOf(c, j) = k
             \/ requirements'[k] = row.data
      [] OTHER -> TRUE

LEMMA Reflects ==
    ASSUME ImportInv, [Next]_vars, NEW c \in Commands,
           cmd[c].pc = "write", cmd'[c].pc = "done", cmd[c].update, NEW i \in DOMAIN cmd[c].rows
    PROVE  Reflected(c, i)
<1> DEFINE k == KeyOf(c, i)
           fresh == {KeyOf(c, j) : j \in Fresh(c)}
<1>1. Write(c) /\ ~Fail(c)
  BY OnlyWrites
<1>2. cmd[c].kind \in Coded => \A j \in DOMAIN cmd[c].rows : KeyOf(c, j) = k => j = i
  BY DEF ImportInv, RowsInv, Readable, Distinct, Coded, KeyOf
<1>3. i \in Fresh(c) => k \in fresh
  OBVIOUS
<1>4. ASSUME cmd[c].kind = "institution", <<cmd[c].kind, k>> \notin Keyed(cmd[c].lost)
      PROVE  institutions'[k] = NamedRow(c, institutions, i)
  <2>1. institutions' = [l \in DOMAIN institutions \cup fresh |->
          IF l \in fresh THEN NamedRow(c, institutions, CHOOSE j \in Fresh(c) : KeyOf(c, j) = l)
          ELSE IF l \in Targets(c) THEN NamedRow(c, institutions, LastFor(c, l)) ELSE institutions[l]]
    BY <1>1, <1>4 DEF Write, Writing, WriteInstitutions, WriteCareers, WriteCourses,
       WriteRequirements, WriteCutoffs, AddCareerTags, After
  <2>2. k \in DOMAIN cmd[c].seen => k \in DOMAIN institutions
    BY <1>4 DEF ImportInv, SeenInv
  <2>4. \/ i \in Fresh(c) /\ (CHOOSE j \in Fresh(c) : KeyOf(c, j) = k) = i
        \/ k \in DOMAIN cmd[c].seen /\ k \notin fresh /\ k \in Targets(c) /\ LastFor(c, k) = i
    BY <1>2, <1>4, WrittenFrom DEF Coded
  <2> HIDE DEF k, fresh
  <2> QED BY <1>3, <2>1, <2>2, <2>4
<1>5. ASSUME cmd[c].kind = "career", <<cmd[c].kind, k>> \notin Keyed(cmd[c].lost)
      PROVE  careers'[k] = NamedRow(c, careers, i)
  <2>1. careers' = [l \in DOMAIN careers \cup fresh |->
          IF l \in fresh THEN NamedRow(c, careers, CHOOSE j \in Fresh(c) : KeyOf(c, j) = l)
          ELSE IF l \in Targets(c) THEN NamedRow(c, careers, LastFor(c, l)) ELSE careers[l]]
    BY <1>1, <1>5 DEF Write, Writing, WriteInstitutions, WriteCareers, WriteCourses,
       WriteRequirements, WriteCutoffs, AddCareerTags, After
  <2>2. k \in DOMAIN cmd[c].seen => k \in DOMAIN careers
    BY <1>5 DEF ImportInv, SeenInv
  <2>4. \/ i \in Fresh(c) /\ (CHOOSE j \in Fresh(c) : KeyOf(c, j) = k) = i
        \/ k \in DOMAIN cmd[c].seen /\ k \notin fresh /\ k \in Targets(c) /\ LastFor(c, k) = i
    BY <1>2, <1>5, WrittenFrom DEF Coded
  <2> HIDE DEF k, fresh
  <2> QED BY <1>3, <2>1, <2>2, <2>4
<1>6. ASSUME cmd[c].kind = "course", <<cmd[c].kind, k>> \notin Keyed(cmd[c].lost)
      PROVE  courses'[k] = CourseRow(c, i)
  <2>1. courses' = [l \in DOMAIN courses \cup fresh |->
          IF l \in fresh THEN CourseRow(c, CHOOSE j \in Fresh(c) : KeyOf(c, j) = l)
          ELSE IF l \in Targets(c) THEN CourseRow(c, LastFor(c, l)) ELSE courses[l]]
    BY <1>1, <1>6 DEF Write, Writing, WriteInstitutions, WriteCareers, WriteCourses,
       WriteRequirements, WriteCutoffs, AddCareerTags, After
  <2>2. k \in DOMAIN cmd[c].seen => k \in DOMAIN courses
    BY <1>6 DEF ImportInv, SeenInv
  <2>4. \/ i \in Fresh(c) /\ (CHOOSE j \in Fresh(c) : KeyOf(c, j) = k) = i
        \/ k \in DOMAIN cmd[c].seen /\ k \notin fresh /\ k \in Targets(c) /\ LastFor(c, k) = i
    BY <1>2, <1>6, WrittenFrom DEF Coded
  <2> HIDE DEF k, fresh
  <2> QED BY <1>3, <2>1, <2>2, <2>4
<1>7. ASSUME cmd[c].kind = "requirement", <<cmd[c].kind, k>> \notin Keyed(cmd[c].lost),
             \A j \in DOMAIN cmd[c].rows : KeyOf(c, j) = k => j = i
      PROVE  requirements'[k] = cmd[c].rows[i].data
  <2>1. requirements' = [l \in DOMAIN requirements \cup fresh |->
          IF l \in fresh THEN cmd[c].rows[CHOOSE j \in Fresh(c) : KeyOf(c, j) = l].data
          ELSE IF l \in Targets(c) THEN cmd[c].rows[LastFor(c, l)].data ELSE requirements[l]]
    BY <1>1, <1>7 DEF Write, Writing, WriteInstitutions, WriteCareers, WriteCourses,
       WriteRequirements, WriteCutoffs, AddCareerTags, After
  <2>2. k \in DOMAIN cmd[c].seen => k \in DOMAIN requirements
    BY <1>7 DEF ImportInv, SeenInv
  <2>4. \/ i \in Fresh(c) /\ (CHOOSE j \in Fresh(c) : KeyOf(c, j) = k) = i
        \/ k \in DOMAIN cmd[c].seen /\ k \notin fresh /\ k \in Targets(c) /\ LastFor(c, k) = i
    BY <1>2, <1>7, WrittenFrom DEF Coded
  <2> HIDE DEF k, fresh
  <2> QED BY <1>3, <2>1, <2>2, <2>4
<1>8. ASSUME cmd[c].kind = "institution" \/ cmd[c].kind = "career"
      PROVE  Reflected(c, i)
  BY <1>4, <1>5, <1>8 DEF Reflected, NamedRow
<1>9. ASSUME cmd[c].kind = "course" PROVE Reflected(c, i)
  BY <1>6, <1>9 DEF Reflected, CourseRow
<1>10. ASSUME cmd[c].kind = "requirement" PROVE Reflected(c, i)
  BY <1>7, <1>10 DEF Reflected
<1> QED BY <1>8, <1>9, <1>10 DEF Reflected

\* The rows that the file does not name.
OthersKept(c) ==
    /\ KeptBut(KeysIn(c, "institution"), institutions, institutions')
    /\ KeptBut(KeysIn(c, "career"), careers, careers')
    /\ KeptBut(KeysIn(c, "course"), courses, courses')
    /\ KeptBut(KeysIn(c, "requirement"), requirements, requirements')
    /\ cmd[c].kind # "cutoff" => KeptBut({}, cutoffs, cutoffs')

LEMMA KeepsOthers ==
    ASSUME ImportInv, [Next]_vars, NEW c \in Commands, cmd[c].pc = "write", cmd'[c].pc = "done"
    PROVE  OthersKept(c)
<1>1. Write(c) /\ ~Fail(c)
  BY OnlyWrites
<1>2. cmd[c].kind # "cutoff" => Targets(c) \subseteq Keys(c)
  <2> SUFFICES ASSUME cmd[c].kind # "cutoff", NEW i \in Edited(c)
               PROVE  cmd[c].seen[KeyOf(c, i)] \in Keys(c)
    BY DEF Targets
  <2>1. i \in DOMAIN cmd[c].rows /\ KeyOf(c, i) \in DOMAIN cmd[c].seen
    BY DEF Edited, Fresh
  <2>2. cmd[c].seen[KeyOf(c, i)] = KeyOf(c, i)
    BY <2>1 DEF ImportInv, SeenInv
  <2> QED BY <2>1, <2>2 DEF Keys
<1>3. \A i \in Fresh(c) : KeyOf(c, i) \in Keys(c)
  BY DEF Fresh, Keys
<1>4. ASSUME NEW table, NEW Value(_), cmd[c].kind # "cutoff"
      PROVE  KeptBut(Keys(c), table, After(c, table, Value))
  BY <1>2, <1>3, <1>4 DEF KeptBut, Same, After
<1>5. ASSUME NEW keys, NEW table PROVE KeptBut(keys, table, table)
  BY KeptSame
<1>6. CASE WriteInstitutions(c)
  BY <1>1, <1>4, <1>5, <1>6 DEF WriteInstitutions, Writing, OthersKept, KeysIn
<1>7. CASE WriteCareers(c)
  BY <1>1, <1>4, <1>5, <1>7 DEF WriteCareers, Writing, OthersKept, KeysIn
<1>8. CASE WriteCourses(c)
  BY <1>1, <1>4, <1>5, <1>8 DEF WriteCourses, Writing, OthersKept, KeysIn
<1>9. CASE WriteRequirements(c)
  BY <1>1, <1>4, <1>5, <1>9 DEF WriteRequirements, Writing, OthersKept, KeysIn
<1>10. CASE WriteCutoffs(c)
  BY <1>5, <1>10 DEF WriteCutoffs, Writing, OthersKept
<1>11. CASE AddCareerTags(c)
  BY <1>11 DEF AddCareerTags
<1> QED BY <1>1, <1>6, <1>7, <1>8, <1>9, <1>10, <1>11 DEF Write

\* An import with --update, of cutoffs apart, leaves of every row that was not
\* deleted meanwhile what the file says about it, and the rows that the file
\* does not name as they were, for any files and whatever else runs.
THEOREM FilesAlwaysReflected == Spec => ImportReflectsFile
<1>1. ImportInv /\ [Next]_vars =>
        [\A c \in Commands : cmd[c].pc = "write" /\ cmd'[c].pc = "done" /\ cmd[c].update =>
            /\ KeptBut(KeysIn(c, "institution"), institutions, institutions')
            /\ KeptBut(KeysIn(c, "career"), careers, careers')
            /\ KeptBut(KeysIn(c, "course"), courses, courses')
            /\ KeptBut(KeysIn(c, "requirement"), requirements, requirements')
            /\ cmd[c].kind # "cutoff" => KeptBut({}, cutoffs, cutoffs')
            /\ \A i \in DOMAIN cmd[c].rows : Reflected(c, i)]_vars
  BY Reflects, KeepsOthers DEF OthersKept
<1> QED BY <1>1, ImportStarts, ImportNext, PTL DEF Spec, ImportReflectsFile, Reflected
================================================================================
