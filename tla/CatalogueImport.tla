--------------------------- MODULE CatalogueImport ---------------------------
(***************************************************************************)
(* The catalogue (careers/models/core.py) and the commands that fill it:   *)
(* import_institutions, import_careers, import_courses,                    *)
(* import_subject_requirements, import_cutoffs and add_career_tags, run by *)
(* hand while administrators edit the same tables.                         *)
(*                                                                         *)
(* An import reads and validates its file, looks up what the rows refer    *)
(* to, and only then opens the transaction that finds the existing rows    *)
(* and writes.  An administrator's form loads its row, lets Model.save()   *)
(* compare the name with the one stored and writes all columns as loaded,  *)
(* each with what has committed by then.                                   *)
(*                                                                         *)
(* A row is known by its code, a requirement by course and subject, a      *)
(* cutoff by course, slot (cluster and year) and institution.  Names are   *)
(* taken up to letter case.  The columns no one looks up by are one value, *)
(* "data".                                                                 *)
(***************************************************************************)
EXTENDS Integers, Sequences, FiniteSets, SequencesExt

CONSTANTS
    Commands,    \* runs of the commands
    Files,       \* records of kind, columns and rows
    Catalogues,  \* what the tables may hold at first
    Slugify,     \* Slugify[name]
    Mixed,       \* codes and titles stored in mixed case
    Tags,        \* titles of the existing tags
    Seeds,       \* the pairs <<career title, tag>> of add_career_tags
    MaxActs,     \* bound: commands begun and requests of administrators, together
    Missing,     \* an empty cell of the file
    Nan,         \* the text "nan"
    Null

ASSUME FilesAssumption == \A f \in Files : DOMAIN f.rows = 1..Len(f.rows)

VARIABLES
    institutions,  \* code |-> [name, slug, data]
    careers,       \* code |-> [name, slug, data]
    courses,       \* code |-> [name, slug, institution, career, data]
    requirements,  \* <<course, subject>> |-> data
    cutoffs,       \* <<course, slot, institution>> |-> points
    careerTags,    \* <<career, tag>> |-> "plain" or "weighted"
    cmd,           \* what each command has read
    edits,         \* requests of administrators so far
    open,          \* the forms being saved
    overtaken      \* <<kind, code>> of the rows whose slug was left behind by a
                   \*   save that found its new name there already (history)

tables == <<institutions, careers, courses, requirements, cutoffs, careerTags>>
forms == <<edits, open>>
vars == <<tables, cmd, forms, overtaken>>

\* Where a command has come to: the rows it read, the rows they refer to
\* (rel), the keys it found taken and the row each stands for (seen), and the
\* rows deleted since, before (stale) and after (lost) it opened its transaction,
\* each as <<kind, key>> with the number of the request that deleted it.
At(pc) == [pc |-> pc, kind |-> Null, rows |-> <<>>, update |-> FALSE, rel |-> <<>>,
           seen |-> <<>>, stale |-> {}, lost |-> {}]

Room == edits + Cardinality({c \in Commands : cmd[c].pc # "idle"}) < MaxActs

--------------------------------------------------------------------------------
(* Reading and validating a file                                            *)

\* The columns are there under one of their aliases.  Two columns that stand
\* for the same one are renamed alike by three importers, which then fail;
\* the other two keep the first.
HasColumns(f) ==
    \/ f.columns = "complete"
    \/ f.columns = "doubled" /\ f.kind \in {"course", "cutoff"}

\* strip_whitespace turns an empty cell into the text "nan", so that the
\* checks for missing values, which come later, find none.
ReadRows(f) ==
    [i \in DOMAIN f.rows |->
        [x \in DOMAIN f.rows[i] |-> IF f.rows[i][x] = Missing THEN Nan ELSE f.rows[i][x]]]

Distinct(rows, x) == \A i, j \in DOMAIN rows : rows[i][x] = rows[j][x] => i = j

AllValid(rows) == rows # <<>> /\ \A i \in DOMAIN rows : rows[i].valid

ValidInstitutions(rows) == AllValid(rows) /\ Distinct(rows, "code") /\ Distinct(rows, "name")

ValidCareers(rows) == AllValid(rows) /\ Distinct(rows, "code") /\ Distinct(rows, "name")

ValidCourses(rows) == AllValid(rows) /\ Distinct(rows, "code")

\* By what the file calls them: a course may still be there by code and by title.
ValidRequirements(rows) ==
    /\ AllValid(rows)
    /\ \A i, j \in DOMAIN rows :
         rows[i].course = rows[j].course /\ rows[i].subject = rows[j].subject => i = j

ValidCutoffs(rows) == AllValid(rows)

Keyed(deleted) == {p[1] : p \in deleted}

Fail(c) == cmd' = [cmd EXCEPT ![c] = At("failed")]

Begin(c, kind, Valid(_)) ==
    /\ cmd[c].pc = "idle" /\ Room
    /\ \E f \in {g \in Files : g.kind = kind}, update, dry \in BOOLEAN :
         LET rows == ReadRows(f) IN
         IF HasColumns(f) /\ Valid(rows)
         THEN cmd' = [cmd EXCEPT ![c] = [At(IF dry THEN "rehearse" ELSE "valid")
                        EXCEPT !.kind = kind, !.rows = rows, !.update = update]]
         ELSE Fail(c)
    /\ UNCHANGED tables

ImportInstitutions(c) == Begin(c, "institution", ValidInstitutions)
ImportCareers(c) == Begin(c, "career", ValidCareers)
ImportCourses(c) == Begin(c, "course", ValidCourses)
ImportRequirements(c) == Begin(c, "requirement", ValidRequirements)
ImportCutoffs(c) == Begin(c, "cutoff", ValidCutoffs)

--------------------------------------------------------------------------------
(* Looking up what the rows refer to, outside any transaction               *)

Denotes(ref, table) == {k \in DOMAIN table : k = ref \/ table[k].name = ref}

\* One entry per name: where a name stands for several rows, the last one read.
Picks(refs, Candidates(_)) ==
    {p \in [refs -> UNION {Candidates(r) : r \in refs}] : \A r \in refs : p[r] \in Candidates(r)}

Transform(c, kind, Related(_)) ==
    /\ cmd[c].pc \in {"valid", "rehearse"} /\ cmd[c].kind = kind
    /\ IF Related(cmd[c].rows) = {}
       THEN Fail(c)
       ELSE \E rel \in Related(cmd[c].rows) :
              cmd' = IF cmd[c].pc = "rehearse"
                     THEN [cmd EXCEPT ![c] = At("done")]
                     ELSE [cmd EXCEPT ![c].pc = "found", ![c].rel = rel]
    /\ UNCHANGED tables

TransformInstitutions(c) == Transform(c, "institution", LAMBDA rows : {<<>>})

TransformCareers(c) == Transform(c, "career", LAMBDA rows : {<<>>})

RelatedToCourses(rows) ==
    {[i \in DOMAIN rows |-> [institution |-> p[rows[i].institution], career |-> q[rows[i].career]]] :
        p \in Picks({rows[i].institution : i \in DOMAIN rows}, LAMBDA r : Denotes(r, institutions)),
        q \in Picks({rows[i].career : i \in DOMAIN rows}, LAMBDA r : Denotes(r, careers))}

TransformCourses(c) == Transform(c, "course", RelatedToCourses)

\* The subject catalogue is not edited here: a subject is found.
RelatedToRequirements(rows) ==
    {[i \in DOMAIN rows |-> [course |-> p[rows[i].course], subject |-> rows[i].subject]] :
        p \in Picks({rows[i].course : i \in DOMAIN rows}, LAMBDA r : Denotes(r, courses))}

TransformRequirements(c) == Transform(c, "requirement", RelatedToRequirements)

\* Only courses whose code or title is stored all in lower or all in upper
\* case are fetched; the institution of the row plays no part in it.
FetchedCourses(rows) ==
    {k \in DOMAIN courses : \E i \in DOMAIN rows : rows[i].course \in {k, courses[k].name} \ Mixed}

RelatedToCutoffs(rows) ==
    {[i \in DOMAIN rows |-> [course |-> p[rows[i].course], institution |-> q[rows[i].institution]]] :
        p \in Picks({rows[i].course : i \in DOMAIN rows},
                    LAMBDA r : Denotes(r, courses) \cap FetchedCourses(rows)),
        q \in Picks({rows[i].institution : i \in DOMAIN rows}, LAMBDA r : Denotes(r, institutions))}

TransformCutoffs(c) == Transform(c, "cutoff", RelatedToCutoffs)

--------------------------------------------------------------------------------
(* The transaction: find the existing rows, insert, update                  *)

\* The key a row is looked up by.
KeyOf(c, i) ==
    LET row == cmd[c].rows[i] IN
    CASE cmd[c].kind = "requirement" -> <<cmd[c].rel[i].course, row.subject>>
      [] cmd[c].kind = "cutoff" -> <<cmd[c].rel[i].course, row.slot>>
      [] OTHER -> row.code

Keys(c) == {KeyOf(c, i) : i \in DOMAIN cmd[c].rows}

Existing(c) ==
    CASE cmd[c].kind = "institution" -> DOMAIN institutions
      [] cmd[c].kind = "career" -> DOMAIN careers
      [] cmd[c].kind = "course" -> DOMAIN courses
      [] cmd[c].kind = "requirement" -> DOMAIN requirements
      [] cmd[c].kind = "cutoff" -> DOMAIN cutoffs

\* A cutoff is looked up without its institution: of several, the last one read.
Matching(c, k) ==
    CASE cmd[c].kind \in {"requirement", "cutoff"} /\ <<"course", k[1]>> \in Keyed(cmd[c].lost) -> {}
      [] cmd[c].kind = "cutoff" -> {e \in Existing(c) : <<e[1], e[2]>> = k}
      [] OTHER -> {k} \cap Existing(c)

FindExisting(c) ==
    /\ cmd[c].pc = "found"
    /\ \E seen \in Picks({k \in Keys(c) : Matching(c, k) # {}}, LAMBDA k : Matching(c, k)) :
         cmd' = [cmd EXCEPT ![c].pc = "write", ![c].seen = seen, ![c].stale = @ \cup cmd[c].lost,
                            ![c].lost = {}]
    /\ UNCHANGED tables

Fresh(c) == {i \in DOMAIN cmd[c].rows : KeyOf(c, i) \notin DOMAIN cmd[c].seen}

\* Mutant of Edited: existing rows are overwritten without --update too.
EditedAlways(c) == DOMAIN cmd[c].rows \ Fresh(c)

Edited(c) == IF cmd[c].update THEN DOMAIN cmd[c].rows \ Fresh(c) ELSE {}

\* What an UPDATE still finds, and the last row of the file that is for it.
Targets(c) ==
    {t \in {cmd[c].seen[KeyOf(c, i)] : i \in Edited(c)} : <<cmd[c].kind, t>> \notin Keyed(cmd[c].lost)}

LastFor(c, t) == Max({i \in Edited(c) : cmd[c].seen[KeyOf(c, i)] = t})

\* A foreign key that is written and leads to a row no longer there.
Dangles(c) ==
    \E i \in Fresh(c) \cup {LastFor(c, t) : t \in Targets(c)} :
        \E x \in DOMAIN cmd[c].rel[i] : <<x, cmd[c].rel[i][x]>> \in Keyed(cmd[c].stale \cup cmd[c].lost)

\* The rows to insert are new to the table and to each other.
Insertable(c, table) ==
    \A i \in Fresh(c) : /\ KeyOf(c, i) \notin DOMAIN table
                        /\ \A j \in Fresh(c) : KeyOf(c, i) = KeyOf(c, j) => i = j

After(c, table, Value(_)) ==
    LET fresh == {KeyOf(c, i) : i \in Fresh(c)} IN
    [k \in DOMAIN table \cup fresh |->
        IF k \in fresh THEN Value(CHOOSE i \in Fresh(c) : KeyOf(c, i) = k)
        ELSE IF k \in Targets(c) THEN Value(LastFor(c, k)) ELSE table[k]]

Slugged(table) == \A k, l \in DOMAIN table : table[k].slug = table[l].slug => k = l

\* INSERT comes first; UPDATE checks row by row, so that a row which takes
\* over the slug another row gives up may fail or not.
SlugsFree(c, table, new) == Slugged([k \in DOMAIN new |-> IF k \in DOMAIN table THEN table[k] ELSE new[k]])
TakesOver(c, table, new) ==
    \E s, t \in Targets(c) : s # t /\ new[s].slug = table[t].slug

Commit(c) == cmd' = [cmd EXCEPT ![c] = At("done")]

Writing(c, kind) == cmd[c].pc = "write" /\ cmd[c].kind = kind

\* Mutant of NamedRow: the slug is not among the fields updated.
NamedRowOldSlug(c, table, i) ==
    LET row == cmd[c].rows[i] IN
    [name |-> row.name, data |-> row.data,
     slug |-> IF row.code \in DOMAIN table THEN table[row.code].slug ELSE Slugify[row.name]]

NamedRow(c, table, i) ==
    LET row == cmd[c].rows[i] IN [name |-> row.name, slug |-> Slugify[row.name], data |-> row.data]

WriteInstitutions(c) ==
    LET new == After(c, institutions, LAMBDA i : NamedRow(c, institutions, i)) IN
    /\ Writing(c, "institution")
    /\ \/ /\ Insertable(c, institutions) /\ SlugsFree(c, institutions, new) /\ Slugged(new)
          /\ institutions' = new
          /\ Commit(c)
       \/ /\ \/ ~Insertable(c, institutions) \/ ~SlugsFree(c, institutions, new)
             \/ ~Slugged(new) \/ TakesOver(c, institutions, new)
          /\ Fail(c) /\ UNCHANGED institutions
    /\ UNCHANGED <<careers, courses, requirements, cutoffs, careerTags>>

NamedTags(c) == UNION {cmd[c].rows[i].tags : i \in DOMAIN cmd[c].rows}

\* The careers whose row of the file names tags: new, updated or skipped.
Cleared(c, new) ==
    {cmd[c].rows[i].code : i \in {j \in DOMAIN cmd[c].rows : cmd[c].rows[j].tags # {}}} \cap DOMAIN new

\* The tags are indexed by tag.code, an attribute they do not have: the import
\* fails as soon as one of them exists, and unlinks all tags if none does.
CareersFail(c, new) ==
    \/ ~Insertable(c, careers) \/ ~SlugsFree(c, careers, new) \/ ~Slugged(new)
    \/ NamedTags(c) \cap Tags # {}

WriteCareers(c) ==
    LET new == After(c, careers, LAMBDA i : NamedRow(c, careers, i)) IN
    /\ Writing(c, "career")
    /\ \/ /\ ~CareersFail(c, new)
          /\ careers' = new
          /\ careerTags' = [l \in {m \in DOMAIN careerTags : m[1] \notin Cleared(c, new)} |-> careerTags[l]]
          /\ Commit(c)
       \/ /\ CareersFail(c, new) \/ TakesOver(c, careers, new)
          /\ Fail(c) /\ UNCHANGED <<careers, careerTags>>
    /\ UNCHANGED <<institutions, courses, requirements, cutoffs>>

\* Mutant of CourseRow: the institution is not among the fields updated.
CourseRowStays(c, i) ==
    LET row == cmd[c].rows[i] IN
    [name |-> row.name, slug |-> <<row.name, cmd[c].rel[i].institution>>, data |-> row.data,
     institution |-> IF row.code \in DOMAIN courses THEN courses[row.code].institution
                     ELSE cmd[c].rel[i].institution,
     career |-> cmd[c].rel[i].career]

CourseRow(c, i) ==
    LET row == cmd[c].rows[i] IN
    [name |-> row.name, slug |-> <<row.name, cmd[c].rel[i].institution>>,
     institution |-> cmd[c].rel[i].institution, data |-> row.data, career |-> cmd[c].rel[i].career]

WriteCourses(c) ==
    /\ Writing(c, "course")
    /\ IF Insertable(c, courses) /\ ~Dangles(c)
       THEN courses' = After(c, courses, LAMBDA i : CourseRow(c, i)) /\ Commit(c)
       ELSE Fail(c) /\ UNCHANGED courses
    /\ UNCHANGED <<institutions, careers, requirements, cutoffs, careerTags>>

WriteRequirements(c) ==
    /\ Writing(c, "requirement")
    /\ IF /\ Insertable(c, requirements)
          /\ \A i \in Fresh(c) : <<"course", cmd[c].rel[i].course>> \notin Keyed(cmd[c].stale \cup cmd[c].lost)
       THEN requirements' = After(c, requirements, LAMBDA i : cmd[c].rows[i].data) /\ Commit(c)
       ELSE Fail(c) /\ UNCHANGED requirements
    /\ UNCHANGED <<institutions, careers, courses, cutoffs, careerTags>>

\* Where a cutoff row of the file is stored.
Place(c, i) == <<cmd[c].rel[i].course, cmd[c].rows[i].slot, cmd[c].rel[i].institution>>

\* An updated cutoff takes the points and the institution of the file.
Moved(c, t) == Place(c, LastFor(c, t))

WriteCutoffs(c) ==
    LET kept == DOMAIN cutoffs \ Targets(c)
        new  == {Place(c, i) : i \in Fresh(c)}
        ok   == /\ ~Dangles(c)
                /\ \A i, j \in Fresh(c) : Place(c, i) = Place(c, j) => i = j
                /\ new \cap DOMAIN cutoffs = {}
                /\ \A t \in Targets(c) : Moved(c, t) \notin (kept \cup new)
    IN
    /\ Writing(c, "cutoff")
    /\ IF ok
       THEN /\ cutoffs' = [k \in kept \cup new \cup {Moved(c, t) : t \in Targets(c)} |->
                 IF k \in new THEN cmd[c].rows[CHOOSE i \in Fresh(c) : Place(c, i) = k].data
                 ELSE IF k \in kept THEN cutoffs[k]
                 ELSE cmd[c].rows[LastFor(c, CHOOSE t \in Targets(c) : Moved(c, t) = k)].data]
            /\ Commit(c)
       ELSE Fail(c) /\ UNCHANGED cutoffs
    /\ UNCHANGED <<institutions, careers, courses, requirements, careerTags>>

--------------------------------------------------------------------------------
(* add_career_tags and the administrators                                   *)

SeededLinks ==
    {l \in (DOMAIN careers) \X {s[2] : s \in Seeds} : <<careers[l[1]].name, l[2]>> \in Seeds}

\* One transaction for the whole table; a tag id that is not there undoes it.
AddCareerTags(c) ==
    /\ cmd[c].pc = "idle" /\ Room
    /\ \E dry \in BOOLEAN :
         IF ~dry /\ \E l \in SeededLinks : l[2] \notin Tags
         THEN Fail(c) /\ UNCHANGED careerTags
         ELSE /\ careerTags' = IF dry THEN careerTags
                               ELSE [l \in DOMAIN careerTags \cup SeededLinks |->
                                       IF l \in SeededLinks THEN "weighted" ELSE careerTags[l]]
              /\ Commit(c)
    /\ UNCHANGED <<institutions, careers, courses, requirements, cutoffs>>

Table(kind) ==
    CASE kind = "institution" -> institutions [] kind = "career" -> careers [] OTHER -> courses

\* An administrator's course has the slug of its title alone.
SlugFor(kind, name) == IF kind = "course" THEN <<name>> ELSE Slugify[name]

RowOf(f) == <<f.kind, f.code>>

\* The form is posted: it loads row k, which it is to give a name.  Where it
\* points to (institution, career) is left as it is.
OpenForm(kind, k, name) ==
    /\ open' = open \cup {[id |-> edits', pc |-> "loaded", kind |-> kind, code |-> k,
                          row |-> Table(kind)[k], name |-> name, slug |-> Null, lost |-> {},
                          beaten |-> <<kind, k>> \in overtaken]}
    /\ UNCHANGED <<tables, cmd, overtaken>>

\* Model.save() makes the slug again where the name is not the one stored now;
\* where it is, the slug stays the one the form loaded.  A row that is gone
\* ends the request.
CheckName(f) ==
    LET stored == Table(f.kind)[f.code].name
        again  == stored # f.name
    IN
    /\ f.pc = "loaded"
    /\ open' = (open \ {f}) \cup
          (IF RowOf(f) \in Keyed(f.lost) THEN {}
           ELSE {[f EXCEPT !.pc = "checked",
                           !.slug = IF again THEN SlugFor(f.kind, f.name) ELSE f.row.slug,
                           !.beaten = ~again /\ (@ \/ f.row.name # f.name)]})
    /\ UNCHANGED <<tables, cmd, edits, overtaken>>

\* The table with the form's row in it.  The UPDATE that finds no row is
\* followed by an INSERT.
Saved(f) ==
    LET row == IF f.kind = "course" THEN [f.row EXCEPT !.name = f.name, !.slug = f.slug]
               ELSE [name |-> f.name, slug |-> f.slug, data |-> f.row.data]
    IN
    [k \in DOMAIN Table(f.kind) \cup {f.code} |-> IF k = f.code THEN row ELSE Table(f.kind)[k]]

\* A row that was deleted may be there again, under its code or not; one that
\* it points to may be gone.
Savable(f) ==
    /\ RowOf(f) \in Keyed(f.lost) => f.code \notin DOMAIN Table(f.kind)
    /\ IF f.kind = "course"
       THEN {<<"institution", f.row.institution>>, <<"career", f.row.career>>} \cap Keyed(f.lost) = {}
       ELSE Slugged(Saved(f))

\* The deletion of the very row that the form loaded.
Undone(f) ==
    {p \in f.lost : p[1] = RowOf(f) /\ \A q \in f.lost : q[1] = RowOf(f) => p[2] <= q[2]}

\* The row inserted again is the one the commands and forms under way have read.
Revive(f) ==
    /\ cmd' = [c \in Commands |->
                 [cmd[c] EXCEPT !.lost = @ \ Undone(f), !.stale = @ \ Undone(f)]]
    /\ open' = {[g EXCEPT !.lost = @ \ Undone(f)] : g \in open \ {f}}

SaveForm(f) ==
    /\ f.pc = "checked"
    /\ IF Savable(f)
       THEN /\ institutions' = IF f.kind = "institution" THEN Saved(f) ELSE institutions
            /\ careers' = IF f.kind = "career" THEN Saved(f) ELSE careers
            /\ courses' = IF f.kind = "course" THEN Saved(f) ELSE courses
            /\ overtaken' = IF f.beaten THEN overtaken \cup {RowOf(f)} ELSE overtaken \ {RowOf(f)}
            /\ Revive(f)
       ELSE open' = open \ {f} /\ UNCHANGED <<institutions, careers, courses, overtaken, cmd>>
    /\ UNCHANGED <<requirements, cutoffs, careerTags, edits>>

Without(table, Gone(_)) == [k \in {l \in DOMAIN table : ~Gone(l)} |-> table[k]]

\* What the commands and forms under way found of these rows leads nowhere now.
Forget(gone) ==
    /\ cmd' = [c \in Commands |->
         IF cmd[c].pc \in {"found", "write"}
         THEN [cmd[c] EXCEPT !.lost = @ \cup (gone \X {edits'})] ELSE cmd[c]]
    /\ open' = {[f EXCEPT !.lost = @ \cup (gone \X {edits'})] : f \in open}

\* The courses of an institution go with it, their requirements and cutoffs too.
DeleteInstitution(k) ==
    LET gone == {l \in DOMAIN courses : courses[l].institution = k}
        required == {l \in DOMAIN requirements : l[1] \in gone}
        cut == {l \in DOMAIN cutoffs : l[1] \in gone \/ l[3] = k}
    IN
    /\ institutions' = Without(institutions, LAMBDA l : l = k)
    /\ courses' = Without(courses, LAMBDA l : l \in gone)
    /\ requirements' = Without(requirements, LAMBDA l : l \in required)
    /\ cutoffs' = Without(cutoffs, LAMBDA l : l \in cut)
    /\ Forget({<<"institution", k>>} \cup {<<"course", l>> : l \in gone}
               \cup {<<"requirement", l>> : l \in required} \cup {<<"cutoff", l>> : l \in cut})
    /\ UNCHANGED <<careers, careerTags>>

\* The courses of a career stay, without it.
DeleteCareer(k) ==
    /\ careers' = Without(careers, LAMBDA l : l = k)
    /\ careerTags' = Without(careerTags, LAMBDA l : l[1] = k)
    /\ courses' = [l \in DOMAIN courses |->
                     [courses[l] EXCEPT !.career = IF @ = k THEN Null ELSE @]]
    /\ Forget({<<"career", k>>})
    /\ UNCHANGED <<institutions, requirements, cutoffs>>

--------------------------------------------------------------------------------
Read(c) ==
    \/ ImportInstitutions(c) \/ ImportCareers(c) \/ ImportCourses(c)
    \/ ImportRequirements(c) \/ ImportCutoffs(c)

Look(c) ==
    \/ TransformInstitutions(c) \/ TransformCareers(c) \/ TransformCourses(c)
    \/ TransformRequirements(c) \/ TransformCutoffs(c) \/ FindExisting(c)

Write(c) ==
    \/ WriteInstitutions(c) \/ WriteCareers(c) \/ WriteCourses(c)
    \/ WriteRequirements(c) \/ WriteCutoffs(c) \/ AddCareerTags(c)

Names == DOMAIN Slugify

Same(old, new, k) == k \in DOMAIN new /\ new[k] = old[k]

\* A row that is written anew, or deleted, has no slug of an earlier save.
Settle ==
    overtaken' = {p \in overtaken :
        \/ p[1] = "institution" /\ Same(institutions, institutions', p[2])
        \/ p[1] = "career" /\ Same(careers, careers', p[2])}

Administer ==
    \/ /\ Room /\ edits' = edits + 1
       /\ \/ \E k \in DOMAIN institutions : DeleteInstitution(k) /\ Settle
          \/ \E k \in DOMAIN careers : DeleteCareer(k) /\ Settle
          \/ \E kind \in {"institution", "career", "course"}, n \in Names :
                \E k \in DOMAIN Table(kind) : OpenForm(kind, k, n)
    \/ \E f \in open : CheckName(f) \/ SaveForm(f)

Init ==
    /\ \E t \in Catalogues :
         /\ institutions = t.institutions /\ careers = t.careers /\ courses = t.courses
         /\ requirements = t.requirements /\ cutoffs = t.cutoffs /\ careerTags = t.careerTags
    /\ cmd = [c \in Commands |-> At("idle")]
    /\ edits = 0 /\ open = {} /\ overtaken = {}

Next ==
    \/ \E c \in Commands : Read(c) /\ UNCHANGED <<forms, overtaken>>
    \/ \E c \in Commands : Look(c) /\ UNCHANGED <<forms, overtaken>>
    \/ \E c \in Commands : Write(c) /\ UNCHANGED forms /\ Settle
    \/ Administer

Spec == Init /\ [][Next]_vars

--------------------------------------------------------------------------------
\* The address of an institution's or a career's page is made of its name,
\* whether an import, an update or an administrator named it last, so a page
\* is never found under a name that is gone: but where two of them gave a row
\* the same new name at a time, and the later save took it for the old one.
SlugsFollowNames ==
    /\ \A k \in DOMAIN institutions :
         <<"institution", k>> \notin overtaken => institutions[k].slug = Slugify[institutions[k].name]
    /\ \A k \in DOMAIN careers :
         <<"career", k>> \notin overtaken => careers[k].slug = Slugify[careers[k].name]

\* The rows of old outside keys are in new as they were.
KeptBut(keys, old, new) == \A k \in DOMAIN old \ keys : Same(old, new, k)

\* The links of the careers that the file of command c gives tags.
Retagged(c) ==
    IF cmd[c].kind # "career" THEN {}
    ELSE {l \in DOMAIN careerTags : \E i \in DOMAIN cmd[c].rows :
             cmd[c].rows[i].code = l[1] /\ cmd[c].rows[i].tags # {}}

\* Without --update an import adds rows and leaves those there are as they
\* are, also those that appeared after it had looked.  Tags a career has are
\* lost all the same where the file gives it others, even to one it skips.
ImportsKeepRows ==
    [][\A c \in Commands : cmd[c].pc = "write" /\ cmd'[c].pc = "done" /\ ~cmd[c].update =>
        /\ KeptBut({}, institutions, institutions') /\ KeptBut({}, careers, careers')
        /\ KeptBut({}, courses, courses') /\ KeptBut({}, requirements, requirements')
        /\ KeptBut({}, cutoffs, cutoffs') /\ KeptBut(Retagged(c), careerTags, careerTags')]_vars

\* The keys that the file of command c names in the table of a kind.
KeysIn(c, kind) == IF cmd[c].kind = kind THEN Keys(c) ELSE {}

\* With --update the table says, once the import is done, what the file says
\* about every row that was not deleted meanwhile, and of the rows the file
\* does not name what it said before.  A requirement stated twice, by code and
\* by title, is left out, for there the later row counts; so are cutoffs, which
\* the import looks up without their institution.
ImportReflectsFile ==
    [][\A c \in Commands : cmd[c].pc = "write" /\ cmd'[c].pc = "done" /\ cmd[c].update =>
        /\ KeptBut(KeysIn(c, "institution"), institutions, institutions')
        /\ KeptBut(KeysIn(c, "career"), careers, careers')
        /\ KeptBut(KeysIn(c, "course"), courses, courses')
        /\ KeptBut(KeysIn(c, "requirement"), requirements, requirements')
        /\ cmd[c].kind # "cutoff" => KeptBut({}, cutoffs, cutoffs')
        /\ \A i \in DOMAIN cmd[c].rows :
            LET row == cmd[c].rows[i]  k == KeyOf(c, i) IN
            CASE cmd[c].kind = "institution" ->
                     \/ <<cmd[c].kind, k>> \in Keyed(cmd[c].lost)
                     \/ institutions'[k] = [name |-> row.name, slug |-> Slugify[row.name], data |-> row.data]
              [] cmd[c].kind = "career" ->
                     \/ <<cmd[c].kind, k>> \in Keyed(cmd[c].lost)
                     \/ careers'[k] = [name |-> row.name, slug |-> Slugify[row.name], data |-> row.data]
              [] cmd[c].kind = "course" ->
                     \/ <<cmd[c].kind, k>> \in Keyed(cmd[c].lost)
                     \/ /\ courses'[k].name = row.name /\ courses'[k].data = row.data
                        /\ courses'[k].institution = cmd[c].rel[i].institution
                        /\ courses'[k].career = cmd[c].rel[i].career
              [] cmd[c].kind = "requirement" ->
                     \/ <<cmd[c].kind, k>> \in Keyed(cmd[c].lost)
                     \/ \E j \in DOMAIN cmd[c].rows : j # i /\ KeyOf(c, j) = k
                     \/ requirements'[k] = row.data
              [] OTHER -> TRUE]_vars
================================================================================
