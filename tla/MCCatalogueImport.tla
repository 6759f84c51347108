-------------------------- MODULE MCCatalogueImport --------------------------
(***************************************************************************)
(* A small instance of CatalogueImport for TLC: a catalogue with two       *)
(* courses of one title at two institutions, and files that add, rename,   *)
(* repeat and misname rows.                                                *)
(***************************************************************************)
EXTENDS CatalogueImport, TLC

CONSTANTS i1, i2, c1, k1, k2, m, n, o, arts, math, art, x, y

\* The names m and n have slugs of their own; o differs from n by a dash only.
OnSlugs == [w \in {m, n, o, arts, Nan} |-> IF w = o THEN n ELSE w]

Named(w) == [name |-> w, slug |-> OnSlugs[w], data |-> 0]
At1(t) == [name |-> arts, slug |-> <<arts, i1>>, institution |-> i1, career |-> c1, data |-> 0]

Stocked == [institutions |-> (i1 :> Named(m)) @@ (i2 :> Named(n)),
            careers |-> c1 :> Named(m),
            courses |-> (k1 :> At1(0)) @@ (k2 :> [At1(0) EXCEPT !.institution = i2, !.slug = <<arts, i2>>]),
            requirements |-> <<k1, math>> :> 0,
            cutoffs |-> <<k1, 1, i1>> :> 0,
            careerTags |-> <<c1, art>> :> "plain"]
Unstocked == [Stocked EXCEPT !.institutions = i1 :> Named(m), !.courses = k1 :> At1(0)]

SameCommands == Permutations(Commands)
Start == {Stocked, Unstocked}
SomeSeeds == {<<m, art>>, <<n, "unknown">>}

File(kind, rows) == [kind |-> kind, columns |-> "complete", rows |-> rows]
Row(code, name) == [code |-> code, name |-> name, valid |-> TRUE, data |-> 1]
Career(code, name, tags) == [code |-> code, name |-> name, valid |-> TRUE, data |-> 1, tags |-> tags]
CourseOf(code, inst) == [code |-> code, name |-> arts, institution |-> inst, career |-> c1,
                         valid |-> TRUE, data |-> 1]
Requires(course, g) == [course |-> course, subject |-> math, valid |-> TRUE, data |-> g]
Cutoff(course, inst, p) == [course |-> course, institution |-> inst, slot |-> 1, valid |-> TRUE, data |-> p]

SmallFiles ==
    {File("institution", <<Row(i1, n), Row(i2, m)>>),
     File("institution", <<Row(i2, o)>>),
     File("institution", <<Row(Missing, o)>>),
     File("institution", <<Row(i2, n), [Row(i1, o) EXCEPT !.valid = FALSE]>>),
     File("career", <<Career(c1, n, {})>>),
     File("career", <<Career(c1, o, {art})>>),
     File("career", <<Career(c1, o, {"unknown"})>>),
     [File("course", <<CourseOf(k2, i1), CourseOf(k1, n)>>) EXCEPT !.columns = "doubled"],
     File("requirement", <<Requires(k1, 1), Requires(arts, 2)>>),
     File("requirement", <<Requires(k2, 1)>>),
     File("cutoff", <<Cutoff(k1, i1, 1), Cutoff(k1, i2, 2)>>),
     File("cutoff", <<Cutoff(arts, i2, 3)>>),
     File("cutoff", <<Cutoff(n, i2, 3)>>),
     [File("career", <<Career(c1, m, {})>>) EXCEPT !.columns = "doubled"]}
==============================================================================
