--------------------------- MODULE MCQuestionnaires ---------------------------
(***************************************************************************)
(* A small instance of Questionnaires for TLC: forms with a question of    *)
(* every type, forms that fail at each of their checks, all answers to a   *)
(* multiple selection and a ranking of three, and totals on both sides of  *)
(* the pass mark.                                                          *)
(***************************************************************************)
EXTENDS Questionnaires, TLC

CONSTANTS p1, p2, s1, s2

OnFold == ("A" :> "A") @@ ("a" :> "A") @@ ("B" :> "B") @@ ("C" :> "C")
OnSlugs == ("t" :> "t") @@ ("t!" :> "t") @@ ("u" :> "u")

Config == [min |-> Null, max |-> Null, correct |-> Null, tolerance |-> Null, step |-> Null]
Question(type, max) == [type |-> type, max |-> max, valid |-> TRUE, config |-> Config]
Choice(i, key, right, partial, order) ==
    [question |-> i, key |-> key, text |-> key, number |-> Null, valid |-> TRUE,
     correct |-> right, partial |-> partial, order |-> order]
Tag(t, primary) == [tag |-> t, coupling |-> "ok", primary |-> primary]
Form(title, max, questions, choices) ==
    [title |-> title, max |-> max, tags |-> <<>>, questions |-> questions, choices |-> choices]

Mixed == [Form("t", 2, <<Question("MULTI", 1), Question("RANKING", 1)>>,
              <<Choice(2, "A", FALSE, 0, 2), Choice(1, "a", TRUE, 0, 1), Choice(2, "B", FALSE, 0, 1),
                Choice(1, "B", TRUE, 0, 2), Choice(1, "C", FALSE, 0, 3), Choice(2, "C", FALSE, 0, 3)>>)
             EXCEPT !.tags = <<Tag("g", TRUE), Tag("h", FALSE)>>]

\* Half of a thousand, and a little more or less.
Large(points) == Form("u", 1000, <<Question("MCQ", points), Question("LIKERT", 1)>>,
                      <<Choice(1, "A", TRUE, 0, 1), Choice(1, "B", TRUE, 0, 1),
                        Choice(2, "A", FALSE, 1, 1), Choice(2, "B", FALSE, Unit - 1, 2),
                        Choice(2, "C", FALSE, 0, 3)>>)

Numbers == [Form("t!", 2, <<Question("NUMERIC", 1), Question("TEXT", 1)>>,
                 <<[Choice(1, "C", TRUE, 0, 1) EXCEPT !.number = 3], Choice(2, "A", TRUE, 0, 1)>>)
               EXCEPT !.questions[1].config.min = 0, !.questions[1].config.max = 5,
                      !.questions[1].config.step = 1]

SomeForms ==
    {Mixed, Large(500), Large(499), Numbers,
     [Mixed EXCEPT !.questions = <<Question("MCQ", 0)>> \o @],
     [Mixed EXCEPT !.choices[2].question = 3],
     [Mixed EXCEPT !.tags = <<Tag("g", TRUE), Tag("g", TRUE)>>],
     [Mixed EXCEPT !.choices[5].key = "A"]}

Ticked == {<<"A">>, <<"C">>, <<"A", "B">>, <<"C", "A">>, <<"A", "B", "C">>}
Ranked == {<<"A", "B", "C">>, <<"B", "A", "C">>, <<"C", "A", "B">>, <<"B", "A", "C", "A">>}
Reply(i, a) == [question |-> i, answer |-> a]

SomeSubmissions ==
    {<<Reply(1, Several(l))>> : l \in Ticked} \cup {<<Reply(2, Several(l))>> : l \in Ranked}
        \cup {<<Reply(1, One(k)), Reply(2, One(l)), Reply(1, One("A"))>> : k \in {"B", "C"}, l \in {"A", "B"}}
        \cup {<<Reply(1, Number(n)), Reply(2, One("a"))>> : n \in {2, 6}}
        \cup {<<Reply(1, Several(<<"A", "B">>)), Reply(2, Several(<<"B", "A", "C">>))>>}

EditedChoice(right) ==
    [key |-> "A", text |-> "A", number |-> Null, correct |-> right, partial |-> 2 * Unit, order |-> 1]
Edited == [type |-> "MCQ", max |-> 1, config |-> Config,
           choices |-> {EditedChoice(FALSE)}]
SomeQuestions == {[Edited EXCEPT !.type = "LIKERT"], [Edited EXCEPT !.max = -1, !.choices = {EditedChoice(TRUE)}]}

SomeHeads == {[title |-> "t!", max |-> 1], [title |-> "u", max |-> 0]}

Symmetric == Permutations(Posts) \cup Permutations(Students)
===============================================================================
