----------------------------- MODULE MCCodingJudge -----------------------------
(* Instances of CodingJudge: papers of two coding questions and an objective one. *)
EXTENDS CodingJudge
CONSTANTS q1, q2, o1
TestsHidden == q1 :> 3 @@ q2 :> 0
TestsPublic == q1 :> 1 @@ q2 :> 2
PaperMarks == q1 :> 10 @@ q2 :> 20 @@ o1 :> 5
BothBackends == <<"sandboxapi", "piston">>

Word(w) == [word |-> w]
Number(n, unit) == [number |-> n, unit |-> unit]
Asked(type, options, indices, answer) ==
    [type |-> type, options |-> options, indices |-> indices, answer |-> answer, tolerance |-> 1]
Colours == <<Word("red"), Word("blue"), Word("green")>>

\* Marks behind a gap, options that read as indices or hold a bar, a choice of
\* two, a number, and one with a unit, which the page stops.
FormsTyped == {
    Asked("mcq", Colours, <<1>>, NoAnswer),
    Asked("mcq", <<Word("red"), Blank, Word("green"), Word("blue")>>, <<2>>, NoAnswer),
    Asked("mcq", <<[numeral |-> 1], [numeral |-> 2], [numeral |-> 3]>>, <<1>>, NoAnswer),
    Asked("mcq", <<[bar |-> {"red", "blue"}], [numerals |-> {0, 1}], Blank>>, <<0>>, NoAnswer),
    Asked("msq", Colours \o <<Blank>>, <<0, 2>>, NoAnswer),
    Asked("numerical", <<>>, <<>>, Number(7, "none")),
    Asked("numerical", <<>>, <<>>, Number(7, "plain"))}

\* A key given twice and out of range, a key by its text, no key at all.
QuestionsRaw == {
    Asked("mcq", Colours, <<2, 9, 2>>, NoAnswer),
    Asked("mcq", Colours, <<0, 2>>, NoAnswer),
    Asked("msq", <<Word("red"), Word("blue"), Word("red")>>, <<>>, Word("red")),
    Asked("msq", Colours, <<7>>, Number(1, "none")),
    Asked("mcq", Colours, <<>>, NoAnswer)}

NumbersTyped == {Number(n, u) : n \in {5, 6, 8, 9}, u \in {"none", "plain"}} \cup {Number(7, "with_e")}
=============================================================================
