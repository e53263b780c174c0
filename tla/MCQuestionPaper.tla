---------------------------- MODULE MCQuestionPaper ----------------------------
(* Instances of QuestionPaper: papers of two types from a library that overlaps
   with the built-in questions and with what the language model answers. *)
EXTENDS QuestionPaper
Q(fp, type) == [fp |-> fp, type |-> type, id |-> 0]
SmallLibrary ==
    {[id |-> 1, fp |-> 1, type |-> "mcq", fits |-> {"backend"}],
     [id |-> 2, fp |-> 2, type |-> "mcq", fits |-> {}],
     [id |-> 3, fp |-> 3, type |-> "coding", fits |-> {"backend", "frontend"}]}
CodingLibrary == {item \in SmallLibrary : item.type = "coding"}
SmallBuiltIn == {Q(2, "mcq"), Q(11, "mcq"), Q(13, "mcq"), Q(12, "coding")}
Down == [up |-> FALSE, qs |-> <<>>]
Up(qs) == [up |-> TRUE, qs |-> qs]
SomeAnswers ==
    {Down, Up(<<Q(1, "mcq"), Q(1, "mcq"), Q(21, "subjective"), Q(11, "mcq")>>)}
NoAnswer == {Down}
SomeOrders ==
    {[n |-> 3, types |-> <<"mcq", "coding">>, jd |-> "backend"],
     [n |-> 4, types |-> <<"coding", "mcq">>, jd |-> "frontend"]}
=============================================================================
