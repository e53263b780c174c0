-------------------------- MODULE ObjectiveQuestions --------------------------
(***************************************************************************)
(* A question that is graded without a language model, from the form of    *)
(* the recruiter to the grade of the answer: RecruiterDashboard.tsx cleans *)
(* the form, schemas/recruiter_assessment.py accepts it, question_utils.py *)
(* normalizes it, shows it without its key and grades what                 *)
(* InterviewRoom.tsx sends.                                                *)
(*                                                                         *)
(* A text is trimmed and in lower case, and told from others by what the   *)
(* grader makes of it: [word], [numeral] (digits alone), [numerals] (with  *)
(* commas between them), [bar] (parts between bars), or [number, unit], an *)
(* answer whose unit may hold an "e".  Indices of options count from 0.    *)
(***************************************************************************)
EXTENDS Integers, FiniteSets, Lists

Blank == [blank |-> TRUE]
NoAnswer == [none |-> TRUE]

At(options, i) == options[i + 1]
Places(options) == 0..Len(options) - 1
Within(options, i) == i \in Places(options)

\* What a text may be, and the fields of a question
Amounts == [number : Int, unit : STRING \cup {"none", "with_e"}]
Texts == {Blank} \cup [word : STRING] \cup [numeral : Nat] \cup [numerals : SUBSET Nat]
         \cup [bar : SUBSET STRING] \cup Amounts
Fields == [type : {"mcq", "msq", "numerical"}, options : Seq(Texts), indices : Seq(Int),
           answer : Texts \cup {NoAnswer}, tolerance : Int]

\* A text that is a number and nothing else
Numeric(t) == "number" \in DOMAIN t /\ t.unit = "none"

(* ---- The form of the recruiter ---- *)

\* question_options, and handleCreateAssessment on the page
Options(item) == Only(item.options, ToSet(item.options) \ {Blank})

\* handleCreateAssessment drops the blank options first: the marks of those
\* behind them then stand for others.
Cleaned(form) ==
    LET options == Options(form) IN
      [form EXCEPT !.options = options,
                   !.indices = Only(form.indices, Places(options))]

\* What the page sends, or stops at with a message.
Sendable(q) ==
    CASE q.type = "mcq" -> Len(q.options) >= 2 /\ Len(q.indices) = 1
      [] q.type = "msq" -> Len(q.options) >= 2 /\ q.indices # <<>>
      [] OTHER -> Numeric(q.answer)

\* AssessmentQuestion.validate_by_type
Accepted(q) ==
    IF q.type = "numerical" THEN Numeric(q.answer) /\ q.tolerance >= 0
    ELSE /\ Len(Options(q)) \in 2..8
         /\ q.indices # <<>> /\ \A i \in ToSet(q.indices) : Within(Options(q), i)
         /\ q.type = "mcq" => Len(Once(q.indices)) = 1

(* ---- The stored question (question_utils.py) ---- *)

\* question_correct_indices: those in range; without one, the options that
\* read like the correct_answer of older questions, or the one at its number.
CorrectIndices(item) ==
    LET options == Options(item)
        indices == Once(Only(item.indices, Places(options)))
        named == IF "number" \in DOMAIN item.answer
                 THEN {i \in {item.answer.number} : Within(options, i)}
                 ELSE {i \in Places(options) : At(options, i) = item.answer}
    IN  IF indices = <<>> THEN Only([i \in DOMAIN options |-> i - 1], named) ELSE indices

\* normalize_question; question_tolerance reads a negative one as none.
Normalized(item) ==
    IF item.type = "numerical"
    THEN [item EXCEPT !.tolerance = IF @ < 0 THEN 0 ELSE @]
    ELSE LET indices == CorrectIndices(item) IN
           [item EXCEPT !.options = Options(item), !.answer = NoAnswer,
                        !.indices = IF item.type = "mcq" /\ Len(indices) > 1
                                    THEN <<indices[1]>> ELSE indices]

\* A question of the library or of the language model reaches the form only
\* when it is accepted; otherwise as a question for a text.
Drafted(raw) == IF Accepted(Normalized(raw)) THEN {Normalized(raw)} ELSE {}

\* public_question_view: the options in some order, without the key
PublicView(item) == ToSet(Normalized(item).options)

(* ---- The answer ---- *)

\* What the candidate may choose on the page: one option, some, or a number.
ChoicesOf(item, numbers) ==
    CASE item.type = "mcq" -> {{t} : t \in PublicView(item)}
      [] item.type = "msq" -> SUBSET PublicView(item) \ {{}}
      [] OTHER -> {{t} : t \in numbers}

\* resolveSubmitPayload: the text itself, or the texts as a JSON array
Payload(item, choice) ==
    IF item.type = "msq" THEN [items |-> choice] ELSE [text |-> CHOOSE t \in choice : TRUE]

\* _parse_float: letters go, but for an "e", which spoils the number.
Parsed(t) == IF "number" \in DOMAIN t /\ t.unit # "with_e" THEN {t.number} ELSE {}

\* _selected_texts_from_answer
SelectedAsText(payload, options) ==  \* an array is not read
    IF "items" \in DOMAIN payload THEN {payload} ELSE {payload.text}
SelectedTexts(payload, options) ==
    IF "items" \in DOMAIN payload THEN payload.items
    ELSE LET t == payload.text
             listed == {At(options, i) : i \in {n \in t.numerals : Within(options, n)}}
         IN  CASE "bar" \in DOMAIN t -> {[word |-> w] : w \in t.bar}
               [] "numeral" \in DOMAIN t /\ Within(options, t.numeral) -> {At(options, t.numeral)}
               [] "numerals" \in DOMAIN t /\ listed # {} -> listed
               [] OTHER -> {t}

\* grade_objective_answer
Correct(item, payload) ==
    LET q == Normalized(item)
        key == {At(q.options, i) : i \in ToSet(q.indices)}
    IN  IF q.type = "numerical"
        THEN \E x \in Parsed(q.answer), y \in Parsed(payload.text) :
               x - y <= q.tolerance /\ y - x <= q.tolerance
        ELSE /\ key # {} /\ SelectedTexts(payload, q.options) = key
             /\ q.type = "mcq" => Cardinality(key) = 1

-----------------------------------------------------------------------------
(* What the recruiter and the candidate mean.                              *)

\* The options the recruiter marked on the form
Marked(form) == {At(form.options, i) : i \in {j \in ToSet(form.indices) : Within(form.options, j)}}

MeantRight(form, choice) ==
    IF form.type = "numerical"
    THEN \A t \in choice : form.answer.number - t.number \in -form.tolerance..form.tolerance
    ELSE choice = Marked(form)

\* Forms whose options are plain words with no gap before a mark, and numbers
\* whose unit has no "e": for the others see the README.
PlainForm(form) ==
    \A i \in DOMAIN form.options :
        \/ "word" \in DOMAIN form.options[i]
        \/ form.options[i] = Blank /\ \A k \in ToSet(form.indices) : k < i - 1
PlainChoice(choice) == \A t \in choice : "number" \in DOMAIN t => t.unit # "with_e"
=============================================================================
