------------------------------ MODULE CodingJudge ------------------------------
(***************************************************************************)
(* How answers become a score: app/services/coding_judge.py runs a program *)
(* on the tests of its question with one back end after another,           *)
(* question_utils.py grades a choice or a number (ObjectiveQuestions),     *)
(* final_score.py combines the questions, and InterviewService.            *)
(* end_interview takes off the integrity penalty.                          *)
(*                                                                         *)
(* A program passes a fixed set of tests.  Each call of a back end may     *)
(* fail.  Scores are in hundredths of a percent, adjusted scores in tenths *)
(* of a percent, as the code rounds them.  The order in which judgments    *)
(* and the end of the interview overlap belongs to InterviewEngine: here   *)
(* nothing is running when the interview ends.                             *)
(***************************************************************************)
EXTENDS ObjectiveQuestions, FiniteSetsExt

CONSTANTS
    Questions,   \* coding questions of the paper
    HiddenTests, PublicTests,  \* how many of each a coding question has
    Languages,   \* languages a program may be sent in
    Objective,   \* questions with options or a number as their answer
    TypedForms,  \* what a recruiter may have typed for one of these
    RawQuestions,  \* what the library or the language model may have given
    Numbers,     \* texts a candidate may type for a number
    Marks,       \* Marks[q], positive
    Backends,    \* active_judge_backends, in the order they are tried
    Penalties,   \* integrity penalties in percent
    MaxFaults,   \* bound on failed calls
    MaxEnds      \* bound on end requests

ASSUME JudgeAssumption ==
    /\ IsFiniteSet(Questions) /\ IsFiniteSet(Objective) /\ Questions \cap Objective = {}
    /\ {HiddenTests, PublicTests} \subseteq [Questions -> Nat]
    /\ Marks \in [Questions \cup Objective -> Nat \ {0}]
    /\ TypedForms \cup RawQuestions \subseteq Fields /\ Numbers \subseteq Amounts
    /\ Backends \in Seq({"sandboxapi", "piston"})
    /\ Penalties \subseteq 0..40
    /\ {MaxFaults, MaxEnds} \subseteq Nat

VARIABLES
    solves,    \* the tests that the program of each question passes
    run,       \* the run that grades each question
    judgment,  \* answer_judgments
    broken,    \* back ends whose call failed while they graded each question
    spoiled,   \* questions of which an answer of a back end was not its result
    final,     \* session.final_score
    ends, faults

vars == <<solves, run, judgment, broken, spoiled, final, ends, faults>>

None == [at |-> "none"]
AllQuestions == Questions \cup Objective

\* The tests that grade a program: the public ones if no others were given.
Tests == [q \in Questions |-> IF HiddenTests[q] > 0 THEN HiddenTests[q] ELSE PublicTests[q]]

\* EXECUTABLE_CODING_LANGUAGES: the form offers perl as well.
Executable == {"c", "cpp", "python", "java", "javascript"}

Run(b, done, passed) == [at |-> "running", backend |-> b, done |-> done, passed |-> passed]

\* What a call of a back end may come to, apart from the result of the program.
\* quota, auth and unavailable (time-outs among it) are told by their texts;
\* "odd" is an answer that is no JSON object; an error page of SandboxAPI
\* that has a "status" is taken for a result.
Outages == {"quota", "auth", "unavailable"}
Failures(b) ==
    IF Backends[b] = "sandboxapi" THEN Outages \cup {"odd"} ELSE {"quota", "unavailable", "odd"}

Init ==
    /\ solves \in [Questions -> SUBSET UNION {1..Tests[q] : q \in Questions}]
    /\ \A q \in Questions : solves[q] \subseteq 1..Tests[q]
    /\ run = [q \in Questions |-> None]
    /\ judgment = [q \in AllQuestions |-> None]
    /\ broken = [q \in Questions |-> {}]
    /\ spoiled = {}
    /\ final = None
    /\ ends = MaxEnds
    /\ faults = MaxFaults

\* The nearest integers to n / d.
Rounded(n, d) == {k \in {n \div d, n \div d + 1} : 2 * k * d <= 2 * n + d /\ 2 * n <= 2 * k * d + d}

\* RunSummary.score_percent
ScorePercent(passed, total) == IF total = 0 THEN {0} ELSE Rounded(10000 * passed, total)

-----------------------------------------------------------------------------
(* Grading a question.                                                     *)

\* judgment_from_run_summary
Judged(q, passed, error) ==
    \E score \in ScorePercent(passed, Tests[q]) :
        judgment' = [judgment EXCEPT ![q] = [at |-> "judged", passed |-> passed, error |-> error,
                        score |-> score, correct |-> passed = Tests[q] /\ Tests[q] > 0]]

\* An answer that is graded without a run: run_test_cases raises without a
\* back end and for a language none of them runs, and ends without tests.
Unrun(language) == Backends = <<>> \/ language \notin Executable

Submit(q) ==
    /\ run[q] = None /\ judgment[q] = None /\ final = None
    /\ \E language \in Languages :
         \/ Unrun(language) /\ Judged(q, 0, "raised") /\ UNCHANGED run
         \/ ~Unrun(language) /\ Tests[q] = 0 /\ Judged(q, 0, "stopped") /\ UNCHANGED run
         \/ ~Unrun(language) /\ Tests[q] > 0 /\ UNCHANGED judgment
            /\ run' = [run EXCEPT ![q] = Run(1, 0, 0)]
    /\ UNCHANGED <<solves, broken, spoiled, final, ends, faults>>

Current(q) == run[q].at = "running"

Counted(q, passes) ==
    LET r == Run(run[q].backend, run[q].done + 1, run[q].passed + IF passes THEN 1 ELSE 0) IN
      IF r.done = Tests[q]
      THEN Judged(q, r.passed, "none") /\ run' = [run EXCEPT ![q] = None]
      ELSE run' = [run EXCEPT ![q] = r] /\ UNCHANGED judgment

\* _grade_case_from_result, of the result of the program.
CaseGraded(q) ==
    /\ Current(q)
    /\ Counted(q, run[q].done + 1 \in solves[q])
    /\ UNCHANGED <<solves, broken, spoiled, final, ends, faults>>

\* The same, of an error page.
CaseSpoiled(q) ==
    /\ Current(q) /\ Backends[run[q].backend] = "sandboxapi"
    /\ faults > 0 /\ faults' = faults - 1
    /\ Counted(q, FALSE)
    /\ spoiled' = spoiled \cup {q}
    /\ UNCHANGED <<solves, broken, final, ends>>

\* The next back end starts the tests over.
NextBackendContinued(q) ==  \* the count goes on
    run' = [run EXCEPT ![q] = Run(run[q].backend + 1, 0, run[q].passed)]
NextBackend(q) == run' = [run EXCEPT ![q] = Run(run[q].backend + 1, 0, 0)]

\* Whether run_test_cases tries the next back end after a failure.
FallsThroughEarly(q, failure) ==  \* not once a case has passed
    failure \in Outages /\ run[q].backend < Len(Backends) /\ run[q].passed = 0
FallsThrough(q, failure) == failure \in Outages /\ run[q].backend < Len(Backends)

CaseFailed(q) ==
    /\ Current(q)
    /\ faults > 0 /\ faults' = faults - 1
    /\ \E failure \in Failures(run[q].backend) :
         /\ broken' = [broken EXCEPT ![q] = @ \cup {<<run[q].backend, failure>>}]
         /\ IF FallsThrough(q, failure) THEN NextBackend(q) /\ UNCHANGED judgment
            ELSE /\ Judged(q, run[q].passed, "stopped")
                 /\ run' = [run EXCEPT ![q] = None]
    /\ UNCHANGED <<solves, spoiled, final, ends>>

\* The forms a stored question may come from.
Forms == TypedForms \cup UNION {Drafted(raw) : raw \in RawQuestions}

\* submit_answer of an objective question, which was created from some form:
\* the judgment keeps what recruiter and candidate meant, for the property.
Grade(form, choice, right) ==
    [at |-> "judged", score |-> IF right THEN 10000 ELSE 0, correct |-> right,
     meant |-> MeantRight(form, choice), plain |-> PlainForm(form) /\ PlainChoice(choice)]
SubmitObjective(q) ==
    /\ judgment[q] = None /\ final = None
    /\ \E form \in {f \in Forms : Sendable(Cleaned(f)) /\ Accepted(Cleaned(f))} :
         \E choice \in ChoicesOf(Cleaned(form), Numbers) :
           judgment' = [judgment EXCEPT ![q] =
              Grade(form, choice, Correct(Cleaned(form), Payload(form, choice)))]
    /\ UNCHANGED <<solves, run, broken, spoiled, final, ends, faults>>

-----------------------------------------------------------------------------
(* The score of the paper.                                                 *)

JudgedQuestions == {q \in AllQuestions : judgment[q] # None}

\* compute_final_score: the average of the judged questions by their marks.
AverageOfAll(questions) ==  \* questions without a judgment weigh too
    Rounded(MapThenSumSet(LAMBDA q : judgment[q].score * Marks[q], questions),
            MapThenSumSet(LAMBDA q : Marks[q], AllQuestions))
Average(questions) ==
    Rounded(MapThenSumSet(LAMBDA q : judgment[q].score * Marks[q], questions),
            MapThenSumSet(LAMBDA q : Marks[q], questions))

\* get_recommendation
Recommendation(score) ==
    CASE score >= 8500 -> "Strong Hire"
      [] score >= 7000 -> "Hire"
      [] score >= 5000 -> "Maybe"
      [] OTHER -> "No Hire"

Scored(score) ==
    [at |-> "scored", original |-> score, shown |-> score, penalty |-> 0, band |-> Recommendation(score)]

\* After the last answer, or when the interview ends earlier.
Score ==
    /\ final = None /\ JudgedQuestions # {}
    /\ \A q \in Questions : ~Current(q)
    /\ \E score \in Average(JudgedQuestions) : final' = Scored(score)
    /\ UNCHANGED <<solves, run, judgment, broken, spoiled, ends, faults>>

\* _extract_original_score
OriginalShown == final.shown  \* the score that is shown
Original == final.original

\* end_interview: an end request, or a later one when the answer to it is
\* lost; the penalty grows while frames come in.  The recommendation stays.
EndInterview ==
    /\ final # None
    /\ ends > 0 /\ ends' = ends - 1
    /\ \E p \in Penalties :
         /\ p >= final.penalty
         /\ IF p = 0 THEN UNCHANGED final
            ELSE \E tenths \in Rounded(Original * (100 - p), 1000) :
                   final' = [final EXCEPT !.penalty = p, !.shown = 10 * tenths]
    /\ UNCHANGED <<solves, run, judgment, broken, spoiled, faults>>

Next ==
    \/ \E q \in Questions : Submit(q) \/ CaseGraded(q) \/ CaseSpoiled(q) \/ CaseFailed(q)
    \/ \E q \in Objective : SubmitObjective(q)
    \/ Score \/ EndInterview

Spec == Init /\ [][Next]_vars

-----------------------------------------------------------------------------
JudgedPrograms == JudgedQuestions \cap Questions

\* Scores, in hundredths of a percent
Percents == 0..10000

TypeOK ==
    /\ \A q \in Questions : Current(q) =>
         /\ run[q].backend \in DOMAIN Backends
         /\ run[q].done \in 0..Tests[q] - 1 /\ run[q].passed \in 0..run[q].done
    /\ \A q \in JudgedQuestions : judgment[q].score \in Percents
    /\ \A q \in JudgedPrograms : judgment[q].passed \in 0..Tests[q]

Failed(q, b) == \E x \in broken[q] : x[1] = b

\* A program is graded by all it does: unless a back end passed off an error
\* page as its result, a judgment without an error counts the tests the
\* program passes, whichever back ends failed on the way, and one with an
\* error counts no test it does not pass.
GradedAsItRuns ==
    \A q \in JudgedPrograms :
        /\ judgment[q].passed <= Cardinality(solves[q])
        /\ q \notin spoiled /\ judgment[q].error = "none" =>
             judgment[q].passed = Cardinality(solves[q])

\* "Fall through to next backend on transport/quota/auth outages": an answer
\* is left without its full grade only when every back end was out, or one
\* answered with no JSON object.
OutageCovered ==
    \A q \in JudgedPrograms : judgment[q].error = "stopped" /\ Tests[q] > 0 =>
        \/ \A b \in DOMAIN Backends : Failed(q, b)
        \/ \E x \in broken[q] : x[2] = "odd"

\* A choice is right exactly when it is what the recruiter marked on the form,
\* and a number when it is within the tolerance: through the cleaning of the
\* form, the normalization, the shuffled view and the payload of the page.
GradedAsMeant ==
    \A q \in JudgedQuestions \cap Objective :
        judgment[q].plain => judgment[q].correct = judgment[q].meant

\* The paper's score lies between those of its worst and of its best judged
\* question, whatever their marks and however they round.
WithinScores ==
    final # None =>
        /\ \E q \in JudgedQuestions : judgment[q].score <= final.original
        /\ \E q \in JudgedQuestions : judgment[q].score >= final.original

\* The penalty is taken off once, from the score of the answers, however often
\* the end is requested: repeating a request with the same penalty changes
\* nothing, and the score that is shown is never higher than the original by
\* more than the rounding.
PenaltyOnce ==
    final # None /\ final.penalty > 0 =>
        final.shown \in {10 * t : t \in Rounded(final.original * (100 - final.penalty), 1000)}

\* question_utils.py: "Grade MCQ / MSQ / numerical answers server-side", of every
\* form and answer the pages let through.
GradedAlways ==
    \A q \in JudgedQuestions \cap Objective : judgment[q].correct = judgment[q].meant

\* final_score.py: a recommendation is the band of the score next to it.
BandFits == final # None => final.band = Recommendation(final.shown)
=============================================================================
