--------------------------- MODULE InterviewEngine ---------------------------
(***************************************************************************)
(* One interview session served by app/services/interview_service.py.      *)
(*                                                                         *)
(* Every endpoint of the session is a synchronous handler that FastAPI     *)
(* runs on a thread of its worker pool, all of them over the one           *)
(* InterviewSession object that app/services/session_store.py caches.  The *)
(* object has no lock.  A handler is cut here into the stretches between   *)
(* two calls at which its thread waits (a language model, the coding       *)
(* judge, object storage, mail, the database); the stretch between the     *)
(* guards of a text submission and its first write has no such call, and   *)
(* Preemptive says whether the interpreter may switch threads inside it.   *)
(*                                                                         *)
(* session is the cached object and saved is its row in the sessions       *)
(* table: session_store.save copies the first over the second, and a       *)
(* restart of the process loads the second into the first.                 *)
(***************************************************************************)
EXTENDS Naturals, Sequences, FiniteSets

CONSTANTS
    Threads,          \* worker threads that can hold a request of the session
    Paper,            \* types of the questions of the bank, as many as the model writes
    Invite,           \* the session belongs to an invite (a bank, no adaptation)
    Timed,            \* the invite has duration_minutes
    AdaptiveEnabled,  \* settings: adaptive interviewing is on
    Preemptive,       \* a thread may lose the interpreter in a non-blocking stretch
    Penalties,        \* integrity penalties, in percent, proctoring may reach
    MaxCrashes,       \* bound on process restarts
    NoScore           \* final_score is None

QuestionTypes == {"subjective", "objective", "coding"}

ASSUME PaperAssumption ==
    Paper \in Seq(QuestionTypes) /\ Paper # <<>>
ASSUME FlagAssumption ==
    {Invite, Timed, AdaptiveEnabled, Preemptive} \subseteq BOOLEAN
ASSUME BoundAssumption ==
    /\ Penalties \subseteq Nat
    /\ 0 \in Penalties
    /\ MaxCrashes \in Nat
ASSUME NoScoreAssumption == NoScore \notin [covers : SUBSET Nat, penalty : Nat]

VARIABLES
    session,     \* the cached InterviewSession
    saved,       \* its row
    thr,         \* what each worker thread is doing for this session
    penalty,     \* WarningManager.calculate_score_penalty()
    terminated,  \* WarningManager.terminated
    timeUp,      \* duration_minutes have passed since interview_started_at
    funnel,      \* invite funnel events recorded
    review,      \* sessions.human_review_flag
    mailed,      \* sessions.candidate_report_email_sent_at is set
    reports,     \* completion reports handed to SMTP
    crashes

vars == <<session, saved, thr, penalty, terminated, timeUp, funnel, review,
          mailed, reports, crashes>>
proctoring == <<penalty, terminated>>
notices    == <<funnel, review, mailed, reports>>

(***************************************************************************)
(* Data.  A judgment is present or None; an answer is the index of the     *)
(* question the handler took it for; a final score is the set of slots it  *)
(* aggregates and the integrity penalty applied to it.                     *)
(***************************************************************************)
Statuses == {"created", "questions_ready", "in_progress", "completed",
             "ended", "abandoned"}
Active   == {"created", "questions_ready", "in_progress"}
Question == [type : QuestionTypes, text : {"seed", "follow_up"}]
Score    == [covers : SUBSET Nat, penalty : Nat]

InterviewSession ==
    [status    : Statuses,
     questions : Seq(Question),
     answers   : Seq(Nat),
     judgments : Seq({"none", "judged"}),
     final     : Score \cup {NoScore},
     idx       : Nat,
     started   : BOOLEAN]

Steps == {"idle", "generating", "starting", "claimed", "uploading", "judging",
          "adapting", "flagging", "mail_check", "mailing", "mail_sent",
          "abandoning"}
Thread == [at : Steps, index : Nat, more : BOOLEAN, copy : Seq(Question),
           concern : BOOLEAN]

Idle == [at |-> "idle", index |-> 0, more |-> FALSE, copy |-> <<>>,
         concern |-> FALSE]

\* The bank of an invite, and what the language model writes.
NewPaper == [i \in 1..Len(Paper) |-> [type |-> Paper[i], text |-> "seed"]]
Generated == [i \in 1..Len(Paper) |-> [type |-> "subjective", text |-> "seed"]]

NewSession ==
    [status    |-> IF Invite THEN "questions_ready" ELSE "created",
     questions |-> IF Invite THEN NewPaper ELSE <<>>,
     answers   |-> <<>>,
     judgments |-> <<>>,
     final     |-> NoScore,
     idx       |-> 0,
     started   |-> FALSE]

\* Mutant: off by one, the last question is taken to be passed early.
HasMoreButOne(s) == s.idx + 2 < Len(s.questions)

\* has_more of the submit handlers, once the index has moved on.
HasMore(s) == s.idx + 1 < Len(s.questions)

\* Mutant: only serious_concerns is flagged.
SeriousConcern(percent) == percent > 25

\* integrity_level is moderate_concerns or serious_concerns.
Concern(percent) == percent > 10

\* session.is_complete
IsComplete(s) ==
    \/ s.status = "completed"
    \/ Len(s.questions) > 0 /\ s.idx >= Len(s.questions)

\* The slots _build_judged_items collects.
JudgedSlots(s) ==
    {i \in 1..Len(s.questions) : i <= Len(s.judgments) /\ s.judgments[i] = "judged"}

\* Mutant: an aggregate that exists is never made again.
ScoredOnce(s) ==
    IF JudgedSlots(s) = {} \/ s.final # NoScore THEN s
    ELSE [s EXCEPT !.final = [covers |-> JudgedSlots(s), penalty |-> 0]]

\* _compute_and_save_final_score: no judged item leaves final_score as it was.
WithFinalScore(s) ==
    IF JudgedSlots(s) = {} THEN s
    ELSE [s EXCEPT !.final = [covers |-> JudgedSlots(s), penalty |-> 0]]

\* Mutant: off by one, the last judgment does not aggregate.
SettledTooLate(s) == IF s.idx > Len(s.questions) THEN WithFinalScore(s) ELSE s

\* The tail of both submit handlers: aggregate when no question is left.
Settled(s) == IF s.idx >= Len(s.questions) THEN WithFinalScore(s) ELSE s

\* maybe_adapt_next_question up to the call of the language model.
Adapts(s, index) ==
    /\ AdaptiveEnabled
    /\ ~Invite
    /\ index + 1 < Len(s.questions)
    /\ s.questions[index + 2].type = "subjective"
    /\ index + 1 >= Len(s.answers)

\* _invite_duration_minutes
HasTimeLimit == Invite /\ Timed

\* _ensure_assessment_not_expired
Expired == HasTimeLimit /\ session.started /\ timeUp

-----------------------------------------------------------------------------
(* Threads and the cache. *)

\* Thread r may take a step: no other thread is inside a non-blocking stretch.
Runs(r) == Preemptive \/ \A t \in Threads \ {r} : thr[t].at # "claimed"

Goes(r, from, to) ==
    /\ Runs(r)
    /\ thr[r].at = from
    /\ thr' = [thr EXCEPT ![r] = IF to = "idle" THEN Idle ELSE [@ EXCEPT !.at = to]]

\* record_invite_funnel_event, whose failures are swallowed.
Recorded(event) == funnel' \in {funnel, funnel \cup {event}}

\* session_store.save
Save(s) == session' = s /\ saved' = s

Init ==
    /\ session = NewSession
    /\ saved = session
    /\ thr = [r \in Threads |-> Idle]
    /\ penalty = 0
    /\ terminated = FALSE
    /\ timeUp = FALSE
    /\ funnel = {}
    /\ review = FALSE
    /\ mailed = FALSE
    /\ reports = 0
    /\ crashes = 0

-----------------------------------------------------------------------------
(* POST /generate: the status is checked before the model call only.  It    *)
(* serves the sessions of invites too, and replaces their bank.            *)

GenerateQuestions(r) ==
    /\ session.status \in {"created", "questions_ready"}
    /\ Goes(r, "idle", "generating")
    /\ UNCHANGED <<session, saved, proctoring, timeUp, notices, crashes>>

\* Mutants: one of the two resets is missing.
RegeneratedKeepingIndex(s) ==
    [s EXCEPT !.questions = Generated, !.answers = <<>>, !.status = "questions_ready"]
RegeneratedKeepingAnswers(s) ==
    [s EXCEPT !.questions = Generated, !.idx = 0, !.status = "questions_ready"]

Regenerated(s) ==
    [s EXCEPT !.questions = Generated, !.answers = <<>>, !.idx = 0,
              !.status = "questions_ready"]

QuestionsGenerated(r) ==
    /\ Goes(r, "generating", "idle")
    /\ Save(Regenerated(session))
    /\ UNCHANGED <<proctoring, timeUp, notices, crashes>>

GenerationFailed(r) ==
    /\ Goes(r, "generating", "idle")
    /\ UNCHANGED <<session, saved, proctoring, timeUp, notices, crashes>>

(* GET /current-question: the reads that change nothing are not steps. *)

CurrentQuestion(r) ==
    /\ session.questions # <<>>
    /\ ~IsComplete(session)
    /\ \/ session.status = "questions_ready"
       \/ session.status = "in_progress" /\ ~session.started
    /\ Goes(r, "idle",
            IF Invite /\ session.status = "questions_ready" THEN "starting" ELSE "idle")
    /\ Save([session EXCEPT !.status = "in_progress", !.started = TRUE])
    /\ UNCHANGED <<proctoring, timeUp, notices, crashes>>

RecordStarted(r) ==
    /\ Goes(r, "starting", "idle")
    /\ Recorded("started")
    /\ UNCHANGED <<session, saved, proctoring, timeUp, review, mailed, reports, crashes>>

(* POST /coding/run-public: opens the interview without starting its timer. *)

RunCodingPublicTests(r) ==
    /\ session.status = "questions_ready"
    /\ session.idx < Len(session.questions)
    /\ session.questions[session.idx + 1].type = "coding"
    /\ Goes(r, "idle", "idle")
    /\ Save([session EXCEPT !.status = "in_progress"])
    /\ UNCHANGED <<proctoring, timeUp, notices, crashes>>

-----------------------------------------------------------------------------
(* POST /answers and POST /coding/answers. *)

\* The guards both handlers share, in the state the handler reads.
CanSubmit ==
    /\ session.questions # <<>>
    /\ ~terminated
    /\ ~Expired
    /\ session.status \in {"in_progress", "questions_ready"}
    /\ ~IsComplete(session)
    /\ session.idx < Len(session.questions)

Claim(r, to) ==
    /\ CanSubmit
    /\ Runs(r)
    /\ thr[r].at = "idle"
    /\ thr' = [thr EXCEPT ![r] = [Idle EXCEPT !.at = to, !.index = session.idx]]
    /\ UNCHANGED <<session, saved, proctoring, timeUp, notices, crashes>>

SubmitAnswer(r) == Claim(r, "claimed")

\* The source goes to object storage between the guards and the first write.
SubmitCodingAnswer(r) ==
    /\ Claim(r, "uploading")
    /\ session.questions[session.idx + 1].type = "coding"

UploadFailed(r) ==
    /\ Goes(r, "uploading", "idle")
    /\ UNCHANGED <<session, saved, proctoring, timeUp, notices, crashes>>

\* The session once an answer taken for question index is stored.
Answered(s, index) ==
    [s EXCEPT
        !.answers   = IF Len(@) <= index THEN Append(@, index)
                      ELSE [@ EXCEPT ![index + 1] = index],
        !.judgments = IF Len(@) <= index THEN Append(@, "none") ELSE @,
        !.idx       = @ + 1,
        !.status    = IF HasMore(s) THEN @ ELSE "completed"]

Judging(r) ==
    thr' = [thr EXCEPT ![r].at = "judging", ![r].more = HasMore(session)]

\* Mutant: the answer is saved with its judgment only.
StoreAnswerUnsaved(r) ==
    /\ Runs(r)
    /\ thr[r].at \in {"claimed", "uploading"}
    /\ session' = Answered(session, thr[r].index)
    /\ Judging(r)
    /\ UNCHANGED <<saved, proctoring, timeUp, notices, crashes>>

StoreAnswer(r) ==
    /\ Runs(r)
    /\ thr[r].at \in {"claimed", "uploading"}
    /\ Save(Answered(session, thr[r].index))
    /\ Judging(r)
    /\ UNCHANGED <<proctoring, timeUp, notices, crashes>>

\* session with the judgment of slot index + 1, as the model judge, the coding
\* judge or the grader of choices gave it.
JudgedAt(s, index) == [s EXCEPT !.judgments[index + 1] = "judged"]

\* answer_judgments[index] = judgment raises when the list is too short.
JudgmentLost(r) ==
    /\ thr[r].index >= Len(session.judgments)
    /\ Goes(r, "judging", "idle")
    /\ UNCHANGED <<session, saved, proctoring, timeUp, notices, crashes>>

JudgeAndAdapt(r) ==
    LET judged == JudgedAt(session, thr[r].index)
    IN  /\ Runs(r)
        /\ thr[r].at = "judging"
        /\ thr[r].index < Len(session.judgments)
        /\ thr[r].more /\ Adapts(session, thr[r].index)
        /\ session' = judged
        /\ thr' = [thr EXCEPT ![r].at = "adapting", ![r].copy = session.questions]
        /\ UNCHANGED <<saved, proctoring, timeUp, notices, crashes>>

JudgeAndSave(r) ==
    /\ thr[r].index < Len(session.judgments)
    /\ ~(thr[r].more /\ Adapts(session, thr[r].index))
    /\ Goes(r, "judging", "idle")
    /\ Save(Settled(JudgedAt(session, thr[r].index)))
    /\ UNCHANGED <<proctoring, timeUp, notices, crashes>>

\* The follow-up goes into the copy of the list taken before the model call.
FollowUp == [type |-> "subjective", text |-> "follow_up"]

AdaptAndSave(r) ==
    LET next == thr[r].index + 2
    IN  /\ Goes(r, "adapting", "idle")
        /\ Save(Settled([session EXCEPT
                           !.questions = [thr[r].copy EXCEPT ![next] = FollowUp]]))
        /\ UNCHANGED <<proctoring, timeUp, notices, crashes>>

\* Mutant: the handler returns when no follow-up came, without its last save.
AdaptationFailedUnsaved(r) ==
    /\ Goes(r, "adapting", "idle")
    /\ session' = Settled(session)
    /\ UNCHANGED <<saved, proctoring, timeUp, notices, crashes>>

AdaptationFailed(r) ==
    /\ Goes(r, "adapting", "idle")
    /\ Save(Settled(session))
    /\ UNCHANGED <<proctoring, timeUp, notices, crashes>>

-----------------------------------------------------------------------------
(* POST /end: the status changes whatever it was, then the score, then the *)
(* notices, each in a transaction of its own.                              *)

Penalised(s) ==
    IF s.final # NoScore /\ penalty > 0 THEN [s EXCEPT !.final.penalty = penalty]
    ELSE s

EndInterview(r) ==
    LET ended  == [session EXCEPT !.status = "ended"]
        scored == IF ended.final = NoScore THEN WithFinalScore(ended) ELSE ended
    IN  /\ session.status # "created"
        /\ Runs(r)
        /\ thr[r].at = "idle"
        /\ Save(Penalised(scored))
        /\ thr' = [thr EXCEPT ![r] = [Idle EXCEPT !.at = "flagging",
                                                  !.concern = Concern(penalty)]]
        /\ UNCHANGED <<proctoring, timeUp, notices, crashes>>

\* The funnel event and set_human_review_flag.
FlagForReview(r) ==
    /\ Goes(r, "flagging", "mail_check")
    /\ IF Invite THEN Recorded("completed") ELSE UNCHANGED funnel
    /\ review' = (review \/ thr[r].concern)
    /\ UNCHANGED <<session, saved, proctoring, timeUp, mailed, reports, crashes>>

\* get_candidate_report, which raises before the end.
Reportable(s) == s.status \in {"ended", "completed"}

\* candidate_report_email_already_sent, then the PDF.
CheckReportMail(r) ==
    /\ Goes(r, "mail_check",
            IF ~mailed /\ Reportable(session) THEN "mailing" ELSE "idle")
    /\ UNCHANGED <<session, saved, proctoring, timeUp, notices, crashes>>

ReportSent(r) ==
    /\ Goes(r, "mailing", "mail_sent")
    /\ reports' = reports + 1
    /\ UNCHANGED <<session, saved, proctoring, timeUp, funnel, review, mailed, crashes>>

\* No recruiter to send it to, SMTP is not configured, or it fails.
ReportNotSent(r) ==
    /\ Goes(r, "mailing", "idle")
    /\ UNCHANGED <<session, saved, proctoring, timeUp, notices, crashes>>

MarkReportSent(r) ==
    /\ Goes(r, "mail_sent", "idle")
    /\ mailed' = TRUE
    /\ UNCHANGED <<session, saved, proctoring, timeUp, funnel, review, reports, crashes>>

-----------------------------------------------------------------------------
(* POST /sessions and /reset-active abandon the user's other sessions: the *)
(* rows first, chosen by the status they have, then the cached objects.    *)

AbandonRow(r) ==
    /\ saved.status \in Active
    /\ Goes(r, "idle", "abandoning")
    /\ saved' = [saved EXCEPT !.status = "abandoned"]
    /\ UNCHANGED <<session, proctoring, timeUp, notices, crashes>>

AbandonCached(r) ==
    /\ Goes(r, "abandoning", "idle")
    /\ Save([session EXCEPT !.status = "abandoned"])
    /\ UNCHANGED <<proctoring, timeUp, notices, crashes>>

-----------------------------------------------------------------------------
(* The surroundings: proctoring, the clock and the process manager. *)

\* A violation is recorded; a locked session records no more.
Violation ==
    /\ ~terminated
    /\ penalty' \in {p \in Penalties : p >= penalty}
    /\ terminated' \in BOOLEAN
    /\ UNCHANGED <<session, saved, thr, timeUp, notices, crashes>>

TimeLimitReached ==
    /\ HasTimeLimit /\ session.started
    /\ ~timeUp
    /\ timeUp' = TRUE
    /\ UNCHANGED <<session, saved, thr, proctoring, notices, crashes>>

\* POST /proctor/reset drops the manager.  How much of its violations the next
\* one finds in the row is the subject of module ProctorStore; here it may be
\* anything.
ProctoringReset ==
    /\ penalty' \in Penalties
    /\ terminated' \in BOOLEAN
    /\ UNCHANGED <<session, saved, thr, timeUp, notices, crashes>>

\* PM2 restarts the only worker: the manager is a new one then, too.
Restart ==
    /\ crashes < MaxCrashes
    /\ crashes' = crashes + 1
    /\ session' = saved
    /\ thr' = [r \in Threads |-> Idle]
    /\ penalty' \in Penalties
    /\ terminated' \in BOOLEAN
    /\ UNCHANGED <<saved, timeUp, notices>>

-----------------------------------------------------------------------------
Request(r) ==
    \/ GenerateQuestions(r)
    \/ CurrentQuestion(r)
    \/ RunCodingPublicTests(r)
    \/ SubmitAnswer(r)
    \/ SubmitCodingAnswer(r)
    \/ EndInterview(r)
    \/ AbandonRow(r)

\* What a thread that has taken a request does until its response.
Work(r) ==
    \/ QuestionsGenerated(r)
    \/ GenerationFailed(r)
    \/ RecordStarted(r)
    \/ UploadFailed(r)
    \/ StoreAnswer(r)
    \/ JudgmentLost(r)
    \/ JudgeAndAdapt(r)
    \/ JudgeAndSave(r)
    \/ AdaptAndSave(r)
    \/ AdaptationFailed(r)
    \/ FlagForReview(r)
    \/ CheckReportMail(r)
    \/ ReportSent(r)
    \/ ReportNotSent(r)
    \/ MarkReportSent(r)
    \/ AbandonCached(r)

Next ==
    \/ \E r \in Threads : Request(r) \/ Work(r)
    \/ Violation
    \/ ProctoringReset
    \/ TimeLimitReached
    \/ Restart

Spec == Init /\ [][Next]_vars

\* Every outgoing call has a time-out, so a thread with a request goes on.
FairSpec == Spec /\ \A r \in Threads : WF_vars(Work(r))
-----------------------------------------------------------------------------
(* Properties. *)

\* Every part of the session, of its row and of the threads has its type.
TypeOK ==
    /\ session \in InterviewSession
    /\ saved \in InterviewSession
    /\ thr \in [Threads -> Thread]
    /\ penalty \in Nat
    /\ {terminated, timeUp, review, mailed} \subseteq BOOLEAN
    /\ funnel \subseteq {"started", "completed"}
    /\ reports \in Nat
    /\ crashes \in Nat

InFlight(steps) == \E r \in Threads : thr[r].at \in steps

\* The row differs from the cached session only while a handler that changed
\* one of the two is on its way to session_store.save: a restart loses no
\* more than a judgment whose follow-up question is still being written.
UnsavedOnlyInFlight == saved # session => InFlight({"adapting", "abandoning"})

\* However requests overlap, answers never outnumber the questions passed, and
\* every answer has a slot in answer_judgments (submit_answer, 508-518).
SlotsInStep ==
    /\ Len(session.answers) <= session.idx
    /\ Len(session.answers) <= Len(session.judgments)

\* A session is completed only once it has passed its last question, also
\* after a restart and whatever overlaps it (submit_answer, 520-522).
CompletedPastLast ==
    \A s \in {session, saved} : s.status = "completed" => s.idx >= Len(s.questions)

\* The i-th answer is the answer to the i-th question, and no question is
\* passed without one (interview_service.py:508).
AnswersAligned ==
    /\ Len(session.answers) = session.idx
    /\ \A i \in DOMAIN session.answers : session.answers[i] = i - 1

\* answer_judgments has as many slots as there are answers
\* (interview_service.py:514).
JudgmentsAligned == Len(session.judgments) = Len(session.answers)

\* Answers judged at the same time finish in any order, and whichever is last
\* the score of a completed interview covers every question: an aggregate made
\* while a judgment was missing is made again (submit_answer, 566-567).
FinalCoversPaper ==
    /\ session.status = "completed"
    /\ ~InFlight({"judging", "adapting"})
    => /\ session.final # NoScore
       /\ session.final.covers = 1..Len(session.questions)

\* A score reduced by more than 10 percent is flagged for human review once
\* the request that reduced it has gone past its notices (end_interview, 892).
ConcernReachesReview ==
    /\ session.final # NoScore
    /\ session.final.penalty > 10
    /\ \A r \in Threads : ~(thr[r].at = "flagging" /\ thr[r].concern)
    => review

IsAnswerPrefix(a, b) == Len(a) <= Len(b) /\ \A i \in DOMAIN a : a[i] = b[i]

\* A stored answer is never lost or replaced, not by a restart either, unless
\* the questions are generated again (submit_answer saves before it judges).
AnswersKept ==
    [][ \/ IsAnswerPrefix(session.answers, session'.answers)
        \/ \E r \in Threads : QuestionsGenerated(r) ]_vars

\* A completed interview gets a score, unless its questions are generated again.
EventuallyScored ==
    session.status = "completed" ~>
        session.final # NoScore \/ session.idx < Len(session.questions)

\* Claims of the sources the runs of the violations check.

\* adaptive_interview.py:308, "Do not rewrite already-answered slots": the
\* question of an answered slot changes only when all questions are generated.
AnsweredQuestionsFrozen ==
    [][ \/ \A i \in DOMAIN session.answers :
             i \in DOMAIN session.questions => session'.questions[i] = session.questions[i]
        \/ \E r \in Threads : QuestionsGenerated(r) ]_vars

\* README.md:120, "Integrity penalty applied to final score": an ended interview
\* keeps the penalty that was applied when it ended.
PenaltyKept ==
    [][ session.status = "ended" /\ session'.status = "ended" /\ session.final # NoScore
        => session'.final # NoScore /\ session'.final.penalty >= session.final.penalty ]_vars

\* adaptive_interview.py:3, "Invite/assessment sessions keep fixed question
\* banks": nothing replaces the bank of an invite.
BankFixed == [][ Invite => session'.questions = session.questions ]_vars

\* interview_service.py:330, "Cannot generate questions unless session is in
\* 'created' state": no question list replaces one that has been started.
GeneratedBeforeStart ==
    [][ (\E r \in Threads : QuestionsGenerated(r))
        => session.status \in {"created", "questions_ready"} ]_vars

\* session_persistence.py:905, "Mark all in-flight sessions ... as abandoned":
\* an interview that has ended or completed is not abandoned.
OnlyActiveAbandoned ==
    [][ session'.status = "abandoned" /\ session.status # "abandoned"
        => session.status \in Active ]_vars
=============================================================================
