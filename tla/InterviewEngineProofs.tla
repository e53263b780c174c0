------------------------ MODULE InterviewEngineProofs ------------------------
(* What holds of InterviewEngine for every value of its constants. *)
EXTENDS InterviewEngine, SequenceTheorems, TLAPS

-----------------------------------------------------------------------------
(* The transformers of a session keep its type. *)

LEMMA NewPaperType ==
    /\ NewPaper \in Seq(Question)
    /\ Len(NewPaper) = Len(Paper)
    /\ Len(NewPaper) > 0
    /\ \A i \in 1..Len(Paper) : NewPaper[i].type = Paper[i]
<1>1. Len(Paper) \in Nat /\ Len(Paper) > 0
    BY PaperAssumption, EmptySeq, LenProperties
<1>2. \A i \in 1..Len(Paper) : Paper[i] \in QuestionTypes
    BY PaperAssumption, ElementOfSeq
<1>3. \A i \in 1..Len(Paper) : [type |-> Paper[i], text |-> "seed"] \in Question
    BY <1>2 DEF Question
<1>4. NewPaper \in Seq(Question)
    BY <1>1, <1>3, IsASeq DEF NewPaper
<1>5. Len(NewPaper) = Len(Paper)
    BY <1>1 DEF NewPaper
<1>6. QED
    BY <1>1, <1>4, <1>5 DEF NewPaper

LEMMA GeneratedType ==
    /\ Generated \in Seq(Question)
    /\ Len(Generated) = Len(Paper)
    /\ Len(Generated) > 0
    /\ \A i \in 1..Len(Paper) : Generated[i].type = "subjective"
<1>1. Len(Paper) \in Nat /\ Len(Paper) > 0
    BY PaperAssumption, EmptySeq, LenProperties
<1>2. [type |-> "subjective", text |-> "seed"] \in Question
    BY DEF Question, QuestionTypes
<1>3. Generated \in Seq(Question)
    BY <1>1, <1>2, IsASeq DEF Generated
<1>4. Len(Generated) = Len(Paper)
    BY <1>1 DEF Generated
<1>5. QED
    BY <1>1, <1>3, <1>4 DEF Generated

\* EXCEPT at any place, in the domain or not, keeps a sequence and its length.
LEMMA ExceptAnywhere ==
    ASSUME NEW S, NEW seq \in Seq(S), NEW i \in Nat, NEW e \in S
    PROVE  /\ [seq EXCEPT ![i] = e] \in Seq(S)
           /\ Len([seq EXCEPT ![i] = e]) = Len(seq)
<1>1. CASE i \in 1..Len(seq)
    BY <1>1, ExceptSeq
<1>2. CASE i \notin 1..Len(seq)
    <2>1. DOMAIN seq = 1..Len(seq)
        BY LenProperties
    <2>2. [seq EXCEPT ![i] = e] = seq
        BY <1>2, <2>1
    <2>3. QED
        BY <2>2
<1>3. QED
    BY <1>1, <1>2

LEMMA RegeneratedType ==
    ASSUME NEW s \in InterviewSession
    PROVE  Regenerated(s) \in InterviewSession
<1>1. <<>> \in Seq(Nat)
    BY EmptySeq
<1>2. QED
    BY <1>1, GeneratedType DEF InterviewSession, Regenerated, Statuses

LEMMA AnsweredType ==
    ASSUME NEW s \in InterviewSession, NEW index \in Nat
    PROVE  Answered(s, index) \in InterviewSession
<1>1. Append(s.answers, index) \in Seq(Nat)
    BY AppendProperties DEF InterviewSession
<1>2. [s.answers EXCEPT ![index + 1] = index] \in Seq(Nat)
    BY ExceptAnywhere, SMTT(30) DEF InterviewSession
<1>3. Append(s.judgments, "none") \in Seq({"none", "judged"})
    BY AppendProperties DEF InterviewSession
<1>4. s.idx + 1 \in Nat
    BY DEF InterviewSession
<1> DEFINE answers == IF Len(s.answers) <= index THEN Append(s.answers, index)
                      ELSE [s.answers EXCEPT ![index + 1] = index]
           judgments == IF Len(s.judgments) <= index THEN Append(s.judgments, "none")
                        ELSE s.judgments
           status == IF HasMore(s) THEN s.status ELSE "completed"
<1>5. answers \in Seq(Nat)
    BY <1>1, <1>2
<1>6. judgments \in Seq({"none", "judged"})
    BY <1>3 DEF InterviewSession
<1>7. status \in Statuses
    BY DEF InterviewSession, Statuses
<1>8. Answered(s, index) = [s EXCEPT !.answers = answers, !.judgments = judgments,
                                     !.idx = s.idx + 1, !.status = status]
    BY DEF Answered
<1>9. QED
    BY <1>4, <1>5, <1>6, <1>7, <1>8 DEF InterviewSession

LEMMA JudgedAtType ==
    ASSUME NEW s \in InterviewSession, NEW index \in Nat
    PROVE  JudgedAt(s, index) \in InterviewSession
<1>1. [s.judgments EXCEPT ![index + 1] = "judged"] \in Seq({"none", "judged"})
    BY ExceptAnywhere DEF InterviewSession
<1>2. QED
    BY <1>1 DEF InterviewSession, JudgedAt

LEMMA WithFinalScoreType ==
    ASSUME NEW s \in InterviewSession
    PROVE  WithFinalScore(s) \in InterviewSession
<1>1. JudgedSlots(s) \subseteq Nat
    BY DEF JudgedSlots
<1>2. [covers |-> JudgedSlots(s), penalty |-> 0] \in Score
    BY <1>1 DEF Score
<1>3. QED
    BY <1>2 DEF InterviewSession, WithFinalScore

LEMMA SettledType ==
    ASSUME NEW s \in InterviewSession
    PROVE  Settled(s) \in InterviewSession
BY WithFinalScoreType DEF Settled

LEMMA PenalisedType ==
    ASSUME NEW s \in InterviewSession, penalty \in Nat
    PROVE  Penalised(s) \in InterviewSession
BY DEF Penalised, InterviewSession, Score

LEMMA IdleType == Idle \in Thread
<1>1. <<>> \in Seq(Question)
    BY EmptySeq
<1>2. QED
    BY <1>1 DEF Idle, Thread, Steps

LEMMA GoesType ==
    ASSUME thr \in [Threads -> Thread],
           NEW r \in Threads, NEW from \in Steps, NEW to \in Steps,
           Goes(r, from, to)
    PROVE  thr' \in [Threads -> Thread]
<1>1. [thr[r] EXCEPT !.at = to] \in Thread
    BY DEF Thread
<1>2. QED
    BY <1>1, IdleType DEF Goes

-----------------------------------------------------------------------------
(* Type correctness. *)

LEMMA InitType == Init => TypeOK
<1> SUFFICES ASSUME Init PROVE TypeOK
    OBVIOUS
<1>1. /\ <<>> \in Seq(Question) /\ <<>> \in Seq(Nat)
      /\ <<>> \in Seq({"none", "judged"})
    BY EmptySeq
<1>2. session \in InterviewSession
    BY <1>1, NewPaperType DEF Init, NewSession, InterviewSession, Statuses
<1>3. thr \in [Threads -> Thread]
    BY IdleType DEF Init
<1>4. QED
    BY <1>2, <1>3 DEF Init, TypeOK

LEMMA NextType == TypeOK /\ [Next]_vars => TypeOK'
<1> SUFFICES ASSUME TypeOK, [Next]_vars PROVE TypeOK'
    OBVIOUS
<1> USE DEF TypeOK, Save
<1>1. ASSUME NEW r \in Threads, Request(r) PROVE TypeOK'
  <2>1. CASE GenerateQuestions(r)
    BY <2>1, GoesType DEF GenerateQuestions, Steps, proctoring, notices
  <2>2. CASE CurrentQuestion(r)
    <3>1. [session EXCEPT !.status = "in_progress", !.started = TRUE] \in InterviewSession
      BY DEF InterviewSession, Statuses
    <3>2. thr' \in [Threads -> Thread]
      BY <2>2, GoesType DEF CurrentQuestion, Steps
    <3>3. QED
      BY <2>2, <3>1, <3>2 DEF CurrentQuestion, proctoring, notices
  <2>3. CASE RunCodingPublicTests(r)
    <3>1. [session EXCEPT !.status = "in_progress"] \in InterviewSession
      BY DEF InterviewSession, Statuses
    <3>2. thr' \in [Threads -> Thread]
      BY <2>3, GoesType DEF RunCodingPublicTests, Steps
    <3>3. QED
      BY <2>3, <3>1, <3>2 DEF RunCodingPublicTests, proctoring, notices
  <2>4. ASSUME NEW to \in Steps, Claim(r, to) PROVE TypeOK'
    <3>1. [Idle EXCEPT !.at = to, !.index = session.idx] \in Thread
      BY IdleType DEF InterviewSession, Thread
    <3>2. QED
      BY <2>4, <3>1 DEF Claim, proctoring, notices
  <2>5. CASE SubmitAnswer(r)
    BY <2>4, <2>5 DEF SubmitAnswer, Steps
  <2>6. CASE SubmitCodingAnswer(r)
    BY <2>4, <2>6 DEF SubmitCodingAnswer, Steps
  <2>7. CASE EndInterview(r)
    <3> DEFINE ended  == [session EXCEPT !.status = "ended"]
               scored == IF ended.final = NoScore THEN WithFinalScore(ended) ELSE ended
    <3>1. ended \in InterviewSession
      BY DEF InterviewSession, Statuses
    <3>2. scored \in InterviewSession
      BY <3>1, WithFinalScoreType
    <3>3. Penalised(scored) \in InterviewSession
      BY <3>2, PenalisedType
    <3>4. [Idle EXCEPT !.at = "flagging", !.concern = Concern(penalty)] \in Thread
      <4>1. Concern(penalty) \in BOOLEAN
        BY DEF Concern
      <4>2. QED
        BY <4>1, IdleType DEF Thread, Steps
    <3>5. QED
      BY <2>7, <3>3, <3>4 DEF EndInterview, proctoring, notices
  <2>8. CASE AbandonRow(r)
    <3>1. [saved EXCEPT !.status = "abandoned"] \in InterviewSession
      BY DEF InterviewSession, Statuses
    <3>2. thr' \in [Threads -> Thread]
      BY <2>8, GoesType DEF AbandonRow, Steps
    <3>3. QED
      BY <2>8, <3>1, <3>2 DEF AbandonRow, proctoring, notices
  <2>9. QED
    BY <1>1, <2>1, <2>2, <2>3, <2>5, <2>6, <2>7, <2>8 DEF Request
<1>2. ASSUME NEW r \in Threads, Work(r) PROVE TypeOK'
  <2> /\ thr[r] \in Thread /\ thr[r].index \in Nat /\ thr[r].copy \in Seq(Question)
    BY DEF Thread
  <2>1. CASE QuestionsGenerated(r)
    BY <2>1, GoesType, RegeneratedType DEF QuestionsGenerated, Steps, proctoring, notices
  <2>2. CASE GenerationFailed(r)
    BY <2>2, GoesType DEF GenerationFailed, Steps, proctoring, notices
  <2>3. CASE RecordStarted(r)
    BY <2>3, GoesType DEF RecordStarted, Recorded, Steps, proctoring, notices
  <2>4. CASE UploadFailed(r)
    BY <2>4, GoesType DEF UploadFailed, Steps, proctoring, notices
  <2>5. CASE StoreAnswer(r)
    <3>1. [thr[r] EXCEPT !.at = "judging", !.more = HasMore(session)] \in Thread
      <4>1. HasMore(session) \in BOOLEAN
        BY DEF HasMore
      <4>2. QED
        BY <4>1 DEF Thread, Steps
    <3>2. thr' \in [Threads -> Thread]
      BY <2>5, <3>1 DEF StoreAnswer, Judging
    <3>3. QED
      BY <2>5, <3>2, AnsweredType DEF StoreAnswer, proctoring, notices
  <2>6. CASE JudgmentLost(r)
    BY <2>6, GoesType DEF JudgmentLost, Steps, proctoring, notices
  <2>7. CASE JudgeAndAdapt(r)
    <3>1. [thr[r] EXCEPT !.at = "adapting", !.copy = session.questions] \in Thread
      BY DEF Thread, Steps, InterviewSession
    <3>2. thr' \in [Threads -> Thread]
      BY <2>7, <3>1 DEF JudgeAndAdapt
    <3>3. QED
      BY <2>7, <3>2, JudgedAtType DEF JudgeAndAdapt, proctoring, notices
  <2>8. CASE JudgeAndSave(r)
    BY <2>8, GoesType, JudgedAtType, SettledType
       DEF JudgeAndSave, Steps, proctoring, notices
  <2>9. CASE AdaptAndSave(r)
    <3> DEFINE next == thr[r].index + 2
               adapted == [session EXCEPT !.questions = [thr[r].copy EXCEPT ![next] = FollowUp]]
    <3>1. FollowUp \in Question
      BY DEF FollowUp, Question, QuestionTypes
    <3>2. [thr[r].copy EXCEPT ![next] = FollowUp] \in Seq(Question)
      BY <3>1, ExceptAnywhere
    <3>3. adapted \in InterviewSession
      BY <3>2 DEF InterviewSession
    <3>4. Settled(adapted) \in InterviewSession
      BY <3>3, SettledType
    <3>5. thr' \in [Threads -> Thread]
      BY <2>9, GoesType DEF AdaptAndSave, Steps
    <3>6. QED
      BY <2>9, <3>4, <3>5 DEF AdaptAndSave, proctoring, notices
  <2>10. CASE AdaptationFailed(r)
    BY <2>10, GoesType, SettledType DEF AdaptationFailed, Steps, proctoring, notices
  <2>11. CASE FlagForReview(r)
    <3>1. thr' \in [Threads -> Thread]
      BY <2>11, GoesType DEF FlagForReview, Steps
    <3>2. review' \in BOOLEAN /\ funnel' \subseteq {"started", "completed"}
      BY <2>11 DEF FlagForReview, Recorded, Thread
    <3>3. QED
      BY <2>11, <3>1, <3>2 DEF FlagForReview, proctoring
  <2>12. CASE CheckReportMail(r)
    BY <2>12, GoesType DEF CheckReportMail, Steps, proctoring, notices
  <2>13. CASE ReportSent(r)
    BY <2>13, GoesType DEF ReportSent, Steps, proctoring
  <2>14. CASE ReportNotSent(r)
    BY <2>14, GoesType DEF ReportNotSent, Steps, proctoring, notices
  <2>15. CASE MarkReportSent(r)
    BY <2>15, GoesType DEF MarkReportSent, Steps, proctoring
  <2>16. CASE AbandonCached(r)
    <3>1. [session EXCEPT !.status = "abandoned"] \in InterviewSession
      BY DEF InterviewSession, Statuses
    <3>2. QED
      BY <2>16, <3>1, GoesType DEF AbandonCached, Steps, proctoring, notices
  <2>17. QED
    BY <1>2, <2>1, <2>2, <2>3, <2>4, <2>5, <2>6, <2>7, <2>8, <2>9, <2>10, <2>11,
       <2>12, <2>13, <2>14, <2>15, <2>16 DEF Work
<1>3. CASE Violation \/ ProctoringReset
  BY <1>3, BoundAssumption DEF Violation, ProctoringReset, notices
<1>4. CASE TimeLimitReached
  BY <1>4 DEF TimeLimitReached, proctoring, notices
<1>5. CASE Restart
  <2>1. thr' \in [Threads -> Thread]
    BY <1>5, IdleType DEF Restart
  <2>2. penalty' \in Nat /\ crashes' \in Nat
    BY <1>5, BoundAssumption DEF Restart
  <2>3. terminated' \in BOOLEAN
    BY <1>5 DEF Restart
  <2>4. QED
    BY <1>5, <2>1, <2>2, <2>3 DEF Restart, notices
<1>6. CASE UNCHANGED vars
  BY <1>6 DEF vars
<1>7. QED
  BY <1>1, <1>2, <1>3, <1>4, <1>5, <1>6 DEF Next

\* Every reachable state of the session, its row and its threads is well typed,
\* for any paper, any number of threads and any number of restarts.
THEOREM TypeCorrect == Spec => []TypeOK
<1>1. QED
  BY InitType, NextType, PTL DEF Spec

-----------------------------------------------------------------------------
(* What the transformers that only touch judgments and scores leave alone. *)

SameProgress(s, t) ==
    /\ t.status = s.status
    /\ t.questions = s.questions
    /\ t.answers = s.answers
    /\ t.idx = s.idx

LEMMA SettledProgress ==
    ASSUME NEW s \in InterviewSession
    PROVE  /\ SameProgress(s, Settled(s))
           /\ Settled(s).judgments = s.judgments
BY DEF Settled, WithFinalScore, SameProgress, InterviewSession

LEMMA JudgedAtProgress ==
    ASSUME NEW s \in InterviewSession, NEW index \in Nat
    PROVE  /\ SameProgress(s, JudgedAt(s, index))
           /\ Len(JudgedAt(s, index).judgments) = Len(s.judgments)
<1>1. JudgedAt(s, index).judgments = [s.judgments EXCEPT ![index + 1] = "judged"]
    BY DEF JudgedAt, InterviewSession
<1>2. Len([s.judgments EXCEPT ![index + 1] = "judged"]) = Len(s.judgments)
    BY ExceptAnywhere DEF InterviewSession
<1>3. SameProgress(s, JudgedAt(s, index))
    BY DEF JudgedAt, SameProgress, InterviewSession
<1>4. QED
    BY <1>1, <1>2, <1>3

\* The session EndInterview saves.
Ended(s) ==
    LET ended == [s EXCEPT !.status = "ended"]
    IN  Penalised(IF ended.final = NoScore THEN WithFinalScore(ended) ELSE ended)

LEMMA EndedProgress ==
    ASSUME NEW s \in InterviewSession
    PROVE  /\ Ended(s).status = "ended"
           /\ Ended(s).questions = s.questions
           /\ Ended(s).answers = s.answers
           /\ Ended(s).idx = s.idx
           /\ Ended(s).judgments = s.judgments
BY DEF Ended, Penalised, WithFinalScore, InterviewSession

LEMMA AnsweredProgress ==
    ASSUME NEW s \in InterviewSession, NEW index \in Nat
    PROVE  /\ Answered(s, index).questions = s.questions
           /\ Answered(s, index).idx = s.idx + 1
           /\ Answered(s, index).status = IF HasMore(s) THEN s.status ELSE "completed"
           /\ Len(s.answers) <= index =>
                  Answered(s, index).answers = Append(s.answers, index)
           /\ Len(Answered(s, index).answers) =
                  IF Len(s.answers) <= index THEN Len(s.answers) + 1 ELSE Len(s.answers)
           /\ Len(Answered(s, index).judgments) =
                  IF Len(s.judgments) <= index THEN Len(s.judgments) + 1
                  ELSE Len(s.judgments)
<1>1. /\ Len([s.answers EXCEPT ![index + 1] = index]) = Len(s.answers)
      /\ Len(Append(s.answers, index)) = Len(s.answers) + 1
      /\ Len(Append(s.judgments, "none")) = Len(s.judgments) + 1
    BY ExceptAnywhere, AppendProperties DEF InterviewSession
<1>2. /\ Answered(s, index).questions = s.questions
      /\ Answered(s, index).idx = s.idx + 1
      /\ Answered(s, index).status = IF HasMore(s) THEN s.status ELSE "completed"
    BY DEF Answered, InterviewSession
<1>3. Answered(s, index).answers =
          IF Len(s.answers) <= index THEN Append(s.answers, index)
          ELSE [s.answers EXCEPT ![index + 1] = index]
    BY DEF Answered, InterviewSession
<1>4. Answered(s, index).judgments =
          IF Len(s.judgments) <= index THEN Append(s.judgments, "none") ELSE s.judgments
    BY DEF Answered, InterviewSession
<1>5. QED
    BY <1>1, <1>2, <1>3, <1>4

LEMMA RegeneratedProgress ==
    ASSUME NEW s \in InterviewSession
    PROVE  /\ Regenerated(s).questions = Generated
           /\ Regenerated(s).answers = <<>>
           /\ Regenerated(s).idx = 0
           /\ Regenerated(s).status = "questions_ready"
           /\ Regenerated(s).judgments = s.judgments
BY DEF Regenerated, InterviewSession

-----------------------------------------------------------------------------
(* The row and the cached session. *)

Unsaved == {"adapting", "abandoning"}

LEMMA OtherThreadsInFlight ==
    ASSUME thr \in [Threads -> Thread], NEW r \in Threads, NEW new,
           thr[r].at \notin Unsaved,
           thr' = [thr EXCEPT ![r] = new],
           InFlight(Unsaved)
    PROVE  InFlight(Unsaved)'
<1>1. PICK t \in Threads : thr[t].at \in Unsaved
    BY DEF InFlight
<1>2. t # r /\ thr'[t] = thr[t]
    BY <1>1
<1>3. QED
    BY <1>1, <1>2 DEF InFlight

LEMMA UnsavedStep == TypeOK /\ UnsavedOnlyInFlight /\ [Next]_vars => UnsavedOnlyInFlight'
<1> SUFFICES ASSUME TypeOK, UnsavedOnlyInFlight, [Next]_vars
             PROVE  UnsavedOnlyInFlight'
    OBVIOUS
<1> USE DEF UnsavedOnlyInFlight
<1>1. ASSUME saved' = session' PROVE UnsavedOnlyInFlight'
    BY <1>1
\* A step of a thread that has nothing unsaved and writes neither copy.
<1>2. ASSUME NEW r \in Threads, NEW new, thr[r].at \notin Unsaved,
             thr' = [thr EXCEPT ![r] = new], UNCHANGED <<session, saved>>
      PROVE  UnsavedOnlyInFlight'
    BY <1>2, OtherThreadsInFlight DEF TypeOK, Unsaved
<1>3. ASSUME NEW r \in Threads, NEW from, NEW to, Goes(r, from, to),
             from \notin Unsaved, UNCHANGED <<session, saved>>
      PROVE  UnsavedOnlyInFlight'
    BY <1>2, <1>3 DEF Goes
<1>4. ASSUME NEW r \in Threads, Request(r) PROVE UnsavedOnlyInFlight'
  <2>1. CASE GenerateQuestions(r)
    BY <2>1, <1>3 DEF GenerateQuestions, Unsaved
  <2>2. CASE CurrentQuestion(r)
    BY <2>2, <1>1 DEF CurrentQuestion, Save
  <2>3. CASE RunCodingPublicTests(r)
    BY <2>3, <1>1 DEF RunCodingPublicTests, Save
  <2>4. CASE SubmitAnswer(r)
    BY <2>4, <1>2 DEF SubmitAnswer, Claim, Unsaved
  <2>5. CASE SubmitCodingAnswer(r)
    BY <2>5, <1>2 DEF SubmitCodingAnswer, Claim, Unsaved
  <2>6. CASE EndInterview(r)
    BY <2>6, <1>1 DEF EndInterview, Save
  <2>7. CASE AbandonRow(r)
    <3>1. thr'[r].at = "abandoning"
      BY <2>7 DEF AbandonRow, Goes, TypeOK, Thread
    <3>2. QED
      BY <3>1 DEF InFlight
  <2>8. QED
    BY <1>4, <2>1, <2>2, <2>3, <2>4, <2>5, <2>6, <2>7 DEF Request
<1>5. ASSUME NEW r \in Threads, Work(r) PROVE UnsavedOnlyInFlight'
  <2>1. CASE \/ QuestionsGenerated(r) \/ StoreAnswer(r) \/ JudgeAndSave(r)
             \/ AdaptAndSave(r) \/ AdaptationFailed(r) \/ AbandonCached(r)
    BY <2>1, <1>1 DEF QuestionsGenerated, StoreAnswer, JudgeAndSave, AdaptAndSave,
                      AdaptationFailed, AbandonCached, Save
  <2>2. CASE \/ GenerationFailed(r) \/ RecordStarted(r) \/ UploadFailed(r)
             \/ JudgmentLost(r)
    BY <2>2, <1>3 DEF GenerationFailed, RecordStarted, UploadFailed, JudgmentLost,
                      Unsaved
  <2>3. CASE \/ FlagForReview(r) \/ CheckReportMail(r) \/ ReportSent(r)
             \/ ReportNotSent(r) \/ MarkReportSent(r)
    BY <2>3, <1>3 DEF FlagForReview, CheckReportMail, ReportSent, ReportNotSent,
                      MarkReportSent, Unsaved
  <2>4. CASE JudgeAndAdapt(r)
    <3>1. thr'[r].at = "adapting"
      BY <2>4 DEF JudgeAndAdapt, TypeOK, Thread
    <3>2. QED
      BY <3>1 DEF InFlight
  <2>5. QED
    BY <1>5, <2>1, <2>2, <2>3, <2>4 DEF Work
<1>6. CASE Violation \/ ProctoringReset \/ TimeLimitReached \/ UNCHANGED vars
    BY <1>6 DEF Violation, ProctoringReset, TimeLimitReached, vars, InFlight
<1>7. CASE Restart
    BY <1>7, <1>1 DEF Restart
<1>8. QED
    BY <1>4, <1>5, <1>6, <1>7 DEF Next

\* The row of a session is behind the cached object only while a request that
\* is about to save is in flight.
THEOREM Durable == Spec => []UnsavedOnlyInFlight
<1>1. Init => UnsavedOnlyInFlight
    BY DEF Init, UnsavedOnlyInFlight
<1>2. QED
    BY <1>1, UnsavedStep, TypeCorrect, PTL DEF Spec

-----------------------------------------------------------------------------
(* Progress: what is inductive about the index, the answers and the slots   *)
(* whatever overlaps.  A follow-up writes back a whole list of questions,   *)
(* so the list it copied must be as long as the one it replaces.            *)

Progress(s) ==
    /\ Len(s.questions) \in {0, Len(Paper)}
    /\ s.status = "completed" => s.idx >= Len(s.questions)
    /\ Len(s.answers) <= s.idx
    /\ Len(s.answers) <= Len(s.judgments)

WholeCopies ==
    \A r \in Threads : thr[r].at = "adapting" =>
        Len(thr[r].copy) = Len(Paper) /\ Len(session.questions) = Len(Paper)

ProgressInv == Progress(session) /\ Progress(saved) /\ WholeCopies

LEMMA ProgressSame ==
    ASSUME NEW s \in InterviewSession, NEW t \in InterviewSession, Progress(s),
           t.questions = s.questions, t.answers = s.answers, t.idx = s.idx,
           Len(t.judgments) = Len(s.judgments),
           t.status = s.status \/ t.status # "completed"
    PROVE  Progress(t)
BY DEF Progress

LEMMA ProgressAnswered ==
    ASSUME NEW s \in InterviewSession, NEW index \in Nat, Progress(s)
    PROVE  Progress(Answered(s, index))
<1>1. /\ Len(s.questions) \in Nat /\ s.idx \in Nat
      /\ Len(s.answers) \in Nat /\ Len(s.judgments) \in Nat
    BY LenProperties DEF InterviewSession
<1> DEFINE t == Answered(s, index)
<1>2. /\ t.questions = s.questions /\ t.idx = s.idx + 1
      /\ t.status = IF HasMore(s) THEN s.status ELSE "completed"
      /\ Len(t.answers) = IF Len(s.answers) <= index THEN Len(s.answers) + 1 ELSE Len(s.answers)
      /\ Len(t.judgments) = IF Len(s.judgments) <= index THEN Len(s.judgments) + 1
                            ELSE Len(s.judgments)
    BY AnsweredProgress
<1> HIDE DEF t
<1>3. Progress(t)
    BY <1>1, <1>2, SMTT(30) DEF Progress, HasMore
<1>4. QED
    BY <1>3 DEF t

LEMMA ProgressRegenerated ==
    ASSUME NEW s \in InterviewSession, Progress(s)
    PROVE  Progress(Regenerated(s))
<1>1. Len(s.judgments) \in Nat /\ Len(<<>>) = 0
    BY LenProperties DEF InterviewSession
<1>2. QED
    BY <1>1, RegeneratedProgress, GeneratedType DEF Progress

LEMMA ProgressStep == TypeOK /\ ProgressInv /\ [Next]_vars => ProgressInv'
<1> SUFFICES ASSUME TypeOK, ProgressInv, [Next]_vars PROVE ProgressInv'
    OBVIOUS
<1> USE DEF ProgressInv, Save
<1>0. session \in InterviewSession /\ saved \in InterviewSession
    BY DEF TypeOK
\* A save of a well-formed session; the adapting threads were adapting before.
<1>1. ASSUME NEW t, Save(t), Progress(t), NEW r \in Threads, NEW new,
             thr' = [thr EXCEPT ![r] = new], new.at # "adapting",
             Len(t.questions) = Len(session.questions) \/ Len(t.questions) = Len(Paper)
      PROVE  ProgressInv'
  <2>1. \A q \in Threads : thr'[q].at = "adapting" => thr'[q] = thr[q]
    BY <1>1 DEF TypeOK
  <2>2. QED
    BY <1>1, <2>1 DEF WholeCopies
<1>2. ASSUME NEW r \in Threads, NEW new, new.at # "adapting",
             thr' = [thr EXCEPT ![r] = new], UNCHANGED <<session, saved>>
      PROVE  ProgressInv'
  <2>1. \A q \in Threads : thr'[q].at = "adapting" => thr'[q] = thr[q]
    BY <1>2 DEF TypeOK
  <2>2. QED
    BY <1>2, <2>1 DEF WholeCopies
<1>3. ASSUME NEW r \in Threads, NEW from, NEW to, to # "adapting", Goes(r, from, to)
      PROVE  /\ \E new : thr' = [thr EXCEPT ![r] = new] /\ new.at # "adapting"
  <2>1. Idle.at # "adapting" /\ [thr[r] EXCEPT !.at = to].at # "adapting"
    BY <1>3 DEF Idle, TypeOK, Thread
  <2>2. QED
    BY <1>3, <2>1 DEF Goes
<1>4. ASSUME NEW r \in Threads, Request(r) PROVE ProgressInv'
  <2>1. CASE GenerateQuestions(r)
    BY <2>1, <1>2, <1>3 DEF GenerateQuestions
  <2>2. CASE CurrentQuestion(r)
    <3> DEFINE t == [session EXCEPT !.status = "in_progress", !.started = TRUE]
    <3>1. t \in InterviewSession /\ Progress(t) /\ t.questions = session.questions
      BY <1>0 DEF Progress, InterviewSession, Statuses
    <3>2. QED
      BY <2>2, <3>1, <1>1, <1>3 DEF CurrentQuestion
  <2>3. CASE RunCodingPublicTests(r)
    <3> DEFINE t == [session EXCEPT !.status = "in_progress"]
    <3>1. t \in InterviewSession /\ Progress(t) /\ t.questions = session.questions
      BY <1>0 DEF Progress, InterviewSession, Statuses
    <3>2. QED
      BY <2>3, <3>1, <1>1, <1>3 DEF RunCodingPublicTests
  <2>4. ASSUME NEW to, to # "adapting", Claim(r, to) PROVE ProgressInv'
    <3>1. [Idle EXCEPT !.at = to, !.index = session.idx].at # "adapting"
      BY <2>4 DEF Idle
    <3>2. QED
      BY <2>4, <3>1, <1>2 DEF Claim
  <2>5. CASE SubmitAnswer(r)
    BY <2>5, <2>4 DEF SubmitAnswer
  <2>6. CASE SubmitCodingAnswer(r)
    BY <2>6, <2>4 DEF SubmitCodingAnswer
  <2>7. CASE EndInterview(r)
    <3>1. [Idle EXCEPT !.at = "flagging", !.concern = Concern(penalty)].at # "adapting"
      BY DEF Idle
    <3>2. Progress(Ended(session)) /\ Ended(session).questions = session.questions
      BY <1>0, EndedProgress DEF Progress
    <3>3. Save(Ended(session))
      BY <2>7 DEF EndInterview, Ended
    <3>4. QED
      BY <2>7, <3>1, <3>2, <3>3, <1>1 DEF EndInterview
  <2>8. CASE AbandonRow(r)
    <3>1. Progress([saved EXCEPT !.status = "abandoned"])
      BY <1>0 DEF Progress, InterviewSession
    <3>2. PICK new : thr' = [thr EXCEPT ![r] = new] /\ new.at # "adapting"
      BY <2>8, <1>3 DEF AbandonRow
    <3>3. \A q \in Threads : thr'[q].at = "adapting" => thr'[q] = thr[q]
      BY <3>2 DEF TypeOK
    <3>4. QED
      BY <2>8, <3>1, <3>3 DEF AbandonRow, WholeCopies
  <2>9. QED
    BY <1>4, <2>1, <2>2, <2>3, <2>5, <2>6, <2>7, <2>8 DEF Request
<1>5. ASSUME NEW r \in Threads, Work(r) PROVE ProgressInv'
  <2>0. thr[r] \in Thread /\ thr[r].index \in Nat /\ thr[r].copy \in Seq(Question)
    BY DEF TypeOK, Thread
  <2>1. CASE QuestionsGenerated(r)
    BY <2>1, <1>0, <1>1, <1>3, ProgressRegenerated, RegeneratedProgress, GeneratedType
       DEF QuestionsGenerated
  <2>2. CASE \/ GenerationFailed(r) \/ RecordStarted(r) \/ UploadFailed(r)
             \/ JudgmentLost(r)
    BY <2>2, <1>2, <1>3 DEF GenerationFailed, RecordStarted, UploadFailed, JudgmentLost
  <2>3. CASE \/ FlagForReview(r) \/ CheckReportMail(r) \/ ReportSent(r)
             \/ ReportNotSent(r) \/ MarkReportSent(r)
    BY <2>3, <1>2, <1>3 DEF FlagForReview, CheckReportMail, ReportSent, ReportNotSent,
                            MarkReportSent
  <2>4. CASE StoreAnswer(r)
    <3>1. [thr[r] EXCEPT !.at = "judging", !.more = HasMore(session)].at # "adapting"
      BY <2>0 DEF Thread
    <3>2. thr' = [thr EXCEPT ![r] = [thr[r] EXCEPT !.at = "judging",
                                                   !.more = HasMore(session)]]
      BY <2>4 DEF StoreAnswer, Judging
    <3> DEFINE t == Answered(session, thr[r].index)
    <3>3. Save(t)
      BY <2>4 DEF StoreAnswer
    <3>4. Progress(t) /\ t.questions = session.questions
      BY <2>0, <1>0, ProgressAnswered, AnsweredProgress
    <3> HIDE DEF t
    <3>5. QED
      BY <3>1, <3>2, <3>3, <3>4, <1>1
  <2>5. CASE JudgeAndAdapt(r)
    <3> DEFINE t == JudgedAt(session, thr[r].index)
    <3>1. t \in InterviewSession /\ Progress(t) /\ t.questions = session.questions
      <4>1. t \in InterviewSession
        BY <2>0, <1>0, JudgedAtType
      <4>2. SameProgress(session, t) /\ Len(t.judgments) = Len(session.judgments)
        BY <2>0, <1>0, JudgedAtProgress
      <4>3. QED
        BY <4>1, <4>2, <1>0 DEF Progress, SameProgress
    <3>2. Len(session.questions) = Len(Paper)
      <4>1. thr[r].index + 1 < Len(session.questions)
        BY <2>5 DEF JudgeAndAdapt, Adapts
      <4>2. Len(session.questions) # 0
        BY <4>1, <2>0
      <4>3. QED
        BY <4>2 DEF Progress
    <3>3. thr'[r].copy = session.questions /\ \A q \in Threads \ {r} : thr'[q] = thr[q]
      BY <2>5, <2>0 DEF JudgeAndAdapt, Thread, TypeOK
    <3>4. QED
      BY <2>5, <3>1, <3>2, <3>3 DEF JudgeAndAdapt, WholeCopies
  <2>6. CASE JudgeAndSave(r)
    <3> DEFINE j == JudgedAt(session, thr[r].index)
    <3>1. j \in InterviewSession /\ Progress(j) /\ j.questions = session.questions
      <4>1. j \in InterviewSession
        BY <2>0, <1>0, JudgedAtType
      <4>2. SameProgress(session, j) /\ Len(j.judgments) = Len(session.judgments)
        BY <2>0, <1>0, JudgedAtProgress
      <4>3. QED
        BY <4>1, <4>2, <1>0 DEF Progress, SameProgress
    <3>2. Progress(Settled(j)) /\ Settled(j).questions = session.questions
      BY <3>1, SettledProgress DEF Progress, SameProgress
    <3>3. QED
      BY <2>6, <3>2, <1>1, <1>3 DEF JudgeAndSave
  <2>7. CASE AdaptAndSave(r)
    <3> DEFINE list == [thr[r].copy EXCEPT ![thr[r].index + 2] = FollowUp]
               a    == [session EXCEPT !.questions = list]
    <3>1. thr[r].at = "adapting"
      BY <2>7 DEF AdaptAndSave, Goes
    <3>2. FollowUp \in Question
      BY DEF FollowUp, Question, QuestionTypes
    <3>3. list \in Seq(Question) /\ Len(list) = Len(Paper)
      BY <2>0, <3>1, <3>2, ExceptAnywhere DEF WholeCopies
    <3>4. a \in InterviewSession /\ a.questions = list
      BY <1>0, <3>3 DEF InterviewSession
    <3>5. Progress(a)
      BY <1>0, <3>1, <3>3, <3>4 DEF Progress, WholeCopies, InterviewSession
    <3>6. Progress(Settled(a)) /\ Settled(a).questions = list
      BY <3>4, <3>5, SettledProgress DEF Progress, SameProgress
    <3>7. QED
      BY <2>7, <3>3, <3>6, <1>1, <1>3 DEF AdaptAndSave
  <2>8. CASE AdaptationFailed(r)
    <3>1. Progress(Settled(session)) /\ Settled(session).questions = session.questions
      BY <1>0, SettledProgress DEF Progress, SameProgress
    <3>2. QED
      BY <2>8, <3>1, <1>1, <1>3 DEF AdaptationFailed
  <2>9. CASE AbandonCached(r)
    <3> DEFINE t == [session EXCEPT !.status = "abandoned"]
    <3>1. t \in InterviewSession /\ Progress(t) /\ t.questions = session.questions
      BY <1>0 DEF Progress, InterviewSession, Statuses
    <3>2. Save(t)
      BY <2>9 DEF AbandonCached
    <3>3. PICK new : thr' = [thr EXCEPT ![r] = new] /\ new.at # "adapting"
      BY <2>9, <1>3 DEF AbandonCached
    <3> HIDE DEF t
    <3>4. QED
      BY <3>1, <3>2, <3>3, <1>1
  <2>10. QED
    BY <1>5, <2>1, <2>2, <2>3, <2>4, <2>5, <2>6, <2>7, <2>8, <2>9 DEF Work
<1>6. CASE Violation \/ ProctoringReset \/ TimeLimitReached \/ UNCHANGED vars
    BY <1>6 DEF Violation, ProctoringReset, TimeLimitReached, vars, WholeCopies
<1>7. CASE Restart
    BY <1>7 DEF Restart, WholeCopies, Idle
<1>8. QED
    BY <1>4, <1>5, <1>6, <1>7 DEF Next

LEMMA ProgressInvariant == Spec => []ProgressInv
<1>1. Init => ProgressInv
  <2> SUFFICES ASSUME Init PROVE ProgressInv
      OBVIOUS
  <2>1. Len(<<>>) = 0
      OBVIOUS
  <2>2. Progress(session)
      BY <2>1, NewPaperType DEF Init, NewSession, Progress
  <2>3. QED
      BY <2>2 DEF Init, ProgressInv, WholeCopies, Idle
<1>2. QED
    BY <1>1, ProgressStep, TypeCorrect, PTL DEF Spec

\* Answers outnumber neither the questions passed nor the judgment slots.
THEOREM Slots == Spec => []SlotsInStep
<1>1. ProgressInv => SlotsInStep
    BY DEF ProgressInv, Progress, SlotsInStep
<1>2. QED
    BY <1>1, ProgressInvariant, PTL

\* Only a session past its last question is completed, in memory and on disk.
THEOREM Completion == Spec => []CompletedPastLast
<1>1. ProgressInv => CompletedPastLast
    BY DEF ProgressInv, Progress, CompletedPastLast
<1>2. QED
    BY <1>1, ProgressInvariant, PTL

-----------------------------------------------------------------------------
(* Alignment.  With no coding question nothing waits between the guards of  *)
(* a submission and its first write, so if no thread is preempted there     *)
(* either, the index a handler took is still the session's when it writes.  *)
(* The language model writes no coding question; the bank of an invite may. *)

TextInterview ==
    ~Preemptive /\ (Invite => \A i \in 1..Len(Paper) : Paper[i] # "coding")

TextOnly(questions) == \A i \in 1..Len(questions) : questions[i].type # "coding"

InOrder(s) == Len(s.answers) = s.idx /\ \A i \in 1..s.idx : s.answers[i] = i - 1

SameAnswers(s, t) == t.answers = s.answers /\ t.idx = s.idx

Stored(s) == InOrder(s) /\ TextOnly(s.questions)

\* What the threads hold agrees with the session.
ThreadsAligned ==
    \A r \in Threads :
        /\ thr[r].at # "uploading"
        /\ TextOnly(thr[r].copy)
        /\ thr[r].at = "claimed" =>
               /\ thr[r].index = session.idx
               /\ \A q \in Threads \ {r} : thr[q].at # "claimed"

AlignedInv ==
    /\ Stored(session)
    /\ Stored(saved)
    /\ SameAnswers(session, saved)
    /\ ThreadsAligned

LEMMA ExceptTextOnly ==
    ASSUME NEW list \in Seq(Question), TextOnly(list), NEW i \in Nat
    PROVE  TextOnly([list EXCEPT ![i] = FollowUp])
<1>1. FollowUp \in Question /\ FollowUp.type # "coding"
    BY DEF FollowUp, Question, QuestionTypes
<1>2. Len([list EXCEPT ![i] = FollowUp]) = Len(list) /\ DOMAIN list = 1..Len(list)
    BY <1>1, ExceptAnywhere, LenProperties
<1>3. QED
    BY <1>1, <1>2 DEF TextOnly

LEMMA StoredAnswer ==
    ASSUME NEW s \in InterviewSession, Stored(s)
    PROVE  /\ Stored(Answered(s, s.idx))
           /\ Answered(s, s.idx).answers = Append(s.answers, s.idx)
<1>1. s.idx \in Nat /\ s.answers \in Seq(Nat) /\ Len(s.answers) = s.idx
    BY DEF Stored, InOrder, InterviewSession
<1>2. /\ Answered(s, s.idx).answers = Append(s.answers, s.idx)
      /\ Answered(s, s.idx).idx = s.idx + 1
      /\ Answered(s, s.idx).questions = s.questions
    BY <1>1, AnsweredProgress
<1>3. /\ Len(Append(s.answers, s.idx)) = s.idx + 1
      /\ \A i \in 1..s.idx : Append(s.answers, s.idx)[i] = s.answers[i]
      /\ Append(s.answers, s.idx)[s.idx + 1] = s.idx
    BY <1>1, AppendProperties
<1>4. \A i \in 1..s.idx + 1 : Append(s.answers, s.idx)[i] = i - 1
    BY <1>1, <1>3 DEF Stored, InOrder
<1>5. QED
    BY <1>2, <1>3, <1>4 DEF Stored, InOrder

LEMMA AlignedStep == TextInterview /\ TypeOK /\ AlignedInv /\ [Next]_vars => AlignedInv'
<1> SUFFICES ASSUME TextInterview, TypeOK, AlignedInv, [Next]_vars PROVE AlignedInv'
    OBVIOUS
<1> USE DEF AlignedInv, Save
<1>0. session \in InterviewSession /\ saved \in InterviewSession
    BY DEF TypeOK
\* A thread that is not in a non-blocking stretch moves only when none is.
<1>1. ASSUME NEW r \in Threads, Runs(r), thr[r].at # "claimed"
      PROVE  \A q \in Threads : thr[q].at # "claimed"
    BY <1>1 DEF Runs, TextInterview
\* The next state of the threads is aligned when the one that moved is.
<1>2. ASSUME NEW r \in Threads, NEW new, thr' = [thr EXCEPT ![r] = new],
             \A q \in Threads \ {r} : thr[q].at # "claimed",
             new.at # "uploading", TextOnly(new.copy),
             new.at = "claimed" => new.index = session'.idx
      PROVE  ThreadsAligned'
  <2>1. thr'[r] = new /\ \A q \in Threads \ {r} : thr'[q] = thr[q]
    BY <1>2 DEF TypeOK
  <2>2. QED
    BY <1>2, <2>1 DEF ThreadsAligned
<1>3. TextOnly(<<>>)
    BY DEF TextOnly
<1>4. ASSUME NEW r \in Threads, NEW from, NEW to, Goes(r, from, to),
             from # "claimed", to \notin {"claimed", "uploading"}
      PROVE  ThreadsAligned'
  <2>1. \A q \in Threads : thr[q].at # "claimed"
    BY <1>4, <1>1 DEF Goes
  <2>2. CASE to = "idle"
    <3>1. thr' = [thr EXCEPT ![r] = Idle]
      BY <2>2, <1>4 DEF Goes
    <3>2. Idle.at = "idle" /\ Idle.copy = <<>>
      BY DEF Idle
    <3>3. QED
      BY <3>1, <3>2, <2>1, <1>2, <1>3
  <2>3. CASE to # "idle"
    <3> DEFINE new == [thr[r] EXCEPT !.at = to]
    <3>1. thr' = [thr EXCEPT ![r] = new]
      BY <2>3, <1>4 DEF Goes
    <3>2. new.at = to /\ new.copy = thr[r].copy
      BY DEF TypeOK, Thread
    <3>3. TextOnly(thr[r].copy)
      BY DEF ThreadsAligned
    <3> HIDE DEF new
    <3>4. QED
      BY <3>1, <3>2, <3>3, <2>1, <1>2, <1>4
  <2>4. QED
    BY <2>2, <2>3
\* A save that touches neither answers nor index.
<1>5. ASSUME NEW t, Save(t), SameAnswers(session, t), TextOnly(t.questions),
             ThreadsAligned'
      PROVE  AlignedInv'
    BY <1>5 DEF Stored, InOrder, SameAnswers
<1>6. ASSUME ThreadsAligned', UNCHANGED <<session, saved>> PROVE AlignedInv'
    BY <1>6
<1>7. TextOnly(session.questions)
    BY DEF Stored
<1>8. ASSUME NEW r \in Threads, Request(r) PROVE AlignedInv'
  <2>1. CASE GenerateQuestions(r)
    BY <2>1, <1>4, <1>6 DEF GenerateQuestions
  <2>2. CASE CurrentQuestion(r)
    <3> DEFINE t == [session EXCEPT !.status = "in_progress", !.started = TRUE]
    <3>1. SameAnswers(session, t) /\ t.questions = session.questions
      BY <1>0 DEF SameAnswers, InterviewSession
    <3>2. Save(t)
      BY <2>2 DEF CurrentQuestion
    <3>3. ThreadsAligned'
      BY <2>2, <1>4 DEF CurrentQuestion
    <3> HIDE DEF t
    <3>4. QED
      BY <3>1, <3>2, <3>3, <1>5, <1>7
  <2>3. CASE RunCodingPublicTests(r)
    <3> DEFINE t == [session EXCEPT !.status = "in_progress"]
    <3>1. SameAnswers(session, t) /\ t.questions = session.questions
      BY <1>0 DEF SameAnswers, InterviewSession
    <3>2. Save(t)
      BY <2>3 DEF RunCodingPublicTests
    <3>3. ThreadsAligned'
      BY <2>3, <1>4 DEF RunCodingPublicTests
    <3> HIDE DEF t
    <3>4. QED
      BY <3>1, <3>2, <3>3, <1>5, <1>7
  <2>4. CASE SubmitAnswer(r)
    <3> DEFINE new == [Idle EXCEPT !.at = "claimed", !.index = session.idx]
    <3>1. new.at = "claimed" /\ new.index = session.idx /\ new.copy = <<>>
      BY DEF Idle
    <3>2. /\ thr' = [thr EXCEPT ![r] = new]
          /\ UNCHANGED <<session, saved>>
          /\ Runs(r) /\ thr[r].at = "idle"
      BY <2>4 DEF SubmitAnswer, Claim
    <3> HIDE DEF new
    <3>3. ThreadsAligned'
      BY <3>1, <3>2, <1>1, <1>2, <1>3
    <3>4. QED
      BY <3>2, <3>3, <1>6
  <2>5. CASE SubmitCodingAnswer(r)
    <3>1. /\ session.questions[session.idx + 1].type = "coding"
          /\ session.idx < Len(session.questions)
      BY <2>5 DEF SubmitCodingAnswer, Claim, CanSubmit
    <3>2. session.idx + 1 \in 1..Len(session.questions)
      BY <3>1, <1>0, LenProperties DEF InterviewSession
    <3>3. QED
      BY <3>1, <3>2, <1>7 DEF TextOnly
  <2>6. CASE EndInterview(r)
    <3> DEFINE new == [Idle EXCEPT !.at = "flagging", !.concern = Concern(penalty)]
    <3>1. new.at = "flagging" /\ new.copy = <<>>
      BY DEF Idle
    <3>2. SameAnswers(session, Ended(session)) /\ Ended(session).questions = session.questions
      BY <1>0, EndedProgress DEF SameAnswers
    <3>3. /\ thr' = [thr EXCEPT ![r] = new]
          /\ Runs(r) /\ thr[r].at = "idle"
      BY <2>6 DEF EndInterview
    <3>4. Save(Ended(session))
      BY <2>6 DEF EndInterview, Ended
    <3> HIDE DEF new
    <3>5. ThreadsAligned'
      BY <3>1, <3>3, <1>1, <1>2, <1>3
    <3>6. QED
      BY <3>2, <3>4, <3>5, <1>5, <1>7
  <2>7. CASE AbandonRow(r)
    <3>1. ThreadsAligned'
      BY <2>7, <1>4 DEF AbandonRow
    <3>2. Stored(saved') /\ SameAnswers(saved, saved')
      BY <2>7, <1>0 DEF AbandonRow, Stored, InOrder, SameAnswers, InterviewSession
    <3>3. QED
      BY <2>7, <3>1, <3>2 DEF AbandonRow, SameAnswers
  <2>8. QED
    BY <1>8, <2>1, <2>2, <2>3, <2>4, <2>5, <2>6, <2>7 DEF Request
<1>9. ASSUME NEW r \in Threads, Work(r) PROVE AlignedInv'
  <2>0. thr[r] \in Thread /\ thr[r].index \in Nat /\ thr[r].copy \in Seq(Question)
    BY DEF TypeOK, Thread
  <2>1. CASE QuestionsGenerated(r)
    <3> DEFINE t == Regenerated(session)
    <3>1. t.answers = <<>> /\ t.idx = 0 /\ t.questions = Generated
      BY <1>0, RegeneratedProgress
    <3>2. Save(t)
      BY <2>1 DEF QuestionsGenerated
    <3>3. ThreadsAligned'
      BY <2>1, <1>4 DEF QuestionsGenerated
    <3>4. TextOnly(Generated)
      BY GeneratedType DEF TextOnly
    <3> HIDE DEF t
    <3>5. Stored(t)
      BY <3>1, <3>4 DEF Stored, InOrder
    <3>6. QED
      BY <3>2, <3>3, <3>5 DEF SameAnswers
  <2>2. CASE \/ GenerationFailed(r) \/ RecordStarted(r) \/ UploadFailed(r)
             \/ JudgmentLost(r)
    BY <2>2, <1>4, <1>6 DEF GenerationFailed, RecordStarted, UploadFailed, JudgmentLost
  <2>3. CASE \/ FlagForReview(r) \/ CheckReportMail(r) \/ ReportSent(r)
             \/ ReportNotSent(r) \/ MarkReportSent(r)
    BY <2>3, <1>4, <1>6 DEF FlagForReview, CheckReportMail, ReportSent, ReportNotSent,
                            MarkReportSent
  <2>4. CASE StoreAnswer(r)
    <3> DEFINE t   == Answered(session, session.idx)
               new == [thr[r] EXCEPT !.at = "judging", !.more = HasMore(session)]
    <3>1. thr[r].at = "claimed" /\ thr[r].index = session.idx
      BY <2>4 DEF StoreAnswer, ThreadsAligned
    <3>2. new.at = "judging" /\ new.copy = thr[r].copy
      BY <2>0 DEF Thread
    <3>3. thr' = [thr EXCEPT ![r] = new] /\ Save(t)
      BY <2>4, <3>1 DEF StoreAnswer, Judging
    <3>4. Stored(t)
      BY <1>0, StoredAnswer
    <3>5. TextOnly(thr[r].copy) /\ \A q \in Threads \ {r} : thr[q].at # "claimed"
      BY <3>1 DEF ThreadsAligned
    <3> HIDE DEF t, new
    <3>6. ThreadsAligned'
      BY <3>2, <3>3, <3>5, <1>2
    <3>7. QED
      BY <3>3, <3>4, <3>6 DEF SameAnswers
  <2>5. CASE JudgeAndAdapt(r)
    <3> DEFINE t   == JudgedAt(session, thr[r].index)
               new == [thr[r] EXCEPT !.at = "adapting", !.copy = session.questions]
    <3>1. SameProgress(session, t)
      BY <1>0, <2>0, JudgedAtProgress
    <3>2. new.at = "adapting" /\ new.copy = session.questions
      BY <2>0 DEF Thread
    <3>3. thr' = [thr EXCEPT ![r] = new] /\ session' = t /\ saved' = saved
      BY <2>5 DEF JudgeAndAdapt
    <3>4. Runs(r) /\ thr[r].at = "judging"
      BY <2>5 DEF JudgeAndAdapt
    <3> HIDE DEF t, new
    <3>5. ThreadsAligned'
      BY <3>2, <3>3, <3>4, <1>1, <1>2, <1>7
    <3>6. QED
      BY <3>1, <3>3, <3>5 DEF SameProgress, SameAnswers, Stored, InOrder
  <2>6. CASE JudgeAndSave(r)
    <3> DEFINE j == JudgedAt(session, thr[r].index)
               t == Settled(j)
    <3>1. j \in InterviewSession /\ SameProgress(session, j)
      BY <1>0, <2>0, JudgedAtType, JudgedAtProgress
    <3>2. SameProgress(session, t)
      BY <3>1, SettledProgress DEF SameProgress
    <3>3. Save(t) /\ ThreadsAligned'
      BY <2>6, <1>4 DEF JudgeAndSave
    <3> HIDE DEF j, t
    <3>4. QED
      BY <3>2, <3>3, <1>5, <1>7 DEF SameProgress, SameAnswers
  <2>7. CASE AdaptAndSave(r)
    <3> DEFINE list == [thr[r].copy EXCEPT ![thr[r].index + 2] = FollowUp]
               a    == [session EXCEPT !.questions = list]
               t    == Settled(a)
    <3>1. FollowUp \in Question
      BY DEF FollowUp, Question, QuestionTypes
    <3>2. list \in Seq(Question) /\ TextOnly(list)
      BY <2>0, <3>1, ExceptAnywhere, ExceptTextOnly DEF ThreadsAligned
    <3>3. a \in InterviewSession /\ a.questions = list /\ SameAnswers(session, a)
      BY <1>0, <3>2 DEF InterviewSession, SameAnswers
    <3>4. SameAnswers(session, t) /\ t.questions = list
      BY <3>3, SettledProgress DEF SameProgress, SameAnswers
    <3>5. Save(t) /\ ThreadsAligned'
      BY <2>7, <1>4 DEF AdaptAndSave
    <3> HIDE DEF list, a, t
    <3>6. QED
      BY <3>2, <3>4, <3>5, <1>5
  <2>8. CASE AdaptationFailed(r)
    <3> DEFINE t == Settled(session)
    <3>1. SameProgress(session, t)
      BY <1>0, SettledProgress
    <3>2. Save(t) /\ ThreadsAligned'
      BY <2>8, <1>4 DEF AdaptationFailed
    <3> HIDE DEF t
    <3>3. QED
      BY <3>1, <3>2, <1>5, <1>7 DEF SameProgress, SameAnswers
  <2>9. CASE AbandonCached(r)
    <3> DEFINE t == [session EXCEPT !.status = "abandoned"]
    <3>1. SameAnswers(session, t) /\ t.questions = session.questions
      BY <1>0 DEF SameAnswers, InterviewSession
    <3>2. Save(t) /\ ThreadsAligned'
      BY <2>9, <1>4 DEF AbandonCached
    <3> HIDE DEF t
    <3>3. QED
      BY <3>1, <3>2, <1>5, <1>7
  <2>10. QED
    BY <1>9, <2>1, <2>2, <2>3, <2>4, <2>5, <2>6, <2>7, <2>8, <2>9 DEF Work
<1>10. CASE Violation \/ ProctoringReset \/ TimeLimitReached \/ UNCHANGED vars
    BY <1>10 DEF Violation, ProctoringReset, TimeLimitReached, vars, ThreadsAligned
<1>11. CASE Restart
  <2>1. \A r \in Threads : thr'[r] = Idle
    BY <1>11 DEF Restart
  <2>2. Idle.at = "idle" /\ Idle.copy = <<>>
    BY DEF Idle
  <2>3. ThreadsAligned'
    BY <2>1, <2>2, <1>3 DEF ThreadsAligned
  <2>4. QED
    BY <1>11, <2>3 DEF Restart, SameAnswers
<1>12. QED
    BY <1>8, <1>9, <1>10, <1>11 DEF Next

LEMMA AlignedInit == TextInterview /\ Init => AlignedInv
<1> SUFFICES ASSUME TextInterview, Init PROVE AlignedInv
    OBVIOUS
<1>1. TextOnly(<<>>) /\ (Invite => TextOnly(NewPaper))
    BY NewPaperType DEF TextOnly, TextInterview
<1>2. Stored(session)
    BY <1>1 DEF Init, NewSession, Stored, InOrder
<1>3. ThreadsAligned
    BY <1>1 DEF Init, NewSession, ThreadsAligned, Idle
<1>4. QED
    BY <1>2, <1>3 DEF Init, AlignedInv, SameAnswers

\* In an open interview, or an invited one without coding questions, whose threads
\* switch only where they wait, the i-th answer answers the i-th question, whatever
\* overlaps, however often questions are generated, wherever the process restarts.
THEOREM Alignment ==
    ASSUME TextInterview
    PROVE  Spec => []AnswersAligned
<1>1. TypeOK /\ AlignedInv => AnswersAligned
  <2> SUFFICES ASSUME TypeOK, AlignedInv PROVE AnswersAligned
      OBVIOUS
  <2>1. DOMAIN session.answers = 1..Len(session.answers)
      BY LenProperties DEF TypeOK, InterviewSession
  <2>2. QED
      BY <2>1 DEF AlignedInv, Stored, InOrder, AnswersAligned
<1>2. TextInterview
    OBVIOUS
<1>3. QED
    BY <1>1, <1>2, AlignedInit, AlignedStep, TypeCorrect, PTL DEF Spec

\* Only a new list of questions moves the index back, a restart does not.
LEMMA IndexStep ==
    ASSUME TypeOK, AlignedInv, [Next]_vars
    PROVE  session'.idx >= session.idx \/ \E r \in Threads : QuestionsGenerated(r)
<1> USE DEF Save
<1>0. session \in InterviewSession /\ session.idx \in Nat
    BY DEF TypeOK, InterviewSession
<1>1. ASSUME session'.idx \in {session.idx, session.idx + 1}
      PROVE  session'.idx >= session.idx
    BY <1>0, <1>1
<1>2. ASSUME NEW r \in Threads, Request(r) PROVE session'.idx = session.idx
  <2>1. CASE \/ GenerateQuestions(r) \/ SubmitAnswer(r) \/ SubmitCodingAnswer(r)
             \/ AbandonRow(r)
    BY <2>1 DEF GenerateQuestions, SubmitAnswer, SubmitCodingAnswer, Claim, AbandonRow
  <2>2. CASE CurrentQuestion(r) \/ RunCodingPublicTests(r)
    BY <2>2, <1>0 DEF CurrentQuestion, RunCodingPublicTests, InterviewSession
  <2>3. CASE EndInterview(r)
    <3>1. session' = Ended(session)
      BY <2>3 DEF EndInterview, Ended
    <3>2. QED
      BY <3>1, <1>0, EndedProgress
  <2>4. QED
    BY <1>2, <2>1, <2>2, <2>3 DEF Request
<1>3. ASSUME NEW r \in Threads, Work(r), ~QuestionsGenerated(r)
      PROVE  session'.idx \in {session.idx, session.idx + 1}
  <2>0. thr[r].index \in Nat /\ thr[r].copy \in Seq(Question)
    BY DEF TypeOK, Thread
  <2>1. CASE UNCHANGED session
    BY <2>1
  <2>2. CASE StoreAnswer(r)
    BY <2>2, <2>0, <1>0, AnsweredProgress DEF StoreAnswer
  <2>3. CASE JudgeAndAdapt(r)
    BY <2>3, <2>0, <1>0, JudgedAtProgress DEF JudgeAndAdapt, SameProgress
  <2>4. CASE JudgeAndSave(r)
    <3>1. JudgedAt(session, thr[r].index) \in InterviewSession
      BY <2>0, <1>0, JudgedAtType
    <3>2. QED
      BY <2>4, <3>1, <2>0, <1>0, JudgedAtProgress, SettledProgress
         DEF JudgeAndSave, SameProgress
  <2>5. CASE AdaptAndSave(r)
    <3> DEFINE list == [thr[r].copy EXCEPT ![thr[r].index + 2] = FollowUp]
               a    == [session EXCEPT !.questions = list]
    <3>1. FollowUp \in Question
      BY DEF FollowUp, Question, QuestionTypes
    <3>2. list \in Seq(Question)
      BY <2>0, <3>1, ExceptAnywhere
    <3>3. a \in InterviewSession /\ a.idx = session.idx
      BY <1>0, <3>2 DEF InterviewSession
    <3>4. QED
      BY <2>5, <3>3, SettledProgress DEF AdaptAndSave, SameProgress
  <2>6. CASE AdaptationFailed(r)
    BY <2>6, <1>0, SettledProgress DEF AdaptationFailed, SameProgress
  <2>7. CASE AbandonCached(r)
    BY <2>7, <1>0 DEF AbandonCached, InterviewSession
  <2>8. QED
    BY <1>3, <2>1, <2>2, <2>3, <2>4, <2>5, <2>6, <2>7
       DEF Work, GenerationFailed, RecordStarted, UploadFailed, JudgmentLost,
           FlagForReview, CheckReportMail, ReportSent, ReportNotSent, MarkReportSent
<1>4. CASE Violation \/ ProctoringReset \/ TimeLimitReached \/ UNCHANGED vars
    BY <1>4, <1>0 DEF Violation, ProctoringReset, TimeLimitReached, vars
<1>5. CASE Restart
    BY <1>5, <1>0 DEF Restart, AlignedInv, SameAnswers
<1>6. QED
    BY <1>1, <1>2, <1>3, <1>4, <1>5, <1>0 DEF Next

\* Under the same conditions a stored answer is neither lost nor replaced: not
\* by an overlapping request, and not by a restart at any point.
THEOREM NoAnswerLost ==
    ASSUME TextInterview
    PROVE  Spec => AnswersKept
<1>1. ASSUME TypeOK, TypeOK', AlignedInv, AlignedInv', [Next]_vars
      PROVE  \/ IsAnswerPrefix(session.answers, session'.answers)
             \/ \E r \in Threads : QuestionsGenerated(r)
  <2>1. CASE session'.idx >= session.idx
    <3>1. /\ Len(session.answers) = session.idx /\ session.idx \in Nat
          /\ Len(session'.answers) = session'.idx /\ session'.idx \in Nat
          /\ DOMAIN session.answers = 1..session.idx
      BY <1>1, LenProperties DEF TypeOK, InterviewSession, AlignedInv, Stored, InOrder
    <3>2. \A i \in 1..session.idx : session.answers[i] = session'.answers[i]
      BY <1>1, <2>1, <3>1 DEF AlignedInv, Stored, InOrder
    <3>3. QED
      BY <2>1, <3>1, <3>2 DEF IsAnswerPrefix
  <2>2. QED
    BY <1>1, <2>1, IndexStep
<1>2. TextInterview
    OBVIOUS
<1>3. TypeOK /\ AlignedInv /\ [Next]_vars => AlignedInv'
    BY <1>2, AlignedStep
<1>4. Init => AlignedInv
    BY <1>2, AlignedInit
<1>5. Spec => [](TypeOK /\ AlignedInv)
    BY <1>3, <1>4, TypeCorrect, PTL DEF Spec
<1>6. TypeOK /\ TypeOK' /\ AlignedInv /\ AlignedInv' /\ [Next]_vars
      => [ \/ IsAnswerPrefix(session.answers, session'.answers)
           \/ \E r \in Threads : QuestionsGenerated(r) ]_vars
    BY <1>1
<1>7. QED
    BY <1>5, <1>6, PTL DEF Spec, AnswersKept

-----------------------------------------------------------------------------
(* The score.  A slot without a judgment belongs to a thread that is still   *)
(* judging it, so whichever thread saves last aggregates all of them.        *)

Awaited(i) == \E r \in Threads : thr[r].at = "judging" /\ thr[r].index = i - 1

SlotsAwaited ==
    \A i \in 1..Len(session.judgments) : session.judgments[i] = "judged" \/ Awaited(i)
JudgingKnown ==
    \A r \in Threads : thr[r].at = "judging" => thr[r].index < Len(session.judgments)
PaperThere ==
    Len(session.questions) = 0 =>
        session.status # "completed" /\ \A r \in Threads : thr[r].at # "claimed"

CoverInv == SlotsAwaited /\ JudgingKnown /\ PaperThere /\ FinalCoversPaper

\* A penalty that is applied is flagged, or the request that applied it is about to.
FlagInv ==
    session.final # NoScore /\ session.final.penalty > 10 =>
        review \/ \E r \in Threads : thr[r].at = "flagging" /\ thr[r].concern

\* A step of a thread that has no judgment to give and changes neither questions,
\* judgments nor score, nor completes the session.
LEMMA CoverQuiet ==
    ASSUME TypeOK, CoverInv, NEW r \in Threads, NEW new, thr' = [thr EXCEPT ![r] = new],
           thr[r].at \notin {"judging", "adapting"}, new.at \notin {"judging", "adapting"},
           new.at = "claimed" => Len(session.questions) # 0,
           session'.questions = session.questions, session'.judgments = session.judgments,
           session'.final = session.final \/ session'.status # "completed",
           session'.status = "completed" => session.status = "completed"
    PROVE  CoverInv'
<1>1. thr'[r] = new /\ \A q \in Threads \ {r} : thr'[q] = thr[q]
    BY DEF TypeOK
<1>2. SlotsAwaited'
  <2>1. ASSUME NEW i, Awaited(i) PROVE Awaited(i)'
      BY <1>1, <2>1 DEF Awaited
  <2>2. QED
      BY <2>1 DEF CoverInv, SlotsAwaited
<1>3. JudgingKnown'
    BY <1>1 DEF CoverInv, JudgingKnown
<1>4. PaperThere'
    BY <1>1 DEF CoverInv, PaperThere
<1>5. FinalCoversPaper'
  <2> SUFFICES ASSUME session'.status = "completed", ~InFlight({"judging", "adapting"})'
               PROVE  /\ session'.final # NoScore
                      /\ session'.final.covers = 1..Len(session'.questions)
      BY DEF FinalCoversPaper
  <2>1. ~InFlight({"judging", "adapting"})
      BY <1>1 DEF InFlight
  <2>2. QED
      BY <2>1 DEF CoverInv, FinalCoversPaper
<1>6. QED
    BY <1>2, <1>3, <1>4, <1>5 DEF CoverInv

\* The last save of a completed session aggregates every slot, if none is awaited.
LEMMA LastCovers ==
    ASSUME NEW s \in InterviewSession, Progress(s), s.status = "completed",
           Len(s.answers) = s.idx, Len(s.questions) # 0,
           \A i \in 1..Len(s.judgments) : s.judgments[i] = "judged"
    PROVE  /\ Settled(s).final # NoScore
           /\ Settled(s).final.covers = 1..Len(s.questions)
<1>1. /\ Len(s.questions) \in Nat /\ Len(s.judgments) \in Nat /\ s.idx \in Nat
      /\ s.idx >= Len(s.questions) /\ s.idx <= Len(s.judgments)
    BY LenProperties DEF InterviewSession, Progress
<1>2. JudgedSlots(s) = 1..Len(s.questions)
    BY <1>1 DEF JudgedSlots
<1>3. 1 \in 1..Len(s.questions)
    BY <1>1
<1>4. Settled(s) = [s EXCEPT !.final = [covers |-> JudgedSlots(s), penalty |-> 0]]
    BY <1>1, <1>2, <1>3 DEF Settled, WithFinalScore
<1>5. Settled(s).final = [covers |-> 1..Len(s.questions), penalty |-> 0]
    BY <1>2, <1>4 DEF InterviewSession
<1>6. [covers |-> 1..Len(s.questions), penalty |-> 0] \in Score
    BY <1>1 DEF Score
<1>7. QED
    BY <1>5, <1>6, NoScoreAssumption DEF Score

\* What a thread keeps when it moves to another step.
LEMMA GoesTo ==
    ASSUME TypeOK, NEW r \in Threads, NEW from, NEW to, Goes(r, from, to)
    PROVE  /\ thr[r].at = from /\ thr'[r].at = to
           /\ to # "idle" => thr'[r] = [thr[r] EXCEPT !.at = to]
           /\ \A q \in Threads \ {r} : thr'[q] = thr[q]
           /\ thr' = [thr EXCEPT ![r] = thr'[r]]
<1>1. thr[r] \in Thread
    BY DEF TypeOK
<1>2. QED
    BY <1>1 DEF Goes, TypeOK, Thread, Idle

\* The save that ends the judging of an answer: of s, whose slots no thread but r
\* awaited.
LEMMA CoverSaved ==
    ASSUME TypeOK, CoverInv, NEW r \in Threads, thr'[r].at = "idle",
           \A q \in Threads \ {r} : thr'[q] = thr[q],
           NEW s \in InterviewSession, session' = Settled(s), Progress(s), Len(s.answers) = s.idx,
           Len(s.questions) # 0, Len(s.judgments) = Len(session.judgments),
           \A i \in 1..Len(s.judgments) : s.judgments[i] = "judged" \/ Awaited(i)'
    PROVE  CoverInv'
<1>1. SameProgress(s, session') /\ session'.judgments = s.judgments
    BY SettledProgress
<1>2. SlotsAwaited'
    BY <1>1 DEF SlotsAwaited
<1>3. JudgingKnown'
    BY <1>1 DEF CoverInv, JudgingKnown
<1>4. PaperThere'
    BY <1>1 DEF PaperThere, SameProgress
<1>5. FinalCoversPaper'
  <2> SUFFICES ASSUME session'.status = "completed", ~InFlight({"judging", "adapting"})'
               PROVE  /\ session'.final # NoScore
                      /\ session'.final.covers = 1..Len(session'.questions)
      BY DEF FinalCoversPaper
  <2>1. \A i \in 1..Len(s.judgments) : s.judgments[i] = "judged"
      BY DEF InFlight, Awaited
  <2>2. s.status = "completed" /\ session'.questions = s.questions
      BY <1>1 DEF SameProgress
  <2>3. QED
      BY <2>1, <2>2, LastCovers
<1>6. QED
    BY <1>2, <1>3, <1>4, <1>5 DEF CoverInv

LEMMA CoverStep ==
    ASSUME TextInterview, MaxCrashes = 0, TypeOK, ProgressInv, AlignedInv, CoverInv, [Next]_vars
    PROVE  CoverInv'
<1> USE DEF Save
<1>0. session \in InterviewSession
    BY DEF TypeOK
<1>1. \A r \in Threads : thr[r] \in Thread
    BY DEF TypeOK
\* Steps whose thread has no judgment to give.
<1>2. ASSUME NEW r \in Threads, NEW from, NEW to, Goes(r, from, to),
             from \notin {"judging", "adapting"}, to \notin {"judging", "adapting", "claimed"},
             session'.questions = session.questions, session'.judgments = session.judgments,
             session'.final = session.final,
             session'.status = "completed" => session.status = "completed"
      PROVE  CoverInv'
  <2>1. thr' = [thr EXCEPT ![r] = thr'[r]] /\ thr[r].at = from /\ thr'[r].at = to
      BY <1>2, GoesTo
  <2>2. QED
      BY <1>2, <2>1, CoverQuiet
<1>3. ASSUME NEW r \in Threads, Request(r) PROVE CoverInv'
  <2>1. CASE GenerateQuestions(r)
      BY <2>1, <1>2 DEF GenerateQuestions
  <2>2. CASE CurrentQuestion(r)
    <3> DEFINE t == [session EXCEPT !.status = "in_progress", !.started = TRUE]
    <3>1. /\ t.questions = session.questions /\ t.judgments = session.judgments
          /\ t.final = session.final /\ t.status = "in_progress"
        BY <1>0 DEF InterviewSession
    <3>2. PICK to \in {"starting", "idle"} : Goes(r, "idle", to)
        BY <2>2 DEF CurrentQuestion
    <3>3. session' = t
        BY <2>2 DEF CurrentQuestion
    <3> HIDE DEF t
    <3>4. QED
        BY <3>1, <3>2, <3>3, <1>2
  <2>3. CASE RunCodingPublicTests(r)
    <3> DEFINE t == [session EXCEPT !.status = "in_progress"]
    <3>1. /\ t.questions = session.questions /\ t.judgments = session.judgments
          /\ t.final = session.final /\ t.status = "in_progress"
        BY <1>0 DEF InterviewSession
    <3>2. Goes(r, "idle", "idle") /\ session' = t
        BY <2>3 DEF RunCodingPublicTests
    <3> HIDE DEF t
    <3>3. QED
        BY <3>1, <3>2, <1>2
  <2>4. CASE SubmitAnswer(r)
    <3> DEFINE new == [Idle EXCEPT !.at = "claimed", !.index = session.idx]
    <3>1. new.at = "claimed"
        BY DEF Idle
    <3>2. /\ thr' = [thr EXCEPT ![r] = new] /\ thr[r].at = "idle" /\ session' = session
          /\ session.questions # <<>>
        BY <2>4 DEF SubmitAnswer, Claim, CanSubmit
    <3>3. Len(session.questions) # 0
        BY <3>2, <1>0, EmptySeq DEF InterviewSession
    <3> HIDE DEF new
    <3>4. QED
        BY <3>1, <3>2, <3>3, CoverQuiet
  <2>5. CASE SubmitCodingAnswer(r)
    <3>1. /\ session.questions[session.idx + 1].type = "coding"
          /\ session.idx < Len(session.questions)
        BY <2>5 DEF SubmitCodingAnswer, Claim, CanSubmit
    <3>2. session.idx + 1 \in 1..Len(session.questions)
        BY <3>1, <1>0, LenProperties DEF InterviewSession
    <3>3. QED
        BY <3>1, <3>2 DEF AlignedInv, Stored, TextOnly
  <2>6. CASE EndInterview(r)
    <3> DEFINE new == [Idle EXCEPT !.at = "flagging", !.concern = Concern(penalty)]
    <3>1. new.at = "flagging"
        BY DEF Idle
    <3>2. session' = Ended(session) /\ thr' = [thr EXCEPT ![r] = new] /\ thr[r].at = "idle"
        BY <2>6 DEF EndInterview, Ended
    <3> HIDE DEF new
    <3>3. QED
        BY <3>1, <3>2, <1>0, EndedProgress, CoverQuiet
  <2>7. CASE AbandonRow(r)
      BY <2>7, <1>2 DEF AbandonRow
  <2>8. QED
      BY <1>3, <2>1, <2>2, <2>3, <2>4, <2>5, <2>6, <2>7 DEF Request
<1>4. ASSUME NEW r \in Threads, Work(r) PROVE CoverInv'
  <2>0. thr[r] \in Thread /\ thr[r].index \in Nat /\ thr[r].copy \in Seq(Question)
      BY <1>1 DEF Thread
  <2>1. CASE QuestionsGenerated(r)
    <3>1. Goes(r, "generating", "idle") /\ session' = Regenerated(session)
        BY <2>1 DEF QuestionsGenerated
    <3>2. /\ thr'[r].at = "idle" /\ thr[r].at = "generating"
          /\ \A q \in Threads \ {r} : thr'[q] = thr[q]
        BY <3>1, GoesTo
    <3>3. /\ session'.judgments = session.judgments /\ session'.status = "questions_ready"
          /\ Len(session'.questions) # 0
        BY <3>1, <1>0, RegeneratedProgress, GeneratedType
    <3>4. SlotsAwaited'
      <4>1. ASSUME NEW i, Awaited(i) PROVE Awaited(i)'
          BY <3>2, <4>1 DEF Awaited
      <4>2. QED
          BY <3>3, <4>1 DEF CoverInv, SlotsAwaited
    <3>5. JudgingKnown'
        BY <3>2, <3>3 DEF CoverInv, JudgingKnown
    <3>6. QED
        BY <3>3, <3>4, <3>5 DEF CoverInv, PaperThere, FinalCoversPaper
  <2>2. CASE \/ GenerationFailed(r) \/ RecordStarted(r) \/ UploadFailed(r)
      BY <2>2, <1>2 DEF GenerationFailed, RecordStarted, UploadFailed
  <2>3. CASE \/ FlagForReview(r) \/ CheckReportMail(r) \/ ReportSent(r)
             \/ ReportNotSent(r) \/ MarkReportSent(r)
    <3>1. CASE CheckReportMail(r)
      <4>1. PICK to \in {"mailing", "idle"} : Goes(r, "mail_check", to)
          BY <3>1 DEF CheckReportMail
      <4>2. session' = session
          BY <3>1 DEF CheckReportMail
      <4>3. QED
          BY <4>1, <4>2, <1>2
    <3>2. QED
        BY <2>3, <3>1, <1>2 DEF FlagForReview, ReportSent, ReportNotSent, MarkReportSent
  <2>4. CASE StoreAnswer(r)
    <3> DEFINE t   == Answered(session, session.idx)
               new == [thr[r] EXCEPT !.at = "judging", !.more = HasMore(session)]
    <3>1. thr[r].at = "claimed" /\ thr[r].index = session.idx
        BY <2>4 DEF StoreAnswer, AlignedInv, ThreadsAligned
    <3>2. new.at = "judging" /\ new.index = session.idx
        BY <2>0, <3>1 DEF Thread
    <3>3. thr' = [thr EXCEPT ![r] = new] /\ session' = t
        BY <2>4, <3>1 DEF StoreAnswer, Judging
    <3>4. session.idx \in Nat /\ session.idx <= Len(session.judgments) /\ Len(session.judgments) \in Nat
        BY <1>0, LenProperties DEF ProgressInv, Progress, AlignedInv, Stored, InOrder, InterviewSession
    <3>5. /\ t.questions = session.questions
          /\ t.judgments = IF Len(session.judgments) <= session.idx THEN Append(session.judgments, "none")
                           ELSE session.judgments
        BY <1>0 DEF Answered, InterviewSession
    <3> HIDE DEF t, new
    <3>6. thr'[r] = new /\ \A q \in Threads \ {r} : thr'[q] = thr[q]
        BY <3>3 DEF TypeOK
    <3>7. /\ Len(t.judgments) \in Nat /\ Len(t.judgments) >= Len(session.judgments)
          /\ session.idx < Len(t.judgments)
          /\ \A i \in 1..Len(t.judgments) :
                 \/ i = session.idx + 1
                 \/ i \in 1..Len(session.judgments) /\ t.judgments[i] = session.judgments[i]
      <4>1. CASE Len(session.judgments) <= session.idx
        <5>1. t.judgments = Append(session.judgments, "none") /\ Len(session.judgments) = session.idx
            BY <3>4, <3>5, <4>1
        <5>2. /\ Len(t.judgments) = Len(session.judgments) + 1
              /\ \A i \in 1..Len(session.judgments) : t.judgments[i] = session.judgments[i]
            BY <5>1, <1>0, AppendProperties DEF InterviewSession
        <5>3. QED
            BY <3>4, <5>1, <5>2
      <4>2. CASE ~(Len(session.judgments) <= session.idx)
          BY <3>4, <3>5, <4>2
      <4>3. QED
          BY <4>1, <4>2
    <3>8. SlotsAwaited'
      <4> SUFFICES ASSUME NEW i \in 1..Len(t.judgments)
                   PROVE  t.judgments[i] = "judged" \/ Awaited(i)'
          BY <3>3 DEF SlotsAwaited
      <4>1. CASE i = session.idx + 1
          BY <3>2, <3>4, <3>6, <4>1 DEF Awaited
      <4>2. CASE i \in 1..Len(session.judgments) /\ t.judgments[i] = session.judgments[i]
        <5>1. Awaited(i) => Awaited(i)'
            BY <3>1, <3>6 DEF Awaited
        <5>2. QED
            BY <4>2, <5>1 DEF CoverInv, SlotsAwaited
      <4>3. QED
          BY <3>7, <4>1, <4>2
    <3>9. JudgingKnown'
      <4> SUFFICES ASSUME NEW q \in Threads, thr'[q].at = "judging"
                   PROVE  thr'[q].index < Len(t.judgments)
          BY <3>3 DEF JudgingKnown
      <4>1. CASE q = r
          BY <3>2, <3>6, <3>7, <4>1
      <4>2. CASE q # r
        <5>1. thr[q].index \in Nat /\ thr[q].index < Len(session.judgments) /\ thr'[q] = thr[q]
            BY <3>6, <4>2, <1>1 DEF CoverInv, JudgingKnown, Thread
        <5>2. QED
            BY <3>4, <3>7, <5>1
      <4>3. QED
          BY <4>1, <4>2
    <3>10. PaperThere'
        BY <3>1, <3>3, <3>5 DEF CoverInv, PaperThere
    <3>11. FinalCoversPaper'
        BY <3>2, <3>6 DEF FinalCoversPaper, InFlight
    <3>12. QED
        BY <3>8, <3>9, <3>10, <3>11 DEF CoverInv
  <2>5. CASE JudgmentLost(r)
    <3>1. thr[r].at = "judging" /\ thr[r].index >= Len(session.judgments)
        BY <2>5 DEF JudgmentLost, Goes
    <3>2. thr[r].index < Len(session.judgments) /\ Len(session.judgments) \in Nat
        BY <3>1, <1>0, LenProperties DEF CoverInv, JudgingKnown, InterviewSession
    <3>3. QED
        BY <2>0, <3>1, <3>2
  \* The judgment a thread gives, and the slots that the others still owe.
  <2>6. ASSUME NEW j, j = JudgedAt(session, thr[r].index), thr[r].index < Len(session.judgments),
               thr[r].at = "judging", thr'[r].at # "judging",
               \A q \in Threads \ {r} : thr'[q] = thr[q]
        PROVE  /\ j \in InterviewSession /\ SameProgress(session, j)
               /\ Len(j.judgments) = Len(session.judgments)
               /\ \A i \in 1..Len(j.judgments) : j.judgments[i] = "judged" \/ Awaited(i)'
    <3>1. /\ j \in InterviewSession /\ SameProgress(session, j)
          /\ Len(j.judgments) = Len(session.judgments)
        BY <2>0, <2>6, <1>0, JudgedAtType, JudgedAtProgress
    <3>2. j.judgments = [session.judgments EXCEPT ![thr[r].index + 1] = "judged"]
        BY <2>6, <1>0 DEF JudgedAt, InterviewSession
    <3>3. Len(session.judgments) \in Nat /\ DOMAIN session.judgments = 1..Len(session.judgments)
        BY <1>0, LenProperties DEF InterviewSession
    <3>4. ASSUME NEW i \in 1..Len(j.judgments) PROVE j.judgments[i] = "judged" \/ Awaited(i)'
      <4>1. CASE i = thr[r].index + 1
          BY <3>1, <3>2, <3>3, <3>4, <4>1
      <4>2. CASE i # thr[r].index + 1
        <5>1. j.judgments[i] = session.judgments[i]
            BY <3>1, <3>2, <3>3, <3>4, <4>2
        <5>2. Awaited(i) => Awaited(i)'
          <6> SUFFICES ASSUME NEW q \in Threads, thr[q].at = "judging", thr[q].index = i - 1
                       PROVE  Awaited(i)'
              BY DEF Awaited
          <6>1. q # r
              BY <2>0, <3>1, <3>3, <3>4, <4>2
          <6>2. QED
              BY <2>6, <6>1 DEF Awaited
        <5>3. QED
            BY <3>1, <3>4, <5>1, <5>2 DEF CoverInv, SlotsAwaited
      <4>3. QED
          BY <4>1, <4>2
    <3>5. QED
        BY <3>1, <3>4
  <2>7. Len(session.answers) = session.idx /\ Progress(session)
      BY DEF AlignedInv, Stored, InOrder, ProgressInv
  <2>8. CASE JudgeAndAdapt(r)
    <3>1. /\ thr[r].at = "judging" /\ thr[r].index < Len(session.judgments)
          /\ session' = JudgedAt(session, thr[r].index)
          /\ thr[r].index + 1 < Len(session.questions)
        BY <2>8 DEF JudgeAndAdapt, Adapts
    <3>2. thr'[r].at = "adapting" /\ \A q \in Threads \ {r} : thr'[q] = thr[q]
        BY <2>8, <2>0 DEF JudgeAndAdapt, TypeOK, Thread
    <3>3. /\ SameProgress(session, session') /\ Len(session'.judgments) = Len(session.judgments)
          /\ \A i \in 1..Len(session'.judgments) : session'.judgments[i] = "judged" \/ Awaited(i)'
        BY <2>6, <3>1, <3>2
    <3>4. SlotsAwaited' /\ JudgingKnown'
        BY <3>2, <3>3 DEF CoverInv, SlotsAwaited, JudgingKnown
    <3>5. PaperThere'
        BY <2>0, <3>1, <3>3 DEF PaperThere, SameProgress
    <3>6. FinalCoversPaper'
        BY <3>2 DEF FinalCoversPaper, InFlight
    <3>7. QED
        BY <3>4, <3>5, <3>6 DEF CoverInv
  <2>9. CASE JudgeAndSave(r)
    <3>1. Goes(r, "judging", "idle") /\ thr[r].index < Len(session.judgments)
        BY <2>9 DEF JudgeAndSave
    <3>2. PICK j : j = JudgedAt(session, thr[r].index) /\ session' = Settled(j)
        BY <2>9 DEF JudgeAndSave
    <3>3. /\ thr[r].at = "judging" /\ thr'[r].at = "idle"
          /\ \A q \in Threads \ {r} : thr'[q] = thr[q]
        BY <3>1, GoesTo
    <3>4. /\ j \in InterviewSession /\ SameProgress(session, j)
          /\ Len(j.judgments) = Len(session.judgments)
          /\ \A i \in 1..Len(j.judgments) : j.judgments[i] = "judged" \/ Awaited(i)'
        BY <2>6, <3>1, <3>2, <3>3
    <3>5. Progress(j) /\ Len(j.answers) = j.idx
        BY <2>7, <3>4 DEF Progress, SameProgress
    <3>6. CASE Len(j.questions) # 0
        BY <3>2, <3>3, <3>4, <3>5, <3>6, CoverSaved
    <3>7. CASE Len(j.questions) = 0
      <4>1. SameProgress(session, session') /\ session'.judgments = j.judgments
          BY <3>2, <3>4, SettledProgress DEF SameProgress
      <4>2. session'.status # "completed" /\ \A q \in Threads : thr'[q].at # "claimed"
          BY <3>3, <3>4, <3>7, <4>1 DEF CoverInv, PaperThere, SameProgress
      <4>3. QED
          BY <3>3, <3>4, <4>1, <4>2
          DEF CoverInv, SlotsAwaited, JudgingKnown, PaperThere, FinalCoversPaper
    <3>8. QED
        BY <3>6, <3>7
  \* A thread that has written a follow-up, or not, owes no judgment.
  <2>10. ASSUME NEW s \in InterviewSession, Goes(r, "adapting", "idle"), session' = Settled(s),
                Progress(s), Len(s.answers) = s.idx, Len(s.questions) # 0,
                s.judgments = session.judgments
         PROVE  CoverInv'
    <3>1. /\ thr[r].at = "adapting" /\ thr'[r].at = "idle"
          /\ \A q \in Threads \ {r} : thr'[q] = thr[q]
        BY <2>10, GoesTo
    <3>2. ASSUME NEW i \in 1..Len(s.judgments) PROVE s.judgments[i] = "judged" \/ Awaited(i)'
      <4>1. Awaited(i) => Awaited(i)'
          BY <3>1 DEF Awaited
      <4>2. QED
          BY <2>10, <3>2, <4>1 DEF CoverInv, SlotsAwaited
    <3>3. QED
        BY <2>10, <3>1, <3>2, CoverSaved
  <2>11. CASE AdaptAndSave(r)
    <3> DEFINE list == [thr[r].copy EXCEPT ![thr[r].index + 2] = FollowUp]
               a    == [session EXCEPT !.questions = list]
    <3>1. Goes(r, "adapting", "idle") /\ session' = Settled(a)
        BY <2>11 DEF AdaptAndSave
    <3>2. FollowUp \in Question
        BY DEF FollowUp, Question, QuestionTypes
    <3>3. thr[r].at = "adapting"
        BY <3>1 DEF Goes
    <3>4. list \in Seq(Question) /\ Len(list) = Len(Paper) /\ Len(session.questions) = Len(Paper)
        BY <2>0, <3>2, <3>3, ExceptAnywhere DEF ProgressInv, WholeCopies
    <3>5. /\ a \in InterviewSession /\ a.questions = list /\ a.judgments = session.judgments
          /\ a.answers = session.answers /\ a.idx = session.idx /\ a.status = session.status
        BY <1>0, <3>4 DEF InterviewSession
    <3>6. Len(list) # 0
        BY <3>4, NewPaperType
    <3> HIDE DEF list, a
    <3>7. Progress(a) /\ Len(a.answers) = a.idx /\ Len(a.questions) # 0
        BY <2>7, <3>4, <3>5, <3>6 DEF Progress
    <3>8. QED
        BY <2>10, <3>1, <3>5, <3>7
  <2>12. CASE AdaptationFailed(r)
    <3>1. Goes(r, "adapting", "idle") /\ session' = Settled(session)
        BY <2>12 DEF AdaptationFailed
    <3>2. Len(session.questions) # 0
        BY <3>1, NewPaperType DEF Goes, ProgressInv, WholeCopies
    <3>3. QED
        BY <1>0, <2>7, <2>10, <3>1, <3>2
  <2>13. CASE AbandonCached(r)
    <3> DEFINE t == [session EXCEPT !.status = "abandoned"]
    <3>1. /\ t.questions = session.questions /\ t.judgments = session.judgments
          /\ t.final = session.final /\ t.status = "abandoned"
        BY <1>0 DEF InterviewSession
    <3>2. Goes(r, "abandoning", "idle") /\ session' = t
        BY <2>13 DEF AbandonCached
    <3> HIDE DEF t
    <3>3. QED
        BY <3>1, <3>2, <1>2
  <2>14. QED
      BY <1>4, <2>1, <2>2, <2>3, <2>4, <2>5, <2>8, <2>9, <2>11, <2>12, <2>13 DEF Work
<1>5. CASE Violation \/ ProctoringReset \/ TimeLimitReached \/ UNCHANGED vars
  <2>1. UNCHANGED <<session, thr>>
      BY <1>5 DEF Violation, ProctoringReset, TimeLimitReached, vars
  <2>2. QED
      BY <2>1 DEF CoverInv, SlotsAwaited, Awaited, JudgingKnown, PaperThere, FinalCoversPaper, InFlight
<1>6. CASE Restart
    BY <1>6 DEF Restart, TypeOK
<1>7. QED
    BY <1>3, <1>4, <1>5, <1>6 DEF Next

\* Under the same conditions and without a restart (it forgets the answers that
\* were being judged), the score of a completed interview covers every question
\* as soon as no judgment is on its way, in whatever order the judgments came.
THEOREM ScoreCovers ==
    ASSUME TextInterview, MaxCrashes = 0
    PROVE  Spec => []FinalCoversPaper
<1>1. Init => CoverInv
  <2> SUFFICES ASSUME Init PROVE CoverInv
      OBVIOUS
  <2>1. Len(session.judgments) = 0 /\ session.status # "completed"
        /\ \A r \in Threads : thr[r].at = "idle"
      BY DEF Init, NewSession, Idle
  <2>2. QED
      BY <2>1 DEF CoverInv, SlotsAwaited, JudgingKnown, PaperThere, FinalCoversPaper
<1>2. TextInterview /\ MaxCrashes = 0
    OBVIOUS
<1>3. TypeOK /\ ProgressInv /\ AlignedInv /\ CoverInv /\ [Next]_vars => AlignedInv' /\ CoverInv'
    BY <1>2, AlignedStep, CoverStep
<1>4. Init => AlignedInv
    BY <1>2, AlignedInit
<1>5. CoverInv => FinalCoversPaper
    BY DEF CoverInv
<1>6. QED
    BY <1>1, <1>3, <1>4, <1>5, TypeCorrect, ProgressInvariant, PTL DEF Spec

\* Scores are only made again without a penalty, or with the present one by a
\* request that goes on to flag it.
LEMMA FlagStep ==
    ASSUME MaxCrashes = 0, TypeOK, FlagInv, [Next]_vars PROVE FlagInv'
<1> USE DEF Save
<1>0. session \in InterviewSession
    BY DEF TypeOK
\* A step whose thread is not past an end it has not flagged.
<1>1. ASSUME NEW r \in Threads, thr[r].at # "flagging", \A q \in Threads \ {r} : thr'[q] = thr[q],
             review' = review,
             session'.final = session.final \/ session'.final.penalty = 0
      PROVE  FlagInv'
  <2> SUFFICES ASSUME session'.final # NoScore, session'.final.penalty > 10
               PROVE  review' \/ \E q \in Threads : thr'[q].at = "flagging" /\ thr'[q].concern
      BY DEF FlagInv
  <2>1. review \/ \E q \in Threads : thr[q].at = "flagging" /\ thr[q].concern
      BY <1>1 DEF FlagInv
  <2>2. QED
      BY <1>1, <2>1
<1>2. ASSUME NEW s \in InterviewSession
      PROVE  Settled(s).final = s.final \/ Settled(s).final.penalty = 0
    BY DEF Settled, WithFinalScore, InterviewSession
<1>3. ASSUME NEW r \in Threads, Request(r) PROVE FlagInv'
  <2>1. CASE \/ GenerateQuestions(r) \/ CurrentQuestion(r) \/ RunCodingPublicTests(r) \/ AbandonRow(r)
    <3>1. session'.final = session.final
        BY <2>1, <1>0 DEF GenerateQuestions, CurrentQuestion, RunCodingPublicTests, AbandonRow, InterviewSession
    <3>2. thr[r].at # "flagging" /\ review' = review
        BY <2>1 DEF GenerateQuestions, CurrentQuestion, RunCodingPublicTests, AbandonRow, notices, Goes
    <3>3. \E to : Goes(r, "idle", to)
        BY <2>1 DEF GenerateQuestions, CurrentQuestion, RunCodingPublicTests, AbandonRow
    <3>4. QED
        BY <3>1, <3>2, <3>3, <1>1, GoesTo
  <2>2. CASE SubmitAnswer(r) \/ SubmitCodingAnswer(r)
      BY <2>2, <1>1 DEF SubmitAnswer, SubmitCodingAnswer, Claim, notices, TypeOK
  <2>3. CASE EndInterview(r)
    <3> DEFINE new == [Idle EXCEPT !.at = "flagging", !.concern = Concern(penalty)]
    <3>1. new.at = "flagging" /\ new.concern = (penalty > 10)
        BY DEF Idle, Concern
    <3>2. /\ session' = Ended(session) /\ thr[r].at = "idle" /\ review' = review
          /\ thr'[r] = new /\ \A q \in Threads \ {r} : thr'[q] = thr[q]
        BY <2>3 DEF EndInterview, Ended, notices, TypeOK
    <3>3. CASE session'.final = session.final \/ session'.final.penalty = 0
        BY <3>2, <3>3, <1>1
    <3>4. CASE ~(session'.final = session.final \/ session'.final.penalty = 0)
      <4>1. session'.final.penalty = penalty
        <5> DEFINE ended == [session EXCEPT !.status = "ended"]
        <5>1. PICK s \in InterviewSession :
                /\ s = (IF ended.final = NoScore THEN WithFinalScore(ended) ELSE ended)
                /\ s.final = session.final \/ s.final.penalty = 0
          <6>1. ended \in InterviewSession /\ ended.final = session.final
              BY <1>0 DEF InterviewSession, Statuses
          <6>2. WithFinalScore(ended) \in InterviewSession
              BY <6>1, WithFinalScoreType
          <6>3. WithFinalScore(ended).final = ended.final \/ WithFinalScore(ended).final.penalty = 0
              BY <6>1 DEF WithFinalScore, InterviewSession
          <6> HIDE DEF ended
          <6>4. QED
              BY <6>1, <6>2, <6>3
        <5>2. session' = Penalised(s)
            BY <3>2, <5>1 DEF Ended
        <5>3. Penalised(s) = s \/ (s.final # NoScore /\ Penalised(s) = [s EXCEPT !.final.penalty = penalty])
            BY DEF Penalised
        <5>4. CASE Penalised(s) = s
            BY <3>4, <5>1, <5>2, <5>4
        <5>5. CASE s.final # NoScore /\ Penalised(s) = [s EXCEPT !.final.penalty = penalty]
          <6>1. s.final \in Score
              BY <5>5 DEF InterviewSession
          <6>2. QED
              BY <5>2, <5>5, <6>1 DEF InterviewSession, Score
        <5>6. QED
            BY <5>3, <5>4, <5>5
      <4> HIDE DEF new
      <4>2. QED
          BY <3>1, <3>2, <4>1 DEF FlagInv
    <3>5. QED
        BY <3>3, <3>4
  <2>4. QED
      BY <1>3, <2>1, <2>2, <2>3 DEF Request
<1>4. ASSUME NEW r \in Threads, Work(r) PROVE FlagInv'
  <2>0. thr[r] \in Thread /\ thr[r].index \in Nat /\ thr[r].copy \in Seq(Question)
      BY DEF TypeOK, Thread
  <2>1. CASE FlagForReview(r)
    <3>1. /\ Goes(r, "flagging", "mail_check") /\ review' = (review \/ thr[r].concern)
          /\ session' = session
        BY <2>1 DEF FlagForReview
    <3>2. \A q \in Threads \ {r} : thr'[q] = thr[q]
        BY <3>1, GoesTo
    <3> SUFFICES ASSUME session.final # NoScore, session.final.penalty > 10
                 PROVE  review' \/ \E q \in Threads : thr'[q].at = "flagging" /\ thr'[q].concern
        BY <3>1 DEF FlagInv
    <3>3. CASE review
        BY <3>1, <3>3
    <3>4. ASSUME NEW q \in Threads, thr[q].at = "flagging", thr[q].concern
          PROVE  review' \/ \E t \in Threads : thr'[t].at = "flagging" /\ thr'[t].concern
        BY <3>1, <3>2, <3>4
    <3>5. QED
        BY <3>3, <3>4 DEF FlagInv
  <2>2. CASE StoreAnswer(r)
    <3>1. session'.final = session.final
        BY <2>2, <1>0 DEF StoreAnswer, Answered, InterviewSession
    <3>2. /\ thr[r].at # "flagging" /\ review' = review
          /\ \A q \in Threads \ {r} : thr'[q] = thr[q]
        BY <2>2 DEF StoreAnswer, Judging, notices, TypeOK
    <3>3. QED
        BY <3>1, <3>2, <1>1
  <2>3. CASE JudgeAndAdapt(r)
    <3>1. session'.final = session.final
        BY <2>3, <1>0 DEF JudgeAndAdapt, JudgedAt, InterviewSession
    <3>2. /\ thr[r].at # "flagging" /\ review' = review
          /\ \A q \in Threads \ {r} : thr'[q] = thr[q]
        BY <2>3 DEF JudgeAndAdapt, notices, TypeOK
    <3>3. QED
        BY <3>1, <3>2, <1>1
  <2>4. ASSUME NEW from, NEW to, Goes(r, from, to), from # "flagging", review' = review,
               session'.final = session.final \/ session'.final.penalty = 0
        PROVE  FlagInv'
      BY <2>4, <1>1, GoesTo
  <2>5. CASE \/ QuestionsGenerated(r) \/ GenerationFailed(r) \/ RecordStarted(r) \/ UploadFailed(r)
             \/ JudgmentLost(r) \/ AbandonCached(r)
    <3>1. session'.final = session.final
        BY <2>5, <1>0 DEF QuestionsGenerated, Regenerated, GenerationFailed, RecordStarted, UploadFailed,
                          JudgmentLost, AbandonCached, InterviewSession
    <3>2. QED
        BY <2>5, <3>1, <2>4 DEF QuestionsGenerated, GenerationFailed, RecordStarted, UploadFailed,
                          JudgmentLost, AbandonCached, notices
  <2>6. CASE CheckReportMail(r) \/ ReportSent(r) \/ ReportNotSent(r) \/ MarkReportSent(r)
      BY <2>6, <2>4 DEF CheckReportMail, ReportSent, ReportNotSent, MarkReportSent, notices
  <2>7. CASE JudgeAndSave(r)
    <3>1. JudgedAt(session, thr[r].index) \in InterviewSession
          /\ JudgedAt(session, thr[r].index).final = session.final
        BY <2>0, <1>0, JudgedAtType DEF JudgedAt, InterviewSession
    <3>2. Goes(r, "judging", "idle") /\ review' = review
          /\ session' = Settled(JudgedAt(session, thr[r].index))
        BY <2>7 DEF JudgeAndSave, notices
    <3>3. QED
        BY <3>1, <3>2, <1>2, <2>4
  <2>8. CASE AdaptAndSave(r)
    <3> DEFINE list == [thr[r].copy EXCEPT ![thr[r].index + 2] = FollowUp]
               a    == [session EXCEPT !.questions = list]
    <3>1. FollowUp \in Question
        BY DEF FollowUp, Question, QuestionTypes
    <3>2. list \in Seq(Question)
        BY <2>0, <3>1, ExceptAnywhere
    <3>3. a \in InterviewSession /\ a.final = session.final
        BY <1>0, <3>2 DEF InterviewSession
    <3>4. Goes(r, "adapting", "idle") /\ review' = review /\ session' = Settled(a)
        BY <2>8 DEF AdaptAndSave, notices
    <3> HIDE DEF list, a
    <3>5. QED
        BY <3>3, <3>4, <1>2, <2>4
  <2>9. CASE AdaptationFailed(r)
      BY <2>9, <1>0, <1>2, <2>4 DEF AdaptationFailed, notices
  <2>10. QED
      BY <1>4, <2>1, <2>2, <2>3, <2>5, <2>6, <2>7, <2>8, <2>9 DEF Work
<1>5. CASE Violation \/ ProctoringReset \/ TimeLimitReached \/ UNCHANGED vars
    BY <1>5 DEF Violation, ProctoringReset, TimeLimitReached, vars, notices, FlagInv
<1>6. CASE Restart
    BY <1>6 DEF Restart, TypeOK
<1>7. QED
    BY <1>3, <1>4, <1>5, <1>6 DEF Next

\* Without a restart, a score that lost more than 10 percent is flagged for human
\* review once the requests that ended the interview are past their notices,
\* however requests overlap and however often the score is made again.
THEOREM ConcernsFlagged ==
    ASSUME MaxCrashes = 0
    PROVE  Spec => []ConcernReachesReview
<1>1. Init => FlagInv
    BY DEF Init, NewSession, FlagInv
<1>2. MaxCrashes = 0
    OBVIOUS
<1>3. TypeOK /\ FlagInv /\ [Next]_vars => FlagInv'
    BY <1>2, FlagStep
<1>4. FlagInv => ConcernReachesReview
    BY DEF FlagInv, ConcernReachesReview
<1>5. QED
    BY <1>1, <1>3, <1>4, TypeCorrect, PTL DEF Spec
=============================================================================
