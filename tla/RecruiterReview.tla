--------------------------- MODULE RecruiterReview ---------------------------
(***************************************************************************)
(* The review of a finished interview.  A session is held for human review *)
(* by one of four writers: the identity check, the preflight, the end of   *)
(* the interview and the recruiter; the mark lives in two rows (the        *)
(* session's own and its review state) written by different transactions,  *)
(* and the session row's proctoring summary is rewritten by every saved    *)
(* answer and every proctoring report.  The recruiter acts on it through   *)
(* a dashboard page whose lists, statistics and detail come by separate    *)
(* requests that may be answered late and in any order.                    *)
(*                                                                         *)
(* A session is a model value.  A note is the session it was typed for     *)
(* (what a property asks of it), System for one the server wrote.  Scores, *)
(* names, dates and the transcript are left out.                           *)
(***************************************************************************)
EXTENDS IdentityCheck

CONSTANTS Sessions,     \* the recruiter's own sessions
          Live,         \* those whose candidate is still at work; the others have ended
          Submissions,  \* what a candidate may send to the identity check: an ID, the
                        \* shots of the guided sequence, the words of the name
          Offered,      \* dispositions the page offers
          MaxOps        \* bound: calls of candidates, dashboard loads and review
                        \* requests, together

None    == "none"
System  == "system"
Finished == {"completed", "ended"}                \* COMPLETED_STATUSES
Attention == {"needs_review", "in_review", "escalated"}
Dispositions == Attention \union {"cleared", "rejected"}
Serious == "serious"
Levels  == {"clean", Serious}
Filters == {"all", "needs_review"}                \* of the status of the review

ASSUME ReviewAssumption == /\ IsFiniteSet(Sessions) /\ Live \subseteq Sessions
                           /\ Offered \subseteq Dispositions /\ MaxOps \in Nat

VARIABLES
  status,     \* session: in_progress, completed or ended
  flag,       \* session row: human_review_flag
  summary,    \* session row: proctoring_summary, the part a review reads
  cached,     \* the same column of the session object in memory
  manager,    \* integrity level of the session's warning manager
  attempt,    \* the latest identity check: its verdict, and whether its steps were performed
  review,     \* row of session_review_states, NoReview before the first
  ending,     \* calls of the end that still have to raise the flag
  writes,     \* review requests between the commit and the upsert
  net,        \* messages between the page and the server
  page,       \* what the page holds
  ops,        \* operations so far, for the bound
  raised      \* history: a concern was raised and no decision stored after it

desk == <<writes, net, page>>       \* what the candidates leave alone
server == <<status, flag, summary, cached, manager, attempt, review, ending>>
vars == <<server, desk, ops, raised>>

NoReview == [required |-> FALSE, status |-> None, reviewed |-> FALSE, note |-> None]
NoDetail == [session |-> None]
NoStats  == [review |-> 0, integrity |-> 0]
EmptySummary == [level |-> None, low |-> FALSE]
Report(level) == [level |-> level, low |-> FALSE]   \* get_integrity_report: knows no identity

(***************************************************************************)
(* What the recruiter is shown of a session                                *)
(***************************************************************************)
\* _human_review_flag: the review state decides alone when there is one.
Shown(s) == IF review[s] # NoReview THEN review[s].required
            ELSE flag[s] \/ summary[s].low \/ summary[s].level = Serious

\* _review_state_payload
ShownStatus(s) == CASE review[s] # NoReview -> review[s].status
                    [] review[s] = NoReview /\ Shown(s) -> "needs_review"
                    [] OTHER -> "pending"

\* _build_proctoring_summary takes level and penalty from the events.
ShownLevel(s) == IF manager[s] = Serious THEN Serious ELSE summary[s].level

\* The name registered with the invite, or one made from the name of a file.
Name(registered) == IF registered THEN "registered" ELSE "file"

Row(s) == [flag |-> Shown(s), status |-> ShownStatus(s), level |-> ShownLevel(s),
           low |-> summary[s].low]

\* _identity_metadata_payload: the latest attempt, else what is left in the summary.
LowIdentity(s) == IF attempt[s].made THEN attempt[s].low ELSE summary[s].low

Detail(s) == [session |-> s, row |-> Row(s), low |-> LowIdentity(s), note |-> review[s].note]

Completed == {s \in Sessions : status[s] \in Finished}
Matching(f) == {s \in Completed : f = "all" \/ ShownStatus(s) = f}

\* list_completed_sessions looks the registered names up.
CompletedSessions == [s \in Completed |-> [row |-> Row(s), name |-> Name(TRUE)]]

\* list_filtered_sessions does not.
FilteredSessions(f) == [s \in Matching(f) |-> [row |-> Row(s), name |-> Name(FALSE)]]

Listing(f) == IF f = "all" THEN CompletedSessions ELSE FilteredSessions(f)

\* get_analytics: the sessions held for review, and those of an assessment whose
\* integrity is in question
NeedsReview(f) == {s \in Matching(f) : Shown(s) \/ ShownStatus(s) \in Attention}
IntegrityFlagged(f) == {s \in Matching(f) : Shown(s) \/ ShownLevel(s) = Serious}

(***************************************************************************)
(* Writers of the review state                                             *)
(***************************************************************************)
\* upsert_session_review_state: an absent note keeps the stored one, and the
\* time of the review is the caller's or none.
Upsert(s, st, note, at) ==
  [required |-> st \in Attention, status |-> st, reviewed |-> at,
   note |-> IF note = None THEN review[s].note ELSE note]

\* Only the session row is flagged when the review state is there already.
ReopenNew(s, note) ==
  IF review[s] # NoReview THEN review[s]
  ELSE [required |-> TRUE, status |-> "needs_review", reviewed |-> FALSE, note |-> note]

\* set_human_review_flag of the persistence layer and the block at the end of
\* verify_identity leave the time of the recruiter's decision in place.
Reopen(s, note) ==
  [review[s] EXCEPT !.required = TRUE, !.status = "needs_review",
                    !.note = IF note = None THEN @ ELSE note]

------------------------------------------------------------------------------
(***************************************************************************)
(* The candidate's side.  Each handler is one transaction or ends with the *)
(* one that matters here; only the end of the interview, whose save and    *)
(* whose flag are apart, is split.                                         *)
(***************************************************************************)
Operation == ops < MaxOps /\ ops' = ops + 1
Call(s) == s \in Live /\ Operation

\* verify_identity may be called at any time with a live invite.
VerifyIdentity(s, sent) ==
  LET verdict == Check(sent.id, sent.shots, sent.name) IN
  /\ Call(s)
  /\ attempt' = [attempt EXCEPT ![s] = verdict @@ [performed |-> Performed(sent.shots)]]
  /\ IF Flags(verdict)
       THEN /\ summary' = [summary EXCEPT ![s].low = TRUE]
            /\ flag' = [flag EXCEPT ![s] = TRUE]
            /\ review' = [review EXCEPT ![s] = Reopen(s, System)]
       ELSE UNCHANGED <<summary, flag, review>>
  /\ raised' = [raised EXCEPT ![s] = @ \/ verdict # Verdict(TRUE, FALSE)]
  /\ UNCHANGED <<status, cached, manager, ending, desk>>

\* The verdict of the preflight is written when it is good, too.
PreflightVerdict(s, suspicious, level) ==
  /\ Call(s)
  /\ manager[s] = Serious => level = Serious
  /\ level = Serious => suspicious \/ manager[s] = Serious
  /\ manager' = [manager EXCEPT ![s] = level]
  /\ summary' = [summary EXCEPT ![s] = Report(level)]
  /\ review' = [review EXCEPT ![s] =
                  Upsert(s, IF suspicious THEN "needs_review" ELSE "cleared", System, FALSE)]
  /\ raised' = [raised EXCEPT ![s] = @ \/ suspicious]
  /\ UNCHANGED <<status, flag, cached, attempt, ending, desk>>

\* verify_environment: records the report, then holds the session for review
\* when something blocks or looks suspicious; the row's own flag is not set.
Preflight(s, suspicious, level) ==
  /\ Call(s)
  /\ manager[s] = Serious => level = Serious
  /\ level = Serious => suspicious \/ manager[s] = Serious
  /\ manager' = [manager EXCEPT ![s] = level]
  /\ summary' = [summary EXCEPT ![s] = Report(level)]
  /\ IF suspicious
       THEN /\ review' = [review EXCEPT ![s] = Upsert(s, "needs_review", System, FALSE)]
            /\ raised' = [raised EXCEPT ![s] = TRUE]
       ELSE UNCHANGED <<review, raised>>
  /\ UNCHANGED <<status, flag, cached, attempt, ending, desk>>

\* A frame, a sound or a client event: update_proctoring_summary
Observe(s, level) ==
  /\ Call(s)
  /\ manager[s] = Serious => level = Serious
  /\ manager' = [manager EXCEPT ![s] = level]
  /\ summary' = [summary EXCEPT ![s] = Report(level)]
  /\ UNCHANGED <<status, flag, cached, attempt, review, ending, desk, raised>>

\* An answer saves the session object, the summary it holds included.
Answer(s, last) ==
  /\ Call(s)
  /\ status[s] = "in_progress"
  /\ status' = [status EXCEPT ![s] = IF last THEN "completed" ELSE @]
  /\ summary' = [summary EXCEPT ![s] = cached[s]]
  /\ UNCHANGED <<flag, cached, manager, attempt, review, ending, desk, raised>>

\* end_interview up to the save: the object takes the manager's summary.  It
\* may be called again: only a session without questions refuses.
EndSave(s) ==
  /\ Call(s)
  /\ status' = [status EXCEPT ![s] = "ended"]
  /\ cached' = [cached EXCEPT ![s] = Report(manager[s])]
  /\ summary' = [summary EXCEPT ![s] = Report(manager[s])]
  /\ ending' = IF cached'[s].level = Serious \/ cached'[s].low
                 THEN [ending EXCEPT ![s] = @ + 1] ELSE ending
  /\ UNCHANGED <<flag, manager, attempt, review, desk, raised>>

\* end_interview, the rest: set_human_review_flag(True)
EndFlag(s) ==
  /\ ending[s] > 0
  /\ ending' = [ending EXCEPT ![s] = @ - 1]
  /\ flag' = [flag EXCEPT ![s] = TRUE]
  /\ review' = [review EXCEPT ![s] = Reopen(s, None)]
  /\ raised' = [raised EXCEPT ![s] = TRUE]
  /\ UNCHANGED <<status, summary, cached, manager, attempt, ops, desk>>

------------------------------------------------------------------------------
(***************************************************************************)
(* The server's side of the dashboard.  A message is taken from net; its   *)
(* answer is put there.  A review request commits the session row, and     *)
(* only then writes the review state in a transaction of its own.          *)
(***************************************************************************)
Requests == {m \in net : m.type \in {"list", "get", "patch"}}

Answered(m, r) == net' = (net \ {m}) \union {r}

ServeList(m) ==
  /\ m.type = "list"
  /\ Answered(m, [type |-> "listed", id |-> m.id, filter |-> m.filter,
                  rows |-> Listing(m.filter)])
  /\ UNCHANGED <<server, writes, page, ops, raised>>

\* get_session_detail; a session that is not finished is not found.
ServeDetail(m) ==
  /\ m.type = "get"
  /\ Answered(m, IF status[m.session] \in Finished
                   THEN [type |-> "got", detail |-> Detail(m.session)]
                   ELSE [type |-> "not_found", session |-> m.session])
  /\ UNCHANGED <<server, writes, page, ops, raised>>

\* set_human_review_flag and update_review_state up to the commit
CommitReview(m) ==
  /\ m.type = "patch"
  /\ status[m.session] \in Finished
  /\ flag' = [flag EXCEPT ![m.session] = m.status \in Attention]
  /\ net' = net \ {m}
  /\ writes' = writes \union {m}
  /\ UNCHANGED <<status, summary, cached, manager, attempt, review, ending,
                 page, ops, raised>>

\* ... and the rest: the upsert, the reload of the row and the answer
StoreReview(m) ==
  /\ m \in writes
  /\ review' = [review EXCEPT ![m.session] = Upsert(m.session, m.status, m.note, m.at)]
  /\ raised' = [raised EXCEPT ![m.session] = @ /\ m.status \in Attention]
  /\ writes' = writes \ {m}
  /\ UNCHANGED <<status, flag, summary, cached, manager, attempt, ending,
                 page, ops>>
  /\ net' = IF m.from = "page"
              THEN net \union {[type |-> "patched", detail |-> Detail(m.session)']}
              ELSE net

Serve == \/ \E m \in Requests : ServeList(m) \/ ServeDetail(m) \/ CommitReview(m)
         \/ \E m \in writes : StoreReview(m)

------------------------------------------------------------------------------
(***************************************************************************)
(* The page                                                                *)
(***************************************************************************)
\* loadSessions and loadAnalytics number their requests; only the answer to
\* the last one counts.
ListRequest(id, f)  == [type |-> "list", id |-> id, filter |-> f]
StatsRequest(id, f) == [type |-> "stats", id |-> id, filter |-> f]

\* refreshDashboard; the filters are those of the form at that moment.
Refresh(f) ==
  /\ Operation
  /\ net' = net \union {ListRequest(page.listId + 1, f), StatsRequest(page.statsId + 1, f)}
  /\ page' = [page EXCEPT !.listId = @ + 1, !.statsId = @ + 1, !.filters = f,
                          !.loading = TRUE, !.counting = TRUE]
  /\ UNCHANGED <<server, writes, raised>>

ApplyFilters(f) == Refresh(f)
ClearFilters == Refresh("all")

\* The end of handleDeleteAssessment counts again with the filters in the form,
\* applied or not.  The deletion itself leaves the sessions alone.
RecountAfterDelete(f) ==
  /\ Operation
  /\ net' = net \union {StatsRequest(page.statsId + 1, f)}
  /\ page' = [page EXCEPT !.statsId = @ + 1, !.counting = TRUE]
  /\ UNCHANGED <<server, writes, raised>>

\* Clicking a row starts the load of its detail and cancels the one before:
\* a cancelled load's request and answer are dropped.
Detailed == {m \in net : m.type \in {"get", "got", "not_found"}}

Select(s) ==
  /\ s \in DOMAIN page.list /\ page.selected # s
  /\ net' = (net \ Detailed) \union {[type |-> "get", session |-> s]}
  /\ page' = [page EXCEPT !.selected = s, !.opening = TRUE]
  /\ UNCHANGED <<server, writes, ops, raised>>

\* The detail, its notes and its buttons are on the screen.
DetailOnScreen == page.detail # NoDetail /\ ~page.opening

TypeNote ==
  /\ DetailOnScreen /\ ~page.updating
  /\ page' = [page EXCEPT !.draft = page.detail.session]
  /\ UNCHANGED <<server, writes, net, ops, raised>>

Patch(s, st, note, at, from) ==
  /\ Operation
  /\ net' = net \union {[type |-> "patch", id |-> ops, session |-> s, status |-> st,
                         note |-> note, at |-> at, from |-> from]}

\* handleToggleHumanReview
ToggleHumanReview ==
  /\ DetailOnScreen /\ ~page.updating
  /\ Patch(page.detail.session, IF page.detail.row.flag THEN "cleared" ELSE "needs_review",
           None, FALSE, "page")
  /\ page' = [page EXCEPT !.updating = TRUE]
  /\ UNCHANGED <<server, writes, raised>>

\* handleUpdateReviewState: an empty draft is sent as no note.
UpdateReviewState(st) ==
  /\ DetailOnScreen /\ ~page.updating
  /\ Patch(page.detail.session, st, page.draft, TRUE, "page")
  /\ page' = [page EXCEPT !.updating = TRUE]
  /\ UNCHANGED <<server, writes, raised>>

\* The recruiter's other tab
OtherTab(s, st) ==
  /\ Patch(s, st, None, TRUE, "tab")
  /\ UNCHANGED <<server, writes, page, raised>>

Received(m) == net' = net \ {m} /\ UNCHANGED <<server, writes, ops, raised>>

\* Whatever list comes last is shown.
ReceiveAnyList(m) ==
  /\ m.type = "listed" /\ Received(m)
  /\ page' = [page EXCEPT !.list = m.rows, !.listFor = m.filter,
                          !.loading = @ /\ m.id # page.listId]

ReceiveList(m) ==
  /\ m.type = "listed" /\ Received(m)
  /\ page' = IF m.id = page.listId
              THEN [page EXCEPT !.list = m.rows, !.listFor = m.filter, !.loading = FALSE]
              ELSE page

\* The statistics are computed and shown in one step: nothing else on the page
\* depends on when they were counted.
ReceiveStats(m) ==
  /\ m.type = "stats" /\ Received(m)
  /\ page' = IF m.id = page.statsId
              THEN [page EXCEPT !.statsFor = m.filter, !.counting = FALSE,
                                !.stats = [review |-> Cardinality(NeedsReview(m.filter)),
                                           integrity |-> Cardinality(IntegrityFlagged(m.filter))]]
              ELSE page

\* The draft of the notes stays.
ReceiveDetailOnly(m) ==
  /\ m.type = "got" /\ Received(m)
  /\ page' = [page EXCEPT !.detail = m.detail, !.opening = FALSE]

ReceiveDetail(m) ==
  /\ m.type = "got" /\ Received(m)
  /\ page' = [page EXCEPT !.detail = m.detail, !.draft = m.detail.note, !.opening = FALSE]

\* The answer to a review request is shown whatever is selected by now; only
\* its own row of the list is replaced.
ReceiveReview(m) ==
  /\ m.type = "patched" /\ Received(m)
  /\ page' = [page EXCEPT !.detail = m.detail, !.draft = m.detail.note, !.updating = FALSE,
                          !.list = [s \in DOMAIN @ |-> IF s = m.detail.session
                                      THEN [@[s] EXCEPT !.row = m.detail.row] ELSE @[s]]]

\* The review buttons are given back by the answer alone.
FailedWithoutFinally(m) ==
  /\ Received(m)
  /\ page' = CASE m.type \in {"list", "listed"} /\ m.id = page.listId ->
                    [page EXCEPT !.listFor = None, !.loading = FALSE]
               [] m.type = "stats" /\ m.id = page.statsId ->
                    [page EXCEPT !.stats = NoStats, !.statsFor = None, !.counting = FALSE]
               [] m.type \in {"get", "got", "not_found"} ->
                    [page EXCEPT !.detail = NoDetail, !.draft = None, !.opening = FALSE]
               [] OTHER -> page

\* An error answer, or an answer or a request that is lost: the catch and the
\* finally of its handler.  A list keeps its rows, so they no longer belong to
\* the filters.
Failed(m) ==
  /\ Received(m)
  /\ page' = CASE m.type \in {"list", "listed"} /\ m.id = page.listId ->
                    [page EXCEPT !.listFor = None, !.loading = FALSE]
               [] m.type = "stats" /\ m.id = page.statsId ->
                    [page EXCEPT !.stats = NoStats, !.statsFor = None, !.counting = FALSE]
               [] m.type \in {"get", "got", "not_found"} ->
                    [page EXCEPT !.detail = NoDetail, !.draft = None, !.opening = FALSE]
               [] m.type = "patched" \/ (m.type = "patch" /\ m.from = "page") ->
                    [page EXCEPT !.updating = FALSE]
               [] OTHER -> page

\* _get_owned_completed_row: no review of a session that is not finished
Refused(m) == m.type = "not_found" \/ (m.type = "patch" /\ status[m.session] \notin Finished)

Receive == \E m \in net : ReceiveList(m) \/ ReceiveStats(m) \/ ReceiveDetail(m) \/ ReceiveReview(m)
                          \/ (Refused(m) /\ Failed(m))
Lose == \E m \in net : Failed(m)

------------------------------------------------------------------------------
\* The page mounts with the first refresh in flight; the interviews at work
\* have come to the point where an answer has just been saved.
Init ==
  /\ status = [s \in Sessions |-> IF s \in Live THEN "in_progress" ELSE "ended"]
  /\ flag = [s \in Sessions |-> FALSE]
  /\ summary = [s \in Sessions |-> IF s \in Live THEN EmptySummary ELSE Report("clean")]
  /\ cached = summary
  /\ manager \in {m \in [Sessions -> Levels] : \A s \in Sessions \ Live : m[s] = "clean"}
  /\ attempt = [s \in Sessions |-> NoVerdict @@ [performed |-> FALSE]]
  /\ review = [s \in Sessions |-> NoReview]
  /\ ending = [s \in Sessions |-> 0]
  /\ ops = 0
  /\ writes = {}
  /\ net = {ListRequest(1, "all"), StatsRequest(1, "all")}
  /\ page = [filters |-> "all", listId |-> 1, statsId |-> 1,
             list |-> [s \in {} |-> None], listFor |-> None, loading |-> TRUE,
             stats |-> NoStats, statsFor |-> None, counting |-> TRUE,
             selected |-> None, detail |-> NoDetail, draft |-> None,
             opening |-> FALSE, updating |-> FALSE]
  /\ raised = [s \in Sessions |-> FALSE]

Candidate == \E s \in Live :
  \/ \E sent \in Submissions : VerifyIdentity(s, sent)
  \/ \E suspicious \in BOOLEAN, level \in Levels : Preflight(s, suspicious, level)
  \/ \E level \in Levels : Observe(s, level)
  \/ \E last \in BOOLEAN : Answer(s, last)
  \/ EndSave(s)

Ending == \E s \in Sessions : EndFlag(s)

User == \/ \E f \in Filters : ApplyFilters(f) \/ RecountAfterDelete(f)
        \/ ClearFilters
        \/ \E s \in Sessions : Select(s)
        \/ TypeNote \/ ToggleHumanReview
        \/ \E st \in Offered : UpdateReviewState(st)
        \/ \E s \in Sessions, st \in Offered : OtherTab(s, st)

Next == Candidate \/ Ending \/ Serve \/ User \/ Receive \/ Lose

\* The server answers and the browser handles what it is given; candidates and
\* recruiters may stop at any time.
Fairness ==
  /\ WF_vars(\E m \in net : ServeList(m))   /\ WF_vars(\E m \in net : ReceiveList(m))
  /\ WF_vars(\E m \in net : ServeDetail(m)) /\ WF_vars(\E m \in net : ReceiveDetail(m))
  /\ WF_vars(\E m \in net : CommitReview(m)) /\ WF_vars(\E m \in writes : StoreReview(m))
  /\ WF_vars(\E m \in net : ReceiveReview(m)) /\ WF_vars(\E m \in net : ReceiveStats(m))
  /\ WF_vars(\E m \in net : Refused(m) /\ Failed(m))

Spec == Init /\ [][Next]_vars /\ Fairness

------------------------------------------------------------------------------
(***************************************************************************)
(* Properties                                                              *)
(***************************************************************************)
TypeOK ==
  /\ status \in [Sessions -> Finished \union {"in_progress"}]
  /\ \A s \in Sessions : review[s] # NoReview => review[s].status \in Dispositions
  /\ \A s \in Sessions : summary[s].level \in Levels \union {None}
  /\ \A m \in net : m.type \in {"list", "listed", "stats", "get", "got",
                                "not_found", "patch", "patched"}
  /\ DOMAIN page.list \subseteq Sessions

\* A session a recruiter can see goes from held for review to not held only
\* while a recruiter's request that releases it is carried out: no report,
\* preflight, identity check or save of the candidate's side takes it off.
OnlyRecruitersRelease ==
  [][\A s \in Sessions : status[s] \in Finished /\ Shown(s) /\ ~Shown(s)'
        => \E m \in writes \union writes' : m.session = s /\ m.status \notin Attention]_vars

\* A concern raised and not yet answered by a stored decision is shown, in the
\* flag and in the status that filters and statistics go by.
ConcernShown ==
  \A s \in Sessions : raised[s] => Shown(s) /\ ShownStatus(s) \in Attention

\* A note is kept only with the session it was typed for, however the loads
\* of details and the answers to review requests cross.
NotesFiled ==
  \A s \in Sessions : review[s].note \in {None, System, s}

\* Rows on the screen with no load running are those of the filters last
\* applied (or a failed load left none for them), whatever order answers come in.
LatestFiltersWin ==
  ~page.loading /\ page.listFor # None => page.listFor = page.filters

\* Every spinner stops: lists, statistics and review buttons come back, and the
\* detail of a row the recruiter stays on.
ControlsComeBack ==
  /\ page.loading ~> ~page.loading
  /\ page.counting ~> ~page.counting
  /\ \A s \in Sessions : <>[](page.selected = s) => []<>~page.opening
  /\ page.updating ~> ~page.updating

(***************************************************************************)
(* Stated and violated by the code: see the README                         *)
(***************************************************************************)
\* identity_verification.py: a weak match is flagged for recruiter review as
\* such.  The next report or saved answer rewrites the summary without it.
LowIdentityShown ==
  \A s \in Sessions : status[s] \in Finished /\ attempt[s].low => Row(s).low

\* invite_service.py keeps each frame of the sequence with the action of its
\* step: a candidate who performs the steps, and is the one on the ID, passes.
PerformedPasses ==
  \A s \in Sessions : attempt[s].made /\ attempt[s].performed => attempt[s].verified

\* The detail on the screen is that of the selected row.
DetailIsSelected ==
  DetailOnScreen => page.detail.session = page.selected

\* The statistics and the list beside them are of the same filters.
StatsBesideList ==
  ~page.loading /\ ~page.counting /\ page.listFor # None /\ page.statsFor # None
    => page.listFor = page.statsFor

\* A dated decision is taken back only by the recruiter or by a new concern: the
\* end of the interview raises the concern it was taken on again.
DecisionStands ==
  [][\A s \in Sessions : review[s].reviewed /\ review[s].status = "cleared"
        /\ manager'[s] = manager[s] /\ attempt'[s] = attempt[s]
        => \/ review'[s].status = "cleared"
           \/ \E m \in writes : m.session = s /\ m \notin writes']_vars
==============================================================================
