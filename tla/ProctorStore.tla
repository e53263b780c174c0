----------------------------- MODULE ProctorStore -----------------------------
(***************************************************************************)
(* Where the violations of one session are kept: the manager of            *)
(* app/proctoring/session_registry.py, the proctoring_summary column of    *)
(* the session's row, the proctor_events rows, and the copy of the summary *)
(* in the cached InterviewSession.  The requests of app/proctoring/api.py  *)
(* record and persist without a lock, and every save of the engine writes  *)
(* its own copy over the column.                                           *)
(*                                                                         *)
(* A violation is a number in order of recording; a manager or a summary   *)
(* is the set of violations it holds, and a column that is NULL is the     *)
(* empty one, as every reader takes it.  A manager with Limit violations   *)
(* refuses more (what locks it is the subject of WarningManager).          *)
(***************************************************************************)
EXTENDS Naturals, Sequences, FiniteSets

CONSTANTS
    Requests,       \* proctoring requests that can be in flight together
    Limit,          \* violations that lock a manager
    MaxViolations,  \* bound on violations recorded
    MaxManagers,    \* bound on managers created between two restarts
    MaxCrashes      \* bound on process restarts

ASSUME BoundAssumption ==
    {Limit, MaxViolations, MaxManagers, MaxCrashes} \subseteq Nat

VARIABLES
    managers,  \* every WarningManager made since the start, by its age
    registry,  \* the one _warning_managers holds for the session, or 0
    row,       \* sessions.proctoring_summary
    events,    \* proctor_events
    cached,    \* InterviewSession.proctoring_summary
    thr,       \* what each request is doing
    recorded,  \* violations recorded so far
    ended,     \* end_interview has run
    crashes

vars == <<managers, registry, row, events, cached, thr, recorded, ended, crashes>>

Violations == 1..MaxViolations
Idle == [at |-> "idle", manager |-> 0, report |-> {}]
Request == [at : {"idle", "open", "row", "events"}, manager : 0..MaxManagers,
            report : SUBSET Violations]

\* get_warning_manager, under _lock; _try_rehydrate fills a new manager.
GetManager ==
    IF registry # 0 THEN UNCHANGED <<managers, registry>>
    ELSE /\ Len(managers) < MaxManagers
         /\ managers' = Append(managers, row)
         /\ registry' = Len(managers')

Init ==
    /\ managers = <<>>
    /\ registry = 0
    /\ row = {}
    /\ events = {}
    /\ cached = {}
    /\ thr = [r \in Requests |-> Idle]
    /\ recorded = 0
    /\ ended = FALSE
    /\ crashes = 0

-----------------------------------------------------------------------------
\* POST /analyze, /audio-violation, /verify-environment: take the manager ...
Open(r) ==
    /\ thr[r].at = "idle"
    /\ GetManager
    /\ thr' = [thr EXCEPT ![r] = [Idle EXCEPT !.at = "open", !.manager = registry']]
    /\ UNCHANGED <<row, events, cached, recorded, ended, crashes>>

\* ... decode and analyse; a frame that cannot be analysed is answered here.
Unanalysed(r) ==
    /\ thr[r].at = "open"
    /\ thr' = [thr EXCEPT ![r] = Idle]
    /\ UNCHANGED <<managers, registry, row, events, cached, recorded, ended, crashes>>

\* Record a violation or none and take the report.
Record(r) ==
    LET m == thr[r].manager
    IN  /\ thr[r].at = "open"
        /\ \/ /\ Cardinality(managers[m]) < Limit
              /\ recorded < MaxViolations
              /\ recorded' = recorded + 1
              /\ managers' = [managers EXCEPT ![m] = @ \cup {recorded'}]
           \/ UNCHANGED <<managers, recorded>>
        /\ thr' = [thr EXCEPT ![r].at = "row", ![r].report = managers'[m]]
        /\ UNCHANGED <<registry, row, events, cached, ended, crashes>>

\* Mutant: a summary that exists is not written again.
PersistOnce(r) ==
    /\ thr[r].at = "row"
    /\ row' = IF row = {} THEN thr[r].report ELSE row
    /\ thr' = [thr EXCEPT ![r].at = "events"]
    /\ UNCHANGED <<managers, registry, events, cached, recorded, ended, crashes>>

\* update_proctoring_summary: the column in one transaction ...
PersistRow(r) ==
    /\ thr[r].at = "row"
    /\ row' = thr[r].report
    /\ thr' = [thr EXCEPT ![r].at = "events"]
    /\ UNCHANGED <<managers, registry, events, cached, recorded, ended, crashes>>

\* ... and the event rows in another.
ReplaceEvents(r) ==
    /\ thr[r].at = "events"
    /\ events' = thr[r].report
    /\ thr' = [thr EXCEPT ![r] = Idle]
    /\ UNCHANGED <<managers, registry, row, cached, recorded, ended, crashes>>

\* POST /reset removes the manager and persists what it held.
Reset(r) ==
    /\ thr[r].at = "idle"
    /\ registry # 0
    /\ Len(managers) < MaxManagers  \* bound: another manager can follow
    /\ registry' = 0
    /\ thr' = [thr EXCEPT ![r] = [Idle EXCEPT !.at = "row", !.report = managers[registry]]]
    /\ UNCHANGED <<managers, row, events, cached, recorded, ended, crashes>>

-----------------------------------------------------------------------------
\* session_store.save writes the whole cached session.
SaveSession ==
    /\ row' = cached
    /\ UNCHANGED <<managers, registry, events, cached, thr, recorded, ended, crashes>>

\* end_interview puts the manager's summary into the session and saves it.
EndInterview ==
    /\ GetManager
    /\ cached' = managers'[registry']
    /\ row' = cached'
    /\ ended' = TRUE
    /\ UNCHANGED <<events, thr, recorded, crashes>>

\* The process is restarted: the session is loaded from its row.
Restart ==
    /\ crashes < MaxCrashes
    /\ crashes' = crashes + 1
    /\ managers' = <<>>
    /\ registry' = 0
    /\ cached' = row
    /\ thr' = [r \in Requests |-> Idle]
    /\ UNCHANGED <<row, events, recorded, ended>>

Serve(r) == Record(r) \/ PersistRow(r) \/ ReplaceEvents(r)

Next ==
    \/ \E r \in Requests : Open(r) \/ Unanalysed(r) \/ Serve(r) \/ Reset(r)
    \/ SaveSession
    \/ EndInterview
    \/ Restart

Spec == Init /\ [][Next]_vars

\* The page sends frame after frame, a frame can be analysed again and again,
\* and a request that has its report finishes.
FairSpec ==
    /\ Spec
    /\ \A r \in Requests :
         /\ WF_vars(Open(r))
         /\ SF_vars(Record(r))
         /\ WF_vars(PersistRow(r) \/ ReplaceEvents(r))
-----------------------------------------------------------------------------
TypeOK ==
    /\ managers \in Seq(SUBSET Violations)
    /\ registry \in 0..Len(managers)
    /\ {row, cached} \subseteq SUBSET Violations
    /\ events \subseteq Violations
    /\ thr \in [Requests -> Request]
    /\ recorded \in 0..MaxViolations
    /\ ended \in BOOLEAN
    /\ crashes \in 0..MaxCrashes

\* The recruiter's row of an ended interview holds what the interview ended with
\* (end_interview 854-879), although requests, saves, resets and restarts go on.
\* README.md:75: "Browser proctoring logs evidence for recruiters".
EndedEvidenceKept ==
    ended => cached \subseteq row

\* As long as frames come, the row is again and again what the manager holds:
\* what a save of the engine or a late request overwrote is written once more
\* (analyze_frame persists every frame, 289).
RowCatchesUp == []<>(registry = 0 \/ row = managers[registry])

\* warning_manager.py:336, "Restore violations from persisted proctoring_summary
\* after process restart": a new manager holds what the last requests persisted,
\* so none is made without the violations the event rows show.
RestartRestores ==
    [][registry = 0 /\ registry' # 0 => events \subseteq managers'[registry']]_vars
=============================================================================
