---------------------------- MODULE WarningManager ----------------------------
(***************************************************************************)
(* app/proctoring/warning_manager.py: the violations of one session, the   *)
(* penalty they add up to and the lockout.                                 *)
(*                                                                         *)
(* Time is relative: a timer holds the ticks a cooldown has left, and the  *)
(* age of the streak stops growing where no comparison can tell it apart.  *)
(* A violation is its severity; only the number of each severity matters   *)
(* to the penalty and to the lockout, and the lockout bounds both.         *)
(***************************************************************************)
EXTENDS Integers

CONSTANTS
    Duration,        \* VIOLATION_DURATION_SECONDS, in ticks
    NoFaceModerate,  \* NO_FACE_MODERATE_SECONDS
    Cooldown,        \* COOLDOWN_SECONDS
    PhoneCooldown,   \* the cooldown of prohibited_object_detected
    Reports          \* violation types the client or the object detector reports

CameraTypes == {"no_face", "multiple_faces", "looking_down", "looking_sideways"}
Minor    == {"loud_audio", "tab_switch", "fullscreen_exit",
             "virtual_camera_suspected"}
Moderate == {"sustained_noise", "mic_muted", "mic_silent", "screen_sharing",
             "prohibited_object_detected"}
Types == CameraTypes \cup Minor \cup Moderate \cup
             {"virtual_camera", "recording_extension"}

ASSUME TimerAssumption ==
    /\ {Duration, NoFaceModerate, Cooldown, PhoneCooldown} \subseteq Nat \ {0}
    /\ Duration <= NoFaceModerate
ASSUME ReportsAssumption == Reports \subseteq Types

Severities == {"minor", "moderate", "severe", "critical"}

VARIABLES
    tally,       \* violations, by severity
    faces,       \* _multiple_faces_violation_count
    downs,       \* _looking_down_violation_count, which matters up to 2
    streak,      \* _current_violation_type and the age of _violation_start_time
    quiet,       \* ticks _last_violation_recorded_at still blocks the camera
    cooling,     \* ticks _last_recorded_by_type still blocks a report, by type
    terminated   \* _terminated

vars == <<tally, faces, downs, streak, quiet, cooling, terminated>>

NoStreak == [type |-> "none", age |-> 0]

Streak == [type : CameraTypes \cup {"none"}, age : 0..NoFaceModerate]

\* The sum of SEVERITY_PENALTIES, before the cap.
Total(t) == 2 * t["minor"] + 5 * t["moderate"] + 15 * t["severe"] + 30 * t["critical"]

\* calculate_score_penalty
Penalty(t) == IF Total(t) < 50 THEN Total(t) ELSE 50

\* _check_lockout
Locks(t) == t["severe"] + t["critical"] >= 3 \/ Penalty(t) >= 40

\* _severity_and_penalty, the counters included.
Severity(type, age) ==
    CASE type = "no_face" -> IF age < NoFaceModerate THEN "minor" ELSE "moderate"
      [] type = "looking_down" -> IF downs + 1 >= 2 THEN "moderate" ELSE "minor"
      [] type = "multiple_faces" -> IF faces + 1 > 3 THEN "critical" ELSE "severe"
      [] type \in Moderate -> "moderate"
      [] type = "virtual_camera" -> "severe"
      [] type = "recording_extension" -> "critical"
      [] OTHER -> "minor"

Init ==
    /\ tally = [s \in Severities |-> 0]
    /\ faces = 0
    /\ downs = 0
    /\ streak = NoStreak
    /\ quiet = 0
    /\ cooling = [type \in Reports |-> 0]
    /\ terminated = FALSE

\* Mutant: the camera appends without looking at the lockout.
RecordUnlocked(type, age) ==
    /\ tally' = [tally EXCEPT ![Severity(type, age)] = @ + 1]
    /\ faces' = IF type = "multiple_faces" THEN faces + 1 ELSE faces
    /\ downs' = IF type = "looking_down" /\ downs < 2 THEN downs + 1 ELSE downs
    /\ quiet' = Cooldown
    /\ terminated' = terminated

\* violations.append and _check_lockout
Record(type, age) ==
    /\ tally' = [tally EXCEPT ![Severity(type, age)] = @ + 1]
    /\ faces' = IF type = "multiple_faces" THEN faces + 1 ELSE faces
    /\ downs' = IF type = "looking_down" /\ downs < 2 THEN downs + 1 ELSE downs
    /\ quiet' = Cooldown
    /\ terminated' = Locks(tally')

\* Mutant: a locked session goes on recording.
ReportAlways(type) ==
    /\ cooling[type] = 0
    /\ Record(type, 0)
    /\ cooling' = [cooling EXCEPT ![type] = Cooldown]
    /\ UNCHANGED streak

\* record_client_violation
Report(type) ==
    /\ ~terminated
    /\ cooling[type] = 0
    /\ Record(type, 0)
    /\ cooling' = [cooling EXCEPT
                     ![type] = IF type = "prohibited_object_detected"
                               THEN PhoneCooldown ELSE Cooldown]
    /\ UNCHANGED streak

\* process_status with a status that is no violation.
FrameOk ==
    /\ ~terminated
    /\ streak' = NoStreak
    /\ UNCHANGED <<tally, faces, downs, quiet, cooling, terminated>>

\* Mutant: every frame begins a streak of its own.
RestartedStreak(type) == [type |-> type, age |-> 0]

\* The streak a frame of this type continues or begins.
StreakOf(type) == IF streak.type = type THEN streak ELSE [type |-> type, age |-> 0]

\* process_status with a violation; a gaze of low confidence is dropped before
\* it touches anything, so it is no step.
Frame(type) ==
    LET now == StreakOf(type)
    IN  /\ ~terminated
        /\ IF now.age >= Duration /\ quiet = 0
           THEN Record(type, now.age) /\ streak' = NoStreak
           ELSE streak' = now /\ UNCHANGED <<tally, faces, downs, quiet, terminated>>
        /\ UNCHANGED cooling

Less(n) == IF n > 0 THEN n - 1 ELSE 0

\* A tick of the clock the comparisons with time.time() see.
Tick ==
    /\ quiet' = Less(quiet)
    /\ cooling' = [type \in Reports |-> Less(cooling[type])]
    /\ streak' = IF streak.type # "none" /\ streak.age < NoFaceModerate
                 THEN [streak EXCEPT !.age = @ + 1] ELSE streak
    /\ UNCHANGED <<tally, faces, downs, terminated>>

Fresh ==
    /\ faces' = 0 /\ downs' = 0
    /\ streak' = NoStreak
    /\ quiet' = 0
    /\ cooling' = [type \in Reports |-> 0]

\* Mutant: the lockout is not read back.
RehydrateUnlocked == Fresh /\ terminated' = FALSE /\ UNCHANGED tally

\* A new manager after a restart: rehydrate_from_summary gives it the violations
\* of a row that is up to date, and neither counters nor timers.
Rehydrate ==
    /\ Fresh
    /\ terminated' = (terminated \/ Locks(tally))
    /\ UNCHANGED tally

Next ==
    \/ \E type \in Reports : Report(type)
    \/ FrameOk
    \/ \E type \in CameraTypes : Frame(type)
    \/ Tick
    \/ Rehydrate

Spec == Init /\ [][Next]_vars

\* The page sends a frame every few seconds, whatever the frame shows.
FairSpec == Spec /\ WF_vars(Tick) /\ WF_vars(Frame("no_face"))
-----------------------------------------------------------------------------
TypeOK ==
    /\ tally \in [Severities -> Nat]
    /\ faces \in Nat
    /\ downs \in 0..2
    /\ streak \in Streak
    /\ quiet \in Nat
    /\ cooling \in [Reports -> Nat]
    /\ terminated \in BOOLEAN

\* The session is locked exactly when its penalties reach 40: three severe
\* violations weigh 45, so the count in _check_lockout never decides, and no
\* path that appends or restores violations forgets the check.
LockedAtForty == terminated <=> Total(tally) >= 40

\* Nothing is recorded past the lockout, so the violation that locks is the last
\* and the cap at 50 percent hides at most 19 points of it (process_status 214,
\* record_client_violation 173).
OvershootBounded == Total(tally) < 40 + 30

\* The fourth multiple_faces violation, the one that would be critical
\* (_severity_and_penalty 124), is never reached: the third locks the session.
FacesNeverCritical == faces <= 3

\* A lockout outlives everything, a restart included.
LockoutPermanent == [][terminated => terminated']_vars

\* Whichever way a violation comes (process_status, record_client_violation), and
\* whatever is counted, timed or read back (rehydrate_from_summary) beside it: the
\* manager is a meter that takes one violation at a time and none once locked.
Meter == INSTANCE IntegrityMeter WITH weight <- Total(tally), locked <- terminated
ImplementsMeter == Meter!Spec

Away == Tick \/ Frame("no_face")

\* A candidate who leaves for good is locked out in the end: streak, cooldowns
\* and penalties cannot wait for each other (process_status 236-254).
AbsenceLocks == <>[][Away]_vars => <>terminated
=============================================================================
