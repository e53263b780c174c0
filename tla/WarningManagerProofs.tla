------------------------- MODULE WarningManagerProofs -------------------------
(* What holds of WarningManager for every value of its timers and for every *)
(* set of reported types.                                                   *)
EXTENDS WarningManager, TLAPS

Count == [Severities -> Nat]

\* Points a violation of severity s adds.
Points(s) == CASE s = "minor" -> 2 [] s = "moderate" -> 5 [] s = "severe" -> 15
               [] OTHER -> 30

LEMMA CountValues ==
    ASSUME NEW t \in Count
    PROVE  /\ t["minor"] \in Nat /\ t["moderate"] \in Nat
           /\ t["severe"] \in Nat /\ t["critical"] \in Nat
           /\ Total(t) \in Nat
BY DEF Count, Severities, Total

LEMMA CountOneMore ==
    ASSUME NEW t \in Count, NEW s \in Severities
    PROVE  LET u == [t EXCEPT ![s] = @ + 1]
           IN  /\ u \in Count
               /\ Total(u) = Total(t) + Points(s)
               /\ u["severe"] + u["critical"] =
                    t["severe"] + t["critical"] +
                      (IF s \in {"severe", "critical"} THEN 1 ELSE 0)
<1> DEFINE u == [t EXCEPT ![s] = @ + 1]
<1>0. t[s] \in Nat
    BY DEF Count
<1>1. u \in Count
    BY <1>0 DEF Count
<1>2. CASE s = "minor"
    BY <1>1, <1>2, CountValues DEF Total, Points, Count, Severities
<1>3. CASE s = "moderate"
    BY <1>1, <1>3, CountValues DEF Total, Points, Count, Severities
<1>4. CASE s = "severe"
    BY <1>1, <1>4, CountValues DEF Total, Points, Count, Severities
<1>5. CASE s = "critical"
    BY <1>1, <1>5, CountValues DEF Total, Points, Count, Severities
<1>6. QED
    BY <1>1, <1>2, <1>3, <1>4, <1>5 DEF Severities

\* Three severe violations weigh more than 40 points: the two conditions of
\* _check_lockout are one.
LEMMA LocksIsForty ==
    ASSUME NEW t \in Count
    PROVE  Locks(t) <=> Total(t) >= 40
BY CountValues DEF Locks, Penalty, Total

LEMMA SeverityRange ==
    ASSUME NEW type \in Types, NEW age
    PROVE  /\ Severity(type, age) \in Severities
           /\ type = "multiple_faces" => Severity(type, age) \in {"severe", "critical"}
BY DEF Severity, Severities, Types, CameraTypes, Minor, Moderate

-----------------------------------------------------------------------------
\* Every multiple_faces violation that is counted is severe or critical, so the
\* counter is behind the tally; a restart only sets it back.
FacesCounted == faces <= tally["severe"] + tally["critical"]

IInv ==
    /\ TypeOK
    /\ LockedAtForty
    /\ OvershootBounded
    /\ FacesCounted
    /\ FacesNeverCritical

LEMMA InitInv == Init => IInv
<1> SUFFICES ASSUME Init PROVE IInv
    OBVIOUS
<1>1. tally \in Count /\ Total(tally) = 0
    BY DEF Init, Count, Severities, Total
<1>2. tally["severe"] = 0 /\ tally["critical"] = 0
    BY DEF Init, Severities
<1>3. streak \in Streak
    BY TimerAssumption DEF Init, NoStreak, Streak
<1>4. TypeOK
  <2>1. cooling \in [Reports -> Nat]
    BY DEF Init
  <2>2. faces \in Nat /\ downs \in 0..2 /\ quiet \in Nat
    BY DEF Init
  <2>3. tally \in [Severities -> Nat]
    BY <1>1 DEF Count
  <2>4. terminated \in BOOLEAN
    BY DEF Init
  <2>5. QED
    BY <1>3, <2>1, <2>2, <2>3, <2>4 DEF TypeOK
<1>5. LockedAtForty /\ OvershootBounded
  <2>1. terminated = FALSE
    BY DEF Init
  <2>2. ~(Total(tally) >= 40) /\ Total(tally) < 70
    BY <1>1
  <2>3. QED
    BY <2>1, <2>2 DEF LockedAtForty, OvershootBounded
<1>6. FacesCounted /\ FacesNeverCritical
    BY <1>2 DEF Init, FacesCounted, FacesNeverCritical
<1>7. QED
    BY <1>4, <1>5, <1>6 DEF IInv

\* What appending a violation does to everything but the streak and cooling.
LEMMA RecordInv ==
    ASSUME IInv, ~terminated, NEW type \in Types, NEW age, Record(type, age),
           streak' \in Streak, cooling' \in [Reports -> Nat]
    PROVE  IInv'
<1> USE DEF IInv
<1> DEFINE s == Severity(type, age)
<1>1. tally \in Count /\ faces \in Nat /\ downs \in 0..2
    BY DEF TypeOK, Count
<1>2. s \in Severities /\ (type = "multiple_faces" => s \in {"severe", "critical"})
    BY SeverityRange
<1>3. /\ tally' \in Count
      /\ Total(tally') = Total(tally) + Points(s)
      /\ tally'["severe"] + tally'["critical"] =
           tally["severe"] + tally["critical"] +
             (IF s \in {"severe", "critical"} THEN 1 ELSE 0)
    BY <1>1, <1>2, CountOneMore DEF Record
<1> HIDE DEF s
<1>4. Points(s) \in 0..30 /\ Total(tally) \in Nat
    BY <1>1, CountValues DEF Points
<1>5. Total(tally) < 40
    BY <1>4 DEF LockedAtForty
<1>6. OvershootBounded'
    BY <1>3, <1>4, <1>5 DEF OvershootBounded
<1>7. LockedAtForty'
    BY <1>3, LocksIsForty DEF LockedAtForty, Record
<1>8. /\ tally["severe"] \in Nat /\ tally["critical"] \in Nat
      /\ tally["severe"] + tally["critical"] <= 2
    BY <1>1, <1>5, CountValues DEF Total
<1>9. faces' = IF type = "multiple_faces" THEN faces + 1 ELSE faces
    BY DEF Record
<1>10. FacesCounted' /\ FacesNeverCritical'
    BY <1>1, <1>2, <1>3, <1>8, <1>9 DEF FacesCounted, FacesNeverCritical
<1>11. downs' \in 0..2 /\ faces' \in Nat
    BY <1>1 DEF Record
<1>12. quiet' \in Nat /\ terminated' \in BOOLEAN
    BY TimerAssumption DEF Record, Locks
<1>13. QED
    BY <1>3, <1>6, <1>7, <1>10, <1>11, <1>12 DEF TypeOK, Count

LEMMA NextInv == IInv /\ [Next]_vars => IInv'
<1> SUFFICES ASSUME IInv, [Next]_vars PROVE IInv'
    OBVIOUS
<1>0. TypeOK
    BY DEF IInv
\* A step that leaves the tally and the lockout alone.
<1>1. ASSUME UNCHANGED <<tally, terminated>>, TypeOK',
             faces' = faces \/ faces' = 0
      PROVE  IInv'
  <2>1. tally["severe"] \in Nat /\ tally["critical"] \in Nat
    BY <1>0, CountValues DEF TypeOK, Count
  <2>2. FacesCounted' /\ FacesNeverCritical'
    BY <1>1, <2>1 DEF IInv, FacesCounted, FacesNeverCritical
  <2>3. QED
    BY <1>1, <2>2 DEF IInv, LockedAtForty, OvershootBounded
<1>2. NoStreak \in Streak
    BY TimerAssumption DEF NoStreak, Streak
<1>3. ASSUME NEW type \in Reports, Report(type) PROVE IInv'
  <2>1. streak' \in Streak /\ cooling' \in [Reports -> Nat]
    BY <1>0, <1>3, TimerAssumption DEF Report, TypeOK
  <2>2. QED
    BY <1>3, <2>1, RecordInv, ReportsAssumption DEF Report
<1>4. CASE FrameOk
    BY <1>0, <1>1, <1>2, <1>4 DEF FrameOk, TypeOK
<1>5. ASSUME NEW type \in CameraTypes, Frame(type) PROVE IInv'
  <2>1. StreakOf(type) \in Streak
    BY <1>0, TimerAssumption DEF StreakOf, Streak, TypeOK
  <2>2. CASE StreakOf(type).age >= Duration /\ quiet = 0
    BY <1>0, <1>2, <1>5, <2>2, RecordInv DEF Frame, Types, TypeOK
  <2>3. CASE ~(StreakOf(type).age >= Duration /\ quiet = 0)
    BY <1>0, <1>1, <1>5, <2>1, <2>3 DEF Frame, TypeOK
  <2>4. QED
    BY <2>2, <2>3
<1>6. CASE Tick
  <2>1. \A n \in Nat : Less(n) \in Nat
    BY DEF Less
  <2>2. cooling' \in [Reports -> Nat] /\ quiet' \in Nat
    BY <1>0, <1>6, <2>1 DEF Tick, TypeOK
  <2>3. streak' \in Streak
    BY <1>0, <1>6, TimerAssumption DEF Tick, TypeOK, Streak
  <2>4. QED
    BY <1>0, <1>1, <1>6, <2>2, <2>3 DEF Tick, TypeOK
<1>7. CASE Rehydrate
  <2>1. terminated' = terminated
    BY <1>0, <1>7, LocksIsForty DEF Rehydrate, IInv, LockedAtForty, TypeOK, Count
  <2>2. QED
    BY <1>0, <1>1, <1>2, <1>7, <2>1 DEF Rehydrate, Fresh, TypeOK
<1>8. CASE UNCHANGED vars
    BY <1>0, <1>1, <1>8 DEF vars, TypeOK
<1>9. QED
    BY <1>3, <1>4, <1>5, <1>6, <1>7, <1>8 DEF Next

LEMMA Invariant == Spec => []IInv
BY InitInv, NextInv, PTL DEF Spec

\* The manager is locked exactly when its violations weigh 40 points or more.
THEOREM LockoutThreshold == Spec => []LockedAtForty
<1>1. IInv => LockedAtForty
    BY DEF IInv
<1>2. QED
    BY <1>1, Invariant, PTL

\* Only the violation that locks may pass 40 points, so the cap of 50 percent
\* never hides more than 19.
THEOREM Overshoot == Spec => []OvershootBounded
<1>1. IInv => OvershootBounded
    BY DEF IInv
<1>2. QED
    BY <1>1, Invariant, PTL

\* The branch of _severity_and_penalty that makes several faces critical is dead.
THEOREM FacesSevereAtMost == Spec => []FacesNeverCritical
<1>1. IInv => FacesNeverCritical
    BY DEF IInv
<1>2. QED
    BY <1>1, Invariant, PTL

\* A locked session stays locked, through a restart too.
THEOREM LockoutStays == Spec => LockoutPermanent
<1>1. ASSUME IInv, IInv', [Next]_vars PROVE [terminated => terminated']_vars
  <2>1. CASE \E type \in Reports : Report(type)
    BY <2>1 DEF Report
  <2>2. CASE FrameOk
    BY <2>2 DEF FrameOk
  <2>3. CASE \E type \in CameraTypes : Frame(type)
    BY <2>3 DEF Frame
  <2>4. CASE Tick \/ Rehydrate
    BY <2>4 DEF Tick, Rehydrate
  <2>5. QED
    BY <1>1, <2>1, <2>2, <2>3, <2>4 DEF Next
<1>2. IInv /\ IInv' /\ [Next]_vars => [terminated => terminated']_vars
    BY <1>1
<1>3. QED
    BY <1>2, Invariant, PTL DEF Spec, LockoutPermanent

-----------------------------------------------------------------------------
(* The refinement of the meter. *)

\* A violation is one step of the meter.
LEMMA RecordAdds ==
    ASSUME IInv, IInv', ~terminated, NEW type \in Types, NEW age, Record(type, age)
    PROVE  Meter!Next
<1> DEFINE s == Severity(type, age)
<1>1. tally \in Count /\ s \in Severities
    BY SeverityRange DEF IInv, TypeOK, Count
<1>2. Total(tally') = Total(tally) + Points(s)
    BY <1>1, CountOneMore DEF Record
<1> HIDE DEF s
<1>3. Points(s) \in Meter!Weights
    BY <1>1 DEF Points, Severities, Meter!Weights
<1>4. terminated' = (Total(tally') >= 40)
    BY DEF IInv, LockedAtForty, TypeOK
<1>5. Meter!Add(Points(s))
    BY <1>2, <1>4 DEF Meter!Add
<1>6. QED
    BY <1>3, <1>5 DEF Meter!Next

LEMMA StepsMeter ==
    ASSUME IInv, IInv', [Next]_vars
    PROVE  Meter!Next \/ UNCHANGED <<Total(tally), terminated>>
<1>1. ASSUME NEW type \in Reports, Report(type) PROVE Meter!Next
    BY <1>1, RecordAdds, ReportsAssumption DEF Report
<1>2. CASE FrameOk
    BY <1>2 DEF FrameOk
<1>3. ASSUME NEW type \in CameraTypes, Frame(type)
      PROVE  Meter!Next \/ UNCHANGED <<Total(tally), terminated>>
  <2>1. CASE StreakOf(type).age >= Duration /\ quiet = 0
    <3>1. ~terminated /\ Record(type, StreakOf(type).age) /\ type \in Types
        BY <1>3, <2>1 DEF Frame, Types
    <3>2. QED
        BY <3>1, RecordAdds
  <2>2. CASE ~(StreakOf(type).age >= Duration /\ quiet = 0)
      BY <1>3, <2>2 DEF Frame
  <2>3. QED
      BY <2>1, <2>2
<1>4. CASE Tick \/ UNCHANGED vars
    BY <1>4 DEF Tick, vars
\* What is restored is locked exactly when it was.
<1>5. CASE Rehydrate
  <2>1. tally' = tally
      BY <1>5 DEF Rehydrate
  <2>2. terminated' = terminated
      BY <2>1 DEF IInv, LockedAtForty, TypeOK
  <2>3. QED
      BY <2>1, <2>2
<1>6. QED
    BY <1>1, <1>2, <1>3, <1>4, <1>5 DEF Next

\* Every step of the manager is a step of the meter or does not show in it: the
\* promise holds for every duration, cooldown and set of reports.
THEOREM MeterImplemented == Spec => ImplementsMeter
<1>1. Init => Meter!Init
  <2> SUFFICES ASSUME Init PROVE Meter!Init
      OBVIOUS
  <2>1. Total(tally) = 0
      BY DEF Init, Severities, Total
  <2>2. QED
      BY <2>1 DEF Init, Meter!Init
<1>2. IInv /\ IInv' /\ [Next]_vars => [Meter!Next]_<<Total(tally), terminated>>
    BY StepsMeter
<1>3. QED
    BY <1>1, <1>2, Invariant, PTL DEF Spec, ImplementsMeter, Meter!Spec
=============================================================================
