--------------------------- MODULE InviteSeatsProofs ---------------------------
(***************************************************************************)
(* Theorems of InviteSeats, for every number of candidates and requests.   *)
(***************************************************************************)
EXTENDS InviteSeats, FiniteSetTheorems, SequenceTheorems, TLAPS

Working == {"password", "resume", "email", "insert", "attach"}

\* A request that still decides holds a row whose counter was at most the seats.
ReadsBehind ==
    \A r \in Requests : req[r].at \in Working => req[r].row.used <= Len(seats)

CountInv == TypeOK /\ CountNeverAhead /\ ReadsBehind

\* Initially nothing is read and no seat is taken.
LEMMA InitCount == Init => CountInv
  BY InviteAssumption DEF Init, CountInv, TypeOK, CountNeverAhead, ReadsBehind, Row, Request, Idle, Working

\* A request that only moves between steps, fails or is forgotten.
LEMMA Forget ==
  ASSUME CountInv, NEW r \in Requests, Fail(r)
  PROVE  CountInv'
  <1> USE DEF Fail, CountInv
  <1>1. TypeOK'
    BY DEF TypeOK, Request, Idle, Row
  <1>2. CountNeverAhead' /\ ReadsBehind'
    BY DEF TypeOK, CountNeverAhead, ReadsBehind, Idle, Working
  <1> QED BY <1>1, <1>2

LEMMA Move ==
  ASSUME CountInv, NEW r \in Requests, NEW step \in Working, req[r].at \in Working, Goto(r, step)
  PROVE  CountInv'
  <1> USE DEF Goto, CountInv
  <1>1. req[r] \in [at : Working, email : Emails, way : Ways, row : Row]
    BY DEF TypeOK, Request, Idle, Working
  <1>2. req'[r] \in [at : Working, email : Emails, way : Ways, row : Row] /\ req'[r].row = req[r].row
    BY <1>1 DEF TypeOK
  <1>3. TypeOK'
    BY <1>2 DEF TypeOK, Request, Working
  <1>4. CountNeverAhead' /\ ReadsBehind'
    BY <1>2 DEF TypeOK, CountNeverAhead, ReadsBehind
  <1> QED BY <1>3, <1>4

LEMMA Found ==
  ASSUME CountInv, NEW r \in Requests, req[r].at \in Working, NEW s \in DOMAIN seats,
         Answer(r, s), UNCHANGED <<invite, seats>>
  PROVE  CountInv'
  <1> USE DEF Answer, CountInv
  <1>1. req[r].email \in Emails
    BY DEF TypeOK, Request, Idle, Working
  <1>2. req'[r] \in [at : {"answer"}, email : Emails, seat : DOMAIN seats]
    BY <1>1 DEF TypeOK
  <1>3. TypeOK'
    BY <1>2 DEF TypeOK, Request
  <1>4. CountNeverAhead' /\ ReadsBehind'
    BY <1>2 DEF TypeOK, CountNeverAhead, ReadsBehind, Working
  <1> QED BY <1>3, <1>4

LEMMA RowWithCount ==
  ASSUME NEW T, NEW row \in [used : Nat, deleted : BOOLEAN, expiry : T], NEW n \in Nat
  PROVE  /\ [row EXCEPT !.used = n] \in [used : Nat, deleted : BOOLEAN, expiry : T]
         /\ [row EXCEPT !.used = n].used = n
  OBVIOUS

LEMMA AttachCount ==
  ASSUME CountInv, NEW r \in Requests, Attach(r)
  PROVE  CountInv'
  <1> USE DEF Attach, CountInv
  <1>1. /\ req[r].email \in Emails
        /\ req[r].row \in Row
        /\ req[r].row.used <= Len(seats)
    BY DEF TypeOK, Request, Idle, Working, ReadsBehind
  <1>2. /\ seats' \in Seq(Emails)
        /\ Len(seats') = Len(seats) + 1
        /\ DOMAIN seats' = 1..Len(seats')
        /\ DOMAIN seats = 1..Len(seats)
    BY <1>1 DEF TypeOK
  <1>3. req'[r] \in [at : {"answer"}, email : Emails, seat : DOMAIN seats']
    BY <1>1, <1>2 DEF TypeOK
  <1>4. invite' \in Row /\ invite'.used = req[r].row.used + 1
    <2>1. req[r].row.used + 1 \in Nat
      BY <1>1 DEF Row
    <2>2. invite \in [used : Nat, deleted : BOOLEAN, expiry : 0..LastTime]
      BY DEF TypeOK, Row
    <2> QED BY <2>1, <2>2, RowWithCount DEF Row
  <1>5. \A q \in Requests : q # r => req'[q] = req[q]
    BY DEF TypeOK
  <1>6. \A q \in Requests : req'[q] \in Request'
    <2> TAKE q \in Requests
    <2>1. CASE q = r
      BY <2>1, <1>3 DEF Request
    <2>2. CASE q # r
      BY <2>2, <1>5, <1>2 DEF TypeOK, Request
    <2> QED BY <2>1, <2>2
  <1>7. told' \in [Emails -> SUBSET DOMAIN seats']
    BY <1>2 DEF TypeOK
  <1>8. TypeOK'
    BY <1>1, <1>2, <1>4, <1>6, <1>7 DEF TypeOK
  <1>9. CountNeverAhead'
    BY <1>1, <1>2, <1>4 DEF TypeOK, CountNeverAhead, Row
  <1>10. ReadsBehind'
    <2> SUFFICES ASSUME NEW q \in Requests, req'[q].at \in Working
                 PROVE  req'[q].row.used <= Len(seats')
      BY DEF ReadsBehind
    <2>1. q # r
      BY <1>3 DEF Working
    <2>2. req[q].row \in Row /\ req[q].row.used <= Len(seats)
      BY <2>1, <1>5 DEF TypeOK, Request, Idle, Working, ReadsBehind
    <2> QED BY <2>1, <2>2, <1>5, <1>2 DEF Row, TypeOK
  <1> QED BY <1>8, <1>9, <1>10

LEMMA NextCount == CountInv /\ [Next]_vars => CountInv'
  <1> SUFFICES ASSUME CountInv, [Next]_vars PROVE CountInv'
    OBVIOUS
  <1>1. CASE UNCHANGED vars
    BY <1>1 DEF vars, CountInv, TypeOK, CountNeverAhead, ReadsBehind, Request
  <1>2. ASSUME NEW r \in Requests, CheckPassword(r) PROVE CountInv'
    BY <1>2, Forget, Move DEF CheckPassword, Working
  <1>3. ASSUME NEW r \in Requests, Resume(r) PROVE CountInv'
    <2>1. req[r].at \in Working
      BY <1>3 DEF Resume, Working
    <2>2. CASE Fail(r)
      BY <2>2, Forget
    <2>3. CASE \E step \in Working : Goto(r, step)
      BY <2>1, <2>3, Move
    <2>4. CASE \E s \in SeatsOf(req[r].email) : Answer(r, s) /\ UNCHANGED <<invite, seats>>
      BY <2>1, <2>4, Found DEF SeatsOf
    <2> QED BY <1>3, <2>2, <2>3, <2>4 DEF Resume, Working
  <1>4. ASSUME NEW r \in Requests, CheckEmail(r) PROVE CountInv'
    BY <1>4, Forget, Move DEF CheckEmail, Working
  <1>5. ASSUME NEW r \in Requests, InsertUser(r) PROVE CountInv'
    BY <1>5, Forget, Move DEF InsertUser, Working
  <1>6. ASSUME NEW r \in Requests, Attach(r) PROVE CountInv'
    BY <1>6, AttachCount
  <1>7. ASSUME NEW r \in Requests, Reply(r) PROVE CountInv'
    <2> USE <1>7 DEF Reply, CountInv
    <2>1. req[r].email \in Emails /\ req[r].seat \in DOMAIN seats
      BY DEF TypeOK, Request, Idle, Working
    <2>2. told' \in [Emails -> SUBSET DOMAIN seats]
      BY <2>1 DEF TypeOK
    <2>3. TypeOK'
      BY <2>2 DEF TypeOK, Request, Idle, Row
    <2>4. CountNeverAhead' /\ ReadsBehind'
      BY DEF TypeOK, CountNeverAhead, ReadsBehind, Idle, Working
    <2> QED BY <2>3, <2>4
  <1>8. ASSUME NEW r \in Requests, LoseReply(r) PROVE CountInv'
    BY <1>8, Forget DEF LoseReply
  <1>9. ASSUME NEW r \in Requests, NEW e \in Emails, NEW way \in Ways, Begin(r, e, way)
        PROVE  CountInv'
    <2> USE <1>9 DEF Begin, CountInv
    <2>1. /\ req'[r] \in [at : Working, email : Emails, way : Ways, row : Row]
          /\ req'[r].row = invite
      BY DEF TypeOK, Working
    <2>2. TypeOK'
      BY <2>1 DEF TypeOK, Request, Working
    <2>3. CountNeverAhead' /\ ReadsBehind'
      BY <2>1 DEF TypeOK, CountNeverAhead, ReadsBehind
    <2> QED BY <2>2, <2>3
  <1>10. ASSUME NEW hours \in 1..LastTime, UpdateAssessment(hours) PROVE CountInv'
    BY <1>10, InviteAssumption DEF UpdateAssessment, CountInv, TypeOK, CountNeverAhead, ReadsBehind, Row, Request
  <1>11. ASSUME NEW e \in Emails, SignUp(e) PROVE CountInv'
    BY <1>11 DEF SignUp, CountInv, TypeOK, CountNeverAhead, ReadsBehind, Request
  <1>12. CASE DeleteAssessment
    BY <1>12 DEF DeleteAssessment, CountInv, TypeOK, CountNeverAhead, ReadsBehind, Row, Request
  <1>13. CASE Tick
    BY <1>13, InviteAssumption DEF Tick, CountInv, TypeOK, CountNeverAhead, ReadsBehind, Request
  <1>14. CASE Restart
    BY <1>14 DEF Restart, CountInv, TypeOK, CountNeverAhead, ReadsBehind, Request, Idle, Working
  <1> QED
    BY <1>1, <1>2, <1>3, <1>4, <1>5, <1>6, <1>7, <1>8, <1>9, <1>10, <1>11, <1>12, <1>13, <1>14
    DEF Next, Step

\* Every request and answer is well-formed, and an answer names a seat that exists.
THEOREM SeatTypes == Spec => []TypeOK
  <1>1. Init => CountInv
    BY InitCount
  <1>2. CountInv /\ [Next]_vars => CountInv'
    BY NextCount
  <1>3. CountInv => TypeOK
    BY DEF CountInv
  <1> QED BY <1>1, <1>2, <1>3, PTL DEF Spec

\* However many requests overlap, used_count is never ahead of the seats taken,
\* so the limit check never turns a candidate away while a seat is free.
THEOREM NeverAhead == Spec => []CountNeverAhead
  <1>1. Init => CountInv
    BY InitCount
  <1>2. CountInv /\ [Next]_vars => CountInv'
    BY NextCount
  <1>3. CountInv => CountNeverAhead
    BY DEF CountInv
  <1> QED BY <1>1, <1>2, <1>3, PTL DEF Spec

-----------------------------------------------------------------------------
\* Why registration alone gives a candidate one seat: every seat belongs to a
\* committed account, an account is committed with its seat or without one, and
\* two registrations of one address are never past the unique index together.
OwnSeat == \A s, t \in DOMAIN seats : seats[s] = seats[t] => s = t
SeatsHaveUsers == \A s \in DOMAIN seats : seats[s] \in users
FreshInserts ==
    \A r \in Requests : req[r].at = "attach" => /\ req[r].way = "register"
                                               /\ req[r].email \notin users
OneInsert ==
    \A q, r \in Requests : /\ req[q].at = "attach" /\ req[r].at = "attach"
                           /\ req[q].email = req[r].email
                           => q = r
RegisterInv ==
    TypeOK /\ OwnSeat /\ SeatsHaveUsers /\ FreshInserts /\ OneInsert

LEMMA OwnMeansOne == OwnSeat => OneSeatEach
  <1> SUFFICES ASSUME OwnSeat, NEW e \in Emails PROVE Cardinality(SeatsOf(e)) <= 1
    BY DEF OneSeatEach
  <1>1. CASE SeatsOf(e) = {}
    BY <1>1, FS_EmptySet
  <1>2. CASE SeatsOf(e) # {}
    <2>1. PICK s \in SeatsOf(e) : SeatsOf(e) = {s}
      BY <1>2 DEF SeatsOf, OwnSeat
    <2>2. Cardinality({s}) = 1
      BY FS_Singleton
    <2> QED BY <2>1, <2>2
  <1> QED BY <1>1, <1>2

\* A step that adds no account and no seat and lets no request past the index.
LEMMA NoInsert ==
  ASSUME RegisterInv, TypeOK', users' = users, seats' = seats,
         \A q \in Requests : req'[q].at = "attach" => req'[q] = req[q]
  PROVE  RegisterInv'
  BY DEF RegisterInv, OwnSeat, SeatsHaveUsers, FreshInserts, OneInsert

LEMMA RegisterInsert ==
  ASSUME RegisterInv, TypeOK', Ways = {"register"}, NEW r \in Requests, InsertUser(r)
  PROVE  RegisterInv'
  <1>1. CASE req[r].email \in users
    <2>1. \A q \in Requests : req'[q].at = "attach" => req'[q] = req[q]
      BY <1>1 DEF InsertUser, Fail, RegisterInv, TypeOK, Idle
    <2> QED BY <1>1, <2>1, NoInsert DEF InsertUser, Fail
  <1>2. CASE req[r].email \notin users
    <2>1. /\ users' = users /\ seats' = seats
          /\ req' = [req EXCEPT ![r].at = "attach"]
          /\ req[r].at = "insert"
          /\ ~Inserting(req[r].email)
      BY <1>2 DEF InsertUser, Goto
    <2>2. /\ req[r].way = "register"
          /\ req[r] \in [at : Working, email : Emails, way : Ways, row : Row]
      BY <2>1 DEF RegisterInv, TypeOK, Request, Idle, Working
    <2>3. /\ req'[r].at = "attach"
          /\ req'[r].way = "register"
          /\ req'[r].email = req[r].email
          /\ \A q \in Requests : q # r => req'[q] = req[q]
      BY <2>1, <2>2 DEF RegisterInv, TypeOK
    <2>4. FreshInserts'
      BY <1>2, <2>1, <2>3 DEF RegisterInv, FreshInserts
    <2>5. \A q \in Requests : q # r /\ req[q].at = "attach" => req[q].email # req[r].email
      BY <2>1 DEF Inserting, RegisterInv, FreshInserts
    <2>6. OneInsert'
      BY <2>3, <2>5 DEF RegisterInv, OneInsert
    <2> QED BY <2>1, <2>4, <2>6 DEF RegisterInv, OwnSeat, SeatsHaveUsers
  <1> QED BY <1>1, <1>2

LEMMA RegisterAttach ==
  ASSUME RegisterInv, TypeOK', NEW r \in Requests, Attach(r)
  PROVE  RegisterInv'
  <1>1. /\ req[r].at = "attach"
        /\ req[r].email \in Emails
        /\ req[r].email \notin users
    BY DEF Attach, RegisterInv, TypeOK, Request, Idle, Working, FreshInserts
  <1>2. /\ seats' = Append(seats, req[r].email)
        /\ users' = users \union {req[r].email}
        /\ seats \in Seq(Emails)
    BY DEF Attach, RegisterInv, TypeOK
  <1>3. /\ DOMAIN seats' = 1..(Len(seats) + 1)
        /\ DOMAIN seats = 1..Len(seats)
        /\ Len(seats) \in Nat
        /\ seats'[Len(seats) + 1] = req[r].email
        /\ \A s \in 1..Len(seats) : seats'[s] = seats[s]
    BY <1>1, <1>2
  <1>4. SeatsHaveUsers'
    BY <1>2, <1>3 DEF RegisterInv, SeatsHaveUsers
  <1>5. OwnSeat'
    BY <1>1, <1>3 DEF RegisterInv, SeatsHaveUsers, OwnSeat
  <1>6. /\ \A q \in Requests : q # r => req'[q] = req[q]
        /\ req'[r].at = "answer"
    BY DEF Attach, RegisterInv, TypeOK
  <1>7. FreshInserts'
    BY <1>1, <1>2, <1>6 DEF RegisterInv, FreshInserts, OneInsert
  <1>8. OneInsert'
    BY <1>6 DEF RegisterInv, OneInsert
  <1> QED BY <1>4, <1>5, <1>7, <1>8 DEF RegisterInv

LEMMA NextRegister ==
  ASSUME Ways = {"register"}, RegisterInv, TypeOK', [Next]_vars
  PROVE  RegisterInv'
  <1> USE DEF RegisterInv
  <1>1. CASE UNCHANGED vars
    BY <1>1, NoInsert DEF vars
  <1>2. ASSUME NEW r \in Requests, Fail(r) PROVE RegisterInv'
    BY <1>2, NoInsert DEF Fail, TypeOK, Idle
  <1>3. ASSUME NEW r \in Requests, NEW step, step # "attach", Goto(r, step) PROVE RegisterInv'
    <2>1. \A q \in Requests : req'[q].at = "attach" => req'[q] = req[q]
      <3> SUFFICES ASSUME NEW q \in Requests, req'[q].at = "attach" PROVE req'[q] = req[q]
        OBVIOUS
      <3>1. CASE q # r
        BY <1>3, <3>1 DEF Goto, TypeOK
      <3>2. CASE q = r
        <4>1. req'[r] \in Request'
          BY DEF TypeOK
        <4>2. req'[r] = [req[r] EXCEPT !.at = step]
          BY <1>3 DEF Goto, TypeOK
        <4>3. req'[r].at # "attach"
          BY <1>3, <4>2 DEF TypeOK, Request, Idle
        <4> QED BY <3>2, <4>3
      <3> QED BY <3>1, <3>2
    <2> QED BY <1>3, <2>1, NoInsert DEF Goto
  <1>4. ASSUME NEW r \in Requests, CheckPassword(r) PROVE RegisterInv'
    BY <1>4, <1>2, <1>3 DEF CheckPassword
  <1>5. ASSUME NEW r \in Requests, Resume(r) PROVE RegisterInv'
    <2>1. req[r].way # "login"
      BY <1>5 DEF Resume, TypeOK, Request, Idle
    <2>2. ASSUME NEW s, Answer(r, s), UNCHANGED <<invite, seats>> PROVE RegisterInv'
      BY <2>2, NoInsert DEF Answer, TypeOK
    <2> QED BY <1>5, <2>1, <2>2, <1>2, <1>3 DEF Resume
  <1>6. ASSUME NEW r \in Requests, CheckEmail(r) PROVE RegisterInv'
    BY <1>6, <1>2, <1>3 DEF CheckEmail
  <1>7. ASSUME NEW r \in Requests, InsertUser(r) PROVE RegisterInv'
    BY <1>7, RegisterInsert
  <1>8. ASSUME NEW r \in Requests, Attach(r) PROVE RegisterInv'
    BY <1>8, RegisterAttach
  <1>9. ASSUME NEW r \in Requests, Reply(r) PROVE RegisterInv'
    BY <1>9, NoInsert DEF Reply, TypeOK, Idle
  <1>10. ASSUME NEW r \in Requests, LoseReply(r) PROVE RegisterInv'
    BY <1>10, <1>2 DEF LoseReply
  <1>11. ASSUME NEW r \in Requests, NEW e \in Emails, NEW way \in Ways, Begin(r, e, way)
         PROVE  RegisterInv'
    BY <1>11, NoInsert DEF Begin, TypeOK
  <1>12. ASSUME NEW hours \in 1..LastTime, UpdateAssessment(hours) PROVE RegisterInv'
    BY <1>12, NoInsert DEF UpdateAssessment
  <1>13. ASSUME NEW e \in Emails, SignUp(e) PROVE RegisterInv'
    BY <1>13 DEF SignUp, Inserting, OwnSeat, SeatsHaveUsers, FreshInserts, OneInsert
  <1>14. CASE DeleteAssessment
    BY <1>14, NoInsert DEF DeleteAssessment
  <1>15. CASE Tick
    BY <1>15, NoInsert DEF Tick
  <1>16. CASE Restart
    BY <1>16, NoInsert DEF Restart, Idle
  <1> QED
    BY <1>1, <1>4, <1>5, <1>6, <1>7, <1>8, <1>9, <1>10, <1>11, <1>12, <1>13, <1>14, <1>15, <1>16
    DEF Next, Step

\* With registration as the only way in, a candidate never has two seats, in
\* whatever order the registrations of any number of candidates overlap.
THEOREM RegistrationSeats ==
  ASSUME Ways = {"register"}
  PROVE  Spec => []OneSeatEach
  <1>1. Init => RegisterInv /\ CountInv
    <2>1. Init => TypeOK
      BY InitCount DEF CountInv
    <2>2. Init => OwnSeat /\ SeatsHaveUsers /\ FreshInserts /\ OneInsert
      BY DEF Init, Idle, OwnSeat, SeatsHaveUsers, FreshInserts, OneInsert
    <2> QED BY <2>1, <2>2, InitCount DEF RegisterInv
  <1>2. RegisterInv /\ CountInv /\ [Next]_vars => (RegisterInv /\ CountInv)'
    BY NextCount, NextRegister DEF CountInv
  <1>3. RegisterInv => OneSeatEach
    BY OwnMeansOne DEF RegisterInv
  <1> QED BY <1>1, <1>2, <1>3, PTL DEF Spec

-----------------------------------------------------------------------------
\* Why the counter and the limit hold as long as requests do not overlap: what
\* the one request read is still so, the seat it is about to take included.
Alone == \A q, r \in Requests : q = r

Admitted == {"email", "insert", "attach"}
ReadsNow == \A r \in Requests : req[r].at \in Working => req[r].row.used = Len(seats)
RoomForIt ==
    \A r \in Requests : req[r].at \in Admitted => /\ req[r].row.used < MaxUses
                                                  /\ SeatsOf(req[r].email) = {}
LaneInv ==
    CountInv /\ SeatsCounted /\ SeatsWithinUses /\ OwnSeat /\ ReadsNow /\ RoomForIt

\* A step that takes no seat, does not change the counter, and lets nobody past
\* the look-up.
LEMMA SameSeats ==
  ASSUME LaneInv, CountInv', seats' = seats, invite'.used = invite.used,
         \A q \in Requests : req'[q].at \in Working => /\ req[q].at \in Working
                                                      /\ req'[q].row = req[q].row
                                                      /\ req'[q].email = req[q].email,
         \A q \in Requests : req'[q].at \in Admitted => req[q].at \in Admitted
  PROVE  LaneInv'
  <1>1. Admitted \subseteq Working
    BY DEF Admitted, Working
  <1>2. SeatsCounted' /\ SeatsWithinUses' /\ OwnSeat'
    BY DEF LaneInv, SeatsCounted, SeatsWithinUses, OwnSeat
  <1>3. ReadsNow' /\ RoomForIt'
    BY <1>1 DEF LaneInv, ReadsNow, RoomForIt, SeatsOf
  <1> QED BY <1>2, <1>3 DEF LaneInv

LEMMA LaneForget ==
  ASSUME LaneInv, CountInv', NEW r \in Requests, Fail(r) PROVE LaneInv'
  <1>1. req'[r].at = "idle" /\ \A q \in Requests : q # r => req'[q] = req[q]
    BY DEF Fail, Idle, LaneInv, CountInv, TypeOK
  <1>2. "idle" \notin Working /\ "idle" \notin Admitted
    BY DEF Working, Admitted
  <1> QED BY <1>1, <1>2, SameSeats DEF Fail

\* What Goto leaves of a request.
LEMMA LaneMoved ==
  ASSUME CountInv, NEW r \in Requests, NEW step \in Working, req[r].at \in Working, Goto(r, step)
  PROVE  /\ req'[r].at = step /\ req'[r].row = req[r].row /\ req'[r].email = req[r].email
         /\ \A q \in Requests : q # r => req'[q] = req[q]
  <1>1. req[r] \in [at : Working, email : Emails, way : Ways, row : Row]
    BY DEF CountInv, TypeOK, Request, Idle, Working
  <1>2. req'[r] = [req[r] EXCEPT !.at = step]
    BY DEF Goto, CountInv, TypeOK
  <1>3. \A q \in Requests : q # r => req'[q] = req[q]
    BY DEF Goto, CountInv, TypeOK
  <1> QED BY <1>1, <1>2, <1>3

LEMMA LaneMove ==
  ASSUME LaneInv, CountInv', NEW r \in Requests, NEW step \in Working,
         req[r].at \in Working, Goto(r, step),
         step \in Admitted =>
             \/ req[r].at \in Admitted
             \/ req[r].row.used < MaxUses /\ SeatsOf(req[r].email) = {}
  PROVE  LaneInv'
  <1>1. /\ req'[r].at = step /\ req'[r].row = req[r].row /\ req'[r].email = req[r].email
        /\ \A q \in Requests : q # r => req'[q] = req[q]
        /\ seats' = seats /\ invite' = invite
    BY LaneMoved DEF LaneInv, Goto
  <1>2. SeatsCounted' /\ SeatsWithinUses' /\ OwnSeat'
    BY <1>1 DEF LaneInv, SeatsCounted, SeatsWithinUses, OwnSeat
  <1>3. ReadsNow'
    BY <1>1 DEF LaneInv, ReadsNow
  <1>4. RoomForIt'
    BY <1>1 DEF LaneInv, RoomForIt, SeatsOf
  <1> QED BY <1>2, <1>3, <1>4 DEF LaneInv

LEMMA LaneAttach ==
  ASSUME Alone, LaneInv, CountInv', NEW r \in Requests, Attach(r) PROVE LaneInv'
  <1>1. /\ req[r].at = "attach" /\ req[r].row.used = Len(seats) /\ Len(seats) < MaxUses
        /\ SeatsOf(req[r].email) = {}
    BY DEF Attach, LaneInv, ReadsNow, RoomForIt, Working, Admitted
  <1>2. /\ seats' = Append(seats, req[r].email) /\ seats \in Seq(Emails)
        /\ invite \in Row /\ invite' = [invite EXCEPT !.used = req[r].row.used + 1]
    BY DEF Attach, LaneInv, CountInv, TypeOK
  <1>3. req[r].email \in Emails
    BY <1>1 DEF LaneInv, CountInv, TypeOK, Request, Idle
  <1>4. /\ DOMAIN seats' = 1..(Len(seats) + 1) /\ DOMAIN seats = 1..Len(seats)
        /\ Len(seats) \in Nat /\ Len(seats') = Len(seats) + 1
        /\ seats'[Len(seats) + 1] = req[r].email
        /\ \A s \in 1..Len(seats) : seats'[s] = seats[s]
    BY <1>2, <1>3
  <1>5. invite'.used = Len(seats) + 1
    BY <1>1, <1>2 DEF Row
  <1>6. SeatsCounted' /\ SeatsWithinUses'
    BY <1>1, <1>4, <1>5, InviteAssumption DEF SeatsCounted, SeatsWithinUses
  <1>7. OwnSeat'
    <2>1. \A s \in 1..Len(seats) : seats[s] # req[r].email
      BY <1>1, <1>4 DEF SeatsOf
    <2> QED BY <1>4, <2>1 DEF LaneInv, OwnSeat
  <1>8. \A q \in Requests : req'[q].at = "answer"
    BY DEF Alone, Attach, LaneInv, CountInv, TypeOK
  <1>9. ReadsNow' /\ RoomForIt'
    BY <1>8 DEF ReadsNow, RoomForIt, Working, Admitted
  <1> QED BY <1>6, <1>7, <1>9 DEF LaneInv

LEMMA NextLane ==
  ASSUME Alone, LaneInv, CountInv', [Next]_vars PROVE LaneInv'
  <1> USE DEF LaneInv
  <1>1. CASE UNCHANGED vars
    BY <1>1, SameSeats DEF vars
  <1>2. ASSUME NEW r \in Requests, CheckPassword(r) PROVE LaneInv'
    BY <1>2, LaneForget, LaneMove DEF CheckPassword, Working, Admitted
  <1>3. ASSUME NEW r \in Requests, Resume(r) PROVE LaneInv'
    <2>1. req[r].at \in Working
      BY <1>3 DEF Resume, Working
    <2>2. CASE Fail(r)
      BY <2>2, LaneForget
    <2>3. ASSUME NEW s, Answer(r, s), UNCHANGED <<invite, seats>> PROVE LaneInv'
      <3>1. req'[r].at = "answer" /\ \A q \in Requests : q # r => req'[q] = req[q]
        BY <2>3 DEF Answer, CountInv, TypeOK
      <3>2. "answer" \notin Working /\ "answer" \notin Admitted
        BY DEF Working, Admitted
      <3> QED BY <2>3, <3>1, <3>2, SameSeats
    <2>4. ASSUME SeatsOf(req[r].email) = {}, Usable(req[r].row), NEW step \in Admitted, Goto(r, step)
          PROVE  LaneInv'
      BY <2>1, <2>4, LaneMove DEF Usable, Admitted, Working
    <2> QED BY <1>3, <2>2, <2>3, <2>4 DEF Resume, Admitted
  <1>4. ASSUME NEW r \in Requests, CheckEmail(r) PROVE LaneInv'
    BY <1>4, LaneForget, LaneMove DEF CheckEmail, Working, Admitted
  <1>5. ASSUME NEW r \in Requests, InsertUser(r) PROVE LaneInv'
    BY <1>5, LaneForget, LaneMove DEF InsertUser, Working, Admitted
  <1>6. ASSUME NEW r \in Requests, Attach(r) PROVE LaneInv'
    BY <1>6, LaneAttach
  <1>7. ASSUME NEW r \in Requests, Reply(r) PROVE LaneInv'
    <2>1. req'[r].at = "idle" /\ \A q \in Requests : q # r => req'[q] = req[q]
      BY <1>7 DEF Reply, Idle, CountInv, TypeOK
    <2>2. "idle" \notin Working /\ "idle" \notin Admitted
      BY DEF Working, Admitted
    <2> QED BY <1>7, <2>1, <2>2, SameSeats DEF Reply
  <1>8. ASSUME NEW r \in Requests, LoseReply(r) PROVE LaneInv'
    BY <1>8, LaneForget DEF LoseReply
  <1>9. ASSUME NEW r \in Requests, NEW e \in Emails, NEW way \in Ways, Begin(r, e, way)
        PROVE  LaneInv'
    <2>1. /\ req'[r].at \in {"password", "resume"} /\ req'[r].row = invite
          /\ \A q \in Requests : q # r => req'[q] = req[q]
          /\ UNCHANGED <<invite, seats>>
      BY <1>9 DEF Begin, CountInv, TypeOK
    <2>2. SeatsCounted' /\ SeatsWithinUses' /\ OwnSeat'
      BY <2>1 DEF SeatsCounted, SeatsWithinUses, OwnSeat
    <2>3. ReadsNow'
      BY <2>1 DEF ReadsNow, SeatsCounted
    <2>4. RoomForIt'
      BY <2>1 DEF RoomForIt, SeatsOf, Admitted
    <2> QED BY <2>2, <2>3, <2>4
  <1>10. CASE \/ \E hours \in 1..LastTime : UpdateAssessment(hours)
              \/ DeleteAssessment
    <2>1. invite'.used = invite.used /\ UNCHANGED <<seats, req>>
      BY <1>10 DEF UpdateAssessment, DeleteAssessment, CountInv, TypeOK, Row
    <2> QED BY <2>1, SameSeats
  <1>11. ASSUME NEW e \in Emails, SignUp(e) PROVE LaneInv'
    BY <1>11, SameSeats DEF SignUp
  <1>12. CASE Tick
    BY <1>12, SameSeats DEF Tick
  <1>13. CASE Restart
    <2>1. \A q \in Requests : req'[q].at = "idle"
      BY <1>13 DEF Restart, Idle
    <2>2. "idle" \notin Working /\ "idle" \notin Admitted
      BY DEF Working, Admitted
    <2> QED BY <1>13, <2>1, <2>2, SameSeats DEF Restart
  <1> QED
    BY <1>1, <1>2, <1>3, <1>4, <1>5, <1>6, <1>7, <1>8, <1>9, <1>10, <1>11, <1>12, <1>13
    DEF Next, Step

LEMMA LaneHolds == Alone => (Spec => []LaneInv)
  <1> SUFFICES ASSUME Alone PROVE Spec => []LaneInv
    OBVIOUS
  <1>1. Init => LaneInv
    <2> SUFFICES ASSUME Init PROVE LaneInv
      OBVIOUS
    <2>1. seats = <<>> /\ invite.used = 0 /\ \A r \in Requests : req[r].at = "idle"
      BY DEF Init, Idle
    <2>2. CountInv
      BY InitCount
    <2>3. SeatsCounted /\ SeatsWithinUses /\ OwnSeat
      BY <2>1, InviteAssumption DEF SeatsCounted, SeatsWithinUses, OwnSeat
    <2>4. ReadsNow /\ RoomForIt
      BY <2>1 DEF ReadsNow, RoomForIt, Working, Admitted
    <2> QED BY <2>2, <2>3, <2>4 DEF LaneInv
  <1>2. LaneInv /\ [Next]_vars => LaneInv'
    BY NextCount, NextLane DEF LaneInv
  <1> QED BY <1>1, <1>2, PTL DEF Spec

\* As long as one request is handled at a time, used_count is the number of
\* seats, for any number of candidates, limit and history of restarts and
\* changes by the recruiter.
THEOREM CountedAlone == ASSUME Alone PROVE Spec => []SeatsCounted
  <1>1. LaneInv => SeatsCounted
    BY DEF LaneInv
  <1>2. Spec => []LaneInv
    BY LaneHolds
  <1> QED BY <1>1, <1>2, PTL

\* As long as one request is handled at a time, max_uses is a limit.
THEOREM LimitedAlone == ASSUME Alone PROVE Spec => []SeatsWithinUses
  <1>1. LaneInv => SeatsWithinUses
    BY DEF LaneInv
  <1>2. Spec => []LaneInv
    BY LaneHolds
  <1> QED BY <1>1, <1>2, PTL

\* As long as one request is handled at a time, a candidate has one seat by
\* either endpoint.
THEOREM OneSeatAlone == ASSUME Alone PROVE Spec => []OneSeatEach
  <1>1. LaneInv => OneSeatEach
    BY OwnMeansOne DEF LaneInv
  <1>2. Spec => []LaneInv
    BY LaneHolds
  <1> QED BY <1>1, <1>2, PTL
=============================================================================
