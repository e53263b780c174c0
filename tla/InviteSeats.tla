------------------------------ MODULE InviteSeats ------------------------------
(***************************************************************************)
(* One assessment invite and the candidates who take a seat on it          *)
(* (app/services/invite_service.py).  Registration and login are coroutines *)
(* on one event loop, each with a database session of its own: they        *)
(* interleave at every await, a statement sees what is committed when it   *)
(* runs (READ COMMITTED), and an object keeps the values it was read with. *)
(*                                                                         *)
(* A seat is a row of candidate_verifications with its session: seats[s]   *)
(* is the e-mail address it belongs to, and s stands for the session id.   *)
(***************************************************************************)
EXTENDS Naturals, Sequences, FiniteSets

CONSTANTS
    Emails,     \* candidates
    Requests,   \* requests that can be in flight together
    Ways,       \* endpoints candidates use: subset of {"register", "login"}
    MaxUses,    \* InterviewInvite.max_uses
    LastTime,   \* bound on the clock
    MaxSeats    \* bound on attached seats

ASSUME InviteAssumption ==
    /\ Ways \subseteq {"register", "login"}
    /\ {MaxUses, LastTime, MaxSeats} \subseteq Nat

VARIABLES
    invite,  \* the interview_invites row
    users,   \* e-mail addresses with a committed candidate account
    seats,   \* candidate_verifications of the invite, with their sessions
    req,     \* what each request is doing
    told,    \* the sessions each candidate has been given in an answer
    now

vars == <<invite, users, seats, req, told, now>>

Idle == [at |-> "idle"]
SeatsOf(e) == {s \in DOMAIN seats : seats[s] = e}

Inserting(e) == \E r \in Requests :
    req[r].at = "attach" /\ req[r].way = "register" /\ req[r].email = e

\* _validate_invite_row for a new use, of the row that was read.
UsableOffByOne(row) == ~row.deleted /\ row.expiry > now /\ row.used <= MaxUses
Usable(row) == ~row.deleted /\ row.expiry > now /\ row.used < MaxUses

Init ==
    /\ invite = [used |-> 0, deleted |-> FALSE, expiry |-> LastTime]
    /\ users = {}
    /\ seats = <<>>
    /\ req = [r \in Requests |-> Idle]
    /\ told = [e \in Emails |-> {}]
    /\ now = 0

-----------------------------------------------------------------------------

\* Both endpoints read the invite first and decide on what they read.
Begin(r, e, way) ==
    /\ req[r].at = "idle"
    /\ req' = [req EXCEPT ![r] =
         [at |-> IF way = "login" THEN "password" ELSE "resume",
          email |-> e, way |-> way, row |-> invite]]
    /\ UNCHANGED <<invite, users, seats, told, now>>

Fail(r) ==
    /\ req' = [req EXCEPT ![r] = Idle]
    /\ UNCHANGED <<invite, users, seats, told, now>>

Goto(r, step) ==
    /\ req' = [req EXCEPT ![r].at = step]
    /\ UNCHANGED <<invite, users, seats, told, now>>

Answer(r, s) ==
    /\ req' = [req EXCEPT ![r] = [at |-> "answer", email |-> req[r].email, seat |-> s]]
    /\ UNCHANGED <<users, told, now>>

\* login_candidate: the account must exist (its password is the candidate's).
CheckPassword(r) ==
    /\ req[r].at = "password"
    /\ IF req[r].email \in users THEN Goto(r, "resume") ELSE Fail(r)

\* No look-up of the candidate's registration.
ResumeNever(r) ==
    /\ req[r].at = "resume"
    /\ IF Usable(req[r].row)
       THEN Goto(r, IF req[r].way = "login" THEN "attach" ELSE "email")
       ELSE Fail(r)

\* _resume_existing_registration: scalar_one_or_none raises on two rows.
Resume(r) ==
    LET mine == SeatsOf(req[r].email)
    IN  /\ req[r].at = "resume"
        /\ \/ /\ Cardinality(mine) > 1
              /\ Fail(r)
           \/ /\ Cardinality(mine) = 1
              /\ req[r].row.deleted
              /\ Fail(r)
           \/ /\ ~req[r].row.deleted
              /\ \E s \in mine : mine = {s} /\ Answer(r, s)
              /\ UNCHANGED <<invite, seats>>
           \/ /\ mine = {}
              /\ ~Usable(req[r].row)
              /\ Fail(r)
           \/ /\ mine = {}
              /\ Usable(req[r].row)
              /\ Goto(r, IF req[r].way = "login" THEN "attach" ELSE "email")

\* register_candidate: "An account with this email already exists."
CheckEmail(r) ==
    /\ req[r].at = "email"
    /\ IF req[r].email \in users THEN Fail(r) ELSE Goto(r, "insert")

\* The flush of the new user.  users.email is unique: an insert of an address
\* another open transaction has inserted waits for it, and fails if it commits.
InsertUser(r) ==
    /\ req[r].at = "insert"
    /\ ~Inserting(req[r].email)
    /\ IF req[r].email \in users THEN Fail(r) ELSE Goto(r, "attach")

\* The counter is left alone.
AttachUncounted(r) ==
    /\ req[r].at = "attach"
    /\ Len(seats) < MaxSeats
    /\ seats' = Append(seats, req[r].email)
    /\ users' = users \union {req[r].email}
    /\ req' = [req EXCEPT ![r] =
                 [at |-> "answer", email |-> req[r].email, seat |-> Len(seats')]]
    /\ UNCHANGED <<invite, told, now>>

\* _attach_candidate_to_invite up to its commit: session, verification, user,
\* and used_count from the row as it was read.
Attach(r) ==
    /\ req[r].at = "attach"
    /\ Len(seats) < MaxSeats
    /\ seats' = Append(seats, req[r].email)
    /\ users' = users \union {req[r].email}
    /\ invite' = [invite EXCEPT !.used = req[r].row.used + 1]
    /\ req' = [req EXCEPT ![r] =
                 [at |-> "answer", email |-> req[r].email, seat |-> Len(seats')]]
    /\ UNCHANGED <<told, now>>

\* The answer reaches the candidate, or is lost with the connection.
Reply(r) ==
    /\ req[r].at = "answer"
    /\ told' = [told EXCEPT ![req[r].email] = @ \union {req[r].seat}]
    /\ req' = [req EXCEPT ![r] = Idle]
    /\ UNCHANGED <<invite, users, seats, now>>

LoseReply(r) == req[r].at = "answer" /\ Fail(r)

-----------------------------------------------------------------------------
\* An account made on the sign-up page (auth_service.register).
SignUp(e) ==
    /\ e \notin users
    /\ ~Inserting(e)
    /\ users' = users \union {e}
    /\ UNCHANGED <<invite, seats, req, told, now>>

\* The recruiter: delete_assessment, update_assessment (expiry_hours >= 1).
DeleteAssessment ==
    /\ ~invite.deleted
    /\ invite' = [invite EXCEPT !.deleted = TRUE]
    /\ UNCHANGED <<users, seats, req, told, now>>

UpdateAssessment(hours) ==
    /\ ~invite.deleted
    /\ now + hours <= LastTime
    /\ invite' = [invite EXCEPT !.expiry = now + hours]
    /\ UNCHANGED <<users, seats, req, told, now>>

Tick ==
    /\ now < LastTime
    /\ now' = now + 1
    /\ UNCHANGED <<invite, users, seats, req, told>>

\* The process restarts: open transactions roll back, answers are lost.
Restart ==
    /\ req' = [r \in Requests |-> Idle]
    /\ UNCHANGED <<invite, users, seats, told, now>>

Step(r) ==
    \/ CheckPassword(r) \/ Resume(r) \/ CheckEmail(r)
    \/ InsertUser(r) \/ Attach(r) \/ Reply(r)

Next ==
    \/ \E r \in Requests : Step(r) \/ LoseReply(r)
    \/ \E r \in Requests, e \in Emails, way \in Ways : Begin(r, e, way)
    \/ \E hours \in 1..LastTime : UpdateAssessment(hours)
    \/ \E e \in Emails : SignUp(e)
    \/ DeleteAssessment
    \/ Tick
    \/ Restart

Spec == Init /\ [][Next]_vars

-----------------------------------------------------------------------------
Row == [used : Nat, deleted : BOOLEAN, expiry : 0..LastTime]
Request ==
    {Idle}
      \union [at : {"password", "resume", "email", "insert", "attach"},
              email : Emails, way : Ways, row : Row]
      \union [at : {"answer"}, email : Emails, seat : DOMAIN seats]

\* Types, and every session named in an answer is a seat of this invite.
TypeOK ==
    /\ invite \in Row
    /\ users \subseteq Emails
    /\ seats \in Seq(Emails)
    /\ req \in [Requests -> Request]
    /\ told \in [Emails -> SUBSET DOMAIN seats]
    /\ now \in 0..LastTime

\* The link is never declared used up (line 118) while seats are free: whatever
\* overlaps, used_count is not ahead of the seats taken.
CountNeverAhead == invite.used <= Len(seats)

\* used_count is the number of seats: what the recruiter is shown.
SeatsCounted == invite.used = Len(seats)

\* No more candidates than max_uses get a session on the invite.
SeatsWithinUses == Len(seats) <= MaxUses

\* A candidate has one seat, so the look-up that resumes it finds one row.
OneSeatEach == \A e \in Emails : Cardinality(SeatsOf(e)) <= 1

\* Whatever is lost and asked again, by either endpoint, a candidate is given
\* one session and never a second one.
OneSessionTold == \A e \in Emails : Cardinality(told[e]) <= 1
=============================================================================
