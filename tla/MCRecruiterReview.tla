------------------------- MODULE MCRecruiterReview -------------------------
\* Small instances of RecruiterReview.
EXTENDS RecruiterReview

CONSTANTS s1, s2

MCSessions == {s1, s2}
MCLive == {s1}
MCOffered == {"in_review", "cleared"}

Shot(x, like, smile) ==
  [readable |-> TRUE, width |-> 640, height |-> 480, face |-> "found", x |-> x,
   like |-> like, smile |-> smile]
Dark == [Shot(320, 0, FALSE) EXCEPT !.face = "none"]
Card(words) == [Shot(200, 100, FALSE) EXCEPT !.width = 1200] @@ [words |-> words]
OwnName == {"ada", "lovelace"}

Guided(like) == <<Shot(320, like, FALSE), Shot(300, like, FALSE),
                  Shot(340, like, FALSE), Shot(320, like, TRUE)>>
\* Smiling all the time, and turning one step too early: what the check expects.
Early(like) == <<Shot(300, like, TRUE), Shot(340, like, TRUE),
                 Shot(320, like, TRUE), Shot(320, like, TRUE)>>

MCSubmissions ==
  {[id |-> id, shots |-> shots, name |-> OwnName] :
     id \in {Card(Unread), Card({"ada"}), Dark @@ [words |-> OwnName]},
     shots \in {Guided(60), Early(60), Early(20), <<Dark, Dark, Dark, Dark>>}}
=============================================================================
