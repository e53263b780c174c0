---------------------------- MODULE IdentityCheck ----------------------------
(***************************************************************************)
(* The identity check of a candidate: CandidateInviteFlow.tsx takes one    *)
(* selfie for each step of a guided sequence, identity_verification.py     *)
(* compares them with the photo on an ID and judges each step.             *)
(*                                                                         *)
(* An image is what the detectors make of it: readable (as an image), its  *)
(* width and height, the face ("found", "mirrored" when only the flipped   *)
(* image shows it, or "none"), x (the centre of the face, in pixels), like *)
(* (its similarity to the ID's face, in percent) and smile.  An ID has     *)
(* words, those of the candidate's name that are read on it, or Unread.    *)
(***************************************************************************)
EXTENDS Integers, FiniteSets, SequencesExt

Unread == {"unread"}

\* LIVENESS_STEPS, and what _evaluate_liveness assumes without actions
Steps == <<"center", "move_left", "move_right", "smile">>

\* In percent; the shift in thousandths of the width.
IdentitySimilarityThreshold == 35
LivenessStrongThreshold == 50
LivenessMinThreshold == 40
ActionShiftThreshold == 30

Largest(a, b) == IF a > b THEN a ELSE b

\* _largest_face
HasFace(image) == image.face = "found"

\* _normalize_image_size
NormalSize(longest) ==
    CASE longest < 900 -> 900
      [] longest > 1800 -> 1800
      [] OTHER -> longest

\* _normalized_face_center: the face is found in the image of normal size, and
\* its centre divided by the width of the image that was sent.
Centre(image) ==
    LET longest == Largest(image.width, image.height) IN
      (1000 * image.x * NormalSize(longest)) \div (longest * image.width)

\* The checks of one action on an image, against the first one with a face; in
\* half points.  A face without a clear smile has one of the two.
Points(action, image, first) ==
    CASE action = "move_left" -> IF Centre(first) - Centre(image) >= ActionShiftThreshold THEN 2 ELSE 0
      [] action = "move_right" -> IF Centre(image) - Centre(first) >= ActionShiftThreshold THEN 2 ELSE 0
      [] action = "smile" -> IF image.smile THEN 2 ELSE 1
      [] OTHER -> 2

\* _evaluate_liveness: the confidence, in percent.  An action without an image,
\* or with one that shows no face, has no points.
Liveness(images, actions) ==
    LET judged == {i \in DOMAIN actions : i \in DOMAIN images /\ HasFace(images[i])}
        first == images[CHOOSE i \in judged : \A j \in judged : i <= j]
        points == FoldLeft(LAMBDA sum, i : sum + Points(actions[i], images[i], first), 0,
                           SetToSortSeq(judged, <))
    IN  (100 * points) \div (2 * Len(actions))

\* _extract_candidate_name: at least 60% of the words of the name
NameMatches(id, name) == 10 * Cardinality(name \cap id.words) >= 6 * Cardinality(name)
NameDiffers(id, name) == id.words # Unread /\ name # {} /\ ~NameMatches(id, name)

\* verify_identity flags the session row and its review on either ground.
Verdict(verified, low) == [made |-> TRUE, verified |-> verified, low |-> low]
NoVerdict == [made |-> FALSE, verified |-> FALSE, low |-> FALSE]
FlagsWeak(verdict) == verdict.low  \* a check that fails is not flagged
Flags(verdict) == verdict.low \/ ~verdict.verified

Images(selfie, frames) == SelectSeq(<<selfie>> \o frames, LAMBDA image : image.readable)

\* verify_faces_from_base64 compares the best of the selfies that show a face.
Selfies(images) == {i \in DOMAIN images : images[i].face \in {"found", "mirrored"}}

VerifyFaces(id, selfie, frames, actions, name) ==
    LET images == Images(selfie, frames)
        live == Liveness(images, actions)
        doubt == \/ \A i \in Selfies(images) : images[i].like < IdentitySimilarityThreshold
                 \/ Cardinality(Selfies(images)) < 2
                 \/ NameDiffers(id, name)
                 \/ LivenessMinThreshold <= live /\ live < LivenessStrongThreshold
    IN  IF ~id.readable \/ ~selfie.readable \/ ~HasFace(id) \/ Selfies(images) = {}
        THEN Verdict(FALSE, FALSE)
        ELSE Verdict(live >= LivenessMinThreshold, doubt)

\* handleVerifyIdentity: captureSelfie keeps the last shot of the sequence as
\* the selfie, and the sequence holds all of them.
Check(id, shots, name) == VerifyFaces(id, Last(shots), shots, Steps, name)

-----------------------------------------------------------------------------
\* What a candidate does who follows the steps: in each shot the face is found,
\* turned as its step asks, seen from the shot of the first.
Performed(shots) ==
    \A i \in DOMAIN Steps :
        shots[i].readable /\ HasFace(shots[i]) /\ Points(Steps[i], shots[i], shots[1]) = 2
=============================================================================
