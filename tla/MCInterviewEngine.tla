-------------------------- MODULE MCInterviewEngine --------------------------
(* Values of the constants of InterviewEngine for TLC. *)
EXTENDS InterviewEngine, TLC

TwoSubjective   == <<"subjective", "subjective">>
ThreeSubjective == <<"subjective", "subjective", "subjective">>
WithCoding      == <<"coding", "subjective", "subjective">>

\* Two threads run the same handlers.
Symmetry == Permutations(Threads)
=============================================================================
