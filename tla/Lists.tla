--------------------------------- MODULE Lists ---------------------------------
(* Two loops that several handlers run over a list. *)
EXTENDS SequencesExt

\* The members of s that are in S, in their order.
Only(s, S) == FoldLeft(LAMBDA kept, x : IF x \in S THEN Append(kept, x) ELSE kept, <<>>, s)

\* Each member once, in the order of its first appearance.
Once(s) == FoldLeft(LAMBDA once, x : IF x \in Range(once) THEN once ELSE Append(once, x), <<>>, s)
=============================================================================
