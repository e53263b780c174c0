----------------------------- MODULE MCInviteSeats -----------------------------
EXTENDS InviteSeats, TLC

\* Candidates are interchangeable, and so are requests.
Symmetry == Permutations(Emails) \union Permutations(Requests)
=============================================================================
