---------------------------- MODULE TokenRegisters ----------------------------
(***************************************************************************)
(* What the one-time token columns of a row promise: each holds at most    *)
(* one live token, every token it is given is new, and a token that was    *)
(* replaced or cleared never lives again.  Accounts implements it with     *)
(* current_refresh_jti, verification_token and reset_token of a user row.  *)
(***************************************************************************)
CONSTANTS
    Columns,
    None      \* the column is null

VARIABLES
    live,   \* the token in each column
    spent   \* tokens that were in it and are no longer

Init ==
    /\ live = [k \in Columns |-> None]
    /\ spent = [k \in Columns |-> {}]

Retired(k) == spent[k] \cup ({live[k]} \ {None})

Keep(k) == live'[k] = live[k] /\ spent'[k] = spent[k]

Replace(k) == live'[k] \notin Retired(k) \cup {None} /\ spent'[k] = Retired(k)

Clear(k) == live[k] # None /\ live'[k] = None /\ spent'[k] = Retired(k)

\* One transaction may write several columns.
Next ==
    /\ DOMAIN live' = Columns /\ DOMAIN spent' = Columns
    /\ \A k \in Columns : Keep(k) \/ Replace(k) \/ Clear(k)

Spec == Init /\ [][Next]_<<live, spent>>
=============================================================================
