----------------------------- MODULE AccountsProofs -----------------------------
(***************************************************************************)
(* Theorems of Accounts, for every number of pages and calls in progress:  *)
(* the token columns implement TokenRegisters, the reset link mailed last  *)
(* stays, and the page that signed in last holds the live refresh token.   *)
(***************************************************************************)
EXTENDS Accounts, SequenceTheorems, TLAPS

Made == 0..issued
Owners == Pages \cup {Nowhere}

CallType ==
    [at : {"idle", "sent", "flushing", "replied"}, page : Owners, kind : AllKinds,
     leg : {"first", "refresh", "retry"}, token : Made,
     access : {"none", "valid", "expired"}, status : {"ok", "401", "no"}]
PageType ==
    [access : {"none", "valid", "expired"}, refresh : Made, view : {"in", "out"}, app : Apps]

RowTyped ==
    /\ user \in [exists : BOOLEAN, active : BOOLEAN, verified : BOOLEAN]
    /\ col \in [Columns -> Made]
    /\ spent \in [Columns -> SUBSET (Made \ {0})]
    /\ locked \in BOOLEAN
    /\ issued \in Tokens
    /\ holder \in Owners

WriteTyped(w) ==
    /\ DOMAIN w.tokens \subseteq Columns
    /\ \A k \in DOMAIN w.tokens : w.tokens[k] \in Made
    /\ w.hold \in BOOLEAN
    /\ w.page \in Owners

ClientTyped ==
    /\ page \in [Pages -> PageType]
    /\ call \in [Calls -> CallType]
    /\ mail \in [verification : Seq(Made), reset : Seq(Made)]
    /\ left \subseteq Made
    /\ clean \in BOOLEAN

\* A token that waits to be written is not one its column has or had, and no
\* other write waits with it.
Unused ==
    /\ \A w \in pending : \A k \in DOMAIN w.tokens :
         w.tokens[k] # 0 => w.tokens[k] \notin spent[k] \cup {col[k]}
    /\ \A w, v \in pending : \A k \in DOMAIN w.tokens \cap DOMAIN v.tokens :
         w.tokens[k] = v.tokens[k] /\ w.tokens[k] # 0 => w = v
    /\ \A k \in Columns : col[k] \notin spent[k]

\* A flushed write holds the row alone, and reset links are only written so.
HeldOnce ==
    /\ \A w \in pending : w.hold => locked
    /\ \A w, v \in pending : w.hold /\ v.hold => w = v
    /\ \A w \in pending : "reset" \in DOMAIN w.tokens => w.hold

ResetRises ==
    \A w \in pending : "reset" \in DOMAIN w.tokens /\ w.tokens.reset # 0 =>
        \A t \in spent.reset \cup {col.reset} : t < w.tokens.reset

RowInv ==
    /\ RowTyped
    /\ \A w \in pending : WriteTyped(w)
    /\ Unused
    /\ HeldOnce
    /\ ResetRises

-----------------------------------------------------------------------------
(* What a step does to the row and to the writes that wait for it.         *)

Stays == UNCHANGED <<server, pending, issued>>

Fresh(t) == t \in 0..issued' /\ (t # 0 => issued < t)

\* A handler answers and leaves w to be committed; its tokens are made now.
Adds(w) ==
    /\ pending' = pending \cup {w}
    /\ issued' \in Tokens /\ issued <= issued'
    /\ w.page \in Owners /\ w.hold \in BOOLEAN
    /\ DOMAIN w.tokens \subseteq Columns
    /\ \A k \in DOMAIN w.tokens : Fresh(w.tokens[k])
    /\ "reset" \in DOMAIN w.tokens => w.hold
    /\ IF w.hold THEN ~locked /\ locked' = TRUE ELSE locked' = locked
    /\ UNCHANGED <<user, col, spent, holder>>

\* The two ways a handler leaves a write: without and with the row.
LEMMA AddsFree ==
  ASSUME NEW tokens, NEW p \in Owners,
         pending' = pending \cup {Write(tokens, {}, FALSE, p)},
         issued' \in Tokens, issued <= issued',
         DOMAIN tokens \subseteq {"jti", "verification"},
         \A k \in DOMAIN tokens : Fresh(tokens[k]),
         UNCHANGED <<user, col, spent, holder, locked>>
  PROVE  \E w : Adds(w)
  <1> DEFINE w == Write(tokens, {}, FALSE, p)
  <1>1. /\ w.tokens = tokens /\ w.page = p /\ pending' = pending \cup {w}
        /\ ~w.hold /\ w.hold \in BOOLEAN
    BY DEF Write
  <1>2. Adds(w)
    <2> HIDE DEF w
    <2>1. DOMAIN w.tokens \subseteq Columns /\ "reset" \notin DOMAIN w.tokens
      BY <1>1 DEF Columns
    <2>2. \A k \in DOMAIN w.tokens : Fresh(w.tokens[k])
      BY <1>1
    <2>3. IF w.hold THEN ~locked /\ locked' = TRUE ELSE locked' = locked
      BY <1>1
    <2>4. w.page \in Owners /\ w.hold \in BOOLEAN
      BY <1>1
    <2> QED BY <1>1, <2>1, <2>2, <2>3, <2>4 DEF Adds
  <1> QED BY <1>2

LEMMA AddsHeld ==
  ASSUME NEW tokens, NEW flags, NEW p \in Owners,
         pending' = pending \cup {Write(tokens, flags, TRUE, p)},
         issued' \in Tokens, issued <= issued',
         DOMAIN tokens \subseteq Columns,
         \A k \in DOMAIN tokens : Fresh(tokens[k]),
         ~locked, locked' = TRUE, UNCHANGED <<user, col, spent, holder>>
  PROVE  \E w : Adds(w)
  <1> DEFINE w == Write(tokens, flags, TRUE, p)
  <1>1. /\ w.tokens = tokens /\ w.page = p /\ pending' = pending \cup {w}
        /\ w.hold /\ w.hold \in BOOLEAN
    BY DEF Write
  <1>2. Adds(w)
    <2> HIDE DEF w
    <2>1. \A k \in DOMAIN w.tokens : Fresh(w.tokens[k])
      BY <1>1
    <2>2. DOMAIN w.tokens \subseteq Columns /\ ("reset" \in DOMAIN w.tokens => w.hold)
      BY <1>1
    <2>3. IF w.hold THEN ~locked /\ locked' = TRUE ELSE locked' = locked
      BY <1>1
    <2>4. w.page \in Owners /\ w.hold \in BOOLEAN
      BY <1>1
    <2> QED BY <1>1, <2>1, <2>2, <2>3, <2>4 DEF Adds
  <1> QED BY <1>2

LEMMA OneToken ==
  ASSUME NEW t, Fresh(t)
  PROVE  /\ DOMAIN [jti |-> t] = {"jti"} /\ \A k \in DOMAIN [jti |-> t] : Fresh([jti |-> t][k])
         /\ DOMAIN [reset |-> t] = {"reset"} /\ \A k \in DOMAIN [reset |-> t] : Fresh([reset |-> t][k])
         /\ DOMAIN [verification |-> t] = {"verification"}
         /\ \A k \in DOMAIN [verification |-> t] : Fresh([verification |-> t][k])
  OBVIOUS

LEMMA TwoTokens ==
  ASSUME NEW t, NEW u, Fresh(t), Fresh(u)
  PROVE  /\ DOMAIN [verification |-> t, jti |-> u] = {"verification", "jti"}
         /\ \A k \in DOMAIN [verification |-> t, jti |-> u] : Fresh([verification |-> t, jti |-> u][k])
  OBVIOUS

LEMMA NextNumber ==
  ASSUME RowTyped, issued < MaxTokens, issued' = issued + 1
  PROVE  issued' \in Tokens /\ issued <= issued' /\ Fresh(issued')
  BY AccountsAssumption DEF RowTyped, Tokens, Fresh

LEMMA IssueShape ==
  ASSUME RowTyped, ClientTyped, NEW c \in Calls, IssueJti(c)
  PROVE  \E w : Adds(w)
  <1>1. call[c].page \in Owners
    BY DEF ClientTyped, CallType
  <1>2. issued' = issued + 1 /\ issued < MaxTokens
    BY DEF IssueJti
  <1>3. /\ pending' = pending \cup {Write([jti |-> issued'], {}, FALSE, call[c].page)}
        /\ UNCHANGED <<user, col, spent, locked, holder>>
    BY <1>2 DEF IssueJti, Answer, server
  <1> QED BY <1>1, <1>2, <1>3, NextNumber, OneToken, AddsFree

LEMMA HandleShape ==
  ASSUME RowTyped, ClientTyped, NEW c \in Calls, Handle(c)
  PROVE  Stays \/ \E w : Adds(w)
  <1>1. CASE Refresh(c)
    BY <1>1, IssueShape DEF Refresh, Refuse, Stays
  <1>2. CASE Login(c)
    BY <1>2, IssueShape DEF Login, Refuse, Stays
  <1>3. CASE ServeApi(c) \/ Look(c)
    <2>1. Stays \/ (\E s \in {"ok", "401", "no"} : Refuse(c, s)) \/ GoFlush(c)
      BY <1>3 DEF ServeApi, Look, Flushing
    <2> QED BY <2>1 DEF Refuse, GoFlush, Stays
  <1>4. CASE ServeLogout(c)
    <2>1. CASE Refuse(c, "401") \/ Refuse(c, "no") \/ Refuse(c, "ok")
      BY <2>1 DEF Refuse, Stays
    <2>2. CASE Answer(c, 0, Write([jti |-> 0], {}, FALSE, Nowhere)) /\ UNCHANGED <<mail, issued>>
      <3>1. issued' \in Tokens /\ issued <= issued' /\ Fresh(0)
        BY <2>2, AccountsAssumption DEF RowTyped, Tokens, Fresh
      <3>2. /\ pending' = pending \cup {Write([jti |-> 0], {}, FALSE, Nowhere)}
            /\ UNCHANGED <<user, col, spent, locked, holder>>
        BY <2>2 DEF Answer, server
      <3>3. Nowhere \in Owners
        BY DEF Owners
      <3> QED BY <3>1, <3>2, <3>3, OneToken, AddsFree
    <2> QED BY <1>4, <2>1, <2>2 DEF ServeLogout
  <1>5. CASE FlushRegister(c)
    <2>1. CASE Refuse(c, "no")
      BY <2>1 DEF Refuse, Stays
    <2>2. CASE ~user.exists
      <3>1. /\ issued + 2 <= MaxTokens /\ issued' = issued + 2 /\ ~locked /\ locked' = TRUE
            /\ pending' = pending \cup {Write([verification |-> issued + 1, jti |-> issued + 2],
                                              {"exists"}, TRUE, call[c].page)}
            /\ UNCHANGED <<user, col, spent, holder>>
        BY <1>5, <2>2 DEF FlushRegister, FlushAnswer
      <3>2. /\ issued' \in Tokens /\ issued <= issued'
            /\ Fresh(issued + 1) /\ Fresh(issued + 2)
        BY <3>1, AccountsAssumption DEF RowTyped, Tokens, Fresh
      <3>3. call[c].page \in Owners
        BY DEF ClientTyped, CallType
      <3>4. {"verification", "jti"} \subseteq Columns
        BY DEF Columns
      <3> QED BY <3>1, <3>2, <3>3, <3>4, TwoTokens, AddsHeld
    <2> QED BY <1>5, <2>1, <2>2 DEF FlushRegister
  <1>6. CASE FlushForgot(c)
    <2>1. /\ issued < MaxTokens /\ issued' = issued + 1 /\ ~locked /\ locked' = TRUE
          /\ pending' = pending \cup {Write([reset |-> issued'], {}, TRUE, call[c].page)}
          /\ UNCHANGED <<user, col, spent, holder>>
      BY <1>6 DEF FlushForgot, FlushAnswer
    <2>2. call[c].page \in Owners
      BY DEF ClientTyped, CallType
    <2>3. {"reset"} \subseteq Columns
      BY DEF Columns
    <2> QED BY <2>1, <2>2, <2>3, NextNumber, OneToken, AddsHeld
  <1>7. CASE FlushLink(c)
    <2>1. issued' \in Tokens /\ issued <= issued' /\ Fresh(0)
      BY <1>7, AccountsAssumption DEF FlushLink, RowTyped, Tokens, Fresh
    <2>2. call[c].page \in Owners
      BY DEF ClientTyped, CallType
    <2>3. {"reset"} \subseteq Columns /\ {"verification"} \subseteq Columns
      BY DEF Columns
    <2>4. CASE FlushAnswer(c, 0, [verification |-> 0], {"verified"})
      <3>1. /\ pending' = pending \cup {Write([verification |-> 0], {"verified"}, TRUE, call[c].page)}
            /\ ~locked /\ locked' = TRUE /\ UNCHANGED <<user, col, spent, holder>>
        BY <1>7, <2>4 DEF FlushLink, FlushAnswer
      <3> QED BY <2>1, <2>2, <2>3, <3>1, OneToken, AddsHeld
    <2>5. CASE FlushAnswer(c, 0, [reset |-> 0], {})
      <3>1. /\ pending' = pending \cup {Write([reset |-> 0], {}, TRUE, call[c].page)}
            /\ ~locked /\ locked' = TRUE /\ UNCHANGED <<user, col, spent, holder>>
        BY <1>7, <2>5 DEF FlushLink, FlushAnswer
      <3> QED BY <2>1, <2>2, <2>3, <3>1, OneToken, AddsHeld
    <2> QED BY <1>7, <2>4, <2>5 DEF FlushLink
  <1>8. CASE Resend(c)
    <2>1. CASE Refuse(c, "ok")
      BY <2>1 DEF Refuse, Stays
    <2>2. CASE ~(~Found \/ user.verified)
      <3>1. /\ issued < MaxTokens /\ issued' = issued + 1
            /\ pending' = pending \cup {Write([verification |-> issued'], {}, FALSE, Nowhere)}
            /\ UNCHANGED <<user, col, spent, locked, holder>>
        BY <1>8, <2>2 DEF Resend, Answer, server
      <3>2. Nowhere \in Owners
        BY DEF Owners
      <3> QED BY <3>1, <3>2, NextNumber, OneToken, AddsFree
    <2> QED BY <1>8, <2>1, <2>2 DEF Resend
  <1> QED BY <1>1, <1>2, <1>3, <1>4, <1>5, <1>6, <1>7, <1>8 DEF Handle

\* The process went down with what was not committed.
Crashes == pending' = {} /\ locked' = FALSE /\ UNCHANGED <<user, col, spent, holder, issued>>

\* Every step does one of five things to the row.
LEMMA StepShape ==
  ASSUME RowTyped, ClientTyped, [Next]_vars
  PROVE  \/ Stays
         \/ \E w : Adds(w)
         \/ \E w \in pending : Commit(w)
         \/ Deactivate
         \/ Crashes
  <1>1. ASSUME NEW c \in Calls, NEW p \in Pages, SignIn(c, p) \/ Boot(c, p) \/ UseApi(c, p) \/ Logout(c, p)
        PROVE  Stays
    BY <1>1 DEF SignIn, Boot, UseApi, Logout, Send, Stays
  <1>2. ASSUME NEW c \in Calls, AskMail(c) \/ OpenLink(c) \/ Receive(c) \/ Lose(c)
        PROVE  Stays
    BY <1>2 DEF AskMail, OpenLink, Send, Receive, Lose, Stays
  <1>3. ASSUME NEW p \in Pages, Expire(p) \/ \E app \in Apps : Load(p, app)
        PROVE  Stays
    BY <1>3 DEF Expire, Load, Stays
  <1>4. CASE Restart
    BY <1>4 DEF Restart, Crashes
  <1>5. CASE UNCHANGED vars
    BY <1>5 DEF vars, Stays
  <1> QED BY <1>1, <1>2, <1>3, <1>4, <1>5, HandleShape DEF Next

LEMMA AddsKeeps ==
  ASSUME RowInv, NEW w, Adds(w)
  PROVE  RowInv'
  <1> USE DEF RowInv, Adds
  <1>1. RowTyped' /\ issued \in Nat /\ issued' \in Nat
    <2>1. locked' \in BOOLEAN
      BY DEF RowTyped
    <2>2. issued \in Nat /\ issued' \in Nat /\ Made \subseteq Made'
      BY AccountsAssumption DEF RowTyped, Made, Tokens
    <2> QED BY <2>1, <2>2 DEF RowTyped
  <1>2. \A k \in Columns : col[k] \in Nat /\ col[k] <= issued /\ \A t \in spent[k] : t \in Nat /\ t <= issued
    BY <1>1 DEF RowTyped, Made
  <1>3. \A v \in pending : WriteTyped(v)' /\ \A k \in DOMAIN v.tokens :
             k \in Columns /\ v.tokens[k] \in Nat /\ v.tokens[k] <= issued
    BY <1>1 DEF WriteTyped, Made
  <1>4. WriteTyped(w)' /\ \A k \in DOMAIN w.tokens :
             k \in Columns /\ w.tokens[k] \in Nat /\ (w.tokens[k] # 0 => issued < w.tokens[k])
    BY <1>1 DEF WriteTyped, Made, Fresh
  <1>5. \A k \in DOMAIN w.tokens : w.tokens[k] # 0 =>
             /\ w.tokens[k] \notin spent[k] \cup {col[k]}
             /\ \A v \in pending : k \in DOMAIN v.tokens => v.tokens[k] # w.tokens[k]
    BY <1>1, <1>2, <1>3, <1>4
  <1>6. Unused'
    BY <1>5 DEF Unused
  <1>7. HeldOnce'
    BY DEF HeldOnce
  <1>8. ResetRises'
    BY <1>1, <1>2, <1>4 DEF ResetRises, Columns
  <1> QED BY <1>1, <1>3, <1>4, <1>6, <1>7, <1>8

LEMMA CommitKeeps ==
  ASSUME RowInv, NEW w \in pending, Commit(w)
  PROVE  RowInv'
  <1> USE DEF RowInv
  <1>1. /\ pending' \subseteq pending /\ w \notin pending' /\ ~locked' /\ locked' \in BOOLEAN
        /\ issued' = issued /\ (locked => w.hold)
    BY DEF Commit
  <1>2. WriteTyped(w) /\ DOMAIN w.tokens \subseteq Columns
    BY DEF WriteTyped
  <1>3. /\ col' \in [Columns -> Made]
        /\ \A k \in Columns : col'[k] = IF k \in DOMAIN w.tokens THEN w.tokens[k] ELSE col[k]
    BY <1>2 DEF Commit, WriteTyped, RowTyped
  <1>4. /\ spent' \in [Columns -> SUBSET (Made \ {0})]
        /\ \A k \in Columns : spent'[k] = IF col'[k] = col[k] THEN spent[k]
                                          ELSE spent[k] \cup ({col[k]} \ {0})
    BY DEF Commit, RowTyped
  <1>5. RowTyped'
    <2>1. user' \in [exists : BOOLEAN, active : BOOLEAN, verified : BOOLEAN]
      BY DEF Commit, RowTyped
    <2>2. holder' \in Owners
      BY <1>2 DEF Commit, RowTyped, WriteTyped
    <2> QED BY <1>1, <1>3, <1>4, <2>1, <2>2 DEF RowTyped, Made
  <1>6. \A v \in pending' : WriteTyped(v)'
    BY <1>1 DEF WriteTyped, Made
  <1>7. Unused'
    <2>1. \A k \in Columns : col'[k] \notin spent'[k]
      BY <1>2, <1>3, <1>4 DEF Unused, RowTyped
    <2>2. ASSUME NEW v \in pending', NEW k \in DOMAIN v.tokens, v.tokens[k] # 0
          PROVE  v.tokens[k] \notin spent'[k] \cup {col'[k]}
      <3>1. k \in Columns /\ v.tokens[k] \notin spent[k] \cup {col[k]}
        BY <1>1, <2>2 DEF Unused, WriteTyped
      <3>2. k \in DOMAIN w.tokens => w.tokens[k] # v.tokens[k]
        BY <1>1, <2>2 DEF Unused
      <3> QED BY <1>3, <1>4, <3>1, <3>2
    <2> QED BY <1>1, <2>1, <2>2 DEF Unused
  <1>8. HeldOnce'
    <2>1. \A v \in pending' : ~v.hold
      BY <1>1 DEF HeldOnce
    <2> QED BY <1>1, <2>1 DEF HeldOnce
  <1>9. ResetRises'
    <2>1. \A v \in pending' : "reset" \notin DOMAIN v.tokens
      BY <1>1 DEF HeldOnce
    <2> QED BY <2>1 DEF ResetRises
  <1> QED BY <1>5, <1>6, <1>7, <1>8, <1>9

LEMMA DeactivateKeeps ==
  ASSUME RowInv, Deactivate
  PROVE  RowInv'
  <1> USE DEF RowInv
  <1>1. /\ pending' = pending /\ locked' = locked /\ ~locked /\ issued' = issued /\ holder' = holder
        /\ col' = [col EXCEPT !.verification = 0, !.reset = 0]
    BY DEF Deactivate
  <1>2. issued \in Nat /\ 0 \in Made
    BY AccountsAssumption DEF RowTyped, Made, Tokens
  <1>3. /\ col' \in [Columns -> Made]
        /\ \A k \in Columns : col'[k] \in {0, col[k]}
    BY <1>1, <1>2 DEF RowTyped, Columns
  <1>4. /\ spent' \in [Columns -> SUBSET (Made \ {0})]
        /\ \A k \in Columns : spent'[k] = IF col'[k] = col[k] THEN spent[k] ELSE spent[k] \cup {col[k]}
    BY <1>3 DEF Deactivate, RowTyped
  <1>5. RowTyped'
    <2>1. user' \in [exists : BOOLEAN, active : BOOLEAN, verified : BOOLEAN]
      BY DEF Deactivate, RowTyped
    <2> QED BY <1>1, <1>3, <1>4, <2>1 DEF RowTyped, Made
  <1>6. \A v \in pending' : WriteTyped(v)'
    BY <1>1 DEF WriteTyped, Made
  <1>7. Unused'
    <2>1. \A k \in Columns : col'[k] \notin spent'[k]
      BY <1>3, <1>4 DEF Unused, RowTyped
    <2>2. ASSUME NEW v \in pending', NEW k \in DOMAIN v.tokens, v.tokens[k] # 0
          PROVE  v.tokens[k] \notin spent'[k] \cup {col'[k]}
      <3>1. k \in Columns /\ v.tokens[k] \notin spent[k] \cup {col[k]}
        BY <1>1, <2>2 DEF Unused, WriteTyped
      <3> QED BY <1>3, <1>4, <2>2, <3>1
    <2> QED BY <1>1, <2>1, <2>2 DEF Unused
  <1>8. HeldOnce'
    BY <1>1 DEF HeldOnce
  <1>9. ResetRises'
    BY <1>1 DEF HeldOnce, ResetRises
  <1> QED BY <1>5, <1>6, <1>7, <1>8, <1>9

LEMMA RowStep ==
  ASSUME RowInv, ClientTyped, [Next]_vars
  PROVE  RowInv'
  <1>1. CASE Stays
    BY <1>1 DEF Stays, server, RowInv, RowTyped, WriteTyped, Unused, HeldOnce, ResetRises, Made
  <1>2. CASE Crashes
    BY <1>2 DEF Crashes, RowInv, RowTyped, WriteTyped, Unused, HeldOnce, ResetRises, Made
  <1> QED BY <1>1, <1>2, StepShape, AddsKeeps, CommitKeeps, DeactivateKeeps DEF RowInv

-----------------------------------------------------------------------------
(* What the pages and the calls in progress hold.                          *)

LEMMA InitTyped == Init => RowInv /\ ClientTyped
  <1> SUFFICES ASSUME Init PROVE RowInv /\ ClientTyped
    OBVIOUS
  <1> USE AccountsAssumption DEF Init
  <1>1. issued = 0 /\ 0 \in Made /\ 0 \in Tokens
    BY DEF Made, Tokens
  <1>2. RowInv
    BY <1>1 DEF RowInv, RowTyped, Unused, HeldOnce, ResetRises, Owners
  <1>3. page \in [Pages -> PageType]
    BY <1>1 DEF PageType, SignedOut
  <1>4. call \in [Calls -> CallType]
    BY <1>1 DEF CallType, Idle, Owners, AllKinds
  <1>5. mail \in [verification : Seq(Made), reset : Seq(Made)]
    OBVIOUS
  <1> QED BY <1>2, <1>3, <1>4, <1>5 DEF ClientTyped

\* More tokens were made: what was typed stays so.
LEMMA MoreMade ==
  ASSUME ClientTyped, issued \in Nat, issued' \in Nat, issued <= issued'
  PROVE  /\ Made \subseteq Made'
         /\ page \in [Pages -> PageType']
         /\ call \in [Calls -> CallType']
         /\ mail \in [verification : Seq(Made'), reset : Seq(Made')]
         /\ left \subseteq Made'
  <1>1. Made \subseteq Made'
    BY DEF Made
  <1>2. PageType \subseteq PageType' /\ CallType \subseteq CallType'
    BY <1>1 DEF PageType, CallType
  <1>3. Seq(Made) \subseteq Seq(Made')
    BY <1>1
  <1> QED BY <1>1, <1>2, <1>3 DEF ClientTyped

\* A page that starts a call.
LEMMA SendTyped ==
  ASSUME RowInv, ClientTyped, NEW c \in Calls, NEW p \in Owners, NEW kind, NEW token \in Made,
         NEW access \in {"none", "valid", "expired"},
         Send(c, p, kind, token, access), page' \in [Pages -> PageType], left' \subseteq Made
  PROVE  ClientTyped'
  <1>1. issued' = issued /\ mail' = mail /\ clean' \in BOOLEAN
    BY DEF Send
  <1>2. kind \in AllKinds
    BY AccountsAssumption DEF Send
  <1>3. [Idle EXCEPT !.at = "sent", !.page = p, !.kind = kind, !.token = token, !.access = access] \in CallType
    BY <1>2 DEF Idle, CallType
  <1>4. call' \in [Calls -> CallType]
    BY <1>3 DEF Send, ClientTyped
  <1> QED BY <1>1, <1>4 DEF ClientTyped, CallType, PageType, Made

\* An answer, with a token that is made by now.
LEMMA ReplyTyped ==
  ASSUME RowInv, ClientTyped, issued' \in Nat, issued <= issued', NEW c \in Calls,
         NEW status \in {"ok", "401", "no"}, NEW token \in Made', Reply(c, status, token),
         mail' \in [verification : Seq(Made'), reset : Seq(Made')],
         UNCHANGED <<page, left>>, clean' \in BOOLEAN
  PROVE  ClientTyped'
  <1>1. issued \in Nat
    BY AccountsAssumption DEF RowInv, RowTyped, Tokens
  <1>2. [call[c] EXCEPT !.at = "replied", !.status = status, !.token = token] \in CallType'
    BY <1>1, MoreMade, ZenonT(60) DEF CallType
  <1>3. call' \in [Calls -> CallType']
    BY <1>1, <1>2, MoreMade DEF Reply
  <1> QED BY <1>1, <1>3, MoreMade DEF ClientTyped

LEMMA RefuseTyped ==
  ASSUME RowInv, ClientTyped, NEW c \in Calls, NEW status \in {"ok", "401", "no"},
         Refuse(c, status), UNCHANGED <<page, left>>
  PROVE  ClientTyped'
  <1>1. issued \in Nat /\ issued' = issued /\ mail' = mail
    BY AccountsAssumption DEF RowInv, RowTyped, Tokens, Refuse
  <1>2. 0 \in Made'
    BY <1>1 DEF Made
  <1>3. clean' \in BOOLEAN
    BY DEF Refuse, ClientTyped
  <1> QED BY <1>1, <1>2, <1>3, ReplyTyped DEF Refuse, ClientTyped, Made

LEMMA IssueTyped ==
  ASSUME RowInv, ClientTyped, NEW c \in Calls, IssueJti(c), UNCHANGED <<page, left>>
  PROVE  ClientTyped'
  <1>1. issued \in Nat /\ issued' = issued + 1 /\ mail' = mail
    BY AccountsAssumption DEF RowInv, RowTyped, Tokens, IssueJti
  <1>2. issued' \in Made'
    BY <1>1 DEF Made
  <1>3. clean' \in BOOLEAN
    BY DEF IssueJti, Answer
  <1>4. mail \in [verification : Seq(Made'), reset : Seq(Made')]
    BY <1>1, MoreMade
  <1> QED BY <1>1, <1>2, <1>3, <1>4, ReplyTyped DEF IssueJti, Answer

\* A link that is mailed.
LEMMA MailTyped ==
  ASSUME mail \in [verification : Seq(Made'), reset : Seq(Made')], NEW t \in Made'
  PROVE  /\ [mail EXCEPT !.verification = Append(@, t)] \in [verification : Seq(Made'), reset : Seq(Made')]
         /\ [mail EXCEPT !.reset = Append(@, t)] \in [verification : Seq(Made'), reset : Seq(Made')]
  <1>1. mail.verification \in Seq(Made') /\ mail.reset \in Seq(Made')
    OBVIOUS
  <1>2. Append(mail.verification, t) \in Seq(Made') /\ Append(mail.reset, t) \in Seq(Made')
    BY <1>1
  <1> HIDE DEF Made
  <1> QED BY <1>2

LEMMA HandleTyped ==
  ASSUME RowInv, ClientTyped, NEW c \in Calls, Handle(c)
  PROVE  ClientTyped'
  <1>0. issued \in Nat /\ RowTyped
    BY AccountsAssumption DEF RowInv, RowTyped, Tokens
  <1>1. CASE Refresh(c)
    BY <1>1, IssueTyped, RefuseTyped DEF Refresh
  <1>2. CASE Login(c)
    BY <1>2, IssueTyped, RefuseTyped DEF Login
  <1>3. CASE ServeApi(c)
    BY <1>3, RefuseTyped DEF ServeApi
  <1>4. CASE Look(c)
    <2>1. (\E s \in {"ok", "401", "no"} : Refuse(c, s)) \/ GoFlush(c)
      BY <1>4 DEF Look, Flushing
    <2>2. CASE GoFlush(c)
      <3>1. [call[c] EXCEPT !.at = "flushing"] \in CallType
        BY DEF CallType, ClientTyped
      <3>2. call' \in [Calls -> CallType]
        BY <2>2, <3>1 DEF GoFlush, ClientTyped
      <3> QED BY <1>4, <2>2, <3>2 DEF GoFlush, Look, ClientTyped, CallType, PageType, Made
    <2> QED BY <1>4, <2>1, <2>2, RefuseTyped DEF Look
  <1>5. CASE ServeLogout(c)
    <2>1. CASE Answer(c, 0, Write([jti |-> 0], {}, FALSE, Nowhere)) /\ UNCHANGED <<mail, issued>>
      <3>1. 0 \in Made' /\ Made' = Made /\ clean' \in BOOLEAN
        BY <1>0, <2>1 DEF Made, Answer
      <3> QED BY <1>0, <1>5, <2>1, <3>1, ReplyTyped DEF Answer, ServeLogout, ClientTyped
    <2> QED BY <1>5, <2>1, RefuseTyped DEF ServeLogout
  <1>6. CASE FlushRegister(c)
    <2>1. CASE ~user.exists
      <3>1. issued' = issued + 2 /\ issued + 1 \in Made' /\ issued + 2 \in Made' /\ issued <= issued'
        BY <1>0, <1>6, <2>1 DEF FlushRegister, Made
      <3>2. mail' \in [verification : Seq(Made'), reset : Seq(Made')]
        BY <1>0, <1>6, <2>1, <3>1, MoreMade, MailTyped, SMTT(30) DEF FlushRegister
      <3> QED BY <1>0, <1>6, <2>1, <3>1, <3>2, ReplyTyped DEF FlushRegister, FlushAnswer
    <2> QED BY <1>6, <2>1, RefuseTyped DEF FlushRegister
  <1>7. CASE FlushForgot(c)
    <2>1. /\ issued' = issued + 1 /\ issued + 1 \in Made' /\ 0 \in Made'
          /\ issued <= issued' /\ issued' \in Nat /\ clean' \in BOOLEAN
      BY <1>0, <1>7 DEF FlushForgot, FlushAnswer, Made
    <2>2. mail' \in [verification : Seq(Made'), reset : Seq(Made')]
      <3>1. mail \in [verification : Seq(Made'), reset : Seq(Made')]
        BY <1>0, <2>1, MoreMade
      <3>2. mail' = [mail EXCEPT !.reset = Append(@, issued + 1)]
        BY <1>7 DEF FlushForgot
      <3> QED BY <2>1, <3>1, <3>2, MailTyped
    <2> QED BY <1>0, <1>7, <2>1, <2>2, ReplyTyped DEF FlushForgot, FlushAnswer
  <1>8. CASE FlushLink(c)
    <2>1. Reply(c, "ok", 0) /\ clean' = (clean /\ pending = {}) /\ UNCHANGED <<page, left, mail, issued>>
      BY <1>8 DEF FlushLink, FlushAnswer
    <2>2. 0 \in Made' /\ Made' = Made /\ issued' \in Nat /\ issued <= issued'
      BY <1>0, <2>1 DEF Made
    <2>3. mail' \in [verification : Seq(Made'), reset : Seq(Made')] /\ clean' \in BOOLEAN
      BY <2>1, <2>2 DEF ClientTyped
    <2> QED BY <2>1, <2>2, <2>3, ReplyTyped
  <1>9. CASE Resend(c)
    <2>1. CASE ~(~Found \/ user.verified)
      <3>1. issued' = issued + 1 /\ issued + 1 \in Made' /\ 0 \in Made' /\ issued <= issued' /\ clean' \in BOOLEAN
        BY <1>0, <1>9, <2>1 DEF Resend, Made, Answer
      <3>2. mail' \in [verification : Seq(Made'), reset : Seq(Made')]
        <4>1. mail \in [verification : Seq(Made'), reset : Seq(Made')]
          BY <1>0, <3>1, MoreMade
        <4>2. mail' = [mail EXCEPT !.verification = Append(@, issued + 1)]
          BY <1>9, <2>1 DEF Resend
        <4> QED BY <3>1, <4>1, <4>2, MailTyped
      <3> QED BY <1>0, <1>9, <2>1, <3>1, <3>2, ReplyTyped DEF Resend, Answer
    <2> QED BY <1>9, <2>1, RefuseTyped DEF Resend
  <1> QED BY <1>1, <1>2, <1>3, <1>4, <1>5, <1>6, <1>7, <1>8, <1>9 DEF Handle

\* The owner of the account at a page: calls that start, and their answers.
LEMMA StartTyped ==
  ASSUME RowInv, ClientTyped, NEW c \in Calls,
         \/ \E p \in Pages : SignIn(c, p) \/ Boot(c, p) \/ UseApi(c, p) \/ Logout(c, p)
         \/ AskMail(c) \/ OpenLink(c)
  PROVE  ClientTyped'
  <1>0. 0 \in Made /\ Nowhere \in Owners /\ Pages \subseteq Owners
    BY AccountsAssumption DEF RowInv, RowTyped, Made, Tokens, Owners
  <1>1. ASSUME NEW p \in Pages
        PROVE  page[p] \in PageType
    BY DEF ClientTyped
  <1>2. page \in [Pages -> PageType] /\ left \subseteq Made
    BY DEF ClientTyped
  <1>3. ASSUME NEW p \in Pages, SignIn(c, p)
        PROVE  ClientTyped'
    BY <1>0, <1>1, <1>2, <1>3, SendTyped DEF SignIn, PageType
  <1>4. ASSUME NEW p \in Pages, Boot(c, p) \/ UseApi(c, p)
        PROVE  ClientTyped'
    BY <1>0, <1>1, <1>2, <1>4, SendTyped DEF Boot, UseApi, PageType
  <1>5. ASSUME NEW p \in Pages, Logout(c, p)
        PROVE  ClientTyped'
    <2>1. page[p].app \in Apps /\ page[p].refresh \in Made /\ page[p].access \in {"none", "valid", "expired"}
      BY <1>1 DEF PageType
    <2>2. SignedOut(page[p].app) \in PageType
      BY <1>0, <2>1 DEF SignedOut, PageType
    <2>3. page' \in [Pages -> PageType] /\ left' \subseteq Made
      BY <1>2, <1>5, <2>1, <2>2 DEF Logout
    <2> QED BY <1>0, <1>5, <2>1, <2>3, SendTyped DEF Logout
  <1>6. CASE AskMail(c)
    BY <1>0, <1>2, <1>6, SendTyped DEF AskMail
  <1>7. CASE OpenLink(c)
    <2>1. /\ \A i \in DOMAIN mail.verification : mail.verification[i] \in Made
          /\ \A i \in DOMAIN mail.reset : mail.reset[i] \in Made
      <3>1. mail.verification \in Seq(Made) /\ mail.reset \in Seq(Made)
        BY DEF ClientTyped
      <3> QED BY <3>1
    <2> QED BY <1>0, <1>2, <1>7, <2>1, SendTyped DEF OpenLink
  <1> QED BY <1>3, <1>4, <1>5, <1>6, <1>7

\* What a page and a call become when an exchange ends.
LEMMA EndTyped ==
  ASSUME ClientTyped, RowInv, NEW c \in Calls
  PROVE  /\ Idle \in CallType
         /\ End(c) => call' \in [Calls -> CallType]
         /\ \A p \in Pages : Expelled(p) \in PageType
  <1>0. 0 \in Made
    BY AccountsAssumption DEF RowInv, RowTyped, Made, Tokens
  <1>1. Idle \in CallType
    BY <1>0 DEF Idle, CallType, Owners, AllKinds
  <1>2. \A p \in Pages : page[p] \in PageType
    BY DEF ClientTyped
  <1>3. SignedOut("practice") \in PageType
    BY <1>0 DEF SignedOut, PageType, Apps
  <1> QED BY <1>1, <1>2, <1>3 DEF End, Expelled, ClientTyped

LEMMA ReceiveTyped ==
  ASSUME ClientTyped, RowInv, NEW c \in Calls, Receive(c)
  PROVE  ClientTyped'
  <1> DEFINE p == call[c].page
  <1>0. 0 \in Made /\ call[c] \in CallType /\ Made' = Made /\ PageType' = PageType /\ CallType' = CallType
    BY AccountsAssumption DEF RowInv, RowTyped, Made, Tokens, ClientTyped, Receive, PageType, CallType
  <1>1. page \in [Pages -> PageType] /\ call \in [Calls -> CallType]
    BY DEF ClientTyped
  <1>2. p \in Owners /\ call[c].token \in Made
    BY <1>0 DEF CallType
  <1>3. page' \in [Pages -> PageType] /\ call' \in [Calls -> CallType]
    <2>1. CASE p = Nowhere
      BY <1>1, <2>1, EndTyped DEF Receive
    <2>2. CASE p # Nowhere
      <3>1. p \in Pages /\ page[p] \in PageType /\ page[p].refresh \in Made
        BY <1>1, <1>2, <2>2 DEF Owners, PageType
      <3>2. Refreshed(c, p) => page' \in [Pages -> PageType] /\ call' \in [Calls -> CallType]
        <4>1. [page[p] EXCEPT !.access = "valid", !.refresh = call[c].token] \in PageType
          BY <1>2, <3>1 DEF PageType
        <4>2. [call[c] EXCEPT !.at = "sent", !.leg = "retry", !.token = 0, !.access = "valid"] \in CallType
          BY <1>0 DEF CallType
        <4> QED BY <1>1, <3>1, <4>1, <4>2, ZenonT(60) DEF Refreshed
      <3>3. Served(c, p) => page' \in [Pages -> PageType] /\ call' \in [Calls -> CallType]
        <4>1. Welcome(c, p) => page' \in [Pages -> PageType] /\ call' \in [Calls -> CallType]
          <5>1. [page[p] EXCEPT !.access = "valid", !.refresh = call[c].token] \in PageType
            BY <1>2, <3>1 DEF PageType
          <5>2. [Idle EXCEPT !.at = "sent", !.page = p,
                   !.kind = IF call[c].kind = "boot" THEN "enter" ELSE "me", !.access = "valid"] \in CallType
            <6>1. (IF call[c].kind = "boot" THEN "enter" ELSE "me") \in AllKinds
              BY DEF AllKinds
            <6>2. Idle \in CallType
              BY EndTyped
            <6> HIDE DEF p
            <6> QED BY <1>2, <6>1, <6>2 DEF CallType
          <5> QED BY <1>1, <3>1, <5>1, <5>2, ZenonT(60) DEF Welcome
        <4>2. /\ [page[p] EXCEPT !.access = "valid", !.refresh = call[c].token, !.view = "in"] \in PageType
              /\ [page[p] EXCEPT !.view = "in"] \in PageType
          BY <1>2, <3>1 DEF PageType
        <4> QED BY <1>1, <3>1, <4>1, <4>2, EndTyped DEF Served
      <3>4. /\ Failed(c, p) => page' \in [Pages -> PageType] /\ call' \in [Calls -> CallType]
            /\ Unauthorized(c, p) => page' \in [Pages -> PageType] /\ call' \in [Calls -> CallType]
        <4>1. [page[p] EXCEPT !.access = "none", !.view = "out"] \in PageType
          BY <3>1 DEF PageType
        <4>2. [call[c] EXCEPT !.at = "sent", !.leg = "refresh", !.token = page[p].refresh] \in CallType
          BY <1>0, <3>1 DEF CallType
        <4>3. Failed(c, p) => page' \in [Pages -> PageType] /\ call' \in [Calls -> CallType]
          BY <1>1, <3>1, <4>1, EndTyped DEF Failed
        <4> QED BY <1>1, <3>1, <4>2, <4>3, EndTyped DEF Unauthorized
      <3>5. \/ Refreshed(c, p) \/ Served(c, p) \/ Unauthorized(c, p) \/ Failed(c, p)
            \/ End(c) /\ page' = [page EXCEPT ![p] = Expelled(p)]
        <4>1. call[c].status \in {"ok", "401", "no"}
          BY <1>0 DEF CallType
        <4> QED BY <2>2, <4>1 DEF Receive
      <3>6. CASE End(c) /\ page' = [page EXCEPT ![p] = Expelled(p)]
        BY <1>1, <3>1, <3>6, EndTyped
      <3> QED BY <3>2, <3>3, <3>4, <3>5, <3>6
    <2> QED BY <2>1, <2>2
  <1> QED BY <1>0, <1>3 DEF Receive, ClientTyped

LEMMA FaultTyped ==
  ASSUME ClientTyped, RowInv,
         \/ \E c \in Calls : Lose(c)
         \/ \E p \in Pages : Expire(p) \/ \E app \in Apps : Load(p, app)
         \/ Restart
  PROVE  ClientTyped'
  <1>1. page \in [Pages -> PageType] /\ call \in [Calls -> CallType]
    BY DEF ClientTyped
  <1>2. issued' = issued => Made' = Made /\ PageType' = PageType /\ CallType' = CallType
    BY DEF Made, PageType, CallType
  <1>3. ASSUME NEW c \in Calls, Lose(c)
        PROVE  ClientTyped'
    <2> DEFINE p == call[c].page
    <2>1. p \in Owners
      BY <1>1 DEF CallType
    <2>2. page' \in [Pages -> PageType] /\ call' \in [Calls -> CallType]
      <3>1. CASE p = Nowhere
        BY <1>1, <1>3, <3>1, EndTyped DEF Lose
      <3>2. CASE p # Nowhere
        <4>1. p \in Pages /\ page[p] \in PageType
          BY <1>1, <2>1, <3>2 DEF Owners
        <4>2. [page[p] EXCEPT !.access = "none", !.view = "out"] \in PageType
          BY <4>1 DEF PageType
        <4> QED BY <1>1, <1>3, <3>2, <4>1, <4>2, EndTyped DEF Lose, Failed
      <3> QED BY <3>1, <3>2
    <2> QED BY <1>2, <1>3, <2>2 DEF Lose, ClientTyped
  <1>4. ASSUME NEW p \in Pages, Expire(p)
        PROVE  ClientTyped'
    <2>1. [page[p] EXCEPT !.access = "expired"] \in PageType
      BY <1>1 DEF PageType
    <2>2. page' \in [Pages -> PageType]
      BY <1>1, <1>4, <2>1 DEF Expire
    <2> QED BY <1>2, <1>4, <2>2 DEF Expire, ClientTyped
  <1>5. ASSUME NEW p \in Pages, NEW app \in Apps, Load(p, app)
        PROVE  ClientTyped'
    <2>1. [page[p] EXCEPT !.access = "none", !.view = "out", !.app = app] \in PageType
      BY <1>1 DEF PageType
    <2>2. \A c \in Calls : [call[c] EXCEPT !.page = Nowhere] \in CallType
      BY <1>1 DEF CallType, Owners
    <2>3. page' \in [Pages -> PageType] /\ call' \in [Calls -> CallType]
      BY <1>1, <1>5, <2>1, <2>2 DEF Load
    <2>4. clean' \in BOOLEAN
      BY <1>5 DEF Load
    <2> QED BY <1>2, <1>5, <2>3, <2>4 DEF Load, ClientTyped
  <1>6. CASE Restart
    <2>1. \A p \in Pages : [page[p] EXCEPT !.access = "none", !.view = "out"] \in PageType
      BY <1>1 DEF PageType
    <2>2. page' \in [Pages -> PageType]
      <3>1. \A p \in Pages : page[p] \in PageType /\ Expelled(p) \in PageType
        <4> SUFFICES ASSUME NEW p \in Pages PROVE page[p] \in PageType /\ Expelled(p) \in PageType
          OBVIOUS
        <4>1. SignedOut("practice") \in PageType
          BY AccountsAssumption DEF RowInv, RowTyped, Tokens, Made, SignedOut, PageType, Apps
        <4> QED BY <1>1, <4>1 DEF Expelled
      <3> QED BY <1>6, <2>1, <3>1 DEF Restart
    <2>3. call' \in [Calls -> CallType]
      <3>1. Idle \in CallType
        BY AccountsAssumption DEF RowInv, RowTyped, Tokens, Made, Idle, CallType, Owners, AllKinds
      <3> QED BY <1>1, <1>6, <3>1 DEF Restart
    <2> QED BY <2>3, <1>2, <1>6, <2>2 DEF Restart, ClientTyped
  <1> QED BY <1>3, <1>4, <1>5, <1>6

LEMMA ClientStep ==
  ASSUME RowInv, ClientTyped, [Next]_vars
  PROVE  ClientTyped'
  <1>1. CASE UNCHANGED vars
    BY <1>1 DEF vars, ClientTyped, PageType, CallType, Made
  <1>2. CASE Deactivate \/ \E w \in pending : Commit(w)
    BY <1>2 DEF Deactivate, Commit, ClientTyped, PageType, CallType, Made
  <1> QED BY <1>1, <1>2, HandleTyped, StartTyped, ReceiveTyped, FaultTyped DEF Next

\* Types, and what waits to be written, in every reachable state.
THEOREM Written == Spec => [](RowInv /\ ClientTyped)
  <1>1. RowInv /\ ClientTyped /\ [Next]_vars => (RowInv /\ ClientTyped)'
    BY RowStep, ClientStep
  <1> QED BY <1>1, InitTyped, PTL DEF Spec

\* TypeOK: the row, the pages and the writes that wait are typed, and a token
\* that waits to be written was never in its column.
THEOREM TypesHold == Spec => []TypeOK
  <1>1. RowInv /\ ClientTyped => TypeOK
    <2> SUFFICES ASSUME RowInv, ClientTyped PROVE TypeOK
      OBVIOUS
    <2>1. Made \subseteq Tokens
      BY AccountsAssumption DEF RowInv, RowTyped, Made, Tokens
    <2>2. page \in [Pages -> [access : {"none", "valid", "expired"}, refresh : Tokens,
                              view : {"in", "out"}, app : Apps]]
      BY <2>1 DEF ClientTyped, PageType
    <2> QED BY <2>1, <2>2 DEF RowInv, RowTyped, Unused, Owners, TypeOK
  <1> QED BY <1>1, Written, PTL

-----------------------------------------------------------------------------
(* What the token columns promise.                                         *)

\* OneTimeTokens: every step of the service is a step of TokenRegisters, or
\* leaves the columns alone.  Reusing a token that was rotated, revoked,
\* used or replaced is impossible whatever overlaps, is lost or crashes.
THEOREM TokensAreOneTime == Spec => OneTimeTokens
  <1>1. Init => Registers!Init
    BY DEF Init, Registers!Init
  <1>2. ASSUME RowInv, ClientTyped, [Next]_vars
        PROVE  [Registers!Next]_<<col, spent>>
    <2> USE DEF RowInv
    <2>1. CASE Stays \/ Crashes \/ \E w : Adds(w)
      <3>1. UNCHANGED <<col, spent>>
        BY <2>1 DEF Stays, Crashes, Adds, server
      <3> QED BY <3>1
    <2>2. ASSUME NEW w \in pending, Commit(w)
          PROVE  Registers!Next
      <3>1. /\ DOMAIN col' = Columns /\ DOMAIN spent' = Columns
            /\ \A k \in Columns :
                 /\ col'[k] = IF k \in DOMAIN w.tokens THEN w.tokens[k] ELSE col[k]
                 /\ spent'[k] = IF col'[k] = col[k] THEN spent[k] ELSE spent[k] \cup ({col[k]} \ {0})
        BY <2>2 DEF Commit
      <3>2. ASSUME NEW k \in Columns
            PROVE  Registers!Keep(k) \/ Registers!Replace(k) \/ Registers!Clear(k)
        <4>1. CASE col'[k] = col[k]
          BY <3>1, <4>1 DEF Registers!Keep
        <4>2. CASE col'[k] # col[k] /\ col'[k] = 0
          BY <3>1, <4>2 DEF Registers!Clear, Registers!Retired
        <4>3. CASE col'[k] # col[k] /\ col'[k] # 0
          <5>0. k \in DOMAIN w.tokens /\ col'[k] = w.tokens[k]
            BY <3>1, <4>3
          <5>1. col'[k] \notin spent[k] \cup {col[k]}
            BY <1>2, <4>3, <5>0 DEF Unused
          <5> QED BY <3>1, <4>3, <5>1 DEF Registers!Replace, Registers!Retired
        <4> QED BY <4>1, <4>2, <4>3
      <3> QED BY <3>1, <3>2 DEF Registers!Next
    <2>3. CASE Deactivate
      <3>1. /\ DOMAIN col' = Columns /\ DOMAIN spent' = Columns
            /\ \A k \in Columns :
                 /\ col'[k] \in {0, col[k]}
                 /\ spent'[k] = IF col'[k] = col[k] THEN spent[k] ELSE spent[k] \cup {col[k]}
        <4>1. /\ col' = [col EXCEPT !.verification = 0, !.reset = 0]
              /\ spent' = [k \in Columns |-> IF col'[k] = col[k] THEN spent[k] ELSE spent[k] \cup {col[k]}]
          BY <2>3 DEF Deactivate
        <4>2. DOMAIN col' = Columns /\ \A k \in Columns : col'[k] \in {0, col[k]}
          BY <1>2, <4>1 DEF RowTyped, Columns
        <4> QED BY <4>1, <4>2
      <3>2. ASSUME NEW k \in Columns
            PROVE  Registers!Keep(k) \/ Registers!Clear(k)
        BY <3>1 DEF Registers!Keep, Registers!Clear, Registers!Retired
      <3> QED BY <3>1, <3>2 DEF Registers!Next
    <2>4. Stays \/ Crashes \/ (\E w : Adds(w)) \/ (\E w \in pending : Commit(w)) \/ Deactivate
      BY <1>2, StepShape
    <2> QED BY <2>1, <2>2, <2>3, <2>4
  <1> QED BY <1>1, <1>2, Written, PTL DEF Spec, OneTimeTokens, Registers!Spec

\* LatestLinkWins: a reset link that becomes the live one was mailed after
\* every link that was live before it.
THEOREM LatestWins == Spec => LatestLinkWins
  <1>1. ASSUME RowInv, ClientTyped, [Next]_vars, col'.reset \notin {0, col.reset}
        PROVE  \A t \in spent.reset \cup {col.reset} : t < col'.reset
    <2> USE DEF RowInv
    <2>1. PICK w \in pending : Commit(w)
      <3>1. CASE Stays \/ Crashes \/ \E w : Adds(w)
        BY <1>1, <3>1 DEF Stays, Crashes, Adds, server
      <3>2. CASE Deactivate
        BY <1>1, <3>2 DEF Deactivate, RowTyped, Columns
      <3> QED BY <1>1, <3>1, <3>2, StepShape
    <2>2. "reset" \in DOMAIN w.tokens /\ w.tokens.reset # 0 /\ col'.reset = w.tokens.reset
      BY <1>1, <2>1 DEF Commit, Columns
    <2> QED BY <1>1, <2>1, <2>2 DEF ResetRises
  <1> QED BY <1>1, Written, PTL DEF Spec, LatestLinkWins

-----------------------------------------------------------------------------
(* Who holds the live refresh token, while exchanges do not overlap.       *)

\* The refresh token that will be live once what was answered is committed,
\* and the page it was made for.
Coming == {w \in pending : "jti" \in DOMAIN w.tokens}
Live(h, t) ==
    \/ Coming = {} /\ holder = h /\ col.jti = t
    \/ \E w \in Coming : w.page = h /\ w.tokens.jti = t

\* An answer that brings a refresh token, and a call that ends signed in.
Brings(r) ==
    /\ r.at = "replied" /\ r.status = "ok"
    /\ r.leg = "refresh" \/ r.kind \in {"login", "boot", "register"}
Enters(r) == r.at # "idle" /\ r.kind \in {"me", "enter"}

Alone ==
    clean => /\ \A c, d \in Calls : call[c].at # "idle" /\ call[d].at # "idle" => c = d
             /\ \A w, v \in pending : w = v

CallsSound ==
    \A c \in Calls :
        /\ call[c].at = "flushing" => call[c].leg # "refresh" /\ call[c].kind \in Flushing
        /\ Brings(call[c]) => call[c].token # 0

LiveExists ==
    /\ col.jti # 0 => user.exists
    /\ \A w \in Coming : w.tokens.jti # 0 => user.exists \/ "exists" \in w.flags

\* The page the live token was made for holds it, or it is on its way there.
Held(h, t) ==
    /\ \A c \in Calls : Brings(call[c]) /\ call[c].page = h => call[c].token = t
    /\ \/ \E c \in Calls : Brings(call[c]) /\ call[c].page = h
       \/ page[h].refresh = t
       \/ page[h].view = "out" /\ \A c \in Calls : call[c].page = h => ~Enters(call[c])
HolderHolds == clean => \A h \in Pages, t \in Tokens : Live(h, t) => Held(h, t)

SignedInHolds ==
    clean => \A p \in Pages :
        \/ page[p].refresh # 0
        \/ page[p].view = "out" /\ \A c \in Calls : call[c].page = p => ~Enters(call[c])

\* A token a page gave up is live only while its logout is on its way.
LeftLeaves ==
    clean /\ user.active =>
        /\ 0 \notin left
        /\ \A h \in Owners, t \in left : Live(h, t) =>
             \E c \in Calls : /\ call[c].at = "sent" /\ call[c].kind = "logout"
                              /\ call[c].leg # "refresh" /\ call[c].access = "valid"

SessionInv ==
    /\ Alone
    /\ CallsSound
    /\ LiveExists
    /\ HolderHolds
    /\ SignedInHolds
    /\ LeftLeaves

LEMMA InitSession == Init => SessionInv
  <1> SUFFICES ASSUME Init PROVE SessionInv
    OBVIOUS
  <1>1. /\ \A c \in Calls : call[c].at = "idle"
        /\ pending = {} /\ Coming = {}
        /\ col.jti = 0 /\ holder = Nowhere /\ left = {}
        /\ \A p \in Pages : page[p].refresh = 0 /\ page[p].view = "out"
    BY DEF Init, Idle, SignedOut, Coming, Columns
  <1>2. \A h \in Pages, t \in Tokens : ~Live(h, t)
    BY <1>1, AccountsAssumption DEF Live
  <1>3. LiveExists /\ HolderHolds
    BY <1>1, <1>2 DEF LiveExists, HolderHolds, Brings, Enters
  <1> QED BY <1>1, <1>3 DEF SessionInv, Alone, CallsSound, SignedInHolds, LeftLeaves, Brings, Enters

\* The live token is a matter of the row and of what waits to be written.
LEMMA LiveSame ==
  ASSUME UNCHANGED <<col, holder, pending>>
  PROVE  Coming' = Coming /\ \A h, t : Live(h, t)' <=> Live(h, t)
  BY DEF Live, Coming

LEMMA LiveCommit ==
  ASSUME RowInv, NEW w \in pending, Commit(w), \A u, v \in pending : u = v
  PROVE  \A h, t : Live(h, t)' => Live(h, t)
  <1>1. pending = {w} /\ Coming' = {}
    BY DEF Commit, Coming
  <1>2. CASE "jti" \in DOMAIN w.tokens
    <2>1. col'.jti = w.tokens.jti /\ holder' = w.page
      BY <1>2 DEF Commit, Columns
    <2>2. w \in Coming
      BY <1>2 DEF Coming
    <2> QED BY <1>1, <2>1, <2>2 DEF Live
  <1>3. CASE "jti" \notin DOMAIN w.tokens
    <2>1. col'.jti = col.jti /\ holder' = holder
      BY <1>3 DEF Commit, Columns
    <2>2. Coming = {}
      BY <1>1, <1>3 DEF Coming
    <2> QED BY <1>1, <2>1, <2>2 DEF Live
  <1> QED BY <1>2, <1>3

LEMMA LiveAdds ==
  ASSUME NEW w, pending = {}, pending' = {w}, UNCHANGED <<col, holder>>
  PROVE  /\ "jti" \notin DOMAIN w.tokens => \A h, t : Live(h, t)' => Live(h, t)
         /\ "jti" \in DOMAIN w.tokens => \A h, t : Live(h, t)' => h = w.page /\ t = w.tokens.jti
  BY DEF Live, Coming

\* Tokens that are live or given up were made.
LEMMA LiveMade ==
  ASSUME RowInv, NEW h, NEW t, Live(h, t)
  PROVE  t \in Made
  <1>1. CASE Coming = {} /\ holder = h /\ col.jti = t
    BY <1>1 DEF RowInv, RowTyped, Columns
  <1>2. CASE \E w \in Coming : w.page = h /\ w.tokens.jti = t
    BY <1>2 DEF Coming, RowInv, WriteTyped
  <1> QED BY <1>1, <1>2 DEF Live

LEMMA ReplyFields ==
  ASSUME ClientTyped, NEW c \in Calls, NEW status, NEW token, Reply(c, status, token)
  PROVE  /\ call'[c].at = "replied" /\ call'[c].status = status /\ call'[c].token = token
         /\ call'[c].page = call[c].page /\ call'[c].kind = call[c].kind
         /\ call'[c].leg = call[c].leg /\ call'[c].access = call[c].access
         /\ \A d \in Calls \ {c} : call'[d] = call[d]
  BY DEF Reply, ClientTyped, CallType

LEMMA SendFields ==
  ASSUME ClientTyped, NEW c \in Calls, NEW p, NEW kind, NEW token, NEW access,
         Send(c, p, kind, token, access)
  PROVE  /\ call'[c].at = "sent" /\ call'[c].page = p /\ call'[c].kind = kind
         /\ call'[c].access = access /\ call'[c].leg = "first"
         /\ \A d \in Calls \ {c} : call'[d] = call[d]
  BY DEF Send, Idle, ClientTyped

\* Calls start when nothing else is in progress; the page keeps what it holds
\* or is signed out.
LEMMA SendSession ==
  ASSUME RowInv, ClientTyped, SessionInv, NEW c \in Calls, NEW p, NEW kind, NEW token, NEW access,
         Send(c, p, kind, token, access), kind \notin {"me", "enter"},
         \A h \in Pages : page'[h] = page[h] \/ page'[h].view = "out",
         \A t \in left' \ left : kind = "logout" /\ access = "valid" /\ t # 0
  PROVE  SessionInv'
  <1> USE DEF SessionInv
  <1>1. /\ UNCHANGED <<col, holder, pending, user>>
        /\ clean' => clean /\ \A d \in Calls : call[d].at = "idle"
    BY DEF Send, server
  <1>2. Coming' = Coming /\ \A h, t : Live(h, t)' <=> Live(h, t)
    BY <1>1, LiveSame
  <1>3. Alone'
    BY <1>1, SendFields DEF Alone
  <1>4. CallsSound'
    BY SendFields DEF CallsSound, Brings
  <1>5. LiveExists'
    BY <1>1, <1>2 DEF LiveExists
  <1>6. clean' => \A d \in Calls : ~Enters(call[d])' /\ ~Brings(call[d])'
    BY <1>1, SendFields DEF Enters, Brings
  <1>7. HolderHolds'
    <2> SUFFICES ASSUME clean', NEW h \in Pages, NEW t \in Tokens, Live(h, t)
                 PROVE  Held(h, t)'
      BY <1>2 DEF HolderHolds
    <2>1. page[h].refresh = t \/ page[h].view = "out"
      BY <1>1 DEF HolderHolds, Held, Brings
    <2>2. page'[h].refresh = t \/ page'[h].view = "out"
      BY <2>1
    <2>3. \A d \in Calls : ~Enters(call[d])' /\ ~Brings(call[d])'
      BY <1>6
    <2> QED BY <2>2, <2>3 DEF Held
  <1>8. SignedInHolds'
    BY <1>1, <1>6 DEF SignedInHolds
  <1>9. LeftLeaves'
    <2> SUFFICES ASSUME clean', user'.active
                 PROVE  /\ 0 \notin left'
                        /\ \A h \in Owners, t \in left' : Live(h, t)' =>
                             \E d \in Calls : /\ call'[d].at = "sent" /\ call'[d].kind = "logout"
                                              /\ call'[d].leg # "refresh" /\ call'[d].access = "valid"
      BY DEF LeftLeaves
    <2>1. \A h \in Owners, t \in left : ~Live(h, t)
      BY <1>1 DEF LeftLeaves
    <2>2. 0 \notin left'
      BY <1>1 DEF LeftLeaves
    <2>3. ASSUME NEW t \in left', t \notin left
          PROVE  /\ call'[c].at = "sent" /\ call'[c].kind = "logout"
                 /\ call'[c].leg # "refresh" /\ call'[c].access = "valid"
      BY <2>3, SendFields
    <2> QED BY <1>2, <2>1, <2>2, <2>3
  <1> QED BY <1>3, <1>4, <1>5, <1>7, <1>8, <1>9

LEMMA StartSession ==
  ASSUME RowInv, ClientTyped, SessionInv, NEW c \in Calls,
         \/ \E p \in Pages : SignIn(c, p) \/ Boot(c, p) \/ UseApi(c, p) \/ Logout(c, p)
         \/ AskMail(c) \/ OpenLink(c)
  PROVE  SessionInv'
  <1>1. ASSUME NEW p \in Pages, SignIn(c, p) \/ Boot(c, p) \/ UseApi(c, p)
        PROVE  SessionInv'
    BY <1>1, SendSession DEF SignIn, Boot, UseApi
  <1>2. CASE AskMail(c) \/ OpenLink(c)
    BY <1>2, SendSession DEF AskMail, OpenLink
  <1>3. ASSUME NEW p \in Pages, Logout(c, p)
        PROVE  SessionInv'
    <2>1. Send(c, p, "logout", 0, page[p].access) /\ page[p].view = "in"
      BY <1>3 DEF Logout
    <2>2. \A h \in Pages : page'[h] = page[h] \/ page'[h].view = "out"
      BY <1>3 DEF Logout, SignedOut, ClientTyped
    <2>3. CASE clean
      <3>1. page[p].refresh # 0
        BY <2>1, <2>3 DEF SessionInv, SignedInHolds
      <3>2. \A t \in left' \ left : page[p].access = "valid" /\ t # 0
        BY <1>3, <3>1 DEF Logout
      <3> QED BY <2>1, <2>2, <3>2, SendSession
    <2>4. CASE ~clean
      <3>1. ~clean' /\ UNCHANGED <<col, holder, pending, user>>
        BY <2>1, <2>4 DEF Send, server
      <3>2. CallsSound'
        BY <2>1, SendFields DEF SessionInv, CallsSound, Brings
      <3>3. LiveExists'
        BY <3>1, LiveSame DEF SessionInv, LiveExists
      <3> QED BY <3>1, <3>2, <3>3 DEF SessionInv, Alone, HolderHolds, SignedInHolds, LeftLeaves
    <2> QED BY <2>3, <2>4 DEF ClientTyped
  <1> QED BY <1>1, <1>2, <1>3

Asked(c) == call[c].at \in {"sent", "flushing"}
Revokes(c) ==
    /\ call[c].at = "sent" /\ call[c].kind = "logout"
    /\ call[c].leg # "refresh" /\ call[c].access = "valid"

\* An answer that brings no refresh token, with at most a write that leaves
\* the refresh token alone.
LEMMA PlainReply ==
  ASSUME RowInv, ClientTyped, SessionInv, NEW c \in Calls, NEW status, NEW token,
         Asked(c), Reply(c, status, token),
         status # "ok" \/ (call[c].leg # "refresh" /\ call[c].kind \notin {"login", "boot", "register"}),
         clean' = (clean /\ pending = {}),
         UNCHANGED <<user, col, holder, page, left>>,
         \/ pending' = pending
         \/ \E w : pending' = pending \cup {w} /\ "jti" \notin DOMAIN w.tokens,
         Revokes(c) /\ pending = {} => ~user.active \/ col.jti = 0
  PROVE  SessionInv'
  <1> USE DEF SessionInv
  <1>1. Coming' = Coming
    BY DEF Coming
  <1>2. \A h, t : Live(h, t)' <=> Live(h, t)
    BY <1>1 DEF Live
  <1>3. Alone'
    <2>1. \A d \in Calls : call[d].at = "idle" <=> call'[d].at = "idle"
      BY ReplyFields DEF Asked
    <2>2. pending = {} => \A u, v \in pending' : u = v
      OBVIOUS
    <2> QED BY <2>1, <2>2 DEF Alone
  <1>4. ~Brings(call[c])' /\ call'[c].at # "flushing" /\ ~Brings(call[c])
    BY ReplyFields DEF Brings, Asked
  <1>5. CallsSound'
    BY <1>4, ReplyFields DEF CallsSound, Brings
  <1>6. LiveExists'
    BY <1>1 DEF LiveExists
  <1>7. \A d \in Calls : /\ Enters(call[d])' <=> Enters(call[d])
                         /\ Brings(call[d])' <=> Brings(call[d])
                         /\ call'[d].page = call[d].page
                         /\ Brings(call[d]) => call'[d].token = call[d].token
    BY <1>4, ReplyFields DEF Enters, Brings, Asked
  <1>8. HolderHolds'
    <2> SUFFICES ASSUME clean', NEW h \in Pages, NEW t \in Tokens, Live(h, t)'
                 PROVE  Held(h, t)'
      BY DEF HolderHolds
    <2>1. Held(h, t)
      BY <1>2 DEF HolderHolds
    <2> QED BY <1>7, <2>1 DEF Held
  <1>9. SignedInHolds'
    BY <1>7 DEF SignedInHolds
  <1>10. LeftLeaves'
    <2> SUFFICES ASSUME clean', user.active, clean, pending = {}
                 PROVE  /\ 0 \notin left
                        /\ \A h \in Owners, t \in left : Live(h, t) => \E d \in Calls : Revokes(d)'
      BY <1>2 DEF LeftLeaves, Revokes
    <2>1. 0 \notin left /\ \A h \in Owners, t \in left : Live(h, t) => \E d \in Calls : Revokes(d)
      BY DEF LeftLeaves, Revokes
    <2>2. ASSUME NEW h \in Owners, NEW t \in left, Live(h, t)
          PROVE  \E d \in Calls : Revokes(d)'
      <3>1. PICK d \in Calls : Revokes(d)
        BY <2>1, <2>2
      <3>2. CASE d # c
        BY <3>1, <3>2, ReplyFields DEF Revokes
      <3>3. CASE d = c
        <4>1. col.jti = 0 /\ Coming = {}
          BY <3>1, <3>3 DEF Coming
        <4> QED BY <2>1, <2>2, <4>1 DEF Live
      <3> QED BY <3>2, <3>3
    <2> QED BY <2>1, <2>2
  <1> QED BY <1>3, <1>5, <1>6, <1>8, <1>9, <1>10

\* An answer whose write gives the row the refresh token t: a new one, which
\* the answer brings to the page, or none.
LEMMA TokenReply ==
  ASSUME RowInv, ClientTyped, SessionInv, NEW c \in Calls, NEW w, NEW t, NEW h \in Owners,
         Asked(c), Reply(c, "ok", t),
         clean' = (clean /\ pending = {}), pending' = pending \cup {w},
         UNCHANGED <<user, col, holder, page, left>>,
         "jti" \in DOMAIN w.tokens, w.tokens.jti = t, w.page = h,
         \/ t = 0 /\ h = Nowhere /\ call[c].leg # "refresh"
            /\ call[c].kind \notin {"login", "boot", "register"}
         \/ /\ t \in Nat /\ issued < t /\ h = call[c].page
            /\ call[c].leg = "refresh" \/ call[c].kind \in {"login", "boot", "register"}
            /\ user.exists \/ "exists" \in w.flags
  PROVE  SessionInv'
  <1> USE DEF SessionInv
  <1>1. Coming' = Coming \cup {w}
    BY DEF Coming
  <1>2. clean' => clean /\ pending = {} /\ \A g, u : Live(g, u)' => g = h /\ u = t
    BY LiveAdds
  <1>3. Alone'
    <2>1. \A d \in Calls : call[d].at = "idle" <=> call'[d].at = "idle"
      BY ReplyFields DEF Asked
    <2>2. pending = {} => \A u, v \in pending' : u = v
      OBVIOUS
    <2> QED BY <2>1, <2>2 DEF Alone
  <1>4. ~Brings(call[c]) /\ call'[c].at # "flushing"
    BY ReplyFields DEF Brings, Asked
  <1>5. CallsSound'
    <2>1. Brings(call[c])' => t # 0
      BY ReplyFields, AccountsAssumption DEF Brings, RowInv, RowTyped, Tokens
    <2> QED BY <1>4, <2>1, ReplyFields DEF CallsSound, Brings
  <1>6. LiveExists'
    BY <1>1 DEF LiveExists
  <1>7. HolderHolds'
    <2>1. CASE t = 0 /\ h = Nowhere
      BY <1>2, <2>1, AccountsAssumption DEF HolderHolds
    <2>2. CASE call[c].leg = "refresh" \/ call[c].kind \in {"login", "boot", "register"}
      <3>1. Brings(call[c])' /\ call'[c].token = t /\ call'[c].page = call[c].page
        BY <2>2, ReplyFields DEF Brings
      <3>2. h # call[c].page => h = Nowhere
        OBVIOUS
      <3>3. clean' => \A d \in Calls \ {c} : ~Brings(call[d])'
        BY <1>2, ReplyFields DEF Alone, Asked, Brings
      <3> QED BY <1>2, <3>1, <3>2, <3>3, AccountsAssumption DEF HolderHolds, Held
    <2> QED BY <2>1, <2>2
  <1>8. \A d \in Calls : call'[d].page = call[d].page /\ (Enters(call[d])' <=> Enters(call[d]))
    BY ReplyFields DEF Enters, Asked
  <1>9. SignedInHolds'
    BY <1>8 DEF SignedInHolds
  <1>10. LeftLeaves'
    <2>1. t \in Nat /\ issued < t => t \notin left
      BY AccountsAssumption DEF ClientTyped, Made, RowInv, RowTyped, Tokens
    <2> QED BY <1>2, <2>1 DEF LeftLeaves
  <1> QED BY <1>3, <1>5, <1>6, <1>7, <1>9, <1>10

LEMMA RefusalKeeps ==
  ASSUME RowInv, ClientTyped, SessionInv, NEW c \in Calls, NEW status,
         Asked(c), Refuse(c, status), UNCHANGED <<page, left>>,
         status # "ok" \/ (call[c].leg # "refresh" /\ call[c].kind \notin {"login", "boot", "register"}),
         Revokes(c) => ~user.active \/ col.jti = 0
  PROVE  SessionInv'
  <1>1. /\ Reply(c, status, 0) /\ clean' = (clean /\ pending = {})
        /\ UNCHANGED <<user, col, holder, pending>>
    BY DEF Refuse, server
  <1> QED BY <1>1, PlainReply

LEMMA IssueSession ==
  ASSUME RowInv, ClientTyped, SessionInv, NEW c \in Calls, Asked(c), IssueJti(c), UNCHANGED <<page, left>>,
         call[c].leg = "refresh" \/ call[c].kind \in {"login", "boot", "register"},
         user.exists
  PROVE  SessionInv'
  <1> DEFINE w == Write([jti |-> issued + 1], {}, FALSE, call[c].page)
  <1>1. "jti" \in DOMAIN w.tokens /\ w.tokens.jti = issued + 1 /\ w.page = call[c].page
    BY DEF Write
  <1>2. issued + 1 \in Nat /\ issued < issued + 1 /\ call[c].page \in Owners
    BY AccountsAssumption DEF RowInv, RowTyped, Tokens, ClientTyped, CallType
  <1>3. /\ Reply(c, "ok", issued + 1) /\ clean' = (clean /\ pending = {}) /\ pending' = pending \cup {w}
        /\ UNCHANGED <<user, col, holder>>
    BY DEF IssueJti, Answer, server
  <1> HIDE DEF w
  <1> QED BY <1>1, <1>2, <1>3, TokenReply

LEMMA HandleSession ==
  ASSUME RowInv, ClientTyped, SessionInv, NEW c \in Calls, Handle(c)
  PROVE  SessionInv'
  <1>0. /\ call[c].at = "flushing" => call[c].leg # "refresh"
        /\ col.jti # 0 => user.exists
        /\ call[c].page \in Owners /\ issued \in Nat
    BY AccountsAssumption DEF SessionInv, CallsSound, LiveExists, ClientTyped, CallType, RowInv, RowTyped, Tokens
  <1>1. CASE Refresh(c)
    <2>1. Asked(c) /\ ~Revokes(c) /\ UNCHANGED <<page, left>>
      BY <1>1 DEF Refresh, Asked, Revokes, Refreshing
    <2>2. \/ Refuse(c, "no") \/ Refuse(c, "401")
          \/ user.exists /\ IssueJti(c)
      BY <1>1 DEF Refresh
    <2>3. call[c].leg = "refresh" \/ call[c].kind \in {"login", "boot", "register"}
      BY <1>1 DEF Refresh, Refreshing
    <2> QED BY <2>1, <2>2, <2>3, RefusalKeeps, IssueSession
  <1>2. CASE Login(c)
    <2>1. Asked(c) /\ ~Revokes(c) /\ UNCHANGED <<page, left>> /\ call[c].kind = "login"
      BY <1>2 DEF Login, Asks, Asked, Revokes
    <2>2. Refuse(c, "401") \/ (user.exists /\ IssueJti(c))
      BY <1>2 DEF Login, Found
    <2> QED BY <2>1, <2>2, RefusalKeeps, IssueSession
  <1>3. CASE ServeApi(c)
    <2>1. /\ Asked(c) /\ ~Revokes(c) /\ UNCHANGED <<page, left>>
          /\ call[c].leg # "refresh" /\ call[c].kind \notin {"login", "boot", "register"}
      BY <1>3 DEF ServeApi, Asks, Asked, Revokes, Refreshing
    <2>2. Refuse(c, "401") \/ Refuse(c, "no") \/ Refuse(c, "ok")
      BY <1>3 DEF ServeApi
    <2> QED BY <2>1, <2>2, RefusalKeeps
  <1>4. CASE Look(c)
    <2>1. /\ Asked(c) /\ ~Revokes(c) /\ UNCHANGED <<page, left>>
          /\ call[c].at = "sent" /\ call[c].leg # "refresh" /\ call[c].kind \in Flushing
      BY <1>4 DEF Look, Asked, Revokes, Refreshing, Flushing
    <2>2. \/ Refuse(c, "no") \/ GoFlush(c)
          \/ Refuse(c, "ok") /\ call[c].kind \notin {"login", "boot", "register"}
      BY <1>4, <2>1 DEF Look, Flushing
    <2>3. CASE GoFlush(c)
      <3>1. /\ UNCHANGED <<col, holder, pending, user, clean>>
            /\ call'[c] = [call[c] EXCEPT !.at = "flushing"]
            /\ \A d \in Calls \ {c} : call'[d] = call[d]
        BY <2>3 DEF GoFlush, server, ClientTyped
      <3>2. /\ call'[c].at = "flushing" /\ call'[c].page = call[c].page
            /\ call'[c].kind = call[c].kind /\ call'[c].leg = call[c].leg
        BY <3>1 DEF ClientTyped, CallType
      <3>3. Coming' = Coming /\ \A h, t : Live(h, t)' <=> Live(h, t)
        BY <3>1, LiveSame
      <3>4. \A d \in Calls : /\ Enters(call[d])' <=> Enters(call[d])
                             /\ Brings(call[d])' <=> Brings(call[d])
                             /\ call'[d].page = call[d].page
                             /\ Brings(call[d]) => call'[d].token = call[d].token
                             /\ Revokes(d) => Revokes(d)'
                             /\ call[d].at = "idle" <=> call'[d].at = "idle"
        BY <2>1, <3>1, <3>2 DEF Enters, Brings, Revokes, Flushing
      <3>5. Alone' /\ LiveExists'
        BY <3>1, <3>3, <3>4 DEF SessionInv, Alone, LiveExists
      <3>6. CallsSound'
        <4>1. CallsSound
          BY DEF SessionInv
        <4>2. ~Brings(call'[c])
          BY <3>2 DEF Brings
        <4> QED BY <2>1, <3>1, <3>2, <4>1, <4>2 DEF CallsSound
      <3>8. HolderHolds'
        BY <2>1, <3>1, <3>3, <3>4 DEF SessionInv, HolderHolds, Held
      <3>9. SignedInHolds'
        BY <2>1, <3>1, <3>4 DEF SessionInv, SignedInHolds
      <3>7. LeftLeaves'
        BY <2>1, <3>1, <3>3, <3>4 DEF SessionInv, LeftLeaves, Revokes
      <3> QED BY <3>5, <3>6, <3>7, <3>8, <3>9 DEF SessionInv
    <2> QED BY <2>1, <2>2, <2>3, RefusalKeeps
  <1>5. CASE ServeLogout(c)
    <2>1. /\ Asked(c) /\ UNCHANGED <<page, left>>
          /\ call[c].leg # "refresh" /\ call[c].kind = "logout"
      BY <1>5 DEF ServeLogout, Asks, Asked, Refreshing
    <2>2. CASE Answer(c, 0, Write([jti |-> 0], {}, FALSE, Nowhere))
      <3> DEFINE w == Write([jti |-> 0], {}, FALSE, Nowhere)
      <3>1. "jti" \in DOMAIN w.tokens /\ w.tokens.jti = 0 /\ w.page = Nowhere
        BY DEF Write
      <3>2. /\ Reply(c, "ok", 0) /\ clean' = (clean /\ pending = {}) /\ pending' = pending \cup {w}
            /\ UNCHANGED <<user, col, holder>>
        BY <2>2 DEF Answer, server
      <3>3. Nowhere \in Owners
        BY DEF Owners
      <3> HIDE DEF w
      <3> QED BY <2>1, <3>1, <3>2, <3>3, TokenReply
    <2>3. \/ Answer(c, 0, Write([jti |-> 0], {}, FALSE, Nowhere))
          \/ /\ Refuse(c, "401") \/ Refuse(c, "no") \/ Refuse(c, "ok")
             /\ Revokes(c) => ~user.active \/ col.jti = 0
      BY <1>0, <1>5 DEF ServeLogout, Revokes
    <2> QED BY <2>1, <2>2, <2>3, RefusalKeeps
  <1>6. CASE FlushRegister(c)
    <2>1. /\ Asked(c) /\ ~Revokes(c) /\ UNCHANGED <<page, left>> /\ call[c].kind = "register"
      BY <1>6 DEF FlushRegister, Asked, Revokes
    <2>2. CASE Refuse(c, "no")
      BY <2>1, <2>2, RefusalKeeps
    <2>3. CASE ~user.exists
      <3> DEFINE w == Write([verification |-> issued + 1, jti |-> issued + 2], {"exists"}, TRUE, call[c].page)
      <3>1. /\ "jti" \in DOMAIN w.tokens /\ w.tokens.jti = issued + 2 /\ w.page = call[c].page
            /\ "exists" \in w.flags
        BY DEF Write
      <3>2. /\ Reply(c, "ok", issued + 2) /\ clean' = (clean /\ pending = {}) /\ pending' = pending \cup {w}
            /\ UNCHANGED <<user, col, holder>>
        BY <1>6, <2>3 DEF FlushRegister, FlushAnswer
      <3>3. issued + 2 \in Nat /\ issued < issued + 2
        BY <1>0
      <3> HIDE DEF w
      <3> QED BY <1>0, <2>1, <3>1, <3>2, <3>3, TokenReply
    <2> QED BY <1>6, <2>2, <2>3 DEF FlushRegister
  <1>7. CASE FlushForgot(c)
    <2>1. /\ Asked(c) /\ ~Revokes(c) /\ UNCHANGED <<page, left>>
          /\ call[c].leg # "refresh" /\ call[c].kind = "forgot"
      BY <1>0, <1>7 DEF FlushForgot, Asked, Revokes
    <2> DEFINE w == Write([reset |-> issued + 1], {}, TRUE, call[c].page)
    <2>2. "jti" \notin DOMAIN w.tokens
      BY DEF Write
    <2>3. /\ Reply(c, "ok", 0) /\ clean' = (clean /\ pending = {}) /\ pending' = pending \cup {w}
          /\ UNCHANGED <<user, col, holder>>
      BY <1>7 DEF FlushForgot, FlushAnswer
    <2> HIDE DEF w
    <2> QED BY <2>1, <2>2, <2>3, PlainReply
  <1>8. CASE FlushLink(c)
    <2>1. /\ Asked(c) /\ ~Revokes(c) /\ UNCHANGED <<page, left>>
          /\ call[c].leg # "refresh" /\ call[c].kind \in {"verify", "choose"}
      BY <1>0, <1>8 DEF FlushLink, Asked, Revokes
    <2> DEFINE w == IF call[c].kind = "verify"
                    THEN Write([verification |-> 0], {"verified"}, TRUE, call[c].page)
                    ELSE Write([reset |-> 0], {}, TRUE, call[c].page)
    <2>2. "jti" \notin DOMAIN w.tokens
      BY DEF Write
    <2>3. /\ Reply(c, "ok", 0) /\ clean' = (clean /\ pending = {}) /\ pending' = pending \cup {w}
          /\ UNCHANGED <<user, col, holder>>
      BY <1>8 DEF FlushLink, FlushAnswer
    <2> HIDE DEF w
    <2> QED BY <2>1, <2>2, <2>3, PlainReply
  <1>9. CASE Resend(c)
    <2>1. /\ Asked(c) /\ ~Revokes(c) /\ UNCHANGED <<page, left>>
          /\ call[c].leg # "refresh" /\ call[c].kind = "resend"
      BY <1>9 DEF Resend, Asks, Asked, Revokes, Refreshing
    <2> DEFINE w == Write([verification |-> issued + 1], {}, FALSE, Nowhere)
    <2>2. "jti" \notin DOMAIN w.tokens
      BY DEF Write
    <2>3. CASE Answer(c, 0, w)
      <3>1. /\ Reply(c, "ok", 0) /\ clean' = (clean /\ pending = {}) /\ pending' = pending \cup {w}
            /\ UNCHANGED <<user, col, holder>>
        BY <2>3 DEF Answer, server
      <3> HIDE DEF w
      <3> QED BY <2>1, <2>2, <3>1, PlainReply
    <2>4. Refuse(c, "ok") \/ Answer(c, 0, w)
      BY <1>9 DEF Resend
    <2> QED BY <2>1, <2>3, <2>4, RefusalKeeps
  <1> QED BY <1>1, <1>2, <1>3, <1>4, <1>5, <1>6, <1>7, <1>8, <1>9 DEF Handle

\* An exchange reaches its page: the server does not change, nor does any
\* call but c or page but that of c, which is signed in afterwards only with
\* the token it had or the one the answer brought.
LEMMA Settle ==
  ASSUME RowInv, ClientTyped, SessionInv, NEW c \in Calls, call[c].at # "idle",
         UNCHANGED <<user, col, holder, pending, left, clean>>,
         \A d \in Calls \ {c} : call'[d] = call[d],
         \A q \in Pages : q # call[c].page => page'[q] = page[q],
         call'[c].at = "idle" \/ (call'[c].at = "sent" /\ call'[c].page = call[c].page),
         ~Revokes(c),
         call[c].page \in Pages =>
           \/ page'[call[c].page].view = "out" /\ ~Enters(call'[c])
           \/ /\ page'[call[c].page].refresh = page[call[c].page].refresh /\ ~Brings(call[c])
              /\ page[call[c].page].view # "out" \/ Enters(call[c])
           \/ page'[call[c].page].refresh = call[c].token /\ Brings(call[c])
  PROVE  SessionInv'
  <1> USE DEF SessionInv
  <1> DEFINE p == call[c].page
  <1>1. Coming' = Coming /\ \A h, t : Live(h, t)' <=> Live(h, t)
    BY LiveSame
  <1>2. ~Brings(call'[c]) /\ call'[c].at # "flushing"
    BY DEF Brings
  <1>3. Alone' /\ LiveExists'
    BY <1>1 DEF Alone, LiveExists
  <1>4. CallsSound'
    BY <1>2 DEF CallsSound
  <1>5. clean => \A d \in Calls \ {c} : /\ ~Brings(call[d]) /\ ~Enters(call[d])
                                        /\ ~Brings(call'[d]) /\ ~Enters(call'[d]) /\ ~Revokes(d)
    BY DEF Alone, Brings, Enters, Revokes
  <1>6. Enters(call'[c]) => call'[c].page = p
    BY DEF Enters
  <1>7. HolderHolds'
    <2> SUFFICES ASSUME clean, NEW h \in Pages, NEW t \in Tokens, Live(h, t)
                 PROVE  Held(h, t)'
      BY <1>1 DEF HolderHolds
    <2>1. Held(h, t)
      BY DEF HolderHolds
    <2>2. \A d \in Calls : ~Brings(call'[d])
      BY <1>2, <1>5
    <2>3. \/ page'[h].refresh = t
          \/ page'[h].view = "out" /\ \A d \in Calls : call'[d].page = h => ~Enters(call'[d])
      <3>1. CASE h # p
        BY <1>5, <1>6, <2>1, <3>1 DEF Held
      <3>2. CASE h = p
        BY <1>5, <2>1, <3>2 DEF Held
      <3> QED BY <3>1, <3>2
    <2> QED BY <2>2, <2>3 DEF Held
  <1>8. SignedInHolds'
    <2> SUFFICES ASSUME clean, NEW h \in Pages
                 PROVE  \/ page'[h].refresh # 0
                        \/ page'[h].view = "out" /\ \A d \in Calls : call'[d].page = h => ~Enters(call'[d])
      BY DEF SignedInHolds
    <2>1. \/ page[h].refresh # 0
          \/ page[h].view = "out" /\ \A d \in Calls : call[d].page = h => ~Enters(call[d])
      BY DEF SignedInHolds
    <2>2. CASE h # p
      BY <1>5, <1>6, <2>1, <2>2
    <2>3. CASE h = p
      <3>1. Brings(call[c]) => call[c].token # 0
        BY DEF CallsSound
      <3> QED BY <1>5, <2>1, <2>3, <3>1
    <2> QED BY <2>2, <2>3
  <1>9. LeftLeaves'
    BY <1>1 DEF LeftLeaves, Revokes
  <1> QED BY <1>3, <1>4, <1>7, <1>8, <1>9

LEMMA ReceiveSession ==
  ASSUME RowInv, ClientTyped, SessionInv, NEW c \in Calls, Receive(c)
  PROVE  SessionInv'
  <1> DEFINE p == call[c].page
  <1>1. /\ call[c].at = "replied" /\ ~Revokes(c) /\ UNCHANGED <<user, col, holder, pending, left, clean>>
        /\ call[c] \in CallType /\ p \in Owners
    BY DEF Receive, Revokes, server, ClientTyped, CallType
  <1>2. page \in [Pages -> PageType] /\ call \in [Calls -> CallType]
    BY DEF ClientTyped
  <1>3. End(c) => call'[c].at = "idle" /\ ~Enters(call'[c]) /\ \A d \in Calls \ {c} : call'[d] = call[d]
    BY <1>2 DEF End, Idle, Enters
  <1>4. CASE p = Nowhere
    <2>1. End(c) /\ page' = page
      BY <1>4 DEF Receive
    <2> QED BY <1>1, <1>3, <1>4, <2>1, AccountsAssumption, Settle
  <1>5. CASE p # Nowhere
    <2>1. p \in Pages /\ page[p] \in PageType
      BY <1>1, <1>2, <1>5 DEF Owners
    <2>2. \A q \in Pages : q # p => page'[q] = page[q]
      <3>1. \/ Refreshed(c, p) \/ Served(c, p) \/ Unauthorized(c, p) \/ Failed(c, p)
            \/ page' = [page EXCEPT ![p] = Expelled(p)]
        <4>1. call[c].status \in {"ok", "401", "no"}
          BY <1>1 DEF CallType
        <4> QED BY <1>5, <4>1 DEF Receive
      <3>2. CASE Refreshed(c, p) \/ page' = [page EXCEPT ![p] = Expelled(p)]
        BY <1>2, <3>2 DEF Refreshed
      <3>3. CASE Failed(c, p) \/ Unauthorized(c, p)
        BY <1>2, <3>3 DEF Failed, Unauthorized
      <3>4. CASE Served(c, p)
        BY <1>2, <3>4 DEF Served, Welcome
      <3> QED BY <3>1, <3>2, <3>3, <3>4
    <2>3. page[p].view \in {"in", "out"}
      BY <2>1 DEF PageType
    <2>4. CASE call[c].leg = "refresh" /\ call[c].status = "ok"
      <3>1. Refreshed(c, p) /\ Brings(call[c])
        BY <1>1, <1>5, <2>4 DEF Receive, Brings
      <3>2. /\ page'[p].refresh = call[c].token
            /\ call'[c].at = "sent" /\ call'[c].page = p /\ \A d \in Calls \ {c} : call'[d] = call[d]
        BY <1>1, <1>2, <2>1, <3>1 DEF Refreshed, PageType, CallType
      <3> QED BY <1>1, <2>1, <2>2, <3>1, <3>2, Settle
    <2>5. CASE End(c) /\ ~Brings(call[c]) /\ (page' = page \/ page'[p].view = "out")
      BY <1>1, <1>3, <2>1, <2>2, <2>3, <2>5, Settle
    <2>6. CASE call[c].leg = "refresh" /\ call[c].status # "ok"
      <3>1. End(c) /\ page' = [page EXCEPT ![p] = Expelled(p)] /\ ~Brings(call[c])
        BY <1>5, <2>6 DEF Receive, Brings
      <3>2. page' = page \/ page'[p].view = "out"
        BY <1>2, <2>1, <3>1 DEF Expelled, SignedOut
      <3> QED BY <2>5, <3>1, <3>2
    <2>7. CASE call[c].leg # "refresh" /\ Served(c, p) /\ call[c].status = "ok"
      <3>1. CASE call[c].kind \in {"login", "boot"}
        <4>1. Welcome(c, p) /\ Brings(call[c])
          BY <1>1, <2>7, <3>1 DEF Served, Brings
        <4>2. /\ page'[p].refresh = call[c].token
              /\ call'[c].at = "sent" /\ call'[c].page = p /\ \A d \in Calls \ {c} : call'[d] = call[d]
          BY <1>1, <1>2, <2>1, <4>1 DEF Welcome, PageType, CallType, Idle
        <4> QED BY <1>1, <2>1, <2>2, <4>1, <4>2, Settle
      <3>2. CASE call[c].kind = "register"
        <4>1. End(c) /\ page'[p].refresh = call[c].token /\ Brings(call[c])
          BY <1>1, <1>2, <2>1, <2>7, <3>2 DEF Served, Brings, PageType
        <4> QED BY <1>1, <1>3, <2>1, <2>2, <4>1, Settle
      <3>3. CASE call[c].kind \in {"me", "enter"}
        <4>1. End(c) /\ page'[p].refresh = page[p].refresh /\ ~Brings(call[c]) /\ Enters(call[c])
          BY <1>1, <1>2, <2>1, <2>7, <3>3 DEF Served, Brings, Enters, PageType
        <4> QED BY <1>1, <1>3, <2>1, <2>2, <4>1, Settle
      <3>4. CASE call[c].kind \notin {"login", "boot", "register", "me", "enter"}
        <4>1. End(c) /\ page' = page /\ ~Brings(call[c])
          BY <2>7, <3>4 DEF Served, Brings
        <4> QED BY <2>5, <4>1
      <3> QED BY <3>1, <3>2, <3>3, <3>4
    <2>8. Failed(c, p) => End(c) /\ (page' = page \/ page'[p].view = "out")
      BY <1>2, <2>1 DEF Failed, PageType
    <2>9. CASE call[c].status = "no" /\ Failed(c, p)
      BY <2>5, <2>8, <2>9 DEF Brings
    <2>10. CASE call[c].status = "401" /\ Unauthorized(c, p)
      <3>1. ~Brings(call[c])
        BY <2>10 DEF Brings
      <3>2. CASE call' = [call EXCEPT ![c] = [@ EXCEPT !.at = "sent", !.leg = "refresh",
                                                !.token = page[p].refresh]] /\ page' = page
        <4>1. /\ call'[c].at = "sent" /\ call'[c].page = p /\ \A d \in Calls \ {c} : call'[d] = call[d]
              /\ Enters(call'[c]) => Enters(call[c])
          BY <1>1, <1>2, <3>2 DEF CallType, Enters
        <4> QED BY <1>1, <2>1, <2>2, <2>3, <3>1, <3>2, <4>1, Settle
      <3>3. CASE End(c) /\ page' = [page EXCEPT ![p] = Expelled(p)]
        <4>1. page' = page \/ page'[p].view = "out"
          BY <1>2, <2>1, <3>3 DEF Expelled, SignedOut
        <4> QED BY <2>5, <3>1, <3>3, <4>1
      <3>4. CASE Failed(c, p)
        BY <2>5, <2>8, <3>1, <3>4
      <3> QED BY <2>10, <3>2, <3>3, <3>4 DEF Unauthorized
    <2>11. \/ call[c].leg = "refresh"
           \/ call[c].status = "ok" /\ Served(c, p)
           \/ call[c].status = "401" /\ Unauthorized(c, p)
           \/ call[c].status = "no" /\ Failed(c, p)
      <3>1. call[c].status \in {"ok", "401", "no"}
        BY <1>1 DEF CallType
      <3> QED BY <1>5, <3>1 DEF Receive
    <2> QED BY <2>4, <2>6, <2>7, <2>9, <2>10, <2>11
  <1> QED BY <1>4, <1>5

\* Commits, the hour of an access token, pages loaded again, and faults.
LEMMA OtherSession ==
  ASSUME RowInv, ClientTyped, SessionInv,
         \/ \E w \in pending : Commit(w)
         \/ \E p \in Pages : Expire(p) \/ \E app \in Apps : Load(p, app)
         \/ Deactivate \/ Restart \/ \E c \in Calls : Lose(c)
  PROVE  SessionInv'
  <1> USE DEF SessionInv
  <1>1. ASSUME NEW w \in pending, Commit(w)
        PROVE  SessionInv'
    <2>1. /\ UNCHANGED <<page, call, left, clean>> /\ pending' = pending \ {w}
          /\ user'.active = user.active /\ (user.exists => user'.exists)
          /\ "exists" \in w.flags => user'.exists
      BY <1>1 DEF Commit, RowInv, RowTyped
    <2>2. clean => \A h, t : Live(h, t)' => Live(h, t)
      BY <1>1, LiveCommit DEF Alone
    <2>3. Alone' /\ CallsSound' /\ SignedInHolds'
      BY <2>1 DEF Alone, CallsSound, SignedInHolds
    <2>4. LiveExists'
      <3>1. col'.jti = col.jti \/ (w \in Coming /\ col'.jti = w.tokens.jti)
        BY <1>1 DEF Commit, Columns, Coming
      <3>2. Coming' \subseteq Coming
        BY <2>1 DEF Coming
      <3> QED BY <2>1, <3>1, <3>2 DEF LiveExists
    <2>5. HolderHolds'
      <3>1. \A h, t : Held(h, t)' <=> Held(h, t)
        BY <2>1 DEF Held
      <3> QED BY <2>1, <2>2, <3>1 DEF HolderHolds
    <2>6. LeftLeaves'
      BY <2>1, <2>2 DEF LeftLeaves
    <2> QED BY <2>3, <2>4, <2>5, <2>6
  <1>2. ASSUME NEW p \in Pages, Expire(p)
        PROVE  SessionInv'
    <2>1. UNCHANGED <<user, col, holder, pending, call, left, clean>>
      BY <1>2 DEF Expire, server
    <2>2. \A q \in Pages : page'[q].view = page[q].view /\ page'[q].refresh = page[q].refresh
      BY <1>2 DEF Expire, ClientTyped, PageType
    <2>3. Coming' = Coming /\ \A h, t : Live(h, t)' <=> Live(h, t)
      BY <2>1, LiveSame
    <2>4. Alone' /\ CallsSound' /\ SignedInHolds' /\ LiveExists'
      BY <2>1, <2>2, <2>3 DEF Alone, CallsSound, SignedInHolds, LiveExists
    <2>5. HolderHolds'
      <3>1. \A h \in Pages : \A t : Held(h, t)' <=> Held(h, t)
        BY <2>1, <2>2 DEF Held
      <3> QED BY <2>1, <2>3, <3>1 DEF HolderHolds
    <2>6. LeftLeaves'
      BY <2>1, <2>3 DEF LeftLeaves
    <2> QED BY <2>4, <2>5, <2>6
  <1>3. ASSUME NEW p \in Pages, NEW app \in Apps, Load(p, app)
        PROVE  SessionInv'
    <2>1. UNCHANGED <<user, col, holder, pending, left>>
      BY <1>3 DEF Load, server
    <2>2. \A q \in Pages : \/ page'[q].view = "out"
                           \/ page'[q] = page[q]
      BY <1>3 DEF Load, ClientTyped, PageType
    <2>3. Coming' = Coming /\ \A h, t : Live(h, t)' <=> Live(h, t)
      BY <2>1, LiveSame
    <2>4. \A c \in Calls : /\ call'[c].at = call[c].at /\ call'[c].kind = call[c].kind
                           /\ call'[c].leg = call[c].leg /\ call'[c].token = call[c].token
                           /\ call'[c].status = call[c].status /\ call'[c].access = call[c].access
                           /\ call'[c].page = IF call[c].page = p THEN Nowhere ELSE call[c].page
      BY <1>3 DEF Load, ClientTyped, CallType
    <2>5. \A c \in Calls : /\ Brings(call'[c]) <=> Brings(call[c])
                           /\ Enters(call'[c]) <=> Enters(call[c])
      BY <2>4 DEF Brings, Enters
    <2>6. clean' => clean /\ \A c \in Calls : call[c].at # "idle" => call'[c].page = call[c].page
      BY <1>3, <2>4 DEF Load, Busy
    <2>7. Alone'
      BY <2>1, <2>4, <2>6 DEF Alone
    <2>8. CallsSound' /\ LiveExists'
      BY <2>1, <2>3, <2>4, <2>5 DEF CallsSound, LiveExists
    <2>9. clean' => \A q \in Pages : \A c \in Calls :
             /\ call'[c].page = q /\ Enters(call'[c]) => call[c].page = q /\ Enters(call[c])
             /\ call[c].page = q /\ Brings(call[c]) <=> call'[c].page = q /\ Brings(call'[c])
      <3>1. \A c \in Calls : (Enters(call[c]) => call[c].at # "idle") /\ (Brings(call[c]) => call[c].at # "idle")
        BY DEF Enters, Brings
      <3> QED BY <2>5, <2>6, <3>1
    <2>10. \A q \in Pages : clean' /\ q = p => \A c \in Calls : ~(call[c].page = p /\ Enters(call[c]))
      BY <1>3 DEF Load, Busy, Enters
    <2>11. SignedInHolds'
      BY <2>2, <2>6, <2>9, <2>10, <1>3, ZenonT(60) DEF SignedInHolds, Load, ClientTyped
    <2>12. HolderHolds'
      <3> SUFFICES ASSUME clean', NEW h \in Pages, NEW t \in Tokens, Live(h, t)
                   PROVE  Held(h, t)'
        BY <2>3 DEF HolderHolds
      <3>1. Held(h, t)
        BY <2>6 DEF HolderHolds
      <3>2. CASE page'[h] = page[h]
        BY <2>4, <2>9, <3>1, <3>2 DEF Held
      <3>3. CASE page'[h] # page[h]
        <4>1. h = p /\ page'[h].view = "out"
          BY <1>3, <2>2, <3>3 DEF Load, ClientTyped
        <4> QED BY <2>4, <2>9, <2>10, <3>1, <4>1 DEF Held
      <3> QED BY <3>2, <3>3
    <2>13. LeftLeaves'
      BY <2>1, <2>3, <2>4, <2>6 DEF LeftLeaves
    <2> QED BY <2>7, <2>8, <2>11, <2>12, <2>13
  <1>4. CASE Deactivate
    <2>1. /\ UNCHANGED <<holder, pending, page, call, left, clean>>
          /\ col'.jti = col.jti /\ ~user'.active /\ user'.exists = user.exists
      BY <1>4 DEF Deactivate, RowInv, RowTyped, Columns
    <2>2. Coming' = Coming /\ \A h, t : Live(h, t)' <=> Live(h, t)
      BY <2>1 DEF Live, Coming
    <2>3. Alone' /\ CallsSound' /\ SignedInHolds' /\ LiveExists' /\ LeftLeaves'
      BY <2>1, <2>2 DEF Alone, CallsSound, SignedInHolds, LiveExists, LeftLeaves
    <2>4. \A h, t : Held(h, t)' <=> Held(h, t)
      BY <2>1 DEF Held
    <2>5. HolderHolds'
      BY <2>1, <2>2, <2>4 DEF HolderHolds
    <2> QED BY <2>3, <2>5
  <1>5. CASE Restart
    <2>1. ~clean' /\ pending' = {} /\ UNCHANGED <<user, col>>
      BY <1>5 DEF Restart
    <2>2. \A c \in Calls : call'[c] = call[c] \/ call'[c] = Idle
      BY <1>5 DEF Restart
    <2>3. CallsSound'
      BY <2>2 DEF CallsSound, Brings, Idle
    <2>4. LiveExists'
      BY <2>1 DEF LiveExists, Coming
    <2> QED BY <2>1, <2>3, <2>4 DEF Alone, HolderHolds, SignedInHolds, LeftLeaves
  <1>6. ASSUME NEW c \in Calls, Lose(c)
        PROVE  SessionInv'
    <2>1. ~clean' /\ UNCHANGED <<user, col, holder, pending>> /\ call' = [call EXCEPT ![c] = Idle]
      BY <1>6 DEF Lose, Failed, End, server
    <2>2. CallsSound'
      BY <2>1 DEF CallsSound, Brings, Idle, ClientTyped
    <2>3. LiveExists'
      BY <2>1, LiveSame DEF LiveExists
    <2> QED BY <2>1, <2>2, <2>3 DEF Alone, HolderHolds, SignedInHolds, LeftLeaves
  <1> QED BY <1>1, <1>2, <1>3, <1>4, <1>5, <1>6

LEMMA SessionStep ==
  ASSUME RowInv, ClientTyped, SessionInv, [Next]_vars
  PROVE  SessionInv'
  <1>1. CASE UNCHANGED vars
    <2>1. UNCHANGED <<user, col, holder, pending, page, call, left, clean>>
      BY <1>1 DEF vars, server
    <2>2. Coming' = Coming /\ \A h, t : Live(h, t)' <=> Live(h, t)
      BY <2>1, LiveSame
    <2>3. \A h, t : Held(h, t)' <=> Held(h, t)
      BY <2>1 DEF Held
    <2> QED BY <2>1, <2>2, <2>3
         DEF SessionInv, Alone, CallsSound, LiveExists, HolderHolds, SignedInHolds, LeftLeaves
  <1> QED BY <1>1, StartSession, HandleSession, ReceiveSession, OtherSession DEF Next

\* SessionInv: the page that holds the live refresh token is known, and the calls
\* that could still change or hand out a token are sound, in every reachable state.
THEOREM Sessions == Spec => []SessionInv
  <1>1. RowInv /\ ClientTyped /\ SessionInv /\ [Next]_vars => SessionInv'
    BY SessionStep
  <1> QED BY <1>1, InitSession, Written, PTL DEF Spec

\* InStep: while exchanges do not overlap and none is lost, the page that
\* signed in or refreshed last, if it is still signed in, holds the token the
\* server accepts (current_refresh_jti), so its next refresh works.
THEOREM StaysInStep == Spec => []InStep
  <1>1. RowInv /\ SessionInv => InStep
    <2> SUFFICES ASSUME RowInv, SessionInv, clean, Quiet, holder \in Pages, page[holder].view = "in"
                 PROVE  page[holder].refresh = col.jti
      BY DEF InStep
    <2>1. Coming = {} /\ \A c \in Calls : ~Brings(call[c])
      BY DEF Quiet, Coming, Brings
    <2>2. col.jti \in Tokens
      BY AccountsAssumption DEF RowInv, RowTyped, Made, Tokens, Columns
    <2>3. Held(holder, col.jti)
      BY <2>1, <2>2 DEF SessionInv, HolderHolds, Live
    <2> QED BY <2>1, <2>3 DEF Held
  <1> QED BY <1>1, Written, Sessions, PTL

\* LogoutRevokes: under the same condition a token a page gave up by logging
\* out is not accepted any more, once nothing is in progress.
THEOREM LogoutsRevoke == Spec => []LogoutRevokes
  <1>1. RowInv /\ SessionInv => LogoutRevokes
    <2> SUFFICES ASSUME RowInv, SessionInv, clean, Quiet, user.active, col.jti \in left
                 PROVE  FALSE
      BY DEF LogoutRevokes
    <2>1. Coming = {} /\ holder \in Owners /\ \A c \in Calls : call[c].at = "idle"
      BY DEF Quiet, Coming, RowInv, RowTyped
    <2>2. Live(holder, col.jti)
      BY <2>1 DEF Live
    <2> QED BY <2>1, <2>2 DEF SessionInv, LeftLeaves
  <1> QED BY <1>1, Written, Sessions, PTL
=============================================================================
