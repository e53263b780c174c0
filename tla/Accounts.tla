------------------------------- MODULE Accounts -------------------------------
(***************************************************************************)
(* One account and the pages it is used from: app/services/auth_service.py *)
(* with its routes, app/core/dependencies.py, and the token handling of    *)
(* frontend/src/api/client.ts and the pages that sign in.                  *)
(*                                                                         *)
(* A call is one request() of a page.  It makes up to three exchanges with *)
(* the server, its legs: the first, a refresh when that was answered 401,  *)
(* and the retry.  Handlers are coroutines; they read the row, answer, and *)
(* get_db commits after the answer has been sent, so a write waits in      *)
(* pending while others run.  A commit writes the columns that changed.    *)
(* Tokens are numbered in the order they are made; 0 is null.              *)
(***************************************************************************)
EXTENDS Naturals, FiniteSets, Sequences

CONSTANTS
    Pages,      \* open tabs of the account's owner
    Calls,      \* calls that can be in progress together
    Kinds,      \* what calls ask for
    Nowhere,    \* the page of a call whose page does not wait for it
    MaxStarts,  \* bound on calls
    MaxTokens,  \* bound on tokens; never reached when MaxTokens >= 3 * MaxStarts
    MaxExpiries,
    MaxFaults   \* bound on lost exchanges, navigations and restarts

Columns == {"jti", "verification", "reset"}
AllKinds == {"register", "login", "boot", "me", "enter", "api", "logout",
             "forgot", "resend", "verify", "choose"}

\* The candidates' practice app registers onUnauthorized, the others do not.
Apps == {"practice", "portal"}
SignedOut(app) == [access |-> "none", refresh |-> 0, view |-> "out", app |-> app]

ASSUME AccountsAssumption ==
    /\ Nowhere \notin Pages
    /\ Kinds \subseteq AllKinds
    /\ {MaxStarts, MaxTokens, MaxExpiries, MaxFaults} \subseteq Nat

VARIABLES
    user,     \* the users row: exists, active, verified
    col,      \* its token columns
    spent,    \* tokens each column held before
    pending,  \* answered writes that are not committed yet
    locked,   \* a flushed write holds the row until its commit
    page,     \* what each page holds
    call,     \* calls in progress
    mail,     \* links sent, oldest first
    issued,   \* tokens made so far
    holder,   \* the page the live refresh token was made for
    left,     \* refresh tokens pages gave up by logging out with a valid access token
    clean,    \* no exchanges overlapped and nothing was lost so far
    budget    \* what is left of the bounds

server == <<user, col, spent, locked, holder>>
vars == <<server, pending, page, call, mail, issued, left, clean, budget>>

Idle == [at |-> "idle", page |-> Nowhere, kind |-> "api", leg |-> "first",
         token |-> 0, access |-> "none", status |-> "ok"]

Init ==
    /\ user = [exists |-> FALSE, active |-> TRUE, verified |-> FALSE]
    /\ col = [c \in Columns |-> 0]
    /\ spent = [c \in Columns |-> {}]
    /\ pending = {}
    /\ locked = FALSE
    /\ \E apps \in [Pages -> Apps] :
         page = [p \in Pages |-> SignedOut(apps[p])]
    /\ call = [c \in Calls |-> Idle]
    /\ mail = [verification |-> <<>>, reset |-> <<>>]
    /\ issued = 0
    /\ holder = Nowhere
    /\ left = {}
    /\ clean = TRUE
    /\ budget = [starts |-> MaxStarts, expiries |-> MaxExpiries, faults |-> MaxFaults]

Busy(p) == {c \in Calls : call[c].at # "idle" /\ call[c].page = p}
Entering(p) ==
    \E c \in Busy(p) : call[c].kind \in {"register", "login", "boot", "me", "enter"}
Quiet == pending = {} /\ \A c \in Calls : call[c].at = "idle"

-----------------------------------------------------------------------------
(* Pages start calls.                                                      *)

Send(c, p, kind, token, access) ==
    /\ kind \in Kinds
    /\ call[c].at = "idle" /\ budget.starts > 0
    /\ budget' = [budget EXCEPT !.starts = @ - 1]
    /\ call' = [call EXCEPT ![c] = [Idle EXCEPT !.at = "sent", !.page = p,
                  !.kind = kind, !.token = token, !.access = access]]
    /\ clean' = (clean /\ \A d \in Calls : call[d].at = "idle")
    /\ UNCHANGED <<server, pending, mail, issued>>

\* The forms of Auth and RecruiterLogin are disabled while one of theirs runs.
\* The account made by registering the address of an erased one is not followed.
SignIn(c, p) ==
    /\ page[p].view = "out" /\ ~Entering(p)
    /\ \E kind \in {"login", "register"} :
         /\ kind = "register" => user.active
         /\ Send(c, p, kind, 0, page[p].access)
    /\ UNCHANGED <<page, left>>

\* The boot effect of the recruiter and privacy pages.
Boot(c, p) ==
    /\ page[p].app = "portal"
    /\ page[p].view = "out" /\ ~Entering(p) /\ page[p].refresh # 0
    /\ Send(c, p, "boot", page[p].refresh, page[p].access)
    /\ UNCHANGED <<page, left>>

\* Any other request of a signed-in page; timers send them side by side.
UseApi(c, p) ==
    /\ page[p].view = "in"
    /\ Send(c, p, "api", 0, page[p].access)
    /\ UNCHANGED <<page, left>>

\* handleLogout sends the request and clears the page without waiting.
Logout(c, p) ==
    /\ page[p].view = "in"
    /\ Send(c, p, "logout", 0, page[p].access)
    /\ left' = left \cup (IF page[p].access = "valid" THEN {page[p].refresh} ELSE {})
    /\ page' = [page EXCEPT ![p] = SignedOut(@.app)]

\* Asking for a mail, and opening a link of one.
AskMail(c) ==
    /\ \E kind \in {"forgot", "resend"} : Send(c, Nowhere, kind, 0, "none")
    /\ UNCHANGED <<page, left>>

OpenLink(c) ==
    /\ \/ \E i \in DOMAIN mail.verification :
            Send(c, Nowhere, "verify", mail.verification[i], "none")
       \/ \E i \in DOMAIN mail.reset :
            Send(c, Nowhere, "choose", mail.reset[i], "none")
    /\ UNCHANGED <<page, left>>

-----------------------------------------------------------------------------
(* The server: a handler reads the committed row and answers.              *)

\* The page of c is told status and, if it is "ok", the token of the answer.
Reply(c, status, token) ==
    call' = [call EXCEPT ![c] = [@ EXCEPT !.at = "replied", !.status = status,
                                          !.token = token]]

Refuse(c, status) ==
    /\ Reply(c, status, 0)
    /\ clean' = (clean /\ pending = {})
    /\ UNCHANGED <<server, pending, mail, issued>>

\* What a transaction will write: tokens of some columns, and flags set.
Write(tokens, flags, hold, p) ==
    [tokens |-> tokens, flags |-> flags, hold |-> hold, page |-> p]

\* The answer goes out; the write is committed some time later.
AnswerUnsaved(c, token, w) ==
    /\ Reply(c, "ok", token)
    /\ clean' = (clean /\ pending = {})
    /\ UNCHANGED <<server, pending>>
Answer(c, token, w) ==
    /\ Reply(c, "ok", token)
    /\ pending' = pending \cup {w}
    /\ clean' = (clean /\ pending = {})
    /\ UNCHANGED server

\* create_refresh_token, and current_refresh_jti set on the row.
IssueJti(c) ==
    /\ issued < MaxTokens
    /\ issued' = issued + 1
    /\ Answer(c, issued + 1, Write([jti |-> issued + 1], {}, FALSE, call[c].page))
    /\ UNCHANGED mail

Refreshing(c) == call[c].leg = "refresh" \/ call[c].kind = "boot"

Refresh(c) ==
    /\ call[c].at = "sent" /\ Refreshing(c)
    /\ IF ~user.exists THEN Refuse(c, "no")
       ELSE IF user.active /\ col.jti # 0 /\ col.jti = call[c].token
       THEN IssueJti(c)
       ELSE Refuse(c, "401")
    /\ UNCHANGED <<page, left, budget>>

Asks(c, kind) == call[c].at = "sent" /\ ~Refreshing(c) /\ call[c].kind = kind

\* By its e-mail address; erasing the account replaces it.
Found == user.exists /\ user.active

\* The password typed is right or wrong; the two failures answer alike.
Login(c) ==
    /\ Asks(c, "login")
    /\ \/ Refuse(c, "401")
       \/ Found /\ IssueJti(c)
    /\ UNCHANGED <<page, left, budget>>

\* get_current_user and the request behind it.
ServeApi(c) ==
    /\ Asks(c, "api") \/ Asks(c, "me") \/ Asks(c, "enter")
    /\ IF call[c].access # "valid" THEN Refuse(c, "401")
       ELSE IF ~user.exists THEN Refuse(c, "no")
       ELSE IF ~user.active THEN Refuse(c, "401")
       ELSE Refuse(c, "ok")
    /\ UNCHANGED <<page, left, budget>>

\* Setting a column to the value it was read with writes nothing.
ServeLogout(c) ==
    /\ Asks(c, "logout")
    /\ IF call[c].access # "valid" THEN Refuse(c, "401")
       ELSE IF ~user.exists THEN Refuse(c, "no")
       ELSE IF ~user.active THEN Refuse(c, "401")
       ELSE IF col.jti = 0 THEN Refuse(c, "ok")
       ELSE /\ Answer(c, 0, Write([jti |-> 0], {}, FALSE, Nowhere))
            /\ UNCHANGED <<mail, issued>>
    /\ UNCHANGED <<page, left, budget>>

\* register, forgot_password, verify_email and reset_password flush: they
\* send their statement, and hold the row, before they go on.
Flushing == {"register", "forgot", "verify", "choose"}

GoFlush(c) ==
    /\ call' = [call EXCEPT ![c].at = "flushing"]
    /\ UNCHANGED <<server, pending, mail, issued, clean>>

\* A link may also be found expired.
Look(c) ==
    /\ call[c].at = "sent" /\ ~Refreshing(c) /\ call[c].kind \in Flushing
    /\ CASE call[c].kind = "register" -> IF user.exists THEN Refuse(c, "no") ELSE GoFlush(c)
         [] call[c].kind = "forgot" -> IF Found THEN GoFlush(c) ELSE Refuse(c, "ok")
         [] call[c].kind = "verify" ->
              \/ col.verification = call[c].token /\ GoFlush(c)
              \/ Refuse(c, "no")
         [] call[c].kind = "choose" ->
              \/ col.reset = call[c].token /\ GoFlush(c)
              \/ Refuse(c, "no")
    /\ UNCHANGED <<page, left, budget>>

FlushAnswer(c, token, tokens, flags) ==
    /\ Reply(c, "ok", token)
    /\ pending' = pending \cup {Write(tokens, flags, TRUE, call[c].page)}
    /\ locked' = TRUE
    /\ clean' = (clean /\ pending = {})
    /\ UNCHANGED <<user, col, spent, holder>>

\* The INSERT of a second registration meets the unique e-mail column.
FlushRegister(c) ==
    /\ call[c].at = "flushing" /\ call[c].kind = "register"
    /\ ~locked
    /\ IF user.exists THEN Refuse(c, "no")
       ELSE /\ issued + 2 <= MaxTokens
            /\ issued' = issued + 2
            /\ mail' = [mail EXCEPT !.verification = Append(@, issued + 1)]
            /\ FlushAnswer(c, issued + 2,
                 [verification |-> issued + 1, jti |-> issued + 2], {"exists"})
    /\ UNCHANGED <<page, left, budget>>

\* The mail is sent while the row is held, so links are sent in the order in
\* which they are committed.
ForgotUnflushed(c) ==
    /\ call[c].at = "flushing" /\ call[c].kind = "forgot"
    /\ issued < MaxTokens
    /\ issued' = issued + 1
    /\ mail' = [mail EXCEPT !.reset = Append(@, issued + 1)]
    /\ Answer(c, 0, Write([reset |-> issued + 1], {}, FALSE, Nowhere))
    /\ UNCHANGED <<page, left, budget>>
FlushForgot(c) ==
    /\ call[c].at = "flushing" /\ call[c].kind = "forgot"
    /\ ~locked /\ issued < MaxTokens
    /\ issued' = issued + 1
    /\ mail' = [mail EXCEPT !.reset = Append(@, issued + 1)]
    /\ FlushAnswer(c, 0, [reset |-> issued + 1], {})
    /\ UNCHANGED <<page, left, budget>>

FlushLink(c) ==
    /\ call[c].at = "flushing" /\ call[c].kind \in {"verify", "choose"}
    /\ ~locked
    /\ IF call[c].kind = "verify"
       THEN FlushAnswer(c, 0, [verification |-> 0], {"verified"})
       ELSE FlushAnswer(c, 0, [reset |-> 0], {})
    /\ UNCHANGED <<page, left, budget, mail, issued>>

\* resend_verification does not flush.
Resend(c) ==
    /\ Asks(c, "resend")
    /\ IF ~Found \/ user.verified THEN Refuse(c, "ok")
       ELSE /\ issued < MaxTokens
            /\ issued' = issued + 1
            /\ mail' = [mail EXCEPT !.verification = Append(@, issued + 1)]
            /\ Answer(c, 0, Write([verification |-> issued + 1], {}, FALSE, Nowhere))
    /\ UNCHANGED <<page, left, budget>>

\* get_db after the answer.  An account that erase deactivated in between
\* keeps its row, so the write still applies.
CommitWholeRow(w) ==  \* columns that did not change, as an older request read them
    /\ w \in pending
    /\ locked => w.hold
    /\ pending' = pending \ {w}
    /\ locked' = FALSE
    /\ col' = [c \in Columns |-> IF c \in DOMAIN w.tokens THEN w.tokens[c]
                                 ELSE IF spent[c] = {} THEN col[c]
                                 ELSE CHOOSE t \in spent[c] : TRUE]
    /\ spent' = [c \in Columns |->
          IF col'[c] = col[c] THEN spent[c] ELSE spent[c] \cup ({col[c]} \ {0})]
    /\ user' = [user EXCEPT !.exists = @ \/ "exists" \in w.flags,
                            !.verified = @ \/ "verified" \in w.flags]
    /\ holder' = IF "jti" \in DOMAIN w.tokens THEN w.page ELSE holder
    /\ UNCHANGED <<page, call, mail, issued, left, clean, budget>>
Commit(w) ==
    /\ w \in pending
    /\ locked => w.hold
    /\ pending' = pending \ {w}
    /\ locked' = FALSE
    /\ col' = [c \in Columns |-> IF c \in DOMAIN w.tokens THEN w.tokens[c] ELSE col[c]]
    /\ spent' = [c \in Columns |->
          IF col'[c] = col[c] THEN spent[c] ELSE spent[c] \cup ({col[c]} \ {0})]
    /\ user' = [user EXCEPT !.exists = @ \/ "exists" \in w.flags,
                            !.verified = @ \/ "verified" \in w.flags]
    /\ holder' = IF "jti" \in DOMAIN w.tokens THEN w.page ELSE holder
    /\ UNCHANGED <<page, call, mail, issued, left, clean, budget>>

\* Erasing the candidate deactivates the account, replaces its address and
\* clears its links; the refresh token stays in its column.
Deactivate ==
    /\ Found
    /\ ~locked /\ \A c \in Calls : call[c].kind = "register" => call[c].at = "idle"
    /\ user' = [user EXCEPT !.active = FALSE]
    /\ col' = [col EXCEPT !.verification = 0, !.reset = 0]
    /\ spent' = [c \in Columns |->
          IF col'[c] = col[c] THEN spent[c] ELSE spent[c] \cup {col[c]}]
    /\ UNCHANGED <<pending, locked, page, call, mail, issued, holder,
                   left, clean, budget>>

-----------------------------------------------------------------------------
(* Answers reach the page.                                                 *)

End(c) == call' = [call EXCEPT ![c] = Idle]

\* onUnauthorized, on the pages that register it; others keep their tokens.
Expelled(p) ==
    IF page[p].app = "practice" THEN SignedOut("practice") ELSE page[p]

\* The caller's catch.  A boot that fails loads /recruiter, without tokens in memory.
Failed(c, p) ==
    /\ End(c)
    /\ page' = IF call[c].kind \in {"boot", "enter"}
               THEN [page EXCEPT ![p].access = "none", ![p].view = "out"] ELSE page

\* A retry that is answered 401 refreshes again.
UnauthorizedAgain(c, p) ==
    IF page[p].refresh # 0
    THEN /\ call' = [call EXCEPT ![c] = [@ EXCEPT !.at = "sent", !.leg = "refresh",
                                                  !.token = page[p].refresh]]
         /\ UNCHANGED page
    ELSE End(c) /\ page' = [page EXCEPT ![p] = Expelled(p)]
\* request(): a 401 on the first leg is followed by refreshAccessToken.
Unauthorized(c, p) ==
    IF call[c].leg = "first" /\ page[p].refresh # 0
    THEN /\ call' = [call EXCEPT ![c] = [@ EXCEPT !.at = "sent", !.leg = "refresh",
                                                  !.token = page[p].refresh]]
         /\ UNCHANGED page
    ELSE IF call[c].leg = "first"
    THEN End(c) /\ page' = [page EXCEPT ![p] = Expelled(p)]
    ELSE Failed(c, p)
\* refreshAccessToken: both tokens are stored and the request is sent again,
\* with the body it had.
RefreshedHalf(c, p) ==
    /\ page' = [page EXCEPT ![p].access = "valid"]
    /\ call' = [call EXCEPT ![c] = [@ EXCEPT !.at = "sent", !.leg = "retry",
                                             !.token = 0, !.access = "valid"]]
Refreshed(c, p) ==
    /\ page' = [page EXCEPT ![p].access = "valid", ![p].refresh = call[c].token]
    /\ call' = [call EXCEPT ![c] = [@ EXCEPT !.at = "sent", !.leg = "retry",
                                             !.token = 0, !.access = "valid"]]

\* Signing in and booting store the tokens and ask who the user is.
Welcome(c, p) ==
    /\ page' = [page EXCEPT ![p].access = "valid", ![p].refresh = call[c].token]
    /\ call' = [call EXCEPT ![c] = [Idle EXCEPT !.at = "sent", !.page = p,
                   !.kind = IF call[c].kind = "boot" THEN "enter" ELSE "me", !.access = "valid"]]

Served(c, p) ==
    CASE call[c].kind \in {"login", "boot"} -> Welcome(c, p)
      [] call[c].kind = "register" ->
           /\ page' = [page EXCEPT ![p] = [@ EXCEPT !.access = "valid",
                            !.refresh = call[c].token, !.view = "in"]]
           /\ End(c)
      [] call[c].kind \in {"me", "enter"} -> page' = [page EXCEPT ![p].view = "in"] /\ End(c)
      [] OTHER -> End(c) /\ UNCHANGED page

Receive(c) ==
    /\ call[c].at = "replied"
    /\ LET p == call[c].page IN
         IF p = Nowhere THEN End(c) /\ UNCHANGED page
         ELSE IF call[c].leg = "refresh"
         THEN IF call[c].status = "ok" THEN Refreshed(c, p)
              ELSE End(c) /\ page' = [page EXCEPT ![p] = Expelled(p)]
         ELSE CASE call[c].status = "ok" -> Served(c, p)
                [] call[c].status = "401" -> Unauthorized(c, p)
                [] call[c].status = "no" -> Failed(c, p)
    /\ UNCHANGED <<server, pending, mail, issued, left, clean, budget>>

\* The request or its answer is lost and fetch throws; a request that is
\* already being handled goes on without it.
Lose(c) ==
    /\ call[c].at \in {"sent", "replied"}
    /\ budget.faults > 0
    /\ budget' = [budget EXCEPT !.faults = @ - 1]
    /\ clean' = FALSE
    /\ LET p == call[c].page IN
         IF p = Nowhere THEN End(c) /\ UNCHANGED page
         ELSE IF call[c].leg = "refresh"
         THEN End(c) /\ page' = [page EXCEPT ![p] = Expelled(p)]
         ELSE Failed(c, p)
    /\ UNCHANGED <<server, pending, mail, issued, left>>

\* The tab loads a page again: sessionStorage keeps the refresh token, memory
\* is lost, and nobody waits for its calls.
Load(p, app) ==
    /\ budget.faults > 0
    /\ budget' = [budget EXCEPT !.faults = @ - 1]
    /\ page' = [page EXCEPT ![p] = [@ EXCEPT !.access = "none", !.view = "out", !.app = app]]
    /\ call' = [c \in Calls |-> IF call[c].page = p
                                THEN [call[c] EXCEPT !.page = Nowhere] ELSE call[c]]
    /\ clean' = (clean /\ Busy(p) = {})
    /\ UNCHANGED <<server, pending, mail, issued, left>>

\* The access token reaches its hour.
Expire(p) ==
    /\ page[p].access = "valid" /\ budget.expiries > 0
    /\ budget' = [budget EXCEPT !.expiries = @ - 1]
    /\ page' = [page EXCEPT ![p].access = "expired"]
    /\ UNCHANGED <<server, pending, call, mail, issued, left, clean>>

\* The process restarts: what is not committed is rolled back, and the
\* handlers in progress are gone with their connections.
Restart ==
    /\ budget.faults > 0
    /\ budget' = [budget EXCEPT !.faults = @ - 1]
    /\ pending' = {}
    /\ locked' = FALSE
    /\ call' = [c \in Calls |-> IF call[c].at \in {"sent", "flushing"}
                                THEN Idle ELSE call[c]]
    /\ page' = [p \in Pages |-> IF \E c \in Busy(p) : call[c].at = "sent"
                                                     /\ call[c].leg = "refresh"
                                THEN Expelled(p)
                                ELSE IF \E c \in Busy(p) : call[c].at = "sent"
                                                          /\ call[c].kind \in {"boot", "enter"}
                                THEN [page[p] EXCEPT !.access = "none", !.view = "out"]
                                ELSE page[p]]
    /\ clean' = FALSE
    /\ UNCHANGED <<user, col, spent, holder, mail, issued, left>>

-----------------------------------------------------------------------------
Handle(c) ==
    \/ Refresh(c) \/ Login(c) \/ ServeApi(c) \/ ServeLogout(c) \/ Look(c)
    \/ FlushRegister(c) \/ FlushForgot(c) \/ FlushLink(c) \/ Resend(c)

Next ==
    \/ \E c \in Calls :
         \/ \E p \in Pages : SignIn(c, p) \/ Boot(c, p) \/ UseApi(c, p) \/ Logout(c, p)
         \/ AskMail(c) \/ OpenLink(c)
         \/ Handle(c) \/ Receive(c) \/ Lose(c)
    \/ \E w \in pending : Commit(w)
    \/ \E p \in Pages : Expire(p) \/ \E app \in Apps : Load(p, app)
    \/ Deactivate
    \/ Restart

Spec == Init /\ [][Next]_vars

\* Handlers run on the event loop, get_db commits what they did, and an
\* exchange ends: with its answer, or because the connection is lost.
FairSpec ==
    /\ Spec
    /\ \A c \in Calls : WF_vars(Handle(c)) /\ WF_vars(Receive(c))
    /\ WF_vars(\E w \in pending : Commit(w))

-----------------------------------------------------------------------------
Tokens == 0..MaxTokens

\* Types; a token that is waiting to be written was never in its column.
TypeOK ==
    /\ user \in [exists : BOOLEAN, active : BOOLEAN, verified : BOOLEAN]
    /\ col \in [Columns -> Tokens]
    /\ spent \in [Columns -> SUBSET (Tokens \ {0})]
    /\ locked \in BOOLEAN
    /\ page \in [Pages -> [access : {"none", "valid", "expired"}, refresh : Tokens,
                           view : {"in", "out"}, app : Apps]]
    /\ issued \in Tokens
    /\ holder \in Pages \cup {Nowhere}
    /\ \A w \in pending : \A k \in DOMAIN w.tokens :
         w.tokens[k] # 0 => w.tokens[k] \notin spent[k] \cup {col[k]}

\* Each token column is a register of one-time tokens: whatever overlaps, is
\* lost or crashes, a refresh token that was rotated or revoked, or a link
\* that was used or replaced, is never live again.
Registers == INSTANCE TokenRegisters WITH None <- 0, live <- col
OneTimeTokens == Registers!Spec

\* forgot_password flushes before it mails, so of two requests for a reset
\* link the one mailed later is the one that stays: an older link never
\* displaces a newer one.
LatestLinkWins ==
    [][col'.reset \notin {0, col.reset} =>
          \A t \in spent.reset \cup {col.reset} : t < col'.reset]_vars

\* As long as exchanges do not overlap and none is lost, the page that signed
\* in or refreshed last, if it is still signed in, holds the live refresh token.
InStep ==
    clean /\ Quiet /\ holder \in Pages /\ user.exists =>
        (page[holder].view = "in" => page[holder].refresh = col.jti)

\* Under the same condition, logging out while the access token is valid
\* leaves no use of the page's refresh token (AuthService.logout).
LogoutRevokes == clean /\ Quiet /\ user.active => col.jti \notin left

\* Every call ends: the retry after a refresh is the last one, and a handler
\* that waits for the row gets it.
EverySettled == \A c \in Calls : call[c].at # "idle" ~> call[c].at = "idle"

\* README "a stale or leaked token stops working the moment a newer one is
\* issued": a refresh is not accepted while a newer token is on its way.
StaleStopsWorking ==
    [][\A c \in Calls : Refresh(c) /\ call'[c].status = "ok" =>
          \A w \in pending : "jti" \in DOMAIN w.tokens => w.tokens.jti = 0]_vars
=============================================================================
