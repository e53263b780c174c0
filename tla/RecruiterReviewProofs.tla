------------------------ MODULE RecruiterReviewProofs ------------------------
(* What holds of RecruiterReview for any number of sessions, submissions and *)
(* review requests, with every loss and reordering of the page's messages.   *)
EXTENDS RecruiterReview, TLAPS

PageFields == {"filters", "listId", "statsId", "list", "listFor", "loading", "stats", "statsFor",
               "counting", "selected", "detail", "draft", "opening", "updating"}

-----------------------------------------------------------------------------
(* The invariants.  *)

\* Every note that is stored, on its way or on the page is the server's or that
\* of the session it is with.
Own(s) == {None, System, s}

KeptFor(s, r) ==
    /\ DOMAIN r = {"required", "status", "reviewed", "note"}
    /\ r.note \in Own(s)

Stored ==
    /\ DOMAIN review = Sessions
    /\ \A s \in Sessions : KeptFor(s, review[s])

Patched(m) == m.session \in Sessions /\ m.note \in Own(m.session) /\ m.status \in Dispositions
Loaded(detail) == detail.session \in Sessions /\ detail.note \in Own(detail.session)

OnTheWay(m) ==
    /\ m.type = "patch" => Patched(m)
    /\ m.type = "get" => m.session \in Sessions
    /\ m.type \in {"got", "patched"} => Loaded(m.detail)

Draft ==
    page.detail # NoDetail =>
        page.detail.session \in Sessions /\ page.draft \in Own(page.detail.session)

NotesInv ==
    /\ Stored
    /\ \A m \in net : OnTheWay(m)
    /\ \A m \in writes : Patched(m)
    /\ DOMAIN page = PageFields
    /\ Draft

\* The requests and answers that may still change the list: those with the last
\* number are of the filters last applied.
Numbered(m) ==
    m.type \in {"list", "listed"} =>
        /\ m.id \in Nat /\ m.id <= page.listId
        /\ m.id = page.listId => m.filter = page.filters

FiltersInv ==
    /\ DOMAIN page = PageFields
    /\ page.listId \in Nat
    /\ \A m \in net : Numbered(m)
    /\ LatestFiltersWin

\* A concern is in the review state, and the marks that stand for a session
\* without one outlast what the candidate's side reports.
Concern(s) == raised[s] => review[s].required = TRUE /\ review[s].status \in Attention

ConcernInv == DOMAIN raised = Sessions /\ \A s \in Sessions : Concern(s)

Marks(s) ==
    /\ DOMAIN summary[s] = {"level", "low"}
    /\ DOMAIN cached[s] = {"level", "low"}
    /\ summary[s].level = Serious \/ cached[s].level = Serious => manager[s] = Serious
    /\ summary[s].low => review[s] # NoReview
    /\ ~cached[s].low

MarksInv ==
    /\ DOMAIN summary = Sessions /\ DOMAIN cached = Sessions
    /\ DOMAIN manager = Sessions /\ DOMAIN flag = Sessions
    /\ \A s \in Sessions : Marks(s)

-----------------------------------------------------------------------------
(* What the writers of a review state leave in it. *)

LEMMA Upserted ==
    ASSUME Stored, NEW s \in Sessions, NEW st, NEW note \in Own(s), NEW at
    PROVE  /\ KeptFor(s, Upsert(s, st, note, at))
           /\ st \in Attention => Upsert(s, st, note, at).required = TRUE
           /\ st \notin Attention => Upsert(s, st, note, at).required = FALSE
           /\ Upsert(s, st, note, at).status = st
<1>1. review[s].note \in Own(s)
    BY DEF Stored, KeptFor
<1>2. Upsert(s, st, note, at).note \in Own(s)
    BY <1>1 DEF Upsert
<1>3. /\ DOMAIN Upsert(s, st, note, at) = {"required", "status", "reviewed", "note"}
      /\ Upsert(s, st, note, at).required = (st \in Attention)
      /\ Upsert(s, st, note, at).status = st
    BY DEF Upsert
<1>4. KeptFor(s, Upsert(s, st, note, at))
    BY <1>2, <1>3 DEF KeptFor
<1>5. /\ st \in Attention => Upsert(s, st, note, at).required = TRUE
      /\ st \notin Attention => Upsert(s, st, note, at).required = FALSE
  <2>1. CASE st \in Attention
    <3>1. (st \in Attention) = TRUE
        BY <2>1
    <3>2. QED
        BY <1>3, <2>1, <3>1
  <2>2. CASE st \notin Attention
    <3>1. (st \in Attention) = FALSE
        BY <2>2
    <3>2. QED
        BY <1>3, <2>2, <3>1
  <2>3. QED
      BY <2>1, <2>2
<1>6. QED
    BY <1>3, <1>4, <1>5

LEMMA Reopened ==
    ASSUME Stored, NEW s \in Sessions, NEW note \in Own(s)
    PROVE  /\ KeptFor(s, Reopen(s, note))
           /\ Reopen(s, note).required = TRUE
           /\ Reopen(s, note).status = "needs_review"
<1>1. DOMAIN review[s] = {"required", "status", "reviewed", "note"} /\ review[s].note \in Own(s)
    BY DEF Stored, KeptFor
<1> DEFINE r == Reopen(s, note)
<1>2. /\ DOMAIN r = {"required", "status", "reviewed", "note"}
      /\ r.required = TRUE /\ r.status = "needs_review"
      /\ r.note = IF note = None THEN review[s].note ELSE note
    BY <1>1 DEF Reopen
<1>3. QED
    BY <1>1, <1>2 DEF KeptFor

\* What a step of the candidate's side may make of a review state.
Reports(s) == {review[s], Reopen(s, System), Reopen(s, None), Upsert(s, "needs_review", System, FALSE)}

LEMMA ReportsKept ==
    ASSUME Stored, NEW s \in Sessions, NEW r \in Reports(s)
    PROVE  KeptFor(s, r) /\ (r = review[s] \/ (r.required = TRUE /\ r.status = "needs_review"))
<1>1. {None, System} \subseteq Own(s)
    BY DEF Own
<1>2. CASE r = review[s]
    BY <1>2 DEF Stored
<1>3. CASE r = Reopen(s, System) \/ r = Reopen(s, None)
    BY <1>1, <1>3, Reopened
<1>4. CASE r = Upsert(s, "needs_review", System, FALSE)
  <2>1. "needs_review" \in Attention
      BY DEF Attention
  <2>2. QED
      BY <1>1, <1>4, <2>1, Upserted, ZenonT(60)
<1>5. QED
    BY <1>2, <1>3, <1>4 DEF Reports

LEMMA CandidateReports ==
    ASSUME Stored, Candidate \/ Ending
    PROVE  /\ UNCHANGED desk
           /\ DOMAIN review' = Sessions
           /\ \A s \in Sessions : review'[s] \in Reports(s)
<1>1. ASSUME NEW s \in Sessions, NEW new \in Reports(s), review' = [review EXCEPT ![s] = new]
      PROVE  DOMAIN review' = Sessions /\ \A t \in Sessions : review'[t] \in Reports(t)
  <2>1. DOMAIN review' = Sessions
      BY <1>1 DEF Stored
  <2>2. ASSUME NEW t \in Sessions PROVE review'[t] \in Reports(t)
    <3>1. CASE t = s
        BY <1>1, <3>1 DEF Stored
    <3>2. CASE t # s
        BY <1>1, <3>2 DEF Stored, Reports
    <3>3. QED
        BY <3>1, <3>2
  <2>3. QED
      BY <2>1, <2>2
<1>2. ASSUME UNCHANGED review
      PROVE  DOMAIN review' = Sessions /\ \A t \in Sessions : review'[t] \in Reports(t)
    BY <1>2 DEF Stored, Reports
<1>3. ASSUME NEW s \in Live PROVE s \in Sessions
    BY ReviewAssumption
<1>4. ASSUME NEW s \in Live, NEW sent \in Submissions, VerifyIdentity(s, sent)
      PROVE  UNCHANGED desk /\ DOMAIN review' = Sessions /\ \A t \in Sessions : review'[t] \in Reports(t)
  <2>1. review' = [review EXCEPT ![s] = Reopen(s, System)] \/ UNCHANGED review
      BY <1>4, Zenon DEF VerifyIdentity
  <2>2. UNCHANGED desk
      BY <1>4 DEF VerifyIdentity
  <2>3. Reopen(s, System) \in Reports(s)
      BY DEF Reports
  <2>4. QED
      BY <1>1, <1>2, <1>3, <2>1, <2>2, <2>3
<1>5. ASSUME NEW s \in Live, NEW suspicious \in BOOLEAN, NEW level \in Levels, Preflight(s, suspicious, level)
      PROVE  UNCHANGED desk /\ DOMAIN review' = Sessions /\ \A t \in Sessions : review'[t] \in Reports(t)
  <2>1. review' = [review EXCEPT ![s] = Upsert(s, "needs_review", System, FALSE)] \/ UNCHANGED review
      BY <1>5, Zenon DEF Preflight
  <2>2. UNCHANGED desk
      BY <1>5 DEF Preflight
  <2>3. Upsert(s, "needs_review", System, FALSE) \in Reports(s)
      BY DEF Reports
  <2>4. QED
      BY <1>1, <1>2, <1>3, <2>1, <2>2, <2>3
<1>6. ASSUME NEW s \in Live,
             \/ \E level \in Levels : Observe(s, level)
             \/ \E last \in BOOLEAN : Answer(s, last)
             \/ EndSave(s)
      PROVE  UNCHANGED <<desk, review>>
    BY <1>6 DEF Observe, Answer, EndSave
<1>7. ASSUME NEW s \in Sessions, EndFlag(s)
      PROVE  UNCHANGED desk /\ DOMAIN review' = Sessions /\ \A t \in Sessions : review'[t] \in Reports(t)
  <2>1. review' = [review EXCEPT ![s] = Reopen(s, None)] /\ UNCHANGED desk
      BY <1>7 DEF EndFlag
  <2>2. Reopen(s, None) \in Reports(s)
      BY DEF Reports
  <2>3. QED
      BY <1>1, <2>1, <2>2
<1>8. CASE Candidate
    BY <1>2, <1>4, <1>5, <1>6, <1>8 DEF Candidate
<1>9. CASE Ending
    BY <1>7, <1>9 DEF Ending
<1>10. QED
    BY <1>8, <1>9

-----------------------------------------------------------------------------
(* Notes stay with their sessions. *)

LEMMA NotesInit == Init => NotesInv
<1> SUFFICES ASSUME Init PROVE NotesInv
    OBVIOUS
<1>1. \A s \in Sessions : KeptFor(s, NoReview)
    BY DEF KeptFor, NoReview, Own
<1>2. Stored
    BY <1>1 DEF Init, Stored
<1>3. \A m \in net : OnTheWay(m)
  <2>1. \A m \in net : m.type \in {"list", "stats"}
      BY DEF Init, ListRequest, StatsRequest
  <2>2. QED
      BY <2>1 DEF OnTheWay
<1>4. DOMAIN page = PageFields /\ page.detail = NoDetail
    BY DEF Init, PageFields
<1>5. writes = {}
    BY DEF Init
<1>6. QED
    BY <1>2, <1>3, <1>4, <1>5 DEF NotesInv, Draft

LEMMA NotesCandidate == ASSUME NotesInv, Candidate \/ Ending PROVE NotesInv'
<1>1. /\ UNCHANGED desk
      /\ DOMAIN review' = Sessions
      /\ \A s \in Sessions : review'[s] \in Reports(s)
    BY CandidateReports DEF NotesInv
<1>2. \A s \in Sessions : KeptFor(s, review'[s])
    BY <1>1, ReportsKept DEF NotesInv
<1>3. Stored'
    BY <1>1, <1>2 DEF Stored
<1>4. QED
    BY <1>1, <1>3 DEF NotesInv, desk, Draft

\* The detail that the server answers with.
LEMMA DetailLoaded == ASSUME Stored, NEW s \in Sessions PROVE Loaded(Detail(s))
BY DEF Stored, KeptFor, Detail, Loaded

LEMMA NotesServe == ASSUME NotesInv, Serve PROVE NotesInv'
<1>1. ASSUME NEW m \in Requests, ServeList(m) PROVE NotesInv'
  <2> DEFINE r == [type |-> "listed", id |-> m.id, filter |-> m.filter, rows |-> Listing(m.filter)]
  <2>1. net' = (net \ {m}) \union {r}
      BY <1>1, Zenon DEF ServeList, Answered
  <2>2. OnTheWay(r)
    <3>1. r.type = "listed"
        OBVIOUS
    <3> HIDE DEF r
    <3>2. QED
        BY <3>1 DEF OnTheWay
  <2> HIDE DEF r
  <2>3. \A n \in net' : OnTheWay(n)
      BY <2>1, <2>2 DEF NotesInv
  <2>4. QED
      BY <1>1, <2>3 DEF ServeList, server, NotesInv, Stored, Draft
<1>2. ASSUME NEW m \in Requests, ServeDetail(m) PROVE NotesInv'
  <2>1. m.session \in Sessions
      BY <1>2 DEF ServeDetail, Requests, NotesInv, OnTheWay
  <2> DEFINE got == [type |-> "got", detail |-> Detail(m.session)]
             lost == [type |-> "not_found", session |-> m.session]
  <2>2. net' = (net \ {m}) \union {got} \/ net' = (net \ {m}) \union {lost}
      BY <1>2, Zenon DEF ServeDetail, Answered
  <2>3. OnTheWay(got) /\ OnTheWay(lost)
    <3>1. got.type = "got" /\ got.detail = Detail(m.session) /\ lost.type = "not_found"
        OBVIOUS
    <3>2. Loaded(got.detail)
        BY <2>1, <3>1, DetailLoaded DEF NotesInv
    <3> HIDE DEF got, lost
    <3>3. QED
        BY <3>1, <3>2 DEF OnTheWay
  <2> HIDE DEF got, lost
  <2>4. \A n \in net' : OnTheWay(n)
      BY <2>2, <2>3 DEF NotesInv
  <2>5. QED
      BY <1>2, <2>4 DEF ServeDetail, server, NotesInv, Stored, Draft
<1>3. ASSUME NEW m \in Requests, CommitReview(m) PROVE NotesInv'
  <2>1. Patched(m)
      BY <1>3 DEF CommitReview, Requests, NotesInv, OnTheWay
  <2>2. \A n \in writes' : Patched(n)
      BY <1>3, <2>1 DEF CommitReview, NotesInv
  <2>3. \A n \in net' : OnTheWay(n)
      BY <1>3 DEF CommitReview, NotesInv
  <2>4. QED
      BY <1>3, <2>2, <2>3 DEF CommitReview, NotesInv, Stored, Draft
<1>4. ASSUME NEW m \in writes, StoreReview(m) PROVE NotesInv'
  <2>1. m.session \in Sessions /\ m.note \in Own(m.session)
      BY DEF NotesInv, Patched
  <2>2. /\ DOMAIN review' = Sessions
        /\ review'[m.session] = Upsert(m.session, m.status, m.note, m.at)
        /\ \A s \in Sessions \ {m.session} : review'[s] = review[s]
      BY <1>4, <2>1 DEF StoreReview, NotesInv, Stored
  <2>3. Stored'
    <3>0. Stored
        BY DEF NotesInv
    <3>1. KeptFor(m.session, Upsert(m.session, m.status, m.note, m.at))
        BY <2>1, <3>0, Upserted
    <3>2. ASSUME NEW s \in Sessions PROVE KeptFor(s, review'[s])
        BY <2>2, <3>0, <3>1 DEF Stored
    <3>3. QED
        BY <2>2, <3>2 DEF Stored
  <2>4. \A n \in writes' : Patched(n)
      BY <1>4 DEF StoreReview, NotesInv
  <2>5. \A n \in net' : OnTheWay(n)
    <3>1. CASE net' = net
        BY <3>1 DEF NotesInv
    <3>2. CASE net' = net \union {[type |-> "patched", detail |-> Detail(m.session)']}
      <4>1. Loaded(Detail(m.session)')
        <5>1. Detail(m.session)'.session = m.session /\ Detail(m.session)'.note = review'[m.session].note
            BY DEF Detail
        <5>2. review'[m.session].note \in Own(m.session)
            BY <2>1, <2>3 DEF Stored, KeptFor
        <5>3. QED
            BY <2>1, <5>1, <5>2 DEF Loaded
      <4> DEFINE r == [type |-> "patched", detail |-> Detail(m.session)']
      <4>2. r.type = "patched" /\ r.detail = Detail(m.session)'
          OBVIOUS
      <4> HIDE DEF r
      <4>3. OnTheWay(r)
          BY <4>1, <4>2 DEF OnTheWay
      <4>4. QED
          BY <3>2, <4>3 DEF NotesInv, r
    <3>3. QED
        BY <1>4, <3>1, <3>2 DEF StoreReview
  <2>6. DOMAIN page' = PageFields /\ Draft'
      BY <1>4 DEF StoreReview, NotesInv, Draft
  <2>7. QED
      BY <2>3, <2>4, <2>5, <2>6 DEF NotesInv
<1>5. QED
    BY <1>1, <1>2, <1>3, <1>4 DEF Serve

\* A step of the page that keeps the detail and its draft, or takes both over
\* from an answer.
LEMMA NotesPage ==
    ASSUME NotesInv, UNCHANGED <<review, writes>>, \A n \in net' : n \in net \/ OnTheWay(n),
           DOMAIN page' = PageFields,
           \/ page'.detail = page.detail /\ page'.draft = page.draft
           \/ page'.detail = NoDetail
           \/ Loaded(page'.detail) /\ page'.draft = page'.detail.note
           \/ page'.detail = page.detail /\ page'.draft = page.detail.session
    PROVE  NotesInv'
<1>1. Stored' /\ (\A n \in net' : OnTheWay(n)) /\ \A m \in writes' : Patched(m)
    BY DEF NotesInv, Stored
<1>2. Draft'
  <2>1. CASE page'.detail = page.detail /\ page'.draft = page.draft
      BY <2>1 DEF NotesInv, Draft
  <2>2. CASE page'.detail = NoDetail
      BY <2>2 DEF Draft
  <2>3. CASE Loaded(page'.detail) /\ page'.draft = page'.detail.note
      BY <2>3 DEF Draft, Loaded
  <2>4. CASE page'.detail = page.detail /\ page'.draft = page.detail.session
      BY <2>4 DEF NotesInv, Draft, Own
  <2>5. QED
      BY <2>1, <2>2, <2>3, <2>4
<1>3. QED
    BY <1>1, <1>2 DEF NotesInv

LEMMA ListsOnTheWay == \A id, f : OnTheWay(ListRequest(id, f)) /\ OnTheWay(StatsRequest(id, f))
<1>1. \A id, f : ListRequest(id, f).type = "list" /\ StatsRequest(id, f).type = "stats"
    BY DEF ListRequest, StatsRequest
<1>2. QED
    BY <1>1 DEF OnTheWay

\* A review request of a session with a note of its own.
LEMMA PatchOnTheWay ==
    ASSUME NEW s \in Sessions, NEW st \in Dispositions, NEW note \in Own(s), NEW at, NEW from,
           Patch(s, st, note, at, from)
    PROVE  \A n \in net' : n \in net \/ OnTheWay(n)
<1> DEFINE r == [type |-> "patch", id |-> ops, session |-> s, status |-> st,
                 note |-> note, at |-> at, from |-> from]
<1>1. net' = net \union {r}
    BY DEF Patch
<1>2. r.type = "patch" /\ r.session = s /\ r.note = note /\ r.status = st
    OBVIOUS
<1> HIDE DEF r
<1>3. OnTheWay(r)
    BY <1>2 DEF OnTheWay, Patched
<1>4. QED
    BY <1>1, <1>3

LEMMA NotesUser == ASSUME NotesInv, User PROVE NotesInv'
<1>0. DOMAIN page = PageFields
    BY DEF NotesInv
<1>1. ASSUME NEW f, Refresh(f) PROVE NotesInv'
  <2>1. UNCHANGED <<review, writes>> /\ \A n \in net' : n \in net \/ OnTheWay(n)
      BY <1>1, ListsOnTheWay DEF Refresh, server
  <2>2. DOMAIN page' = PageFields /\ page'.detail = page.detail /\ page'.draft = page.draft
      BY <1>0, <1>1 DEF Refresh, PageFields
  <2>3. QED
      BY <2>1, <2>2, NotesPage
<1>2. ASSUME NEW f, RecountAfterDelete(f) PROVE NotesInv'
  <2>1. UNCHANGED <<review, writes>> /\ \A n \in net' : n \in net \/ OnTheWay(n)
      BY <1>2, ListsOnTheWay DEF RecountAfterDelete, server
  <2>2. DOMAIN page' = PageFields /\ page'.detail = page.detail /\ page'.draft = page.draft
      BY <1>0, <1>2 DEF RecountAfterDelete, PageFields
  <2>3. QED
      BY <2>1, <2>2, NotesPage
<1>3. ASSUME NEW s \in Sessions, Select(s) PROVE NotesInv'
  <2> DEFINE r == [type |-> "get", session |-> s]
  <2>1. r.type = "get" /\ r.session = s
      OBVIOUS
  <2>2. net' = (net \ Detailed) \union {r}
      BY <1>3 DEF Select
  <2> HIDE DEF r
  <2>3. OnTheWay(r)
      BY <2>1 DEF OnTheWay
  <2>4. UNCHANGED <<review, writes>> /\ \A n \in net' : n \in net \/ OnTheWay(n)
      BY <1>3, <2>2, <2>3 DEF Select, server
  <2>5. DOMAIN page' = PageFields /\ page'.detail = page.detail /\ page'.draft = page.draft
      BY <1>0, <1>3 DEF Select, PageFields
  <2>6. QED
      BY <2>4, <2>5, NotesPage
<1>4. CASE TypeNote
  <2>1. UNCHANGED <<review, writes, net>>
      BY <1>4 DEF TypeNote, server
  <2>2. /\ DOMAIN page' = PageFields /\ page'.detail = page.detail
        /\ page'.draft = page.detail.session
      BY <1>0, <1>4 DEF TypeNote, PageFields
  <2>3. QED
      BY <2>1, <2>2, NotesPage
<1>5. ASSUME ToggleHumanReview \/ \E st \in Offered : UpdateReviewState(st) PROVE NotesInv'
  <2>1. page.detail.session \in Sessions /\ page.draft \in Own(page.detail.session)
        /\ None \in Own(page.detail.session)
      BY <1>5 DEF ToggleHumanReview, UpdateReviewState, DetailOnScreen, NotesInv, Draft, Own
  <2>2. ASSUME ToggleHumanReview PROVE \A n \in net' : n \in net \/ OnTheWay(n)
    <3>1. PICK st \in Dispositions : Patch(page.detail.session, st, None, FALSE, "page")
        BY <2>2 DEF ToggleHumanReview, Dispositions, Attention
    <3>2. QED
        BY <2>1, <3>1, PatchOnTheWay
  <2>3. ASSUME NEW st \in Offered, UpdateReviewState(st)
        PROVE  \A n \in net' : n \in net \/ OnTheWay(n)
    <3>1. Patch(page.detail.session, st, page.draft, TRUE, "page")
        BY <2>3 DEF UpdateReviewState
    <3>2. st \in Dispositions
        BY ReviewAssumption
    <3>3. QED
        BY <2>1, <3>1, <3>2, PatchOnTheWay
  <2>4. UNCHANGED <<review, writes>>
      BY <1>5 DEF ToggleHumanReview, UpdateReviewState, server
  <2>5. DOMAIN page' = PageFields /\ page'.detail = page.detail /\ page'.draft = page.draft
      BY <1>0, <1>5 DEF ToggleHumanReview, UpdateReviewState, PageFields
  <2>6. \A n \in net' : n \in net \/ OnTheWay(n)
    <3>1. CASE ToggleHumanReview
        BY <3>1, <2>2
    <3>2. CASE \E st \in Offered : UpdateReviewState(st)
        BY <3>2, <2>3
    <3>3. QED
        BY <1>5, <3>1, <3>2
  <2>7. QED
      BY <2>4, <2>5, <2>6, NotesPage
<1>6. ASSUME NEW s \in Sessions, NEW st \in Offered, OtherTab(s, st) PROVE NotesInv'
  <2>1. None \in Own(s) /\ st \in Dispositions
      BY ReviewAssumption DEF Own
  <2>2. \A n \in net' : n \in net \/ OnTheWay(n)
      BY <1>6, <2>1, PatchOnTheWay DEF OtherTab
  <2>3. UNCHANGED <<review, writes, page>>
      BY <1>6 DEF OtherTab, server
  <2>4. QED
      BY <1>0, <2>2, <2>3, NotesPage
<1>7. QED
    BY <1>1, <1>2, <1>3, <1>4, <1>5, <1>6 DEF User, ApplyFilters, ClearFilters

LEMMA NotesFailed == ASSUME NotesInv, NEW m \in net, Failed(m) PROVE NotesInv'
<1>0. DOMAIN page = PageFields
    BY DEF NotesInv
<1>1. UNCHANGED <<review, writes>> /\ \A n \in net' : n \in net
    BY DEF Failed, Received, server
<1>2. /\ DOMAIN page' = PageFields
      /\ \/ page'.detail = page.detail /\ page'.draft = page.draft
         \/ page'.detail = NoDetail
  <2>1. \/ page' = [page EXCEPT !.listFor = None, !.loading = FALSE]
        \/ page' = [page EXCEPT !.stats = NoStats, !.statsFor = None, !.counting = FALSE]
        \/ page' = [page EXCEPT !.detail = NoDetail, !.draft = None, !.opening = FALSE]
        \/ page' = [page EXCEPT !.updating = FALSE]
        \/ page' = page
      BY DEF Failed
  <2>2. QED
      BY <1>0, <2>1 DEF PageFields
<1>3. QED
    BY <1>1, <1>2, NotesPage

LEMMA NotesReceive == ASSUME NotesInv, Receive PROVE NotesInv'
<1>0. DOMAIN page = PageFields
    BY DEF NotesInv
<1>1. ASSUME NEW m \in net, Received(m)
      PROVE  UNCHANGED <<review, writes>> /\ \A n \in net' : n \in net
    BY <1>1 DEF Received, server
<1>2. ASSUME NEW m \in net, ReceiveList(m) \/ ReceiveStats(m) PROVE NotesInv'
  <2>1. DOMAIN page' = PageFields /\ page'.detail = page.detail /\ page'.draft = page.draft
      BY <1>0, <1>2 DEF ReceiveList, ReceiveStats, PageFields
  <2>2. QED
      BY <1>1, <1>2, <2>1, NotesPage DEF ReceiveList, ReceiveStats
<1>3. ASSUME NEW m \in net, ReceiveDetail(m) \/ ReceiveReview(m) PROVE NotesInv'
  <2>1. Loaded(m.detail)
      BY <1>3 DEF ReceiveDetail, ReceiveReview, NotesInv, OnTheWay
  <2>2. DOMAIN page' = PageFields /\ page'.detail = m.detail /\ page'.draft = m.detail.note
      BY <1>0, <1>3 DEF ReceiveDetail, ReceiveReview, PageFields
  <2>3. QED
      BY <1>1, <1>3, <2>1, <2>2, NotesPage DEF ReceiveDetail, ReceiveReview
<1>4. QED
    BY <1>2, <1>3, NotesFailed DEF Receive

LEMMA NotesNext == NotesInv /\ [Next]_vars => NotesInv'
<1> SUFFICES ASSUME NotesInv, [Next]_vars PROVE NotesInv'
    OBVIOUS
<1>1. CASE UNCHANGED vars
    BY <1>1 DEF vars, server, desk, NotesInv, Stored, Draft
<1>2. CASE Next
    BY <1>2, NotesCandidate, NotesServe, NotesUser, NotesReceive, NotesFailed DEF Next, Lose
<1>3. QED
    BY <1>1, <1>2

LEMMA NotesInvariant == Spec => []NotesInv
BY NotesInit, NotesNext, PTL DEF Spec

\* However loads of details, answers to review requests, losses and the other tab
\* cross: no note of one session is ever stored with another.
THEOREM NotesStayFiled == Spec => []NotesFiled
<1>1. NotesInv => NotesFiled
    BY DEF NotesInv, Stored, KeptFor, Own, NotesFiled
<1>2. QED
    BY <1>1, NotesInvariant, PTL

-----------------------------------------------------------------------------
(* The list belongs to the filters. *)

LEMMA FiltersInit == Init => FiltersInv
<1> SUFFICES ASSUME Init PROVE FiltersInv
    OBVIOUS
<1>1. /\ DOMAIN page = PageFields /\ page.listId = 1 /\ page.filters = "all"
      /\ page.listFor = None
    BY DEF Init, PageFields
<1>2. \A m \in net : Numbered(m)
  <2>1. /\ ListRequest(1, "all").id = 1 /\ ListRequest(1, "all").filter = "all"
        /\ StatsRequest(1, "all").type = "stats"
      BY DEF ListRequest, StatsRequest
  <2>2. Numbered(ListRequest(1, "all")) /\ Numbered(StatsRequest(1, "all"))
      BY <1>1, <2>1 DEF Numbered
  <2>3. QED
      BY <2>2 DEF Init
<1>3. QED
    BY <1>1, <1>2 DEF FiltersInv, LatestFiltersWin

\* A step that neither asks for a list nor takes one over.
Untouched ==
    /\ DOMAIN page' = PageFields
    /\ page'.listId = page.listId /\ page'.filters = page.filters
    /\ page'.loading = page.loading /\ page'.listFor = page.listFor

LEMMA FiltersStay ==
    ASSUME FiltersInv, Untouched,
           \A n \in net' : n \in net \/ n.type \notin {"list", "listed"} \/ Numbered(n)
    PROVE  FiltersInv'
<1>1. \A n \in net' : Numbered(n)'
    BY DEF FiltersInv, Untouched, Numbered
<1>2. LatestFiltersWin'
    BY DEF FiltersInv, Untouched, LatestFiltersWin
<1>3. QED
    BY <1>1, <1>2 DEF FiltersInv, Untouched

LEMMA FiltersServe == ASSUME FiltersInv, Serve PROVE FiltersInv'
<1>0. DOMAIN page = PageFields
    BY DEF FiltersInv
<1>1. ASSUME NEW m \in Requests, ServeList(m) PROVE FiltersInv'
  <2> DEFINE r == [type |-> "listed", id |-> m.id, filter |-> m.filter, rows |-> Listing(m.filter)]
  <2>1. net' = (net \ {m}) \union {r} /\ UNCHANGED page /\ m \in net /\ m.type = "list"
      BY <1>1, Zenon DEF ServeList, Answered, Requests
  <2>2. r.id = m.id /\ r.filter = m.filter
      OBVIOUS
  <2> HIDE DEF r
  <2>3. Numbered(r)
      BY <2>1, <2>2 DEF FiltersInv, Numbered
  <2>4. QED
      BY <1>0, <2>1, <2>3, FiltersStay DEF Untouched
<1>2. ASSUME NEW m \in Requests, ServeDetail(m) PROVE FiltersInv'
  <2>1. PICK r : net' = (net \ {m}) \union {r} /\ r.type \in {"got", "not_found"}
    <3> DEFINE got == [type |-> "got", detail |-> Detail(m.session)]
               lost == [type |-> "not_found", session |-> m.session]
    <3>1. net' = (net \ {m}) \union {got} \/ net' = (net \ {m}) \union {lost}
        BY <1>2, Zenon DEF ServeDetail, Answered
    <3>2. got.type = "got" /\ lost.type = "not_found"
        OBVIOUS
    <3> HIDE DEF got, lost
    <3>3. QED
        BY <3>1, <3>2
  <2>2. UNCHANGED page
      BY <1>2 DEF ServeDetail
  <2>3. QED
      BY <1>0, <2>1, <2>2, FiltersStay DEF Untouched
<1>3. ASSUME NEW m \in Requests, CommitReview(m) PROVE FiltersInv'
    BY <1>0, <1>3, FiltersStay DEF CommitReview, Untouched
<1>4. ASSUME NEW m \in writes, StoreReview(m) PROVE FiltersInv'
  <2> DEFINE r == [type |-> "patched", detail |-> Detail(m.session)']
  <2>1. net' = net \/ net' = net \union {r}
      BY <1>4 DEF StoreReview
  <2>2. r.type = "patched" /\ UNCHANGED page
      BY <1>4 DEF StoreReview
  <2> HIDE DEF r
  <2>3. QED
      BY <1>0, <2>1, <2>2, FiltersStay DEF Untouched
<1>5. QED
    BY <1>1, <1>2, <1>3, <1>4 DEF Serve

LEMMA FiltersRefresh == ASSUME FiltersInv, NEW f, Refresh(f) PROVE FiltersInv'
<1>1. /\ DOMAIN page' = PageFields /\ page'.listId = page.listId + 1
      /\ page'.filters = f /\ page'.loading = TRUE
    BY DEF Refresh, FiltersInv, PageFields
<1>2. page.listId \in Nat
    BY DEF FiltersInv
<1>3. PICK l, s : /\ l.id = page.listId + 1 /\ l.filter = f /\ s.type = "stats"
                  /\ net' = net \union {l, s}
  <2>1. /\ ListRequest(page.listId + 1, f).id = page.listId + 1
        /\ ListRequest(page.listId + 1, f).filter = f
        /\ StatsRequest(page.statsId + 1, f).type = "stats"
      BY DEF ListRequest, StatsRequest
  <2>2. net' = net \union {ListRequest(page.listId + 1, f), StatsRequest(page.statsId + 1, f)}
      BY DEF Refresh
  <2>3. QED
      BY <2>1, <2>2
<1>5. Numbered(l)' /\ Numbered(s)'
    BY <1>1, <1>2, <1>3 DEF Numbered
<1>6. \A n \in net : Numbered(n)'
  <2>1. ASSUME NEW n \in net, n.type \in {"list", "listed"}
        PROVE  n.id \in Nat /\ n.id <= page.listId
      BY <2>1 DEF FiltersInv, Numbered
  <2>2. QED
      BY <1>1, <1>2, <2>1 DEF Numbered
<1>7. QED
    BY <1>1, <1>2, <1>3, <1>5, <1>6 DEF FiltersInv, LatestFiltersWin

LEMMA FiltersUser == ASSUME FiltersInv, User PROVE FiltersInv'
<1>0. DOMAIN page = PageFields
    BY DEF FiltersInv
<1>1. ASSUME NEW f, RecountAfterDelete(f) PROVE FiltersInv'
  <2>1. StatsRequest(page.statsId + 1, f).type = "stats"
      BY DEF StatsRequest
  <2>2. Untouched
      BY <1>0, <1>1 DEF RecountAfterDelete, Untouched, PageFields
  <2>3. QED
      BY <1>1, <2>1, <2>2, FiltersStay DEF RecountAfterDelete
<1>2. ASSUME NEW s \in Sessions, Select(s) PROVE FiltersInv'
  <2> DEFINE r == [type |-> "get", session |-> s]
  <2>1. r.type = "get"
      OBVIOUS
  <2>2. net' = (net \ Detailed) \union {r}
      BY <1>2 DEF Select
  <2> HIDE DEF r
  <2>3. Untouched
      BY <1>0, <1>2 DEF Select, Untouched, PageFields
  <2>4. QED
      BY <2>1, <2>2, <2>3, FiltersStay
<1>3. CASE TypeNote
  <2>1. Untouched /\ UNCHANGED net
      BY <1>0, <1>3 DEF TypeNote, Untouched, PageFields
  <2>2. QED
      BY <2>1, FiltersStay
<1>4. ASSUME NEW s, NEW st, NEW note, NEW at, NEW from, Patch(s, st, note, at, from)
      PROVE  \A n \in net' : n \in net \/ n.type = "patch"
  <2> DEFINE r == [type |-> "patch", id |-> ops, session |-> s, status |-> st,
                   note |-> note, at |-> at, from |-> from]
  <2>1. net' = net \union {r} /\ r.type = "patch"
      BY <1>4 DEF Patch
  <2> HIDE DEF r
  <2>2. QED
      BY <2>1
<1>5. CASE ToggleHumanReview
  <2>1. PICK st : Patch(page.detail.session, st, None, FALSE, "page")
      BY <1>5 DEF ToggleHumanReview
  <2>2. Untouched
      BY <1>0, <1>5 DEF ToggleHumanReview, Untouched, PageFields
  <2>3. QED
      BY <1>4, <2>1, <2>2, FiltersStay
<1>6. ASSUME NEW st \in Offered, UpdateReviewState(st) PROVE FiltersInv'
  <2>1. Patch(page.detail.session, st, page.draft, TRUE, "page")
      BY <1>6 DEF UpdateReviewState
  <2>2. Untouched
      BY <1>0, <1>6 DEF UpdateReviewState, Untouched, PageFields
  <2>3. QED
      BY <1>4, <2>1, <2>2, FiltersStay
<1>7. ASSUME NEW s \in Sessions, NEW st \in Offered, OtherTab(s, st) PROVE FiltersInv'
  <2>1. Patch(s, st, None, TRUE, "tab") /\ UNCHANGED page
      BY <1>7 DEF OtherTab
  <2>2. QED
      BY <1>0, <1>4, <2>1, FiltersStay DEF Untouched
<1>8. QED
    BY <1>1, <1>2, <1>3, <1>5, <1>6, <1>7, FiltersRefresh DEF User, ApplyFilters, ClearFilters

LEMMA FiltersFailed == ASSUME FiltersInv, NEW m \in net, Failed(m) PROVE FiltersInv'
<1>0. DOMAIN page = PageFields
    BY DEF FiltersInv
<1>1. \A n \in net' : n \in net
    BY DEF Failed, Received
<1>2. CASE page' = [page EXCEPT !.listFor = None, !.loading = FALSE]
  <2>1. /\ DOMAIN page' = PageFields /\ page'.listFor = None
        /\ page'.listId = page.listId /\ page'.filters = page.filters
      BY <1>0, <1>2 DEF PageFields
  <2>2. \A n \in net' : Numbered(n)'
      BY <1>1, <2>1 DEF FiltersInv, Numbered
  <2>3. QED
      BY <2>1, <2>2 DEF FiltersInv, LatestFiltersWin
<1>3. CASE \/ page' = [page EXCEPT !.stats = NoStats, !.statsFor = None, !.counting = FALSE]
           \/ page' = [page EXCEPT !.detail = NoDetail, !.draft = None, !.opening = FALSE]
           \/ page' = [page EXCEPT !.updating = FALSE]
           \/ page' = page
  <2>1. Untouched
      BY <1>0, <1>3 DEF Untouched, PageFields
  <2>2. QED
      BY <1>1, <2>1, FiltersStay
<1>4. QED
    BY <1>2, <1>3 DEF Failed

LEMMA FiltersReceive == ASSUME FiltersInv, Receive PROVE FiltersInv'
<1>0. DOMAIN page = PageFields
    BY DEF FiltersInv
<1>1. ASSUME NEW m \in net, ReceiveList(m) PROVE FiltersInv'
  <2>1. \A n \in net' : n \in net
      BY <1>1 DEF ReceiveList, Received
  <2>2. CASE m.id = page.listId
    <3>1. /\ DOMAIN page' = PageFields /\ page'.listFor = m.filter
          /\ page'.listId = page.listId /\ page'.filters = page.filters
        BY <1>0, <1>1, <2>2 DEF ReceiveList, PageFields
    <3>2. m.filter = page.filters
        BY <1>1, <2>2 DEF ReceiveList, FiltersInv, Numbered
    <3>3. \A n \in net' : Numbered(n)'
        BY <2>1, <3>1 DEF FiltersInv, Numbered
    <3>4. QED
        BY <3>1, <3>2, <3>3 DEF FiltersInv, LatestFiltersWin
  <2>3. CASE m.id # page.listId
    <3>1. page' = page
        BY <1>1, <2>3 DEF ReceiveList
    <3>2. QED
        BY <1>0, <2>1, <3>1, FiltersStay DEF Untouched
  <2>4. QED
      BY <2>2, <2>3
<1>2. ASSUME NEW m \in net, ReceiveStats(m) \/ ReceiveDetail(m) \/ ReceiveReview(m) PROVE FiltersInv'
  <2>1. \A n \in net' : n \in net
      BY <1>2 DEF ReceiveStats, ReceiveDetail, ReceiveReview, Received
  <2>2. Untouched
      BY <1>0, <1>2 DEF ReceiveStats, ReceiveDetail, ReceiveReview, Untouched, PageFields
  <2>3. QED
      BY <2>1, <2>2, FiltersStay
<1>3. QED
    BY <1>1, <1>2, FiltersFailed DEF Receive

LEMMA FiltersNext == NotesInv /\ FiltersInv /\ [Next]_vars => FiltersInv'
<1> SUFFICES ASSUME NotesInv, FiltersInv, [Next]_vars PROVE FiltersInv'
    OBVIOUS
<1>1. CASE UNCHANGED desk
    BY <1>1, FiltersStay DEF desk, Untouched, FiltersInv
<1>2. CASE Candidate \/ Ending
    BY <1>1, <1>2, CandidateReports DEF NotesInv
<1>3. CASE Serve \/ User \/ Receive \/ Lose
    BY <1>3, FiltersServe, FiltersUser, FiltersReceive, FiltersFailed DEF Lose
<1>4. CASE UNCHANGED vars
    BY <1>1, <1>4 DEF vars
<1>5. QED
    BY <1>2, <1>3, <1>4 DEF Next

\* Whatever order the answers to refreshes come in, and whichever are lost: rows
\* that are shown with no load running are those of the filters last applied.
THEOREM LatestFilters == Spec => []LatestFiltersWin
<1>1. Init => FiltersInv
    BY FiltersInit
<1>2. NotesInv /\ FiltersInv /\ [Next]_vars => FiltersInv'
    BY FiltersNext
<1>3. FiltersInv => LatestFiltersWin
    BY DEF FiltersInv
<1>4. QED
    BY <1>1, <1>2, <1>3, NotesInvariant, PTL DEF Spec

-----------------------------------------------------------------------------
(* Concerns are shown until a recruiter decides on them. *)

\* An identity check that does not flag the session found everything in order.
LEMMA CleanVerdict ==
    ASSUME NEW id, NEW shots, NEW name, ~Flags(Check(id, shots, name))
    PROVE  Check(id, shots, name) = Verdict(TRUE, FALSE)
<1>1. PICK v \in BOOLEAN, l \in BOOLEAN : Check(id, shots, name) = Verdict(v, l)
  <2> DEFINE images == Images(Last(shots), shots)
             live == Liveness(images, Steps)
             doubt == \/ \A i \in Selfies(images) : images[i].like < IdentitySimilarityThreshold
                      \/ Cardinality(Selfies(images)) < 2
                      \/ NameDiffers(id, name)
                      \/ LivenessMinThreshold <= live /\ live < LivenessStrongThreshold
  <2>1. \/ Check(id, shots, name) = Verdict(FALSE, FALSE)
        \/ Check(id, shots, name) = Verdict(live >= LivenessMinThreshold, doubt)
      BY Zenon DEF Check, VerifyFaces
  <2>2. (live >= LivenessMinThreshold) \in BOOLEAN /\ doubt \in BOOLEAN
      OBVIOUS
  <2> HIDE DEF doubt, live
  <2>3. QED
      BY <2>1, <2>2, Zenon
<1>2. Verdict(v, l).verified = v /\ Verdict(v, l).low = l
    BY DEF Verdict
<1>3. v = TRUE /\ l = FALSE
    BY <1>1, <1>2 DEF Flags
<1>4. QED
    BY <1>1, <1>3

\* A step that changes at most what is held of s.
LEMMA ConcernAbout ==
    ASSUME ConcernInv, NEW s \in Sessions, Concern(s)',
           DOMAIN raised' = Sessions,
           \A t \in Sessions \ {s} : raised'[t] = raised[t] /\ review'[t] = review[t]
    PROVE  ConcernInv'
<1>1. ASSUME NEW t \in Sessions PROVE Concern(t)'
  <2>1. CASE t = s
      BY <2>1
  <2>2. CASE t # s
      BY <2>2 DEF ConcernInv, Concern
  <2>3. QED
      BY <2>1, <2>2
<1>2. QED
    BY <1>1 DEF ConcernInv

LEMMA ConcernVerify ==
    ASSUME NotesInv, ConcernInv, NEW s \in Sessions, NEW sent, VerifyIdentity(s, sent)
    PROVE  ConcernInv'
<1> DEFINE verdict == Check(sent.id, sent.shots, sent.name)
<1>1. /\ raised' = [raised EXCEPT ![s] = @ \/ verdict # Verdict(TRUE, FALSE)]
      /\ IF Flags(verdict) THEN review' = [review EXCEPT ![s] = Reopen(s, System)]
         ELSE UNCHANGED review
    BY Zenon DEF VerifyIdentity
<1>2. ~Flags(verdict) => verdict = Verdict(TRUE, FALSE)
    BY CleanVerdict
<1> HIDE DEF verdict
<1>3. Stored /\ DOMAIN review = Sessions /\ DOMAIN raised = Sessions /\ System \in Own(s)
    BY DEF NotesInv, Stored, ConcernInv, Own
<1>4. /\ DOMAIN raised' = Sessions
      /\ \A t \in Sessions \ {s} : raised'[t] = raised[t] /\ review'[t] = review[t]
    BY <1>1, <1>3
<1>5. Concern(s)'
  <2>1. CASE Flags(verdict)
    <3>1. review'[s] = Reopen(s, System)
        BY <1>1, <1>3, <2>1
    <3>2. review'[s].required = TRUE /\ review'[s].status = "needs_review"
        BY <1>3, <3>1, Reopened
    <3>3. QED
        BY <3>2 DEF Concern, Attention
  <2>2. CASE ~Flags(verdict)
    <3>1. raised'[s] = (raised[s] \/ verdict # Verdict(TRUE, FALSE)) /\ review'[s] = review[s]
        BY <1>1, <1>3, <2>2
    <3>2. raised'[s] => raised[s]
        BY <1>2, <2>2, <3>1, Zenon
    <3>3. QED
        BY <3>1, <3>2 DEF Concern, ConcernInv
  <2>3. QED
      BY <2>1, <2>2
<1>6. QED
    BY <1>4, <1>5, ConcernAbout

LEMMA ConcernPreflight ==
    ASSUME NotesInv, ConcernInv, NEW s \in Sessions, NEW suspicious \in BOOLEAN, NEW level,
           Preflight(s, suspicious, level)
    PROVE  ConcernInv'
<1>1. IF suspicious
        THEN /\ review' = [review EXCEPT ![s] = Upsert(s, "needs_review", System, FALSE)]
             /\ raised' = [raised EXCEPT ![s] = TRUE]
        ELSE UNCHANGED <<review, raised>>
    BY Zenon DEF Preflight
<1>2. Stored /\ DOMAIN review = Sessions /\ DOMAIN raised = Sessions /\ System \in Own(s)
    BY DEF NotesInv, Stored, ConcernInv, Own
<1>3. CASE suspicious
  <2>1. /\ review'[s] = Upsert(s, "needs_review", System, FALSE)
        /\ DOMAIN raised' = Sessions
        /\ \A t \in Sessions \ {s} : raised'[t] = raised[t] /\ review'[t] = review[t]
      BY <1>1, <1>2, <1>3
  <2>2. "needs_review" \in Attention
      BY DEF Attention
  <2>3. review'[s].required = TRUE /\ review'[s].status = "needs_review"
    <3>1. /\ Upsert(s, "needs_review", System, FALSE).required = TRUE
          /\ Upsert(s, "needs_review", System, FALSE).status = "needs_review"
        BY <1>2, <2>2, Upserted
    <3>2. QED
        BY <2>1, <3>1
  <2>4. Concern(s)'
      BY <2>2, <2>3 DEF Concern
  <2>5. QED
      BY <2>1, <2>4, ConcernAbout
<1>4. CASE ~suspicious
    BY <1>1, <1>4 DEF ConcernInv, Concern
<1>5. QED
    BY <1>3, <1>4

LEMMA ConcernEndFlag ==
    ASSUME NotesInv, ConcernInv, NEW s \in Sessions, EndFlag(s)
    PROVE  ConcernInv'
<1>1. /\ review' = [review EXCEPT ![s] = Reopen(s, None)]
      /\ raised' = [raised EXCEPT ![s] = TRUE]
    BY DEF EndFlag
<1>2. Stored /\ DOMAIN review = Sessions /\ DOMAIN raised = Sessions /\ None \in Own(s)
    BY DEF NotesInv, Stored, ConcernInv, Own
<1>3. /\ review'[s] = Reopen(s, None)
      /\ DOMAIN raised' = Sessions
      /\ \A t \in Sessions \ {s} : raised'[t] = raised[t] /\ review'[t] = review[t]
    BY <1>1, <1>2
<1>4. review'[s].required = TRUE /\ review'[s].status = "needs_review"
    BY <1>2, <1>3, Reopened
<1>5. Concern(s)'
    BY <1>4 DEF Concern, Attention
<1>6. QED
    BY <1>3, <1>5, ConcernAbout

LEMMA ConcernStore ==
    ASSUME NotesInv, ConcernInv, NEW m \in writes, StoreReview(m)
    PROVE  ConcernInv'
<1> DEFINE s == m.session
<1>1. s \in Sessions /\ m.note \in Own(s)
    BY DEF NotesInv, Patched
<1>2. Stored /\ DOMAIN review = Sessions /\ DOMAIN raised = Sessions
    BY DEF NotesInv, Stored, ConcernInv
<1>3. /\ review'[s] = Upsert(s, m.status, m.note, m.at)
      /\ raised'[s] = (raised[s] /\ m.status \in Attention)
      /\ DOMAIN raised' = Sessions
      /\ \A t \in Sessions \ {s} : raised'[t] = raised[t] /\ review'[t] = review[t]
    BY <1>1, <1>2 DEF StoreReview
<1>4. m.status \in Attention => review'[s].required = TRUE /\ review'[s].status = m.status
  <2>1. /\ m.status \in Attention => Upsert(s, m.status, m.note, m.at).required = TRUE
        /\ Upsert(s, m.status, m.note, m.at).status = m.status
      BY <1>1, <1>2, Upserted, ZenonT(60)
  <2>2. QED
      BY <1>3, <2>1
<1> HIDE DEF s
<1>5. raised'[s] => m.status \in Attention
    BY <1>3, Zenon
<1>6. Concern(s)'
    BY <1>4, <1>5 DEF Concern
<1>7. QED
    BY <1>1, <1>3, <1>6, ConcernAbout

LEMMA ConcernNext == NotesInv /\ ConcernInv /\ [Next]_vars => ConcernInv'
<1> SUFFICES ASSUME NotesInv, ConcernInv, [Next]_vars PROVE ConcernInv'
    OBVIOUS
<1>1. CASE UNCHANGED <<review, raised>>
    BY <1>1 DEF ConcernInv, Concern
<1>2. CASE Candidate
  <2>1. PICK s \in Live :
          \/ \E sent \in Submissions : VerifyIdentity(s, sent)
          \/ \E suspicious \in BOOLEAN, level \in Levels : Preflight(s, suspicious, level)
          \/ \E level \in Levels : Observe(s, level)
          \/ \E last \in BOOLEAN : Answer(s, last)
          \/ EndSave(s)
      BY <1>2 DEF Candidate
  <2>2. s \in Sessions
      BY ReviewAssumption
  <2>3. CASE \/ \E level \in Levels : Observe(s, level)
             \/ \E last \in BOOLEAN : Answer(s, last)
             \/ EndSave(s)
      BY <1>1, <2>3 DEF Observe, Answer, EndSave
  <2>4. QED
      BY <2>1, <2>2, <2>3, ConcernVerify, ConcernPreflight
<1>3. CASE Ending
    BY <1>3, ConcernEndFlag DEF Ending
<1>4. CASE Serve
  <2>1. ASSUME NEW m \in Requests, ServeList(m) \/ ServeDetail(m) \/ CommitReview(m) PROVE ConcernInv'
      BY <1>1, <2>1 DEF ServeList, ServeDetail, CommitReview, server
  <2>2. QED
      BY <1>4, <2>1, ConcernStore DEF Serve
<1>5. ASSUME User PROVE UNCHANGED <<server, raised>>
    BY <1>5 DEF User, ApplyFilters, ClearFilters, Refresh, RecountAfterDelete, Select, TypeNote,
                ToggleHumanReview, UpdateReviewState, OtherTab
<1>6. ASSUME Receive \/ Lose PROVE UNCHANGED <<server, raised>>
    BY <1>6 DEF Receive, Lose, ReceiveList, ReceiveStats, ReceiveDetail, ReceiveReview, Failed, Received
<1>7. QED
    BY <1>1, <1>2, <1>3, <1>4, <1>5, <1>6 DEF Next, vars, server

\* Whatever reports, preflights, identity checks and ends follow: a concern on
\* which no decision was stored is shown to the recruiter.
THEOREM ConcernsShown == Spec => []ConcernShown
<1>1. Init => ConcernInv
    BY DEF Init, ConcernInv, Concern
<1>2. NotesInv /\ ConcernInv /\ [Next]_vars => ConcernInv'
    BY ConcernNext
<1>3. ConcernInv => ConcernShown
  <2> SUFFICES ASSUME ConcernInv, NEW s \in Sessions, raised[s]
               PROVE  Shown(s) /\ ShownStatus(s) \in Attention
      BY DEF ConcernShown
  <2>1. review[s].required = TRUE /\ review[s].status \in Attention
      BY DEF ConcernInv, Concern
  <2>2. review[s] # NoReview
      BY <2>1 DEF NoReview
  <2>3. Shown(s)
      BY <2>1, <2>2 DEF Shown
  <2>4. ShownStatus(s) = review[s].status
      BY <2>2 DEF ShownStatus
  <2>5. QED
      BY <2>1, <2>3, <2>4
<1>4. QED
    BY <1>1, <1>2, <1>3, NotesInvariant, PTL DEF Spec

-----------------------------------------------------------------------------
(* Only recruiters release what is held for review. *)

LEMMA MarksInit == Init => MarksInv
<1> SUFFICES ASSUME Init PROVE MarksInv
    OBVIOUS
<1>1. /\ DOMAIN summary = Sessions /\ DOMAIN cached = Sessions
      /\ DOMAIN manager = Sessions /\ DOMAIN flag = Sessions
    BY DEF Init
<1>2. ASSUME NEW s \in Sessions PROVE Marks(s)
  <2>1. summary[s] \in {EmptySummary, Report("clean")} /\ cached[s] = summary[s]
      BY DEF Init
  <2>2. \A r \in {EmptySummary, Report("clean")} :
            DOMAIN r = {"level", "low"} /\ r.low = FALSE /\ r.level # Serious
      BY DEF EmptySummary, Report, Serious, None
  <2>3. QED
      BY <2>1, <2>2 DEF Marks
<1>3. QED
    BY <1>1, <1>2 DEF MarksInv

LEMMA MarksAbout ==
    ASSUME MarksInv, NEW s \in Sessions, Marks(s)',
           DOMAIN summary' = Sessions, DOMAIN cached' = Sessions,
           DOMAIN manager' = Sessions, DOMAIN flag' = Sessions,
           \A t \in Sessions \ {s} :
             /\ summary'[t] = summary[t] /\ cached'[t] = cached[t] /\ manager'[t] = manager[t]
             /\ review'[t] = review[t]
    PROVE  MarksInv'
<1>1. ASSUME NEW t \in Sessions PROVE Marks(t)'
  <2>1. CASE t = s
      BY <2>1
  <2>2. CASE t # s
      BY <2>2 DEF MarksInv, Marks
  <2>3. QED
      BY <2>1, <2>2
<1>2. QED
    BY <1>1 DEF MarksInv

LEMMA Reported == \A level : /\ DOMAIN Report(level) = {"level", "low"}
                             /\ Report(level).level = level /\ Report(level).low = FALSE
BY DEF Report

\* What a report, from a frame or with the preflight, does to the marks.
LEMMA MarksReport ==
    ASSUME NotesInv, MarksInv, NEW s \in Sessions, NEW level,
           manager[s] = Serious => level = Serious,
           manager' = [manager EXCEPT ![s] = level],
           summary' = [summary EXCEPT ![s] = Report(level)],
           UNCHANGED <<flag, cached>>,
           \A t \in Sessions \ {s} : review'[t] = review[t]
    PROVE  MarksInv' /\ (summary[s].level = Serious => summary'[s].level = Serious)
<1>1. /\ DOMAIN summary' = Sessions /\ DOMAIN manager' = Sessions
      /\ summary'[s] = Report(level) /\ manager'[s] = level
      /\ \A t \in Sessions \ {s} : summary'[t] = summary[t] /\ manager'[t] = manager[t]
    BY DEF MarksInv
<1>2. /\ DOMAIN summary'[s] = {"level", "low"}
      /\ summary'[s].level = level /\ summary'[s].low = FALSE
    BY <1>1, Reported
<1>3. Marks(s)
    BY DEF MarksInv
<1>4. Marks(s)'
    BY <1>1, <1>2, <1>3 DEF Marks
<1>5. MarksInv'
    BY <1>1, <1>4, MarksAbout DEF MarksInv
<1>6. QED
    BY <1>2, <1>3, <1>5 DEF Marks

\* What stands for a finished session that has no review state.
Stands(s) ==
    /\ flag[s] => flag'[s]
    /\ status[s] \in Finished /\ summary[s].level = Serious => summary'[s].level = Serious

LEMMA MarksCandidate ==
    ASSUME NotesInv, MarksInv, Candidate \/ Ending
    PROVE  MarksInv' /\ \A s \in Sessions : Stands(s)
<1>0. /\ DOMAIN summary = Sessions /\ DOMAIN cached = Sessions
      /\ DOMAIN manager = Sessions /\ DOMAIN flag = Sessions
      /\ DOMAIN review = Sessions
    BY DEF MarksInv, NotesInv, Stored
<1>1. ASSUME NEW s \in Sessions, NEW sent, VerifyIdentity(s, sent)
      PROVE  MarksInv' /\ \A t \in Sessions : Stands(t)
  <2>1. \/ UNCHANGED <<summary, flag, review, cached, manager>>
        \/ /\ summary' = [summary EXCEPT ![s].low = TRUE]
           /\ flag' = [flag EXCEPT ![s] = TRUE]
           /\ review' = [review EXCEPT ![s] = Reopen(s, System)]
           /\ UNCHANGED <<cached, manager>>
      BY <1>1, Zenon DEF VerifyIdentity
  <2>2. CASE UNCHANGED <<summary, flag, review, cached, manager>>
      BY <2>2 DEF MarksInv, Marks, Stands
  <2>3. CASE /\ summary' = [summary EXCEPT ![s].low = TRUE]
             /\ flag' = [flag EXCEPT ![s] = TRUE]
             /\ review' = [review EXCEPT ![s] = Reopen(s, System)]
             /\ UNCHANGED <<cached, manager>>
    <3>1. Marks(s)
        BY DEF MarksInv
    <3>2. /\ DOMAIN summary'[s] = {"level", "low"}
          /\ summary'[s].level = summary[s].level
        BY <1>0, <2>3, <3>1 DEF Marks
    <3>3. review'[s] # NoReview
      <4>1. review'[s] = Reopen(s, System) /\ Stored /\ System \in Own(s)
          BY <1>0, <2>3 DEF NotesInv, Own
      <4>2. Reopen(s, System).required = TRUE
          BY <4>1, Reopened
      <4>3. QED
          BY <4>1, <4>2 DEF NoReview
    <3>4. cached'[s] = cached[s] /\ manager'[s] = manager[s]
        BY <2>3
    <3>5. Marks(s)'
        BY <3>1, <3>2, <3>3, <3>4 DEF Marks
    <3>6. /\ DOMAIN summary' = Sessions /\ DOMAIN flag' = Sessions
          /\ \A t \in Sessions \ {s} : summary'[t] = summary[t] /\ review'[t] = review[t]
        BY <1>0, <2>3
    <3>7. MarksInv'
        BY <1>0, <2>3, <3>5, <3>6, MarksAbout
    <3>8. \A t \in Sessions : Stands(t)
      <4>1. \A t \in Sessions : flag[t] => flag'[t]
          BY <1>0, <2>3
      <4>2. QED
          BY <3>2, <3>6, <4>1 DEF Stands
    <3>9. QED
        BY <3>7, <3>8
  <2>4. QED
      BY <2>1, <2>2, <2>3
<1>2. ASSUME NEW s \in Sessions, NEW suspicious, NEW level, Preflight(s, suspicious, level) \/ Observe(s, level)
      PROVE  MarksInv' /\ \A t \in Sessions : Stands(t)
  <2>1. /\ manager[s] = Serious => level = Serious
        /\ manager' = [manager EXCEPT ![s] = level]
        /\ summary' = [summary EXCEPT ![s] = Report(level)]
        /\ UNCHANGED <<flag, cached>>
      BY <1>2, Zenon DEF Preflight, Observe
  <2>2. \/ review' = [review EXCEPT ![s] = Upsert(s, "needs_review", System, FALSE)]
        \/ UNCHANGED review
      BY <1>2, Zenon DEF Preflight, Observe
  <2>3. \A t \in Sessions \ {s} : review'[t] = review[t]
      BY <1>0, <2>2
  <2>4. MarksInv' /\ (summary[s].level = Serious => summary'[s].level = Serious)
      BY <2>1, <2>3, MarksReport
  <2>5. \A t \in Sessions \ {s} : summary'[t] = summary[t]
      BY <1>0, <2>1
  <2>6. QED
      BY <2>1, <2>4, <2>5 DEF Stands
<1>3. ASSUME NEW s \in Sessions, NEW last, Answer(s, last)
      PROVE  MarksInv' /\ \A t \in Sessions : Stands(t)
  <2>1. /\ summary' = [summary EXCEPT ![s] = cached[s]] /\ status[s] = "in_progress"
        /\ UNCHANGED <<flag, cached, manager, review>>
      BY <1>3 DEF Answer
  <2>2. /\ DOMAIN summary' = Sessions /\ summary'[s] = cached[s]
        /\ \A t \in Sessions \ {s} : summary'[t] = summary[t]
      BY <1>0, <2>1
  <2>3. Marks(s)'
      BY <2>1, <2>2 DEF MarksInv, Marks
  <2>4. MarksInv'
      BY <1>0, <2>1, <2>2, <2>3, MarksAbout
  <2>5. status[s] \notin Finished
      BY <2>1 DEF Finished
  <2>6. QED
      BY <2>1, <2>2, <2>4, <2>5 DEF Stands
<1>4. ASSUME NEW s \in Sessions, EndSave(s)
      PROVE  MarksInv' /\ \A t \in Sessions : Stands(t)
  <2>1. /\ summary' = [summary EXCEPT ![s] = Report(manager[s])]
        /\ cached' = [cached EXCEPT ![s] = Report(manager[s])]
        /\ UNCHANGED <<flag, manager, review>>
      BY <1>4 DEF EndSave
  <2>2. /\ DOMAIN summary' = Sessions /\ DOMAIN cached' = Sessions
        /\ summary'[s] = Report(manager[s]) /\ cached'[s] = Report(manager[s])
        /\ \A t \in Sessions \ {s} : summary'[t] = summary[t] /\ cached'[t] = cached[t]
      BY <1>0, <2>1
  <2>3. Marks(s)'
      BY <2>1, <2>2, Reported DEF Marks
  <2>4. MarksInv'
      BY <1>0, <2>1, <2>2, <2>3, MarksAbout
  <2>5. summary[s].level = Serious => summary'[s].level = Serious
      BY <2>2, Reported DEF MarksInv, Marks
  <2>6. QED
      BY <2>1, <2>2, <2>4, <2>5 DEF Stands
<1>5. ASSUME NEW s \in Sessions, EndFlag(s)
      PROVE  MarksInv' /\ \A t \in Sessions : Stands(t)
  <2>1. /\ flag' = [flag EXCEPT ![s] = TRUE]
        /\ review' = [review EXCEPT ![s] = Reopen(s, None)]
        /\ UNCHANGED <<summary, cached, manager>>
      BY <1>5 DEF EndFlag
  <2>2. review'[s] # NoReview
    <3>1. review'[s] = Reopen(s, None) /\ Stored /\ None \in Own(s)
        BY <1>0, <2>1 DEF NotesInv, Own
    <3>2. Reopen(s, None).required = TRUE
        BY <3>1, Reopened
    <3>3. QED
        BY <3>1, <3>2 DEF NoReview
  <2>3. Marks(s)'
      BY <2>1, <2>2 DEF MarksInv, Marks
  <2>4. DOMAIN flag' = Sessions /\ \A t \in Sessions \ {s} : review'[t] = review[t]
      BY <1>0, <2>1
  <2>5. MarksInv'
      BY <1>0, <2>1, <2>3, <2>4, MarksAbout
  <2>6. \A t \in Sessions : flag[t] => flag'[t]
      BY <1>0, <2>1
  <2>7. QED
      BY <2>1, <2>5, <2>6 DEF Stands
<1>6. CASE Candidate
  <2>1. \A s \in Live : s \in Sessions
      BY ReviewAssumption
  <2>2. QED
      BY <1>1, <1>2, <1>3, <1>4, <1>6, <2>1 DEF Candidate
<1>7. CASE Ending
    BY <1>5, <1>7 DEF Ending
<1>8. QED
    BY <1>6, <1>7

\* Serving a request changes a review only to that of a request that is stored.
LEMMA MarksStore ==
    ASSUME NotesInv, MarksInv, NEW m \in writes, StoreReview(m)
    PROVE  /\ MarksInv'
           /\ UNCHANGED <<flag, summary>>
           /\ m.status \in Attention => review'[m.session].required = TRUE
           /\ \A t \in Sessions \ {m.session} : review'[t] = review[t]
<1> DEFINE s == m.session
<1>1. s \in Sessions /\ m.note \in Own(s) /\ m.status \in Dispositions /\ Stored
    BY DEF NotesInv, Patched
<1>2. /\ review'[s] = Upsert(s, m.status, m.note, m.at)
      /\ \A t \in Sessions \ {s} : review'[t] = review[t]
      /\ UNCHANGED <<flag, summary, cached, manager>>
    BY <1>1 DEF StoreReview, Stored
<1>3. /\ m.status \in Attention => Upsert(s, m.status, m.note, m.at).required = TRUE
      /\ Upsert(s, m.status, m.note, m.at).status = m.status
    BY <1>1, Upserted
<1>4. review'[s] # NoReview
    BY <1>1, <1>2, <1>3 DEF NoReview, None, Dispositions, Attention
<1>5. Marks(s)'
    BY <1>1, <1>2, <1>4 DEF MarksInv, Marks
<1>6. MarksInv'
    BY <1>1, <1>2, <1>5, MarksAbout DEF MarksInv
<1>7. QED
    BY <1>2, <1>3, <1>6

LEMMA MarksCommit ==
    ASSUME MarksInv, NEW m, CommitReview(m)
    PROVE  /\ MarksInv'
           /\ UNCHANGED <<review, summary>> /\ m \in writes'
           /\ \A t \in Sessions \ {m.session} : flag'[t] = flag[t]
           /\ m.session \in Sessions /\ m.status \in Attention => flag'[m.session] = TRUE
<1>1. /\ flag' = [flag EXCEPT ![m.session] = m.status \in Attention]
      /\ UNCHANGED <<review, summary, cached, manager>> /\ m \in writes'
    BY DEF CommitReview
<1>2. DOMAIN flag = Sessions
    BY DEF MarksInv
<1>3. DOMAIN flag' = Sessions /\ \A t \in Sessions \ {m.session} : flag'[t] = flag[t]
    BY <1>1, <1>2
<1>4. ASSUME m.session \in Sessions, m.status \in Attention PROVE flag'[m.session] = TRUE
  <2>1. flag'[m.session] = (m.status \in Attention)
      BY <1>1, <1>2, <1>4
  <2>2. (m.status \in Attention) = TRUE
      BY <1>4
  <2>3. QED
      BY <2>1, <2>2
<1>5. MarksInv'
    BY <1>1, <1>3 DEF MarksInv, Marks
<1>6. QED
    BY <1>1, <1>3, <1>4, <1>5

LEMMA PageOnly ==
    ASSUME User \/ Receive \/ Lose \/ UNCHANGED vars \/ \E m \in Requests : ServeList(m) \/ ServeDetail(m)
    PROVE  UNCHANGED <<flag, summary, cached, manager, review>>
<1>1. ASSUME User PROVE UNCHANGED server
    BY <1>1 DEF User, ApplyFilters, ClearFilters, Refresh, RecountAfterDelete, Select, TypeNote,
                ToggleHumanReview, UpdateReviewState, OtherTab
<1>2. ASSUME Receive \/ Lose PROVE UNCHANGED server
    BY <1>2 DEF Receive, Lose, ReceiveList, ReceiveStats, ReceiveDetail, ReceiveReview, Failed, Received
<1>3. ASSUME \E m \in Requests : ServeList(m) \/ ServeDetail(m) PROVE UNCHANGED server
    BY <1>3 DEF ServeList, ServeDetail
<1>4. QED
    BY <1>1, <1>2, <1>3 DEF vars, server

LEMMA MarksNext == NotesInv /\ MarksInv /\ [Next]_vars => MarksInv'
<1> SUFFICES ASSUME NotesInv, MarksInv, [Next]_vars PROVE MarksInv'
    OBVIOUS
<1>1. CASE UNCHANGED <<flag, summary, cached, manager, review>>
    BY <1>1 DEF MarksInv, Marks
<1>2. CASE Candidate \/ Ending
    BY <1>2, MarksCandidate
<1>3. CASE Serve
    BY <1>1, <1>3, PageOnly, MarksStore, MarksCommit DEF Serve
<1>4. CASE User \/ Receive \/ Lose \/ UNCHANGED vars
    BY <1>1, <1>4, PageOnly
<1>5. QED
    BY <1>2, <1>3, <1>4 DEF Next

LEMMA MarksInvariant == Spec => []MarksInv
<1>1. NotesInv /\ MarksInv /\ [Next]_vars => MarksInv'
    BY MarksNext
<1>2. QED
    BY <1>1, MarksInit, NotesInvariant, PTL DEF Spec

\* A step that releases the review of a finished session carries out a request to
\* release it.
Releases ==
    \A s \in Sessions : status[s] \in Finished /\ Shown(s) /\ ~Shown(s)'
        => \E m \in writes \union writes' : m.session = s /\ m.status \notin Attention

LEMMA OnlyRequestsRelease == NotesInv /\ MarksInv /\ [Next]_vars => Releases
<1> SUFFICES ASSUME NotesInv, MarksInv, [Next]_vars,
                    NEW s \in Sessions, status[s] \in Finished, Shown(s), ~Shown(s)'
             PROVE  \E m \in writes \union writes' : m.session = s /\ m.status \notin Attention
    BY DEF Releases
<1>1. review'[s].required # TRUE
  <2>1. ASSUME review'[s].required = TRUE PROVE Shown(s)'
    <3>1. review'[s] # NoReview
        BY <2>1 DEF NoReview
    <3>2. QED
        BY <2>1, <3>1 DEF Shown
  <2>2. QED
      BY <2>1
<1>2. CASE UNCHANGED <<flag, summary, cached, manager, review>>
  <2>1. \A t : ShownLevel(t)' = ShownLevel(t)
      BY <1>2 DEF ShownLevel
  <2>2. QED
      BY <1>2 DEF Shown
<1>3. CASE Candidate \/ Ending
  <2>1. review'[s] = review[s]
      BY <1>1, <1>3, CandidateReports, ReportsKept DEF NotesInv
  <2>2. Stands(s) /\ Marks(s)
      BY <1>3, MarksCandidate DEF MarksInv
  <2>3. CASE review[s] # NoReview
      BY <2>1, <2>3 DEF Shown
  <2>4. CASE review[s] = NoReview
      BY <2>1, <2>2, <2>4 DEF Shown, Stands, Marks
  <2>5. QED
      BY <2>3, <2>4
<1>4. ASSUME NEW m \in writes, StoreReview(m)
      PROVE  m.session = s /\ m.status \notin Attention
  <2>1. /\ UNCHANGED <<flag, summary>>
        /\ m.status \in Attention => review'[m.session].required = TRUE
        /\ \A t \in Sessions \ {m.session} : review'[t] = review[t]
      BY <1>4, MarksStore
  <2>2. m.session = s
      BY <2>1 DEF Shown
  <2>3. QED
      BY <1>1, <2>1, <2>2
<1>5. ASSUME NEW m \in Requests, CommitReview(m)
      PROVE  m \in writes' /\ m.session = s /\ m.status \notin Attention
  <2>1. /\ UNCHANGED <<review, summary>> /\ m \in writes'
        /\ \A t \in Sessions \ {m.session} : flag'[t] = flag[t]
        /\ m.session \in Sessions /\ m.status \in Attention => flag'[m.session] = TRUE
      BY <1>5, MarksCommit
  <2>2. m.session = s
      BY <2>1 DEF Shown
  <2>3. m.status \notin Attention
      BY <2>1, <2>2 DEF Shown
  <2>4. QED
      BY <2>1, <2>2, <2>3
<1>6. CASE Serve
    BY <1>2, <1>4, <1>5, <1>6, PageOnly DEF Serve
<1>7. CASE User \/ Receive \/ Lose \/ UNCHANGED vars
    BY <1>2, <1>7, PageOnly
<1>8. QED
    BY <1>3, <1>6, <1>7 DEF Next

\* No report, preflight, identity check, end or save of the candidate's side takes
\* a finished session out of review: each time one goes out, a recruiter's request
\* that releases it is being carried out.
THEOREM RecruitersRelease == Spec => OnlyRecruitersRelease
<1>1. NotesInv /\ MarksInv /\ [Next]_vars => [Releases]_vars
    BY OnlyRequestsRelease
<1>2. Spec => [][Releases]_vars
    BY <1>1, NotesInvariant, MarksInvariant, PTL DEF Spec
<1>3. QED
    BY <1>2 DEF OnlyRecruitersRelease, Releases
=============================================================================
