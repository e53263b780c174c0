----------------------------- MODULE QuestionPaper -----------------------------
(***************************************************************************)
(* How a recruiter's paper is put together: assessment_service.py composes *)
(* it from the library of question_bank_service.py, lets a language model  *)
(* fill the gaps, tops it up from built-in questions, and notes which      *)
(* library items the new invite used; RecruiterDashboard.tsx holds a draft *)
(* between its generation and its approval.                                *)
(*                                                                         *)
(* A question is its fingerprint, its type and its library id (0: none).   *)
(* The choice among equally good library items, the order of the built-in  *)
(* questions and the model's answer are nondeterministic.  One recruiter   *)
(* is at work, in one page and with scripts that call the API.             *)
(***************************************************************************)
EXTENDS Naturals, FiniteSetsExt, Lists

CONSTANTS
    Library,     \* active items of the library: [id, fp, type, fits (the jds whose skills it shares)]
    BuiltIn,     \* the questions of _fallback_question_dicts: [fp, type, id |-> 0]
    Answers,     \* what the language model may answer: [up, qs]; not up is an error or no text
    Orders,      \* what is asked for: [n, types, jd]
    PoolFloor,   \* least limit_per_type (8 in the code)
    Scripts,     \* clients of the API that let the server generate the paper
    Pages,       \* {"page"}, or {} when only scripts are at work
    MaxInvites, MaxEdits   \* bounds

Bank(t) == {q \in BuiltIn : q.type = t}
BankTypes == {q.type : q \in BuiltIn}

\* GenerateQuestionsRequest: a number of questions, and each type once; every
\* type there is has built-in questions.
ValidOrder(o) ==
    /\ o.n \in Nat \ {0}
    /\ o.types \in Seq(BankTypes) /\ o.types # <<>> /\ IsInjective(o.types)

\* Only questions of the library have an id: _mark_origin takes it off the others.
ASSUME PaperAssumption ==
    LET Unlisted == [fp : Nat, type : STRING, id : {0}] IN
    /\ Library \subseteq [id : Nat \ {0}, fp : Nat, type : STRING, fits : SUBSET STRING]
    /\ IsFiniteSet(Library) /\ \A a, b \in Library : a.id = b.id => a = b
    /\ BuiltIn \subseteq Unlisted /\ IsFiniteSet(BuiltIn)
    /\ \A a \in Answers : a.qs \in Seq(Unlisted)
    /\ \A o \in Orders : ValidOrder(o)
    /\ PoolFloor \in Nat \ {0}
    /\ Pages \subseteq {"page"}

VARIABLES
    page,      \* the dashboard: the request it waits for (assessmentLoading), its editable questions
    making,    \* making[s]: the paper of a create request before its commit
    invites,   \* interview_invites in the order of their commits, with their history
    usage,     \* question_bank_usage: [id, invite, recent (within the cooldown)]
    draft,     \* the paper generated by the last step: [order, qs]
    edits

paperVars == <<page, making, invites, usage, draft, edits>>

Nothing == [at |-> "none"]
Fps(qs) == {qs[i].fp : i \in DOMAIN qs}
ItemIds == {item.id : item \in Library}
Ids(qs) == {q.id : q \in qs} \ {0}
Least(a, b) == IF a < b THEN a ELSE b
Most(a, b) == IF a > b THEN a ELSE b

(* ---- The composition of a paper (assessment_service.py) ---- *)

\* _distribute_types
Distribute(n, types) == [i \in 1..n |-> types[((i - 1) % Len(types)) + 1]]

\* The loops that add questions with new fingerprints until the paper is full.
AddNewUnseen(paper, qs, limit) ==
    FoldLeft(LAMBDA p, q : IF Len(p) < limit THEN Append(p, q) ELSE p, paper, qs)
AddNew(paper, qs, limit) ==
    FoldLeft(LAMBDA p, q : IF Len(p) < limit /\ q.fp \notin Fps(p) THEN Append(p, q) ELSE p,
             paper, qs)

\* _fallback_question_dicts: the picker of a type deals its bank in random order,
\* and again once it is exhausted; decks is one way to shuffle the banks.
Shuffles ==
    {decks \in [BankTypes -> UNION {SetToSeqs(Bank(t)) : t \in BankTypes}] :
        \A t \in BankTypes : Range(decks[t]) = Bank(t)}
Fallback(n, types, decks) ==
    LET plan == Distribute(n, types)
        Picks(i) == Cardinality({j \in 1..i : plan[j] = plan[i]})
    IN [i \in 1..n |-> decks[plan[i]][((Picks(i) - 1) % Len(decks[plan[i]])) + 1]]

\* retrieve_bank_questions: the items of a type not used within the cooldown, only
\* those that share a skill with the description if any does, the best of them.
Pool(t, order, ranking, recent) ==
    LET free == Only(ranking, {q \in Library : q.type = t /\ q.id \notin recent})
        preferred == Only(free, {q \in Library : order.jd \in q.fits})
        chosen == IF preferred # <<>> THEN preferred ELSE free
    IN SubSeq(chosen, 1, Least(Len(chosen), Most(order.n, PoolFloor)))

\* _compose_from_question_bank: a slot whose pool is exhausted is left out.
FillSlot(paper, t, pool) ==
    LET new == Only(pool, {q \in Library : q.fp \notin Fps(paper)})
    IN IF new = <<>> THEN paper
       ELSE Append(paper, [fp |-> Head(new).fp, type |-> t, id |-> Head(new).id])
Compose(order, ranking, recent) ==
    FoldLeft(LAMBDA paper, t : FillSlot(paper, t, Pool(t, order, ranking, recent)),
             <<>>, Distribute(order.n, order.types))

\* _parse_questions_from_llm_text
Parse(answer, n, types, decks) ==
    LET unique == AddNew(<<>>, answer, Len(answer))
    IN IF Len(unique) >= n THEN SubSeq(unique, 1, n)
       ELSE AddNew(unique, Fallback(2 * n, types, decks), n)

\* _llm_fill_gaps
FillGaps(gap, gapTypes, answer, decks) ==
    LET types == Once(gapTypes)
    IN IF answer.up THEN Parse(answer.qs, gap, types, decks) ELSE Fallback(gap, types, decks)

\* generate_questions_from_jd; its two calls for built-in questions shuffle anew.
GenerateOnce(order, ranking, recent, answer, decks, anew) ==
    LET composed == Compose(order, ranking, recent)
        gap == order.n - Len(composed)
        gapTypes == SubSeq(Distribute(order.n, order.types), Len(composed) + 1, order.n)
        filled == AddNew(composed, FillGaps(gap, gapTypes, answer, decks), order.n)
    IN IF gap = 0 THEN composed ELSE AddNew(filled, Fallback(order.n, order.types, anew), order.n)
Generate(order, ranking, recent, answer, decks, anew) ==
    LET composed == Compose(order, ranking, recent)
        gap == order.n - Len(composed)
        gapTypes == SubSeq(Distribute(order.n, order.types), Len(composed) + 1, order.n)
        filled == AddNew(composed, FillGaps(gap, gapTypes, answer, decks), order.n)
    IN IF gap = 0 THEN composed
       ELSE AddNew(filled, Fallback(2 * order.n, order.types, anew), order.n)

\* generate_questions_from_jd_ai_only
GenerateAiOnly(order, answer, decks) == Parse(answer.qs, order.n, order.types, decks)

\* Every paper that may come out of the library for an order, by the items
\* withheld (a ranking <<>> stands for a failed query), or out of the model alone.
LibraryPapers ==
    {[order |-> order, recent |-> recent, qs |-> Generate(order, ranking, recent, answer, decks, anew)] :
        order \in Orders, recent \in SUBSET ItemIds,
        ranking \in SetToSeqs(Library) \cup {<<>>}, answer \in Answers, decks, anew \in Shuffles}
AiPapers ==
    {[order |-> order, qs |-> GenerateAiOnly(order, answer, decks)] :
        order \in Orders, answer \in {a \in Answers : a.up}, decks \in Shuffles}

(* ---- The page (RecruiterDashboard.tsx) ---- *)

PaperInit ==
    /\ page \in [Pages -> {[request |-> Nothing, qs |-> {}]}]
    /\ making = [s \in Scripts |-> Nothing]
    /\ invites = <<>> /\ usage = {} /\ draft = Nothing /\ edits = 0

\* The library items withheld: used within the cooldown.
Recent == {u.id : u \in {u \in usage : u.recent}}
\* The earlier invites within the cooldown (a history of the request).
Known == {i \in DOMAIN invites : invites[i].recent}

\* handleGenerateQuestions, up to its await
PressGenerate(p, order) ==
    /\ page[p].request = Nothing
    /\ page' = [page EXCEPT ![p].request = [at |-> "generate", order |-> order]]
    /\ draft' = Nothing /\ UNCHANGED <<making, invites, usage, edits>>

\* The answer: generate_questions_preview by the library, or by the model alone,
\* which fails when the model does.  A failure, or a lost answer, empties the draft.
GenerateAnswered(p) ==
    /\ page[p].request.at = "generate"
    /\ \E paper \in {pp \in LibraryPapers : pp.recent = Recent} \cup AiPapers :
         /\ paper.order = page[p].request.order
         /\ draft' = [order |-> paper.order, qs |-> paper.qs]
         /\ page' = [page EXCEPT ![p].request = Nothing, ![p].qs = Range(paper.qs)]
    /\ UNCHANGED <<making, invites, usage, edits>>
GenerateFailed(p) ==
    /\ page[p].request.at = "generate"
    /\ page' = [page EXCEPT ![p].request = Nothing, ![p].qs = {}]
    /\ draft' = Nothing /\ UNCHANGED <<making, invites, usage, edits>>

\* removeQuestion and addQuestion; the button Cancel (or New assessment) is never disabled
EditDraft(p) ==
    /\ page[p].request = Nothing /\ page[p].qs # {} /\ edits < MaxEdits /\ edits' = edits + 1
    /\ \/ \E q \in page[p].qs : page[p].qs # {q} /\ page' = [page EXCEPT ![p].qs = @ \ {q}]
       \/ page' = [page EXCEPT ![p].qs = @ \cup {[fp |-> 0, type |-> "subjective", id |-> 0]}]
    /\ draft' = Nothing /\ UNCHANGED <<making, invites, usage>>
Cancel(p) ==
    /\ page[p].qs # {}
    /\ page' = [page EXCEPT ![p].qs = {}]
    /\ draft' = Nothing /\ UNCHANGED <<making, invites, usage, edits>>

\* handleCreateAssessment: its cleaned questions have no bank_id and no origin;
\* drawn is the history of the items they came from.
PressCreate(p) ==
    /\ page[p].request = Nothing /\ page[p].qs # {}
    /\ page' = [page EXCEPT ![p].request = [at |-> "create", ids |-> {}, drawn |-> Ids(page[p].qs)]]
    /\ draft' = Nothing /\ UNCHANGED <<making, invites, usage, edits>>

(* ---- The service ---- *)

\* The end of create_assessment: the invite is committed, then record_question_
\* bank_usage is a transaction of its own, whose failure is swallowed; a crash
\* may precede it.
Use(id, invite) == [id |-> id, invite |-> invite, recent |-> TRUE]
Record(invite, ids) == {Use(id, invite) : id \in ids}
Insert(ids, drawn, known) ==
    /\ Len(invites) < MaxInvites
    /\ \E failed \in BOOLEAN :
         /\ usage' = IF failed THEN usage ELSE usage \cup Record(Len(invites) + 1, ids)
         /\ invites' = Append(invites,
                [noted |-> IF failed THEN {} ELSE ids, drawn |-> drawn, known |-> known,
                 failed |-> failed, recent |-> TRUE, deleted |-> FALSE])

\* Approved questions; the page keeps them, with an answer or with an error, and
\* the request may fail before or after the invite is committed.
CreateAnswered(p) ==
    /\ page[p].request.at = "create"
    /\ page' = [page EXCEPT ![p].request = Nothing]
    /\ \/ Insert(page[p].request.ids, page[p].request.drawn, {})
       \/ UNCHANGED <<invites, usage>>
    /\ draft' = Nothing /\ UNCHANGED <<making, edits>>

\* create_assessment without questions, up to the await of its commit
Make(s, order) ==
    /\ making[s] = Nothing /\ Len(invites) < MaxInvites
    /\ \E paper \in LibraryPapers :
         /\ paper.order = order /\ paper.recent = Recent
         /\ draft' = [order |-> order, qs |-> paper.qs]
         /\ making' = [making EXCEPT ![s] = [drawn |-> Ids(Range(paper.qs)), known |-> Known]]
    /\ UNCHANGED <<page, invites, usage, edits>>
Commit(s) ==
    /\ making[s] # Nothing
    /\ Insert(making[s].drawn, making[s].drawn, making[s].known)
    /\ making' = [making EXCEPT ![s] = Nothing]
    /\ draft' = Nothing /\ UNCHANGED <<page, edits>>

\* delete_assessment marks the row; the usage of its questions stays.
DeleteWithUsage(i) ==
    /\ ~invites[i].deleted
    /\ invites' = [invites EXCEPT ![i].deleted = TRUE]
    /\ usage' = {u \in usage : u.invite # i}
    /\ draft' = Nothing /\ UNCHANGED <<page, making, edits>>
Delete(i) ==
    /\ ~invites[i].deleted
    /\ invites' = [invites EXCEPT ![i].deleted = TRUE]
    /\ draft' = Nothing /\ UNCHANGED <<page, making, usage, edits>>

\* Thirty days later: the oldest uses leave the cooldown.
Age(i) ==
    /\ invites[i].recent /\ \A j \in 1..(i - 1) : ~invites[j].recent
    /\ invites' = [invites EXCEPT ![i].recent = FALSE]
    /\ usage' = {[u EXCEPT !.recent = u.recent /\ u.invite # i] : u \in usage}
    /\ draft' = Nothing /\ UNCHANGED <<page, making, edits>>

PaperNext ==
    \/ \E p \in Pages :
         \/ \E order \in Orders : PressGenerate(p, order)
         \/ GenerateAnswered(p) \/ GenerateFailed(p) \/ EditDraft(p) \/ Cancel(p)
         \/ PressCreate(p) \/ CreateAnswered(p)
    \/ \E s \in Scripts :
         \/ \E order \in Orders : Make(s, order)
         \/ Commit(s)
    \/ \E i \in DOMAIN invites : Delete(i) \/ Age(i)

PaperSpec == PaperInit /\ [][PaperNext]_paperVars

(* ---- Properties ---- *)

\* Types: what is noted points to library items and to earlier invites.
PaperTyped ==
    /\ \A p \in Pages : Ids(page[p].qs) \subseteq ItemIds
    /\ \A s \in Scripts : making[s] = Nothing \/ making[s].drawn \subseteq ItemIds
    /\ \A i \in DOMAIN invites : invites[i].known \subseteq 1..(i - 1)
    /\ \A u \in usage : u.invite \in DOMAIN invites /\ u.id \in ItemIds

\* However library, language model and built-in questions overlap, a generated
\* paper asks nothing twice.
NoRepeats == draft = Nothing \/ IsInjective([i \in DOMAIN draft.qs |-> draft.qs[i].fp])

\* A paper is never longer than asked for, and it is shorter only when it asks all
\* the built-in questions that an order twice as long would be dealt of each type.
Planned(o, n, t) == Cardinality({i \in 1..n : Distribute(n, o.types)[i] = t})
FullPaper == draft = Nothing \/ LET o == draft.order IN
    /\ Len(draft.qs) <= o.n
    /\ Len(draft.qs) < o.n => \A t \in Range(o.types) :
           Least(Cardinality(Bank(t)), Planned(o, 2 * o.n, t))
               <= Cardinality({q \in Bank(t) : q.fp \in Fps(draft.qs)})

\* A paper the server composes for a new invite has no library item whose use for
\* an invite before was noted within the cooldown, were that invite deleted since.
NotAgain == \A i \in DOMAIN invites : \A j \in invites[i].known :
    invites[i].drawn \cap invites[j].noted = {}

\* question_bank_service.py:1 promises "usage tracking": the library items an invite
\* asks are on record while it is recent, unless the recording itself failed.
UsesTracked == \A i \in DOMAIN invites :
    invites[i].recent /\ ~invites[i].failed => invites[i].drawn \subseteq Recent

\* A paper has as many questions of each type as the order asks for, when the
\* built-in questions alone would do for every type.
MixAsPlanned == draft = Nothing \/ LET o == draft.order IN
    (\A t \in Range(o.types) : Planned(o, o.n, t) <= Cardinality(Bank(t))) =>
        \A t \in Range(o.types) :
            Cardinality({i \in DOMAIN draft.qs : draft.qs[i].type = t}) = Planned(o, o.n, t)

\* Two recent invites whose uses were noted share no library item.
NeverShared == \A i, j \in DOMAIN invites :
    i # j /\ invites[i].recent /\ invites[j].recent => invites[i].noted \cap invites[j].noted = {}
=============================================================================
