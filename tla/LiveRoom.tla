------------------------------- MODULE LiveRoom -------------------------------
(***************************************************************************)
(* One live coding room: the WebSocket handlers and the in-memory state of *)
(* app/api/v1/live.py, and the pages that join it                          *)
(* (frontend/src/components/LiveInterviewRoom.tsx).                        *)
(*                                                                         *)
(* A handler is a coroutine: it waits in receive_text and at every send of *)
(* a broadcast.  A socket is a connection of one tab, numbered in order of *)
(* opening; what each side has sent and the other has not received are     *)
(* sequences.  A tab whose socket broke may be back on a new one before    *)
(* the server has noticed.                                                 *)
(*                                                                         *)
(* Code is a version: 0 is the room's starter code, n > 0 the text after   *)
(* the n-th edit of anybody, NoCode the null or the empty text.            *)
(***************************************************************************)
EXTENDS Integers, Sequences, FiniteSets, SequencesExt

CONSTANTS
    Tabs,        \* open pages
    Recruiters,  \* those that joined as recruiter; the others are candidates
    Editors,     \* tabs whose user edits the code
    Typing,      \* when they type: at "any" time; "calm", not before the hello of
                 \* their connection nor while the guard against echoes is up;
                 \* or in "turns", calm, and typing and connecting only while
                 \* nothing else is on its way
    HalfOpen,    \* TRUE: a tab may be back before the server misses it
    MaxSockets, MaxEdits, MaxChats, MaxRestarts  \* bounds

ASSUME LiveAssumption ==
    /\ IsFiniteSet(Tabs) /\ Recruiters \subseteq Tabs /\ Editors \subseteq Tabs
    /\ Typing \in {"any", "calm", "turns"} /\ HalfOpen \in BOOLEAN
    /\ {MaxSockets, MaxEdits, MaxChats, MaxRestarts} \subseteq Nat

VARIABLES
    room,    \* _room_state of the token: code, chat, presence
    socks,   \* every socket opened so far, with its handler
    tab,     \* every page
    row,     \* the live_interview_rooms row: ended, final code
    count    \* edits, chat messages and restarts so far (bounds)

vars == <<room, socks, tab, row, count>>

NoCode == -1
Role(c) == IF c \in Recruiters THEN "recruiter" ELSE "candidate"
\* POST /live/rooms
NewRow == [ended |-> FALSE, final |-> NoCode]

NewRoom == [code |-> NoCode, chat |-> <<>>, presence |-> {}]
NewSock(c) == [tab |-> c, up |-> <<>>, down |-> <<>>, alive |-> TRUE,
               at |-> "open", todo |-> {}, msg |-> [type |-> "none"]]
NewTab == [sock |-> 0, code |-> NoCode, chat |-> <<>>, presence |-> {},
           guard |-> "clear", loaded |-> FALSE, ended |-> FALSE]

\* Only handlers that wait for a message.
JoinedIdle == {s \in DOMAIN socks : socks[s].at = "serve"}

\* _rooms[token]: the sockets whose handler is between its join and its end.
Joined == {s \in DOMAIN socks : socks[s].at \in {"serve", "send"}}

\* The bound leaves a socket for every tab that has lost its own.
CanReconnect(lost) ==
    Len(socks) + Cardinality(lost \union {c \in Tabs : tab[c].sock = 0}) <= MaxSockets

Init ==
    /\ room = NewRoom
    /\ socks = <<>>
    /\ tab = [c \in Tabs |-> NewTab]
    /\ row = NewRow
    /\ count = [edits |-> 0, chats |-> 0, restarts |-> 0]

\* Everybody has joined and shows the starter code, which the server has too;
\* the REST answer of a candidate may still be on its way.
InitJoined ==
    /\ room = [NewRoom EXCEPT !.code = 0, !.presence = {Role(c) : c \in Tabs}]
    /\ \E order \in [1..Cardinality(Tabs) -> Tabs] :
         /\ \A c \in Tabs : \E s \in DOMAIN order : order[s] = c
         /\ socks = [s \in DOMAIN order |-> [NewSock(order[s]) EXCEPT !.at = "serve"]]
         /\ \E loaded \in SUBSET Tabs :
              /\ Recruiters \subseteq loaded
              /\ tab = [c \in Tabs |->
                   [NewTab EXCEPT !.sock = CHOOSE s \in DOMAIN order : order[s] = c,
                                  !.code = 0, !.presence = room.presence,
                                  !.loaded = c \in loaded]]
    /\ row = NewRow
    /\ count = [edits |-> 0, chats |-> 0, restarts |-> 0]

-----------------------------------------------------------------------------
(* The server                                                              *)

\* Start a broadcast of m to the sockets in todo; the handler then serves on,
\* or is over if it was leaving.
Broadcast(sock, at, m, todo) ==
    [sock EXCEPT !.at = IF todo # {} THEN at ELSE IF at = "send" THEN "serve" ELSE "gone",
                 !.msg = IF todo # {} THEN m ELSE [type |-> "none"], !.todo = todo]

Push(sock, m) == IF sock.alive THEN [sock EXCEPT !.down = Append(@, m)] ELSE sock

\* No presence broadcast.
AcceptSilently(s) ==
    /\ socks[s].at = "open"
    /\ ~row.ended
    /\ LET state == [room EXCEPT !.presence = @ \union {Role(socks[s].tab)}]
           hello == [type |-> "hello", state |-> state]
       IN  /\ room' = state
           /\ socks' = [socks EXCEPT ![s] = [Push(@, hello) EXCEPT !.at = "serve"]]
    /\ UNCHANGED <<tab, row, count>>

\* live_room_ws up to its first broadcast, of the presence, to everybody.
Accept(s) ==
    /\ socks[s].at = "open"
    /\ ~row.ended
    /\ LET state == [room EXCEPT !.presence = @ \union {Role(socks[s].tab)}]
           hello == [type |-> "hello", state |-> state]
       IN  /\ room' = state
           /\ socks' = [socks EXCEPT ![s] =
                Broadcast(Push(@, hello), "send", [type |-> "presence"], Joined \union {s})]
    /\ UNCHANGED <<tab, row, count>>

\* get_room refuses a room that has ended; the page will try again.
Refuse(s) ==
    /\ socks[s].at = "open"
    /\ row.ended
    /\ socks' = [socks EXCEPT ![s].at = "gone", ![s].alive = FALSE]
    /\ tab' = [c \in Tabs |-> IF tab[c].sock = s THEN [tab[c] EXCEPT !.sock = 0] ELSE tab[c]]
    /\ UNCHANGED <<room, row, count>>

\* One message of the socket: code goes to the others, chat to everybody.
Receive(s) ==
    LET m == Head(socks[s].up)
        rest == [socks[s] EXCEPT !.up = Tail(@)]
    IN  /\ socks[s].at = "serve"
        /\ socks[s].up # <<>>
        /\ \/ /\ m.type = "code"
              /\ room' = [room EXCEPT !.code = m.code]
              /\ socks' = [socks EXCEPT ![s] =
                   Broadcast(rest, "send", [type |-> "code", code |-> m.code,
                                            from |-> Role(socks[s].tab)], Joined \ {s})]
           \/ /\ m.type = "chat"
              /\ room' = [room EXCEPT !.chat = Append(@, m.item)]
              /\ socks' = [socks EXCEPT ![s] = Broadcast(rest, "send", m, Joined)]
        /\ UNCHANGED <<tab, row, count>>

\* One send of a broadcast; the presence is read when it is sent, the rest when
\* the broadcast began.  A send to a broken socket is lost.
Send(s, t) ==
    LET m == IF socks[s].msg.type = "presence"
             THEN [type |-> "presence", presence |-> room.presence] ELSE socks[s].msg
    IN  /\ t \in socks[s].todo
        /\ socks' = LET sent == [socks EXCEPT ![t] = Push(@, m)]
                    IN  [sent EXCEPT ![s] = Broadcast(@, @.at, @.msg, @.todo \ {t})]
        /\ UNCHANGED <<room, tab, row, count>>

\* receive_text finds the socket closed: the finally block.
Leave(s) ==
    /\ socks[s].at = "serve"
    /\ ~socks[s].alive
    /\ socks[s].up = <<>>
    /\ room' = [room EXCEPT !.presence = @ \ {Role(socks[s].tab)}]
    /\ socks' = [socks EXCEPT ![s] =
         Broadcast(@, "leave", [type |-> "presence"], Joined \ {s})]
    /\ UNCHANGED <<tab, row, count>>

\* A socket closed before its handler accepted it.
Forget(s) ==
    /\ socks[s].at = "open"
    /\ ~socks[s].alive
    /\ socks' = [socks EXCEPT ![s].at = "gone"]
    /\ UNCHANGED <<room, tab, row, count>>

Restart ==
    /\ count.restarts < MaxRestarts
    /\ CanReconnect(Tabs)
    /\ count' = [count EXCEPT !.restarts = @ + 1]
    /\ room' = NewRoom
    /\ socks' = [s \in DOMAIN socks |->
         [NewSock(socks[s].tab) EXCEPT !.at = "gone", !.alive = FALSE]]
    /\ tab' = [c \in Tabs |-> [tab[c] EXCEPT !.sock = 0]]
    /\ UNCHANGED row

\* Everything sent has arrived.
Settled ==
    \A s \in DOMAIN socks : /\ socks[s].up = <<>> /\ socks[s].down = <<>>
                            /\ socks[s].at \in {"serve", "gone"}

-----------------------------------------------------------------------------
(* The page                                                                *)

\* setCode(v): the effect on [code] starts the 50 ms timer if the guard is up.
Show(t, v) ==
    [t EXCEPT !.code = v,
              !.guard = IF v # t.code /\ @ = "stuck" THEN "timer" ELSE @]

\* Remote text is dropped while the guard is up.
ShowRemoteGuarded(t, v) ==
    IF t.guard = "timer" THEN t
    ELSE [t EXCEPT !.code = v, !.guard = IF v # t.code THEN "timer" ELSE "stuck"]

\* applyingRemote.current = true; setCode(v).  Setting the same text renders
\* nothing, so that no effect runs and no timer clears the guard.
ShowRemote(t, v) ==
    [t EXCEPT !.code = v,
              !.guard = IF v # t.code THEN "timer" ELSE IF @ = "timer" THEN @ ELSE "stuck"]

\* The answer of GET /live/rooms/{token}, whenever it comes.
LoadRoom(c) ==
    /\ ~tab[c].loaded
    /\ ~row.ended
    /\ tab' = [tab EXCEPT ![c] = [Show(@, 0) EXCEPT !.loaded = TRUE]]
    /\ UNCHANGED <<room, socks, row, count>>

\* No reconnection.
ConnectOnce(c) ==
    /\ tab[c].sock = 0
    /\ \A s \in DOMAIN socks : socks[s].tab # c
    /\ Len(socks) < MaxSockets
    /\ socks' = Append(socks, NewSock(c))
    /\ tab' = [tab EXCEPT ![c].sock = Len(socks')]
    /\ UNCHANGED <<room, row, count>>

\* connect, at first and by the timer of scheduleReconnect.
Connect(c) ==
    /\ tab[c].sock = 0
    /\ ~tab[c].ended
    /\ Len(socks) < MaxSockets
    /\ Typing = "turns" => Settled
    /\ HalfOpen \/ \A s \in DOMAIN socks : socks[s].tab = c => socks[s].at = "gone"
    /\ socks' = Append(socks, NewSock(c))
    /\ tab' = [tab EXCEPT ![c].sock = Len(socks')]
    /\ UNCHANGED <<room, row, count>>

\* handleMessage.
Deliver(c) ==
    LET s == tab[c].sock
        m == Head(socks[s].down)
        Up(k) == [socks EXCEPT ![s].down = Tail(@), ![s].up = @ \o k]
    IN  /\ s # 0
        /\ socks[s].down # <<>>
        /\ \/ /\ m.type = "hello"
              /\ LET t == [tab[c] EXCEPT !.chat = m.state.chat,
                                         !.presence = m.state.presence]
                     push == /\ t.code # NoCode
                             /\ m.state.code \in {NoCode, t.code}
                 IN  /\ tab' = [tab EXCEPT ![c] = IF m.state.code = NoCode THEN t
                                                 ELSE ShowRemote(t, m.state.code)]
                     /\ socks' = Up(IF push THEN <<[type |-> "code", code |-> t.code]>>
                                    ELSE <<>>)
           \/ /\ m.type = "code"
              /\ tab' = IF m.from = Role(c) THEN tab
                        ELSE [tab EXCEPT ![c] = ShowRemote(@, m.code)]
              /\ socks' = Up(<<>>)
           \/ /\ m.type = "chat"
              /\ tab' = [tab EXCEPT ![c].chat = Append(@, m.item)]
              /\ socks' = Up(<<>>)
           \/ /\ m.type = "presence"
              /\ tab' = [tab EXCEPT ![c].presence = m.presence]
              /\ socks' = Up(<<>>)
        /\ UNCHANGED <<room, row, count>>

\* readyState OPEN: the handler accepted and the tab has not lost the socket.
IsOpen(c) == tab[c].sock # 0 /\ socks[tab[c].sock].at # "open"

Greeted(c) ==
    IsOpen(c) => LET down == socks[tab[c].sock].down
                 IN  \A i \in DOMAIN down : down[i].type # "hello"

\* A keystroke: setCode and broadcastCode.
Edit(c) ==
    /\ c \in Editors
    /\ tab[c].loaded /\ ~tab[c].ended
    /\ count.edits < MaxEdits
    /\ Typing # "any" => tab[c].guard = "clear" /\ Greeted(c)
    /\ Typing = "turns" => Settled /\ \A d \in Tabs : tab[d].loaded
    /\ count' = [count EXCEPT !.edits = @ + 1]
    /\ LET v == count.edits + 1
       IN  /\ tab' = [tab EXCEPT ![c].code = v,
                                 ![c].guard = IF @ = "clear" THEN "clear" ELSE "timer"]
           /\ socks' = IF IsOpen(c) /\ tab[c].guard = "clear"
                       THEN [socks EXCEPT ![tab[c].sock].up = Append(@, [type |-> "code", code |-> v])]
                       ELSE socks
    /\ UNCHANGED <<room, row>>

\* The timer of the guard: applyingRemote.current = false.
ClearGuard(c) ==
    /\ tab[c].guard = "timer"
    /\ tab' = [tab EXCEPT ![c].guard = "clear"]
    /\ UNCHANGED <<room, socks, row, count>>

SendChat(c) ==
    /\ IsOpen(c)
    /\ ~tab[c].ended
    /\ count.chats < MaxChats
    /\ count' = [count EXCEPT !.chats = @ + 1]
    /\ socks' = [socks EXCEPT ![tab[c].sock].up =
                   Append(@, [type |-> "chat", item |-> count.chats + 1])]
    /\ UNCHANGED <<room, tab, row>>

\* The tab loses its socket, and the server what it has not received of it
\* from some point on.
Drop(c) ==
    LET s == tab[c].sock
    IN  /\ s # 0
        /\ CanReconnect({c})
        /\ \E n \in 0..Len(socks[s].up) :
             socks' = [socks EXCEPT ![s].alive = FALSE, ![s].down = <<>>,
                                    ![s].up = SubSeq(@, 1, n)]
        /\ tab' = [tab EXCEPT ![c].sock = 0]
        /\ UNCHANGED <<room, row, count>>

\* end_room
RowEnded(code) == row' = [ended |-> TRUE, final |-> code]

\* endRoom: POST /rooms/{token}/end with the code the recruiter sees; the page
\* then closes its socket and stays closed.
EndRoom(c) ==
    LET s == tab[c].sock
    IN  /\ c \in Recruiters
        /\ tab[c].loaded
        /\ ~row.ended
        /\ RowEnded(tab[c].code)
        /\ tab' = [tab EXCEPT ![c].ended = TRUE, ![c].sock = 0]
        /\ socks' = IF s = 0 THEN socks
                    ELSE [socks EXCEPT ![s].alive = FALSE, ![s].down = <<>>]
        /\ UNCHANGED <<room, count>>

-----------------------------------------------------------------------------
Handler(s) ==
    \/ Accept(s) \/ Refuse(s) \/ Receive(s) \/ Leave(s) \/ Forget(s)
    \/ \E t \in DOMAIN socks : Send(s, t)

Page(c) == LoadRoom(c) \/ Connect(c) \/ Deliver(c) \/ ClearGuard(c)
User(c) == Edit(c) \/ SendChat(c) \/ Drop(c) \/ EndRoom(c)

Next ==
    \/ \E s \in DOMAIN socks : Handler(s)
    \/ \E c \in Tabs : Page(c) \/ User(c)
    \/ Restart

\* The event loop runs every handler that can go on, the network delivers, the
\* page reconnects; nothing makes a user act.
Fairness ==
    /\ \A s \in 1..MaxSockets : WF_vars(s \in DOMAIN socks /\ Handler(s))
    /\ \A c \in Tabs : WF_vars(Deliver(c)) /\ WF_vars(Connect(c)) /\ WF_vars(LoadRoom(c))

Spec == Init /\ [][Next]_vars
SpecJoined == InitJoined /\ [][Next]_vars
FairSpecJoined == SpecJoined /\ Fairness

-----------------------------------------------------------------------------
Roles == {"recruiter", "candidate"}
Handlers == {"open", "serve", "send", "leave", "gone"}

\* Types; a handler has receivers left exactly while it broadcasts, and a page
\* uses a socket of its own that is not over.
TypeOK ==
    /\ room.code \in -1..MaxEdits
    /\ room.chat \in Seq(1..MaxChats)
    /\ room.presence \subseteq Roles
    /\ \A s \in DOMAIN socks :
         /\ socks[s].tab \in Tabs
         /\ socks[s].at \in Handlers
         /\ socks[s].todo \subseteq DOMAIN socks
         /\ socks[s].todo # {} <=> socks[s].at \in {"send", "leave"}
    /\ \A c \in Tabs :
         /\ tab[c].code \in -1..MaxEdits
         /\ tab[c].guard \in {"clear", "timer", "stuck"}
         /\ tab[c].sock \in 0..Len(socks)
         /\ tab[c].sock # 0 => /\ socks[tab[c].sock].tab = c
                               /\ socks[tab[c].sock].at # "gone"
    /\ row \in [ended : BOOLEAN, final : -1..MaxEdits]

\* Nothing is on its way, every page is loaded and served, and nobody else is.
Quiet ==
    /\ Settled
    /\ \A s \in Joined : socks[s].alive
    /\ \A c \in Tabs : tab[c].loaded /\ tab[c].sock # 0

\* A page that joins now shows the room's code, or the starter code if the room
\* has none yet.
Agreed == \A c \in Tabs : tab[c].code = IF room.code = NoCode THEN 0 ELSE room.code

\* The same messages, each as often, in any order.
ChatShared ==
    \A c \in Tabs : /\ Len(tab[c].chat) = Len(room.chat)
                    /\ ToSet(tab[c].chat) = ToSet(room.chat)

\* Once nothing is on its way, every page shows the code the server hands to the
\* next one that joins, however sockets broke and came back; and its chat, up to
\* the order: a message is neither lost nor doubled by a page that joins while
\* it is broadcast.
QuietAgree ==
    Quiet => Agreed /\ ChatShared

\* Once nothing is on its way and every loss is noticed, every page that is
\* connected shows who is connected.
QuietPresence ==
    (Settled /\ \A s \in Joined : socks[s].alive)
      => LET here == {c \in Tabs : tab[c].sock # 0}
         IN  \A c \in here : tab[c].presence = {Role(d) : d \in here}

\* When edits and losses stop, every page comes back and shows the room's code.
EventuallyAgree ==
    <>[](row.ended \/ (Agreed /\ \A c \in Tabs : tab[c].sock # 0))

\* A keystroke on a connected page is broadcast, unless the timer of the guard
\* against echoes is still running.
KeystrokeSent ==
    [][\A c \in Tabs :
         /\ count'.edits # count.edits /\ tab'[c].code = count'.edits
         /\ IsOpen(c) /\ tab[c].guard # "timer"
         => socks'[tab[c].sock].up # socks[tab[c].sock].up]_vars

\* Ending the room ends it for everyone: no edit changes the shared code after.
EndedForEveryone == [][row.ended => room'.code = room.code]_vars
=============================================================================
