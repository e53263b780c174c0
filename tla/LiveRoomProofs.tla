---------------------------- MODULE LiveRoomProofs ----------------------------
(***************************************************************************)
(* What holds of LiveRoom for every number of sockets, edits, messages and *)
(* restarts: pages show who is connected, miss and double no chat message, *)
(* and end up on the room's code if their users take turns.                *)
(***************************************************************************)
EXTENDS LiveRoom, SequenceTheorems, FiniteSetTheorems, TLAPS

-----------------------------------------------------------------------------
(* What is stored and sent.                                                *)

Versions == 0..MaxEdits
Items == 1..MaxChats
State == [code : Versions \cup {NoCode}, chat : Seq(Items), presence : SUBSET Roles]
Chat == [type : {"chat"}, item : Items]
CodeCast == [type : {"code"}, code : Versions, from : Roles]
Up == [type : {"code"}, code : Versions] \cup Chat
Cast == [type : {"none", "presence"}] \cup CodeCast \cup Chat
Down == [type : {"hello"}, state : State] \cup [type : {"presence"}, presence : SUBSET Roles]
        \cup CodeCast \cup Chat

Sock == [tab : Tabs, up : Seq(Up), down : Seq(Down), alive : BOOLEAN, at : Handlers,
         todo : SUBSET Nat, msg : Cast]
Tab == [sock : Nat, code : Versions \cup {NoCode}, chat : Seq(Items), presence : SUBSET Roles,
        guard : {"clear", "timer", "stuck"}, loaded : BOOLEAN, ended : BOOLEAN]

Typed ==
    /\ room \in State
    /\ socks \in Seq(Sock)
    /\ tab \in [Tabs -> Tab]
    /\ row \in [ended : BOOLEAN, final : Versions \cup {NoCode}]
    /\ count \in [edits : Versions, chats : 0..MaxChats, restarts : Nat]

\* Where a page joins, it is told the state of the room first.
Hellos(q) == {i \in DOMAIN q : q[i].type = "hello"}

Handled(s) ==
    /\ socks[s].todo \subseteq DOMAIN socks
    /\ socks[s].todo # {} <=> socks[s].at \in {"send", "leave"}
    /\ socks[s].todo = {} <=> socks[s].msg.type = "none"
    /\ socks[s].at = "leave" => socks[s].msg.type = "presence"
    /\ socks[s].at = "open" => socks[s].up = <<>> /\ socks[s].down = <<>>
    /\ socks[s].at \in {"leave", "gone"} => socks[s].up = <<>> /\ ~socks[s].alive
    /\ ~socks[s].alive => socks[s].down = <<>>
    /\ socks[s].alive => tab[socks[s].tab].sock = s
    /\ Hellos(socks[s].down) \subseteq {1}
    /\ \A t \in socks[s].todo : socks[t].at # "open"

Uses(c) ==
    tab[c].sock # 0 => /\ tab[c].sock \in DOMAIN socks
                       /\ socks[tab[c].sock].tab = c /\ socks[tab[c].sock].alive

Shapes == Typed /\ (\A s \in DOMAIN socks : Handled(s)) /\ \A c \in Tabs : Uses(c)

-----------------------------------------------------------------------------
(* Queues.                                                                 *)

LEMMA Appended ==
    ASSUME NEW S, NEW q \in Seq(S), NEW m \in S
    PROVE  /\ Append(q, m) \in Seq(S)
           /\ DOMAIN Append(q, m) = DOMAIN q \cup {Len(q) + 1}
           /\ Len(q) + 1 \notin DOMAIN q
           /\ \A i \in DOMAIN q : Append(q, m)[i] = q[i] /\ i < Len(q) + 1
           /\ Append(q, m)[Len(q) + 1] = m
BY AppendProperties, LenProperties

LEMMA Shifted ==
    ASSUME NEW S, NEW q \in Seq(S), q # <<>>
    PROVE  /\ Tail(q) \in Seq(S) /\ 1 \in DOMAIN q /\ Head(q) = q[1] /\ q[1] \in S
           /\ \A i \in DOMAIN Tail(q) : i + 1 \in DOMAIN q /\ Tail(q)[i] = q[i + 1] /\ i \in Nat \ {0}
           /\ \A i \in DOMAIN q : i # 1 => i - 1 \in DOMAIN Tail(q)
BY HeadTailProperties, LenProperties

LEMMA Cut ==
    ASSUME NEW S, NEW q \in Seq(S), NEW n \in 0..Len(q)
    PROVE  /\ SubSeq(q, 1, n) \in Seq(S)
           /\ \A i \in DOMAIN SubSeq(q, 1, n) : i \in DOMAIN q /\ SubSeq(q, 1, n)[i] = q[i]
BY SubSeqProperties, LenProperties

LEMMA MessageTypes ==
    /\ \A m \in Up : /\ m.type \in {"code", "chat"}
                     /\ m.type = "code" => m.code \in Versions
                     /\ m.type = "chat" => m.item \in Items /\ m \in Chat
    /\ \A m \in Cast : /\ m.type \in {"none", "presence", "code", "chat"}
                       /\ m.type = "code" => m \in CodeCast /\ m.code \in Versions /\ m.from \in Roles
                       /\ m.type = "chat" => m \in Chat /\ m.item \in Items
    /\ \A m \in Down : /\ m.type \in {"hello", "presence", "code", "chat"}
                       /\ m.type = "hello" => m.state \in State
                       /\ m.type = "presence" => m.presence \in SUBSET Roles
                       /\ m.type = "code" => m.code \in Versions /\ m.from \in Roles
                       /\ m.type = "chat" => m.item \in Items
BY DEF Up, Cast, Down, CodeCast, Chat

-----------------------------------------------------------------------------
(* What a handler does to its socket.                                      *)

LEMMA OneChanges ==
    ASSUME Typed, NEW s \in DOMAIN socks, NEW new \in Sock, socks' = [socks EXCEPT ![s] = new]
    PROVE  /\ socks' \in Seq(Sock) /\ DOMAIN socks' = DOMAIN socks /\ Len(socks') = Len(socks)
           /\ socks'[s] = new
           /\ \A t \in DOMAIN socks \ {s} : socks'[t] = socks[t]
BY DEF Typed

LEMMA Pushed ==
    ASSUME NEW k \in Sock, NEW m \in Down
    PROVE  /\ Push(k, m) \in Sock
           /\ Push(k, m) = [k EXCEPT !.down = IF k.alive THEN Append(k.down, m) ELSE k.down]
<1>1. k.down \in Seq(Down) /\ Append(k.down, m) \in Seq(Down)
    BY Appended DEF Sock
<1>2. QED
    BY <1>1 DEF Push, Sock

LEMMA Casts ==
    ASSUME NEW k \in Sock, NEW at \in {"send", "leave"}, NEW m \in Cast, NEW todo \in SUBSET Nat
    PROVE  LET b == Broadcast(k, at, m, todo)
           IN  /\ b \in Sock
               /\ b.tab = k.tab /\ b.up = k.up /\ b.down = k.down /\ b.alive = k.alive
               /\ b.todo = todo
               /\ todo # {} => b.at = at /\ b.msg = m
               /\ todo = {} => /\ b.at = IF at = "send" THEN "serve" ELSE "gone"
                               /\ b.msg.type = "none"
<1>1. [type |-> "none"] \in Cast
    BY DEF Cast
<1>2. QED
    BY <1>1 DEF Broadcast, Sock, Handlers

-----------------------------------------------------------------------------
(* The steps, socket by socket and field by field.                         *)

\* Only s is touched, and stays the connection of its tab.
Frame(s) ==
    /\ s \in DOMAIN socks /\ DOMAIN socks' = DOMAIN socks /\ socks' \in Seq(Sock)
    /\ \A t \in DOMAIN socks : t # s => socks'[t] = socks[t]
    /\ socks'[s].tab = socks[s].tab

\* The handler of s stays where it is.
Waits(s) ==
    /\ socks'[s].at = socks[s].at /\ socks'[s].todo = socks[s].todo
    /\ socks'[s].msg = socks[s].msg

Line(s) == socks'[s].alive = socks[s].alive /\ socks'[s].down = socks[s].down

\* The handler of s starts a broadcast of m to the sockets in todo.
Starts(s, at, m, todo) ==
    /\ socks'[s].todo = todo
    /\ todo # {} => socks'[s].at = at /\ socks'[s].msg = m
    /\ todo = {} => /\ socks'[s].at = IF at = "send" THEN "serve" ELSE "gone"
                    /\ socks'[s].msg.type = "none"

LEMMA SocketTypes ==
    ASSUME Typed, NEW s \in DOMAIN socks
    PROVE  /\ socks[s] \in Sock /\ s \in Nat /\ s > 0 /\ Role(socks[s].tab) \in Roles
           /\ Joined \in SUBSET DOMAIN socks /\ Joined \in SUBSET Nat /\ Joined \cup {s} \in SUBSET Nat
           /\ Joined \ {s} \in SUBSET Nat
BY LenProperties DEF Typed, Joined, Role, Roles

LEMMA AcceptStep ==
    ASSUME Typed, NEW s \in DOMAIN socks, Accept(s)
    PROVE  /\ Frame(s) /\ socks[s].at = "open" /\ ~row.ended
           /\ room' \in State /\ room'.code = room.code /\ room'.chat = room.chat
           /\ room'.presence = room.presence \cup {Role(socks[s].tab)}
           /\ Starts(s, "send", [type |-> "presence"], Joined \cup {s})
           /\ socks'[s].up = socks[s].up /\ socks'[s].alive = socks[s].alive
           /\ ~socks[s].alive => socks'[s].down = socks[s].down
           /\ socks[s].alive =>
                socks'[s].down = Append(socks[s].down, [type |-> "hello", state |-> room'])
           /\ UNCHANGED <<tab, row, count>>
<1> DEFINE hello == [type |-> "hello", state |-> room']
           m == [type |-> "presence"]
<1>1. room' = [room EXCEPT !.presence = @ \cup {Role(socks[s].tab)}]
    BY DEF Accept
<1>2. /\ room' \in State /\ room'.code = room.code /\ room'.chat = room.chat
      /\ room'.presence = room.presence \cup {Role(socks[s].tab)}
    BY <1>1, SocketTypes DEF Typed, State
<1>3. hello \in Down /\ m \in Cast
    BY <1>2 DEF Down, Cast
<1>a. /\ Push(socks[s], hello) \in Sock
      /\ Push(socks[s], hello)
           = [socks[s] EXCEPT !.down = IF socks[s].alive THEN Append(socks[s].down, hello)
                                       ELSE socks[s].down]
    <2> HIDE DEF hello
    <2> QED BY <1>3, SocketTypes, Pushed
<1>4. /\ Push(socks[s], hello) \in Sock
      /\ Push(socks[s], hello).tab = socks[s].tab /\ Push(socks[s], hello).up = socks[s].up
      /\ Push(socks[s], hello).alive = socks[s].alive
      /\ Push(socks[s], hello).down
           = IF socks[s].alive THEN Append(socks[s].down, hello) ELSE socks[s].down
    <2> HIDE DEF hello
    <2> QED BY <1>a, SocketTypes DEF Sock
<1> DEFINE new == Broadcast(Push(socks[s], hello), "send", m, Joined \cup {s})
<1>5. socks' = [socks EXCEPT ![s] = new]
    BY <1>1 DEF Accept
<1>6. /\ new \in Sock /\ new.tab = socks[s].tab /\ new.up = socks[s].up
      /\ new.alive = socks[s].alive /\ new.down = Push(socks[s], hello).down
      /\ new.todo = Joined \cup {s} /\ new.at = "send" /\ new.msg = m
    <2> DEFINE k == Push(socks[s], hello)
               todo == Joined \cup {s}
    <2>1. k \in Sock /\ m \in Cast /\ todo \in SUBSET Nat /\ todo # {}
        BY <1>3, <1>4, SocketTypes
    <2>2. k.tab = socks[s].tab /\ k.up = socks[s].up /\ k.alive = socks[s].alive
        BY <1>4
    <2> HIDE DEF k, m, todo
    <2>3. LET b == Broadcast(k, "send", m, todo)
          IN  /\ b \in Sock
              /\ b.tab = k.tab /\ b.up = k.up /\ b.down = k.down /\ b.alive = k.alive
              /\ b.todo = todo /\ b.at = "send" /\ b.msg = m
        BY <2>1, Casts
    <2>4. QED
        BY <2>2, <2>3 DEF k, todo
<1>7. /\ socks' \in Seq(Sock) /\ DOMAIN socks' = DOMAIN socks /\ socks'[s] = new
      /\ \A t \in DOMAIN socks \ {s} : socks'[t] = socks[t]
    <2> HIDE DEF new
    <2> QED BY <1>5, <1>6, OneChanges
<1> HIDE DEF new
<1>8. QED
    BY <1>2, <1>4, <1>6, <1>7 DEF Accept, Frame, Starts

LEMMA RefuseStep ==
    ASSUME Typed, NEW s \in DOMAIN socks, Refuse(s) \/ Forget(s)
    PROVE  /\ Frame(s) /\ socks[s].at = "open" /\ socks'[s].at = "gone" /\ ~socks'[s].alive
           /\ socks'[s].up = socks[s].up /\ socks'[s].down = socks[s].down
           /\ socks'[s].todo = socks[s].todo /\ socks'[s].msg = socks[s].msg
           /\ tab' \in [Tabs -> Tab]
           /\ \A c \in Tabs : \/ tab[c].sock # s /\ tab'[c] = tab[c]
                              \/ tab[c].sock = s /\ ~socks[s].alive /\ tab'[c] = tab[c]
                              \/ tab[c].sock = s /\ tab'[c] = [tab[c] EXCEPT !.sock = 0]
           /\ UNCHANGED <<room, row, count>>
<1>1. CASE Refuse(s)
    <2> DEFINE new == [socks[s] EXCEPT !.at = "gone", !.alive = FALSE]
    <2>1. socks' = [socks EXCEPT ![s] = new]
        BY <1>1 DEF Refuse, Typed
    <2>2. new \in Sock /\ new.tab = socks[s].tab /\ new.up = socks[s].up /\ new.down = socks[s].down
          /\ new.todo = socks[s].todo /\ new.msg = socks[s].msg /\ new.at = "gone" /\ ~new.alive
        BY SocketTypes DEF Sock, Handlers
    <2>3. /\ socks' \in Seq(Sock) /\ DOMAIN socks' = DOMAIN socks /\ socks'[s] = new
          /\ \A t \in DOMAIN socks \ {s} : socks'[t] = socks[t]
        <3> HIDE DEF new
        <3> QED BY <2>1, <2>2, OneChanges
    <2> HIDE DEF new
    <2>4. /\ tab' \in [Tabs -> Tab]
          /\ \A c \in Tabs : tab'[c] = IF tab[c].sock = s THEN [tab[c] EXCEPT !.sock = 0] ELSE tab[c]
        <3>1. tab' = [c \in Tabs |-> IF tab[c].sock = s THEN [tab[c] EXCEPT !.sock = 0] ELSE tab[c]]
            BY <1>1 DEF Refuse
        <3>2. \A c \in Tabs : tab[c] \in Tab /\ [tab[c] EXCEPT !.sock = 0] \in Tab
            BY DEF Typed, Tab
        <3>3. QED
            BY <3>1, <3>2
    <2>5. QED
        BY <1>1, <2>2, <2>3, <2>4 DEF Refuse, Frame
<1>2. CASE Forget(s)
    <2> DEFINE new == [socks[s] EXCEPT !.at = "gone"]
    <2>1. socks' = [socks EXCEPT ![s] = new]
        BY <1>2 DEF Forget
    <2>2. new \in Sock /\ new.tab = socks[s].tab /\ new.up = socks[s].up /\ new.down = socks[s].down
          /\ new.todo = socks[s].todo /\ new.msg = socks[s].msg /\ new.at = "gone" /\ ~new.alive
        BY <1>2, SocketTypes DEF Forget, Sock, Handlers
    <2>3. /\ socks' \in Seq(Sock) /\ DOMAIN socks' = DOMAIN socks /\ socks'[s] = new
          /\ \A t \in DOMAIN socks \ {s} : socks'[t] = socks[t]
        <3> HIDE DEF new
        <3> QED BY <2>1, <2>2, OneChanges
    <2> HIDE DEF new
    <2>4. QED
        BY <1>2, <2>2, <2>3 DEF Forget, Frame, Typed
<1>3. QED
    BY <1>1, <1>2

LEMMA ReceiveStep ==
    ASSUME Typed, NEW s \in DOMAIN socks, Receive(s)
    PROVE  /\ Frame(s) /\ socks[s].at = "serve" /\ socks[s].up # <<>>
           /\ room' \in State /\ room'.presence = room.presence
           /\ socks'[s].up = Tail(socks[s].up) /\ Line(s)
           /\ Head(socks[s].up) \in Up
           /\ \/ /\ Head(socks[s].up).type = "code"
                 /\ room'.code = Head(socks[s].up).code /\ room'.chat = room.chat
                 /\ Starts(s, "send", [type |-> "code", code |-> room'.code,
                                       from |-> Role(socks[s].tab)], Joined \ {s})
              \/ /\ Head(socks[s].up).type = "chat"
                 /\ room'.chat = Append(room.chat, Head(socks[s].up).item) /\ room'.code = room.code
                 /\ Starts(s, "send", Head(socks[s].up), Joined)
           /\ UNCHANGED <<tab, row, count>>
<1> DEFINE m == Head(socks[s].up)
           rest == [socks[s] EXCEPT !.up = Tail(@)]
<1>1. /\ m \in Up /\ rest \in Sock /\ rest.tab = socks[s].tab /\ rest.up = Tail(socks[s].up)
      /\ rest.down = socks[s].down /\ rest.alive = socks[s].alive
    <2>1. socks[s].up \in Seq(Up) /\ socks[s].up # <<>>
        BY SocketTypes DEF Receive, Sock
    <2>2. Tail(socks[s].up) \in Seq(Up) /\ m \in Up
        BY <2>1, HeadTailProperties
    <2>3. QED
        BY <2>2, SocketTypes DEF Sock
<1>2. CASE m.type = "code"
    <2> DEFINE cast == [type |-> "code", code |-> m.code, from |-> Role(socks[s].tab)]
               new == Broadcast(rest, "send", cast, Joined \ {s})
    <2>1. socks' = [socks EXCEPT ![s] = new] /\ room' = [room EXCEPT !.code = m.code]
        BY <1>2 DEF Receive
    <2>2. cast \in Cast /\ room' \in State /\ room'.code = m.code
          /\ room'.chat = room.chat /\ room'.presence = room.presence
        <3>1. m.code \in Versions
            BY <1>1, <1>2, MessageTypes
        <3>2. QED
            BY <2>1, <3>1, SocketTypes DEF Typed, State, Cast, CodeCast
    <2>3. /\ new \in Sock /\ new.tab = rest.tab /\ new.up = rest.up /\ new.down = rest.down
          /\ new.alive = rest.alive /\ new.todo = Joined \ {s}
          /\ Joined \ {s} # {} => new.at = "send" /\ new.msg = cast
          /\ Joined \ {s} = {} => new.at = "serve" /\ new.msg.type = "none"
        <3>1. (Joined \ {s}) \in SUBSET Nat /\ rest \in Sock /\ cast \in Cast
            BY <1>1, <2>2, SocketTypes
        <3> HIDE DEF rest, cast
        <3> QED BY <3>1, Casts
    <2>4. /\ socks' \in Seq(Sock) /\ DOMAIN socks' = DOMAIN socks /\ socks'[s] = new
          /\ \A t \in DOMAIN socks \ {s} : socks'[t] = socks[t]
        <3> HIDE DEF new
        <3> QED BY <2>1, <2>3, OneChanges
    <2>5. Starts(s, "send", cast, Joined \ {s})
        <3> HIDE DEF new, cast
        <3> QED BY <2>3, <2>4 DEF Starts
    <2> HIDE DEF new, rest
    <2>6. QED
        BY <1>1, <1>2, <2>2, <2>3, <2>4, <2>5 DEF Receive, Frame, Line
<1>3. CASE m.type = "chat"
    <2> DEFINE new == Broadcast(rest, "send", m, Joined)
    <2>1. socks' = [socks EXCEPT ![s] = new] /\ room' = [room EXCEPT !.chat = Append(room.chat, m.item)]
        BY <1>3 DEF Receive
    <2>2. m \in Cast /\ room' \in State /\ room'.code = room.code
          /\ room'.chat = Append(room.chat, m.item) /\ room'.presence = room.presence
        <3>1. m \in Chat /\ m.item \in Items
            BY <1>1, <1>3, MessageTypes
        <3>2. Append(room.chat, m.item) \in Seq(Items)
            BY <3>1, AppendProperties DEF Typed, State
        <3>3. QED
            BY <2>1, <3>1, <3>2 DEF Typed, State, Cast
    <2>3. /\ new \in Sock /\ new.tab = rest.tab /\ new.up = rest.up /\ new.down = rest.down
          /\ new.alive = rest.alive /\ new.todo = Joined
          /\ Joined # {} => new.at = "send" /\ new.msg = m
          /\ Joined = {} => new.at = "serve" /\ new.msg.type = "none"
        <3>1. Joined \in SUBSET Nat /\ rest \in Sock /\ m \in Cast
            BY <1>1, <2>2, SocketTypes
        <3> HIDE DEF rest, m
        <3> QED BY <3>1, Casts
    <2>4. /\ socks' \in Seq(Sock) /\ DOMAIN socks' = DOMAIN socks /\ socks'[s] = new
          /\ \A t \in DOMAIN socks \ {s} : socks'[t] = socks[t]
        <3> HIDE DEF new
        <3> QED BY <2>1, <2>3, OneChanges
    <2>5. Starts(s, "send", m, Joined)
        <3> HIDE DEF new, m
        <3> QED BY <2>3, <2>4 DEF Starts
    <2> HIDE DEF new, rest
    <2>6. QED
        BY <1>1, <1>3, <2>2, <2>3, <2>4, <2>5 DEF Receive, Frame, Line
<1>4. QED
    BY <1>1, <1>2, <1>3, MessageTypes

LEMMA LeaveStep ==
    ASSUME Typed, NEW s \in DOMAIN socks, Leave(s)
    PROVE  /\ Frame(s) /\ socks[s].at = "serve" /\ ~socks[s].alive /\ socks[s].up = <<>>
           /\ room' \in State /\ room'.code = room.code /\ room'.chat = room.chat
           /\ room'.presence = room.presence \ {Role(socks[s].tab)}
           /\ socks'[s].up = socks[s].up /\ Line(s)
           /\ Starts(s, "leave", [type |-> "presence"], Joined \ {s})
           /\ UNCHANGED <<tab, row, count>>
<1> DEFINE m == [type |-> "presence"]
           new == Broadcast(socks[s], "leave", m, Joined \ {s})
<1>1. /\ room' \in State /\ room'.code = room.code /\ room'.chat = room.chat
      /\ room'.presence = room.presence \ {Role(socks[s].tab)}
    BY SocketTypes DEF Leave, Typed, State
<1>2. socks' = [socks EXCEPT ![s] = new] /\ m \in Cast
    BY DEF Leave, Cast
<1>3. /\ new \in Sock /\ new.tab = socks[s].tab /\ new.up = socks[s].up /\ new.down = socks[s].down
      /\ new.alive = socks[s].alive /\ new.todo = Joined \ {s}
      /\ Joined \ {s} # {} => new.at = "leave" /\ new.msg = m
      /\ Joined \ {s} = {} => new.at = "gone" /\ new.msg.type = "none"
    <2> HIDE DEF m
    <2> QED BY <1>2, SocketTypes, Casts
<1>4. /\ socks' \in Seq(Sock) /\ DOMAIN socks' = DOMAIN socks /\ socks'[s] = new
      /\ \A t \in DOMAIN socks \ {s} : socks'[t] = socks[t]
    <2> HIDE DEF new
    <2> QED BY <1>2, <1>3, OneChanges
<1>5. Starts(s, "leave", m, Joined \ {s})
    <2> HIDE DEF new, m
    <2> QED BY <1>3, <1>4 DEF Starts
<1> HIDE DEF new
<1>6. QED
    BY <1>1, <1>3, <1>4, <1>5 DEF Leave, Frame, Line

LEMMA Finishes ==
    ASSUME NEW k \in Sock, NEW todo \in SUBSET Nat, k.at \in {"send", "leave"}
    PROVE  LET b == Broadcast(k, k.at, k.msg, todo)
           IN  /\ b \in Sock
               /\ b.tab = k.tab /\ b.up = k.up /\ b.down = k.down /\ b.alive = k.alive
               /\ b.todo = todo
               /\ todo # {} => b.at = k.at /\ b.msg = k.msg
               /\ todo = {} => /\ b.at = IF k.at = "send" THEN "serve" ELSE "gone"
                               /\ b.msg.type = "none"
<1>1. k.msg \in Cast
    BY DEF Sock
<1>2. QED
    BY <1>1, Casts

\* What the handler of s sends next.
Sent(s) == IF socks[s].msg.type = "presence"
           THEN [type |-> "presence", presence |-> room.presence] ELSE socks[s].msg

LEMMA Replaced ==
    ASSUME NEW q \in Seq(Sock), NEW s \in DOMAIN q, NEW new \in Sock
    PROVE  LET r == [q EXCEPT ![s] = new]
           IN  /\ r \in Seq(Sock) /\ DOMAIN r = DOMAIN q /\ r[s] = new
               /\ \A t \in DOMAIN q : t # s => r[t] = q[t]
OBVIOUS

LEMMA SendStep ==
    ASSUME Typed, NEW s \in DOMAIN socks, Handled(s), NEW t \in DOMAIN socks, Send(s, t)
    PROVE  /\ t \in socks[s].todo /\ socks[s].at \in {"send", "leave"}
           /\ socks[s].msg.type # "none" /\ Sent(s) \in Down /\ Sent(s).type # "hello"
           /\ socks' \in Seq(Sock) /\ DOMAIN socks' = DOMAIN socks
           /\ \A u \in DOMAIN socks :
                /\ socks'[u].tab = socks[u].tab /\ socks'[u].up = socks[u].up
                /\ socks'[u].alive = socks[u].alive
                /\ u # t => socks'[u].down = socks[u].down
                /\ u # s => /\ socks'[u].at = socks[u].at /\ socks'[u].todo = socks[u].todo
                            /\ socks'[u].msg = socks[u].msg
           /\ socks'[t].down = IF socks[t].alive THEN Append(socks[t].down, Sent(s))
                               ELSE socks[t].down
           /\ Starts(s, socks[s].at, socks[s].msg, socks[s].todo \ {t})
           /\ UNCHANGED <<room, tab, row, count>>
<1> DEFINE m == Sent(s)
           sent == [socks EXCEPT ![t] = Push(socks[t], m)]
           new == Broadcast(sent[s], sent[s].at, sent[s].msg, sent[s].todo \ {t})
<1>1. t \in socks[s].todo /\ socks[s].todo # {} /\ socks[s].todo \in SUBSET Nat
      /\ socks[s].at \in {"send", "leave"} /\ socks[s].msg.type # "none" /\ socks[s].msg \in Cast
    BY SocketTypes DEF Send, Handled, Sock
<1>2. m \in Down /\ m.type # "hello"
    BY <1>1, MessageTypes DEF Sent, Typed, State, Down
<1>3. /\ Push(socks[t], m) \in Sock
      /\ Push(socks[t], m) = [socks[t] EXCEPT !.down = IF socks[t].alive THEN Append(socks[t].down, m)
                                                       ELSE socks[t].down]
    <2> HIDE DEF m
    <2> QED BY <1>2, SocketTypes, Pushed
<1>4. LET k == Push(socks[t], m)
      IN  /\ k.tab = socks[t].tab /\ k.up = socks[t].up /\ k.alive = socks[t].alive
          /\ k.at = socks[t].at /\ k.todo = socks[t].todo /\ k.msg = socks[t].msg
          /\ k.down = IF socks[t].alive THEN Append(socks[t].down, m) ELSE socks[t].down
    <2> HIDE DEF m
    <2> QED BY <1>3, SocketTypes DEF Sock
<1>5. /\ sent \in Seq(Sock) /\ DOMAIN sent = DOMAIN socks /\ sent[t] = Push(socks[t], m)
      /\ \A u \in DOMAIN socks : u # t => sent[u] = socks[u]
    BY <1>3, Replaced DEF Typed
<1>6. \A u \in DOMAIN socks :
         /\ sent[u].tab = socks[u].tab /\ sent[u].up = socks[u].up /\ sent[u].alive = socks[u].alive
         /\ sent[u].at = socks[u].at /\ sent[u].todo = socks[u].todo /\ sent[u].msg = socks[u].msg
         /\ u # t => sent[u].down = socks[u].down
    <2> HIDE DEF m, sent
    <2> QED BY <1>4, <1>5
<1>7. sent[t].down = IF socks[t].alive THEN Append(socks[t].down, m) ELSE socks[t].down
    <2> HIDE DEF m, sent
    <2> QED BY <1>4, <1>5
<1>8. socks' = [sent EXCEPT ![s] = new]
    BY DEF Send, Sent
<1>9. sent[s] \in Sock /\ (sent[s].todo \ {t}) \in SUBSET Nat /\ sent[s].at \in {"send", "leave"}
    <2> HIDE DEF sent
    <2> QED BY <1>1, <1>5, <1>6
<1>10. /\ new \in Sock /\ new.tab = sent[s].tab /\ new.up = sent[s].up /\ new.down = sent[s].down
       /\ new.alive = sent[s].alive /\ new.todo = sent[s].todo \ {t}
       /\ sent[s].todo \ {t} # {} => new.at = sent[s].at /\ new.msg = sent[s].msg
       /\ sent[s].todo \ {t} = {} => /\ new.at = IF sent[s].at = "send" THEN "serve" ELSE "gone"
                                     /\ new.msg.type = "none"
    <2> DEFINE k == sent[s]
               todo == k.todo \ {t}
    <2>1. k \in Sock /\ todo \in SUBSET Nat /\ k.at \in {"send", "leave"}
        BY <1>9
    <2> HIDE DEF k, todo
    <2>2. LET b == Broadcast(k, k.at, k.msg, todo)
          IN  /\ b \in Sock
              /\ b.tab = k.tab /\ b.up = k.up /\ b.down = k.down /\ b.alive = k.alive
              /\ b.todo = todo
              /\ todo # {} => b.at = k.at /\ b.msg = k.msg
              /\ todo = {} => /\ b.at = IF k.at = "send" THEN "serve" ELSE "gone"
                              /\ b.msg.type = "none"
        BY <2>1, Finishes
    <2>3. QED
        BY <2>2 DEF k, todo
<1>11. /\ socks' \in Seq(Sock) /\ DOMAIN socks' = DOMAIN socks /\ socks'[s] = new
       /\ \A u \in DOMAIN socks : u # s => socks'[u] = sent[u]
    <2> HIDE DEF sent, new
    <2> QED BY <1>5, <1>8, <1>10, Replaced
<1>12. Starts(s, socks[s].at, socks[s].msg, socks[s].todo \ {t})
    <2> HIDE DEF sent, new
    <2> QED BY <1>6, <1>10, <1>11 DEF Starts
<1>13. \A u \in DOMAIN socks :
         /\ socks'[u].tab = socks[u].tab /\ socks'[u].up = socks[u].up
         /\ socks'[u].alive = socks[u].alive /\ socks'[u].down = sent[u].down
         /\ u # s => /\ socks'[u].at = socks[u].at /\ socks'[u].todo = socks[u].todo
                     /\ socks'[u].msg = socks[u].msg
    <2> HIDE DEF sent, new
    <2> QED BY <1>6, <1>10, <1>11
<1>14. UNCHANGED <<room, tab, row, count>>
    BY DEF Send
<1> HIDE DEF sent, new
<1>15. QED
    BY <1>1, <1>2, <1>6, <1>7, <1>11, <1>12, <1>13, <1>14

-----------------------------------------------------------------------------
(* The steps of a page.                                                    *)

\* Only the page of c is touched.
Page1(c) ==
    /\ tab' \in [Tabs -> Tab]
    /\ \A d \in Tabs : d # c => tab'[d] = tab[d]

\* c keeps what it was told.
Hears(c) == tab'[c].chat = tab[c].chat /\ tab'[c].presence = tab[c].presence

LEMMA OnePage ==
    ASSUME Typed, NEW c \in Tabs, NEW t \in Tab, tab' = [tab EXCEPT ![c] = t]
    PROVE  Page1(c) /\ tab'[c] = t
BY DEF Typed, Page1

LEMMA Bounds == MaxSockets \in Nat /\ MaxEdits \in Nat /\ MaxChats \in Nat /\ MaxRestarts \in Nat
BY LiveAssumption

LEMMA RemoteStep ==
    ASSUME NEW t \in Tab, NEW v \in Versions
    PROVE  /\ ShowRemote(t, v) \in Tab /\ ShowRemote(t, v).code = v
           /\ ShowRemote(t, v).sock = t.sock /\ ShowRemote(t, v).chat = t.chat
           /\ ShowRemote(t, v).presence = t.presence /\ ShowRemote(t, v).loaded = t.loaded
           /\ ShowRemote(t, v).ended = t.ended
BY DEF ShowRemote, Tab

LEMMA LoadStep ==
    ASSUME Typed, NEW c \in Tabs, LoadRoom(c)
    PROVE  /\ Page1(c) /\ Hears(c) /\ ~tab[c].loaded /\ tab'[c].loaded
           /\ tab'[c].sock = tab[c].sock /\ tab'[c].code = 0
           /\ UNCHANGED <<room, socks, row, count>>
<1> DEFINE t == [Show(tab[c], 0) EXCEPT !.loaded = TRUE]
<1>1. /\ t \in Tab /\ t.sock = tab[c].sock /\ t.code = 0 /\ t.chat = tab[c].chat
      /\ t.presence = tab[c].presence /\ t.loaded
    <2>1. tab[c] \in Tab /\ 0 \in Versions
        BY Bounds DEF Typed, Versions
    <2>2. QED
        BY <2>1 DEF Show, Tab
<1>2. tab' = [tab EXCEPT ![c] = t]
    BY DEF LoadRoom
<1> HIDE DEF t
<1>3. Page1(c) /\ tab'[c] = t
    BY <1>1, <1>2, OnePage
<1>4. QED
    BY <1>1, <1>3 DEF LoadRoom, Hears

LEMMA ClearStep ==
    ASSUME Typed, NEW c \in Tabs, ClearGuard(c)
    PROVE  /\ Page1(c) /\ Hears(c) /\ tab'[c].loaded = tab[c].loaded
           /\ tab'[c].sock = tab[c].sock /\ tab'[c].code = tab[c].code
           /\ UNCHANGED <<room, socks, row, count>>
<1> DEFINE t == [tab[c] EXCEPT !.guard = "clear"]
<1>1. tab[c] \in Tab
    BY DEF Typed
<1>2. /\ t \in Tab /\ t.sock = tab[c].sock /\ t.code = tab[c].code /\ t.chat = tab[c].chat
      /\ t.presence = tab[c].presence /\ t.loaded = tab[c].loaded
    BY <1>1 DEF Tab
<1>3. tab' = [tab EXCEPT ![c] = t] /\ UNCHANGED <<room, socks, row, count>>
    BY DEF ClearGuard
<1> HIDE DEF t
<1>4. QED
    BY <1>2, <1>3, OnePage DEF Hears

LEMMA ConnectStep ==
    ASSUME Typed, NEW c \in Tabs, Connect(c)
    PROVE  /\ Page1(c) /\ Hears(c) /\ tab'[c].loaded = tab[c].loaded /\ tab'[c].code = tab[c].code
           /\ tab[c].sock = 0 /\ tab'[c].sock \notin DOMAIN socks /\ tab'[c].sock \in Nat \ {0}
           /\ socks' \in Seq(Sock) /\ DOMAIN socks' = DOMAIN socks \cup {tab'[c].sock}
           /\ \A s \in DOMAIN socks : socks'[s] = socks[s]
           /\ socks'[tab'[c].sock] = NewSock(c)
           /\ UNCHANGED <<room, row, count>>
<1>1. NewSock(c) \in Sock
    <2>1. <<>> \in Seq(Up) /\ <<>> \in Seq(Down) /\ [type |-> "none"] \in Cast
        BY DEF Cast
    <2>2. QED
        BY <2>1 DEF NewSock, Sock, Handlers
<1>2. /\ socks' \in Seq(Sock) /\ Len(socks') = Len(socks) + 1 /\ Len(socks) \in Nat
      /\ DOMAIN socks = 1..Len(socks) /\ DOMAIN socks' = 1..Len(socks')
      /\ \A s \in 1..Len(socks) : socks'[s] = socks[s]
      /\ socks'[Len(socks) + 1] = NewSock(c)
    BY <1>1, AppendProperties, LenProperties DEF Connect, Typed
<1>3. [tab[c] EXCEPT !.sock = Len(socks')] \in Tab
    <2>1. Len(socks') \in Nat /\ tab[c] \in Tab
        BY <1>2 DEF Typed
    <2>2. QED
        BY <2>1 DEF Tab
<1>4. tab' = [tab EXCEPT ![c] = [tab[c] EXCEPT !.sock = Len(socks')]]
    BY DEF Connect, Typed
<1>5. Page1(c) /\ tab'[c] = [tab[c] EXCEPT !.sock = Len(socks')]
    BY <1>3, <1>4, OnePage
<1>6. /\ tab'[c].sock = Len(socks') /\ Hears(c) /\ tab'[c].loaded = tab[c].loaded
      /\ tab'[c].code = tab[c].code
    BY <1>5 DEF Typed, Tab, Hears
<1>7. QED
    BY <1>2, <1>5, <1>6 DEF Connect

\* The message c takes from its socket next.
Next1(c) == Head(socks[tab[c].sock].down)

\* Where the handler of a connected page is.
LEMMA Connected ==
    ASSUME Shapes, NEW c \in Tabs, tab[c].sock # 0
    PROVE  /\ tab[c].sock \in DOMAIN socks /\ socks[tab[c].sock] \in Sock
           /\ socks[tab[c].sock].tab = c /\ socks[tab[c].sock].alive
           /\ socks[tab[c].sock].at \in {"open", "serve", "send"}
           /\ socks[tab[c].sock].at = "open" => socks[tab[c].sock].down = <<>>
<1> DEFINE s == tab[c].sock
<1>1. s \in DOMAIN socks /\ socks[s].tab = c /\ socks[s].alive /\ Typed /\ Handled(s)
    BY DEF Shapes, Uses
<1>2. socks[s] \in Sock /\ socks[s].at \in Handlers
    BY <1>1, SocketTypes DEF Sock
<1> HIDE DEF s
<1>3. QED
    BY <1>1, <1>2 DEF Handled, Handlers, s

LEMMA DeliverStep ==
    ASSUME Shapes, NEW c \in Tabs, Deliver(c)
    PROVE  LET s == tab[c].sock
               m == Next1(c)
           IN  /\ Page1(c) /\ tab'[c].sock = s /\ tab'[c].loaded = tab[c].loaded
               /\ s # 0 /\ s \in DOMAIN socks /\ socks[s].tab = c /\ socks[s].at \in {"serve", "send"}
               /\ Frame(s) /\ Waits(s) /\ socks[s].alive /\ socks'[s].alive
               /\ socks[s].down # <<>> /\ socks'[s].down = Tail(socks[s].down) /\ m \in Down
               /\ \/ /\ m.type = "hello"
                     /\ tab'[c].chat = m.state.chat /\ tab'[c].presence = m.state.presence
                     /\ tab'[c].code = IF m.state.code = NoCode THEN tab[c].code ELSE m.state.code
                     /\ IF tab[c].code # NoCode /\ m.state.code \in {NoCode, tab[c].code}
                        THEN socks'[s].up
                               = Append(socks[s].up, [type |-> "code", code |-> tab[c].code])
                        ELSE socks'[s].up = socks[s].up
                  \/ /\ m.type = "code" /\ Hears(c) /\ socks'[s].up = socks[s].up
                     /\ tab'[c].code = IF m.from = Role(c) THEN tab[c].code ELSE m.code
                  \/ /\ m.type = "chat" /\ socks'[s].up = socks[s].up
                     /\ tab'[c].code = tab[c].code /\ tab'[c].presence = tab[c].presence
                     /\ tab'[c].chat = Append(tab[c].chat, m.item)
                  \/ /\ m.type = "presence" /\ socks'[s].up = socks[s].up
                     /\ tab'[c].code = tab[c].code /\ tab'[c].chat = tab[c].chat
                     /\ tab'[c].presence = m.presence
               /\ UNCHANGED <<room, row, count>>
<1> DEFINE s == tab[c].sock
           m == Head(socks[s].down)
           Put(k) == [socks EXCEPT ![s].down = Tail(@), ![s].up = @ \o k]
           code == [type |-> "code", code |-> tab[c].code]
<1>1. /\ Typed /\ s \in DOMAIN socks /\ socks[s].tab = c /\ socks[s].at \in {"serve", "send"}
      /\ socks[s].alive /\ socks[s].down # <<>> /\ socks[s] \in Sock /\ s # 0
      /\ UNCHANGED <<room, row, count>>
    BY Connected DEF Deliver, Shapes
<1>2. m \in Down /\ Tail(socks[s].down) \in Seq(Down) /\ socks[s].up \in Seq(Up) /\ tab[c] \in Tab
      /\ tab \in [Tabs -> Tab]
    BY <1>1, HeadTailProperties DEF Sock, Typed
<1>3. ASSUME NEW k \in Seq(Up), socks' = Put(k)
      PROVE  /\ Frame(s) /\ Waits(s) /\ socks'[s].alive /\ socks'[s].down = Tail(socks[s].down)
             /\ socks'[s].up = socks[s].up \o k
    <2> DEFINE new == [socks[s] EXCEPT !.down = Tail(@), !.up = @ \o k]
    <2>1. socks[s].up \o k \in Seq(Up)
        BY <1>2, ConcatProperties
    <2>2. /\ new \in Sock /\ new.tab = socks[s].tab /\ new.alive = socks[s].alive
          /\ new.down = Tail(socks[s].down) /\ new.up = socks[s].up \o k
          /\ new.at = socks[s].at /\ new.todo = socks[s].todo /\ new.msg = socks[s].msg
        BY <1>1, <1>2, <2>1 DEF Sock
    <2>3. socks' = [socks EXCEPT ![s] = new]
        BY <1>1, <1>3
    <2> HIDE DEF new
    <2>4. /\ socks' \in Seq(Sock) /\ DOMAIN socks' = DOMAIN socks /\ socks'[s] = new
          /\ \A t \in DOMAIN socks : t # s => socks'[t] = socks[t]
        BY <1>1, <2>2, <2>3, OneChanges
    <2>5. QED
        BY <1>1, <2>2, <2>4 DEF Frame, Waits
<1>4. socks' = Put(<<>>) => /\ Frame(s) /\ Waits(s) /\ socks'[s].alive
                            /\ socks'[s].down = Tail(socks[s].down) /\ socks'[s].up = socks[s].up
    <2>1. <<>> \in Seq(Up) /\ socks[s].up \o <<>> = socks[s].up
        BY <1>2, ConcatEmptySeq
    <2> HIDE DEF Put
    <2>2. QED
        BY <1>3, <2>1
<1>5. CASE m.type = "hello"
    <2> DEFINE t == [tab[c] EXCEPT !.chat = m.state.chat, !.presence = m.state.presence]
               u == IF m.state.code = NoCode THEN t ELSE ShowRemote(t, m.state.code)
               push == t.code # NoCode /\ m.state.code \in {NoCode, t.code}
    <2>1. tab' = [tab EXCEPT ![c] = u]
          /\ socks' = Put(IF push THEN <<[type |-> "code", code |-> t.code]>> ELSE <<>>)
        BY <1>5 DEF Deliver
    <2>2. m.state \in State
        BY <1>2, <1>5, MessageTypes
    <2>3. /\ t \in Tab /\ t.chat = m.state.chat /\ t.presence = m.state.presence
          /\ t.code = tab[c].code /\ t.sock = s /\ t.loaded = tab[c].loaded
        <3> HIDE DEF m
        <3> QED BY <1>2, <2>2 DEF Tab, State
    <2>4. /\ u \in Tab /\ u.chat = m.state.chat /\ u.presence = m.state.presence
          /\ u.code = (IF m.state.code = NoCode THEN tab[c].code ELSE m.state.code)
          /\ u.sock = s /\ u.loaded = tab[c].loaded
        <3> HIDE DEF m, t, s
        <3>1. m.state.code # NoCode => m.state.code \in Versions
            BY <2>2 DEF State
        <3>2. QED
            BY <2>3, <3>1, RemoteStep
    <2>5. Page1(c) /\ tab'[c] = u
        <3> HIDE DEF u
        <3> QED BY <1>1, <2>1, <2>4, OnePage
    <2>6. CASE push
        <3>1. code \in Up /\ <<code>> \in Seq(Up)
            <4>1. tab[c].code # NoCode /\ tab[c].code \in Versions \cup {NoCode}
                <5> HIDE DEF t
                <5> QED BY <1>2, <2>3, <2>6 DEF Tab
            <4>2. QED
                BY <4>1 DEF Up
        <3>2. socks' = Put(<<code>>)
            <4> HIDE DEF Put, m, t
            <4> QED BY <2>1, <2>3, <2>6
        <3>3. socks[s].up \o <<code>> = Append(socks[s].up, code)
            <4> HIDE DEF s, code
            <4> QED BY <1>2, <3>1, AppendIsConcat
        <3>4. /\ Frame(s) /\ Waits(s) /\ socks'[s].alive /\ socks'[s].down = Tail(socks[s].down)
              /\ socks'[s].up = Append(socks[s].up, code)
            <4> HIDE DEF Put, code
            <4> QED BY <1>3, <3>1, <3>2, <3>3
        <3> HIDE DEF Put, u, t, code
        <3>5. tab[c].code # NoCode /\ m.state.code \in {NoCode, tab[c].code}
            BY <2>3, <2>6
        <3>6. QED
            BY <1>1, <1>2, <1>5, <2>4, <2>5, <3>4, <3>5 DEF Next1, code
    <2>7. CASE ~push
        <3>1. socks' = Put(<<>>)
            <4> HIDE DEF Put, m, t
            <4> QED BY <2>1, <2>7
        <3> HIDE DEF Put, u, t
        <3>2. ~(tab[c].code # NoCode /\ m.state.code \in {NoCode, tab[c].code})
            BY <2>3, <2>7
        <3>3. QED
            BY <1>1, <1>2, <1>4, <1>5, <2>4, <2>5, <3>1, <3>2 DEF Next1
    <2>8. QED
        BY <2>6, <2>7
<1>6. CASE m.type = "code"
    <2>1. socks' = Put(<<>>) /\ tab' = IF m.from = Role(c) THEN tab
                                       ELSE [tab EXCEPT ![c] = ShowRemote(tab[c], m.code)]
        BY <1>6 DEF Deliver
    <2>2. m.code \in Versions
        BY <1>2, <1>6, MessageTypes
    <2>3. /\ Page1(c) /\ Hears(c) /\ tab'[c].sock = s /\ tab'[c].loaded = tab[c].loaded
          /\ tab'[c].code = IF m.from = Role(c) THEN tab[c].code ELSE m.code
        <3>1. CASE m.from = Role(c)
            BY <1>2, <2>1, <3>1 DEF Page1, Hears
        <3>2. CASE m.from # Role(c)
            <4> HIDE DEF m
            <4>1. tab' = [tab EXCEPT ![c] = ShowRemote(tab[c], m.code)]
                BY <2>1, <3>2
            <4>2. Page1(c) /\ tab'[c] = ShowRemote(tab[c], m.code)
                BY <1>1, <1>2, <2>2, <4>1, RemoteStep, OnePage
            <4>3. QED
                BY <1>2, <2>2, <3>2, <4>2, RemoteStep DEF Hears
        <3>3. QED
            BY <3>1, <3>2
    <2> HIDE DEF Put
    <2>4. QED
        BY <1>1, <1>2, <1>4, <1>6, <2>1, <2>3 DEF Next1
<1>7. CASE m.type = "chat"
    <2> DEFINE t == [tab[c] EXCEPT !.chat = Append(@, m.item)]
    <2>1. socks' = Put(<<>>) /\ tab' = [tab EXCEPT ![c] = t]
        BY <1>2, <1>7 DEF Deliver
    <2>2. /\ t \in Tab /\ t.code = tab[c].code /\ t.presence = tab[c].presence
          /\ t.chat = Append(tab[c].chat, m.item) /\ t.sock = s /\ t.loaded = tab[c].loaded
        <3>1. m.item \in Items /\ tab[c].chat \in Seq(Items)
            BY <1>2, <1>7, MessageTypes DEF Tab
        <3>2. Append(tab[c].chat, m.item) \in Seq(Items)
            BY <3>1, AppendProperties
        <3> HIDE DEF m
        <3>3. QED
            BY <1>2, <3>2 DEF Tab
    <2>3. Page1(c) /\ tab'[c] = t
        <3> HIDE DEF t
        <3> QED BY <1>1, <2>1, <2>2, OnePage
    <2> HIDE DEF Put, t
    <2>4. QED
        BY <1>1, <1>2, <1>4, <1>7, <2>1, <2>2, <2>3 DEF Next1
<1>8. CASE m.type = "presence"
    <2> DEFINE t == [tab[c] EXCEPT !.presence = m.presence]
    <2>1. socks' = Put(<<>>) /\ tab' = [tab EXCEPT ![c] = t]
        BY <1>2, <1>8 DEF Deliver
    <2>2. /\ t \in Tab /\ t.code = tab[c].code /\ t.chat = tab[c].chat
          /\ t.presence = m.presence /\ t.sock = s /\ t.loaded = tab[c].loaded
        <3>1. m.presence \in SUBSET Roles
            BY <1>2, <1>8, MessageTypes
        <3> HIDE DEF m
        <3>2. QED
            BY <1>2, <3>1 DEF Tab
    <2>3. Page1(c) /\ tab'[c] = t
        <3> HIDE DEF t
        <3> QED BY <1>1, <2>1, <2>2, OnePage
    <2> HIDE DEF Put, t
    <2>4. QED
        BY <1>1, <1>2, <1>4, <1>8, <2>1, <2>2, <2>3 DEF Next1
<1>9. QED
    BY <1>2, <1>5, <1>6, <1>7, <1>8, MessageTypes

\* The page of c hands m to its socket.
Uploads(s, m) ==
    /\ Frame(s) /\ Waits(s) /\ Line(s) /\ m \in Up
    /\ socks'[s].up = Append(socks[s].up, m)

LEMMA Uploaded ==
    ASSUME Typed, NEW s \in DOMAIN socks, NEW m \in Up,
           socks' = [socks EXCEPT ![s].up = Append(@, m)]
    PROVE  Uploads(s, m)
<1> DEFINE new == [socks[s] EXCEPT !.up = Append(socks[s].up, m)]
<1>1. socks[s] \in Sock /\ Append(socks[s].up, m) \in Seq(Up)
    BY SocketTypes, AppendProperties DEF Sock
<1>2. /\ new \in Sock /\ new.tab = socks[s].tab /\ new.alive = socks[s].alive
      /\ new.down = socks[s].down /\ new.up = Append(socks[s].up, m)
      /\ new.at = socks[s].at /\ new.todo = socks[s].todo /\ new.msg = socks[s].msg
    BY <1>1 DEF Sock
<1>3. socks' = [socks EXCEPT ![s] = new]
    OBVIOUS
<1> HIDE DEF new
<1>4. /\ socks' \in Seq(Sock) /\ DOMAIN socks' = DOMAIN socks /\ socks'[s] = new
      /\ \A t \in DOMAIN socks : t # s => socks'[t] = socks[t]
    BY <1>2, <1>3, OneChanges
<1>5. QED
    BY <1>2, <1>4 DEF Uploads, Frame, Waits, Line

LEMMA EditStep ==
    ASSUME Shapes, NEW c \in Tabs, Edit(c)
    PROVE  LET v == count.edits + 1
           IN  /\ Page1(c) /\ Hears(c) /\ tab'[c].loaded = tab[c].loaded
               /\ tab'[c].sock = tab[c].sock /\ tab'[c].code = v /\ v \in Versions
               /\ \/ socks' = socks /\ ~(IsOpen(c) /\ tab[c].guard = "clear")
                  \/ /\ IsOpen(c) /\ tab[c].guard = "clear"
                     /\ Uploads(tab[c].sock, [type |-> "code", code |-> v])
               /\ count' \in [edits : Versions, chats : 0..MaxChats, restarts : Nat]
               /\ count'.chats = count.chats
               /\ UNCHANGED <<room, row>>
<1> DEFINE v == count.edits + 1
           t == [tab[c] EXCEPT !.code = v, !.guard = IF @ = "clear" THEN "clear" ELSE "timer"]
           m == [type |-> "code", code |-> v]
<1>1. Typed /\ tab[c] \in Tab
    BY DEF Shapes, Typed
<1>2. v \in Versions /\ m \in Up
    BY <1>1, Bounds DEF Edit, Typed, Versions, Up
<1>3. /\ count' \in [edits : Versions, chats : 0..MaxChats, restarts : Nat]
      /\ count'.chats = count.chats
    BY <1>1, <1>2 DEF Edit, Typed
<1>4. /\ t \in Tab /\ t.code = v /\ t.chat = tab[c].chat /\ t.presence = tab[c].presence
      /\ t.sock = tab[c].sock /\ t.loaded = tab[c].loaded
    <2> HIDE DEF v
    <2> QED BY <1>1, <1>2 DEF Tab
<1>5. tab' = [tab EXCEPT ![c] = t]
    BY <1>1 DEF Edit, Typed
<1>6. Page1(c) /\ tab'[c] = t
    <2> HIDE DEF t
    <2> QED BY <1>1, <1>4, <1>5, OnePage
<1>7. CASE ~(IsOpen(c) /\ tab[c].guard = "clear")
    <2> HIDE DEF t
    <2> QED BY <1>2, <1>3, <1>4, <1>6, <1>7 DEF Edit, Hears
<1>8. CASE IsOpen(c) /\ tab[c].guard = "clear"
    <2>1. socks' = [socks EXCEPT ![tab[c].sock].up = Append(@, m)]
        BY <1>8 DEF Edit
    <2>2. tab[c].sock \in DOMAIN socks
        BY <1>8, Connected DEF IsOpen
    <2> HIDE DEF m
    <2>3. Uploads(tab[c].sock, m)
        BY <1>1, <1>2, <2>1, <2>2, Uploaded
    <2> HIDE DEF t
    <2>4. QED
        BY <1>2, <1>3, <1>4, <1>6, <1>8, <2>3 DEF Edit, Hears, m
<1>9. QED
    BY <1>7, <1>8

LEMMA ChatStep ==
    ASSUME Shapes, NEW c \in Tabs, SendChat(c)
    PROVE  /\ IsOpen(c) /\ Uploads(tab[c].sock, [type |-> "chat", item |-> count.chats + 1])
           /\ count' \in [edits : Versions, chats : 0..MaxChats, restarts : Nat]
           /\ count'.chats = count.chats + 1 /\ count.chats \in Nat
           /\ UNCHANGED <<room, tab, row>>
<1> DEFINE m == [type |-> "chat", item |-> count.chats + 1]
<1>1. Typed /\ tab[c].sock \in DOMAIN socks
    BY Connected DEF Shapes, SendChat, IsOpen
<1>2. m \in Up
    <2>1. count.chats \in 0..MaxChats /\ count.chats < MaxChats
        BY <1>1 DEF SendChat, Typed
    <2>2. count.chats + 1 \in Items
        BY <2>1, Bounds DEF Items
    <2>3. QED
        BY <2>2 DEF Up, Chat
<1>3. socks' = [socks EXCEPT ![tab[c].sock].up = Append(@, m)]
    BY DEF SendChat
<1>4. /\ count' \in [edits : Versions, chats : 0..MaxChats, restarts : Nat]
      /\ count'.chats = count.chats + 1 /\ count.chats \in Nat
    <2>1. count \in [edits : Versions, chats : 0..MaxChats, restarts : Nat]
        BY <1>1 DEF Typed
    <2>2. count.chats < MaxChats /\ count' = [count EXCEPT !.chats = @ + 1]
        BY DEF SendChat
    <2>3. count.chats \in Nat /\ count.chats + 1 \in 0..MaxChats
        BY <2>1, <2>2, Bounds
    <2>4. QED
        BY <2>1, <2>2, <2>3
<1> HIDE DEF m
<1>5. Uploads(tab[c].sock, m)
    BY <1>1, <1>2, <1>3, Uploaded
<1>6. QED
    BY <1>4, <1>5 DEF SendChat, m

LEMMA DropStep ==
    ASSUME Shapes, NEW c \in Tabs, Drop(c)
    PROVE  LET s == tab[c].sock
           IN  /\ Page1(c) /\ Hears(c) /\ tab'[c].loaded = tab[c].loaded /\ tab'[c].sock = 0
               /\ tab'[c].code = tab[c].code /\ s # 0
               /\ Frame(s) /\ Waits(s) /\ ~socks'[s].alive /\ socks'[s].down = <<>>
               /\ \E n \in 0..Len(socks[s].up) : socks'[s].up = SubSeq(socks[s].up, 1, n)
               /\ UNCHANGED <<room, row, count>>
<1> DEFINE s == tab[c].sock
           t == [tab[c] EXCEPT !.sock = 0]
<1>1. Typed /\ s \in DOMAIN socks /\ s # 0 /\ socks[s] \in Sock /\ tab[c] \in Tab
    BY Connected DEF Shapes, Drop, Typed
<1>2. PICK n \in 0..Len(socks[s].up) :
         socks' = [socks EXCEPT ![s].alive = FALSE, ![s].down = <<>>, ![s].up = SubSeq(@, 1, n)]
    BY DEF Drop
<1> DEFINE new == [socks[s] EXCEPT !.alive = FALSE, !.down = <<>>, !.up = SubSeq(@, 1, n)]
<1>3. SubSeq(socks[s].up, 1, n) \in Seq(Up)
    BY <1>1, Cut DEF Sock
<1>4. /\ new \in Sock /\ new.tab = socks[s].tab /\ ~new.alive /\ new.down = <<>>
      /\ new.up = SubSeq(socks[s].up, 1, n)
      /\ new.at = socks[s].at /\ new.todo = socks[s].todo /\ new.msg = socks[s].msg
    <2>1. ASSUME NEW up \in Seq(Up)
          PROVE  LET k == [socks[s] EXCEPT !.alive = FALSE, !.down = <<>>, !.up = up]
                 IN  /\ k \in Sock /\ k.tab = socks[s].tab /\ ~k.alive /\ k.down = <<>>
                     /\ k.up = up
                     /\ k.at = socks[s].at /\ k.todo = socks[s].todo /\ k.msg = socks[s].msg
        <3>1. <<>> \in Seq(Down)
            OBVIOUS
        <3>2. QED
            BY <1>1, <3>1 DEF Sock
    <2>2. QED
        BY <1>3, <2>1
<1>5. socks' = [socks EXCEPT ![s] = new]
    BY <1>1, <1>2
<1>6. /\ socks' \in Seq(Sock) /\ DOMAIN socks' = DOMAIN socks /\ socks'[s] = new
      /\ \A u \in DOMAIN socks : u # s => socks'[u] = socks[u]
    <2> HIDE DEF new
    <2> QED BY <1>1, <1>4, <1>5, OneChanges
<1>7. /\ t \in Tab /\ t.code = tab[c].code /\ t.chat = tab[c].chat /\ t.presence = tab[c].presence
      /\ t.sock = 0 /\ t.loaded = tab[c].loaded
    BY <1>1 DEF Tab
<1>8. tab' = [tab EXCEPT ![c] = t]
    BY <1>1 DEF Drop, Typed
<1>9. Page1(c) /\ tab'[c] = t
    <2> HIDE DEF t
    <2> QED BY <1>1, <1>7, <1>8, OnePage
<1> HIDE DEF new, t
<1>10. Frame(s) /\ Waits(s)
    BY <1>1, <1>4, <1>6 DEF Frame, Waits
<1>11. QED
    BY <1>1, <1>4, <1>6, <1>7, <1>9, <1>10 DEF Drop, Hears

LEMMA EndStep ==
    ASSUME Shapes, NEW c \in Tabs, EndRoom(c)
    PROVE  LET s == tab[c].sock
           IN  /\ Page1(c) /\ Hears(c) /\ tab'[c].loaded = tab[c].loaded /\ tab'[c].sock = 0
               /\ tab'[c].code = tab[c].code
               /\ \/ s = 0 /\ socks' = socks
                  \/ /\ s # 0 /\ Frame(s) /\ Waits(s) /\ ~socks'[s].alive
                     /\ socks'[s].down = <<>> /\ socks'[s].up = socks[s].up
               /\ row' \in [ended : BOOLEAN, final : Versions \cup {NoCode}]
               /\ UNCHANGED <<room, count>>
<1> DEFINE s == tab[c].sock
           t == [tab[c] EXCEPT !.ended = TRUE, !.sock = 0]
<1>1. Typed /\ tab[c] \in Tab
    BY DEF Shapes, Typed
<1>2. /\ t \in Tab /\ t.code = tab[c].code /\ t.chat = tab[c].chat /\ t.presence = tab[c].presence
      /\ t.sock = 0 /\ t.loaded = tab[c].loaded
    BY <1>1 DEF Tab
<1>3. tab' = [tab EXCEPT ![c] = t]
    BY <1>1 DEF EndRoom, Typed
<1>4. Page1(c) /\ tab'[c] = t
    <2> HIDE DEF t
    <2> QED BY <1>1, <1>2, <1>3, OnePage
<1>5. row' \in [ended : BOOLEAN, final : Versions \cup {NoCode}]
    BY <1>1 DEF EndRoom, RowEnded, Tab
<1>6. CASE s = 0
    <2> HIDE DEF t
    <2> QED BY <1>2, <1>4, <1>5, <1>6 DEF EndRoom, Hears
<1>7. CASE s # 0
    <2> DEFINE new == [socks[s] EXCEPT !.alive = FALSE, !.down = <<>>]
    <2>1. s \in DOMAIN socks /\ socks[s] \in Sock
        BY <1>7, Connected
    <2>2. /\ new \in Sock /\ new.tab = socks[s].tab /\ ~new.alive /\ new.down = <<>>
          /\ new.up = socks[s].up
          /\ new.at = socks[s].at /\ new.todo = socks[s].todo /\ new.msg = socks[s].msg
        <3>1. <<>> \in Seq(Down)
            OBVIOUS
        <3>2. QED
            BY <2>1, <3>1 DEF Sock
    <2>3. socks' = [socks EXCEPT ![s] = new]
        BY <1>7, <2>1 DEF EndRoom
    <2>4. /\ socks' \in Seq(Sock) /\ DOMAIN socks' = DOMAIN socks /\ socks'[s] = new
          /\ \A u \in DOMAIN socks : u # s => socks'[u] = socks[u]
        <3> HIDE DEF new
        <3> QED BY <1>1, <2>1, <2>2, <2>3, OneChanges
    <2> HIDE DEF new, t
    <2>5. Frame(s) /\ Waits(s)
        BY <2>1, <2>2, <2>4 DEF Frame, Waits
    <2>6. QED
        BY <1>2, <1>4, <1>5, <1>7, <2>2, <2>4, <2>5 DEF EndRoom, Hears
<1>8. QED
    BY <1>6, <1>7

LEMMA RestartStep ==
    ASSUME Typed, Restart
    PROVE  /\ room' = NewRoom /\ NewRoom \in State
           /\ socks' \in Seq(Sock) /\ DOMAIN socks' = DOMAIN socks
           /\ \A s \in DOMAIN socks :
                /\ socks'[s].up = <<>> /\ socks'[s].down = <<>> /\ ~socks'[s].alive
                /\ socks'[s].at = "gone" /\ socks'[s].todo = {} /\ socks'[s].msg.type = "none"
                /\ socks'[s].tab = socks[s].tab
           /\ tab' \in [Tabs -> Tab]
           /\ \A c \in Tabs : tab'[c].sock = 0 /\ Hears(c) /\ tab'[c].code = tab[c].code
                              /\ tab'[c].loaded = tab[c].loaded
           /\ row' = row
           /\ count' \in [edits : Versions, chats : 0..MaxChats, restarts : Nat]
           /\ count'.chats = count.chats
<1>1. room' = NewRoom /\ NewRoom \in State /\ row' = row
    <2>1. <<>> \in Seq(Items) /\ {} \in SUBSET Roles
        OBVIOUS
    <2>2. QED
        BY <2>1 DEF Restart, NewRoom, State
<1>2. /\ count' \in [edits : Versions, chats : 0..MaxChats, restarts : Nat]
      /\ count'.chats = count.chats
    <2>1. /\ count \in [edits : Versions, chats : 0..MaxChats, restarts : Nat]
          /\ count' = [count EXCEPT !.restarts = @ + 1]
        BY DEF Restart, Typed
    <2>2. QED
        BY <2>1
<1>3. /\ tab' \in [Tabs -> Tab]
      /\ \A c \in Tabs : tab'[c].sock = 0 /\ Hears(c) /\ tab'[c].code = tab[c].code
                         /\ tab'[c].loaded = tab[c].loaded
    <2>1. tab \in [Tabs -> Tab] /\ tab' = [c \in Tabs |-> [tab[c] EXCEPT !.sock = 0]]
        BY DEF Restart, Typed
    <2>2. QED
        BY <2>1 DEF Tab, Hears
<1> DEFINE new(s) == [NewSock(socks[s].tab) EXCEPT !.at = "gone", !.alive = FALSE]
<1>4. \A s \in DOMAIN socks :
         /\ new(s) \in Sock /\ new(s).up = <<>> /\ new(s).down = <<>> /\ ~new(s).alive
         /\ new(s).at = "gone" /\ new(s).todo = {} /\ new(s).msg.type = "none"
         /\ new(s).tab = socks[s].tab
    <2> TAKE s \in DOMAIN socks
    <2>1. socks[s].tab \in Tabs
        BY SocketTypes DEF Sock
    <2>2. <<>> \in Seq(Up) /\ <<>> \in Seq(Down) /\ [type |-> "none"] \in Cast
        BY DEF Cast
    <2>3. QED
        BY <2>1, <2>2 DEF NewSock, Sock, Handlers
<1>5. socks' = [s \in DOMAIN socks |-> new(s)]
    BY DEF Restart
<1> HIDE DEF new
<1>6. DOMAIN socks = 1..Len(socks) /\ Len(socks) \in Nat
    BY LenProperties DEF Typed
<1>7. socks' \in Seq(Sock) /\ DOMAIN socks' = DOMAIN socks /\ \A s \in DOMAIN socks : socks'[s] = new(s)
    BY <1>4, <1>5, <1>6
<1>8. QED
    BY <1>1, <1>2, <1>3, <1>4, <1>7

-----------------------------------------------------------------------------
(* The shapes are kept.                                                    *)

LEMMA Greetings ==
    ASSUME NEW q \in Seq(Down), Hellos(q) \subseteq {1}
    PROVE  /\ \A m \in Down : m.type # "hello" => Hellos(Append(q, m)) = Hellos(q)
           /\ \A m \in Down : q = <<>> /\ m.type = "hello" => Hellos(Append(q, m)) = {1}
           /\ q # <<>> => Hellos(Tail(q)) = {}
           /\ q = <<>> => Hellos(q) = {}
<1>1. ASSUME NEW m \in Down, m.type # "hello"
      PROVE  Hellos(Append(q, m)) = Hellos(q)
    BY <1>1, Appended DEF Hellos
<1>2. ASSUME NEW m \in Down, q = <<>>, m.type = "hello"
      PROVE  Hellos(Append(q, m)) = {1}
    BY <1>2, Appended DEF Hellos
<1>3. ASSUME q # <<>>
      PROVE  Hellos(Tail(q)) = {}
    BY <1>3, Shifted DEF Hellos
<1>4. QED
    BY <1>1, <1>2, <1>3 DEF Hellos

LEMMA FrameShapes ==
    ASSUME Shapes, Typed', NEW s \in DOMAIN socks, Frame(s), Handled(s)',
           socks'[s].at = "open" => socks[s].at = "open",
           \A d \in Tabs : \/ tab'[d].sock = tab[d].sock
                           \/ tab[d].sock = s /\ tab'[d].sock = 0,
           \A d \in Tabs : tab'[d].sock = s => socks'[s].alive
    PROVE  Shapes'
<1>1. ASSUME NEW u \in DOMAIN socks, u # s
      PROVE  Handled(u)'
    <2>1. socks'[u] = socks[u] /\ Handled(u) /\ socks[u].tab \in Tabs
        BY <1>1, SocketTypes DEF Frame, Shapes, Sock
    <2>2. socks[u].alive => tab'[socks[u].tab].sock = u
        BY <1>1, <2>1 DEF Handled
    <2>3. \A t \in socks[u].todo : socks'[t].at # "open"
        BY <2>1 DEF Handled, Frame
    <2>4. QED
        BY <2>1, <2>2, <2>3 DEF Handled, Frame
<1>2. ASSUME NEW d \in Tabs, tab'[d].sock # 0
      PROVE  Uses(d)'
    <2>1. tab'[d].sock = tab[d].sock /\ Uses(d)
        BY <1>2 DEF Shapes
    <2>2. QED
        BY <1>2, <2>1 DEF Uses, Frame
<1>3. \A d \in Tabs : Uses(d)'
    BY <1>2 DEF Uses
<1>4. QED
    BY <1>1, <1>3 DEF Shapes, Frame

\* The tabs of sockets that are still used.
LEMMA Alive ==
    ASSUME Shapes, NEW s \in DOMAIN socks
    PROVE  /\ Handled(s) /\ socks[s].tab \in Tabs /\ socks[s] \in Sock
           /\ \A d \in Tabs : tab[d].sock = s => socks[s].alive /\ socks[s].tab = d
           /\ \A t \in Joined : socks[t].at # "open" /\ t \in DOMAIN socks
           /\ s \in Joined <=> socks[s].at \in {"serve", "send"}
           /\ 0 \notin DOMAIN socks
<1>1. Handled(s) /\ socks[s] \in Sock /\ s > 0
    BY SocketTypes DEF Shapes
<1>2. 0 \notin DOMAIN socks
    BY LenProperties DEF Shapes, Typed
<1>3. QED
    BY <1>1, <1>2 DEF Shapes, Uses, Joined, Sock

LEMMA AcceptShapes == ASSUME Shapes, NEW s \in DOMAIN socks, Accept(s) PROVE Shapes'
<1>1. Typed /\ Typed'
    BY AcceptStep DEF Shapes, Typed, Frame
<1>2. Frame(s) /\ Starts(s, "send", [type |-> "presence"], Joined \cup {s}) /\ tab' = tab
    BY <1>1, AcceptStep
<1>3. Hellos(socks'[s].down) \subseteq {1} /\ (~socks[s].alive => socks'[s].down = <<>>)
    <2>1. socks[s].down = <<>> /\ <<>> \in Seq(Down)
        <3>1. Handled(s) /\ socks[s].at = "open"
            BY <1>1, AcceptStep, Alive
        <3>2. QED
            BY <3>1 DEF Handled
    <2>2. [type |-> "hello", state |-> room'] \in Down
        BY <1>1, AcceptStep DEF Down
    <2>3. CASE socks[s].alive
        <3> DEFINE hello == [type |-> "hello", state |-> room']
        <3>1. socks'[s].down = Append(<<>>, hello)
            BY <1>1, <2>1, <2>3, AcceptStep
        <3>2. Hellos(<<>>) \subseteq {1} /\ hello.type = "hello"
            BY DEF Hellos
        <3> HIDE DEF hello
        <3>3. Hellos(Append(<<>>, hello)) = {1}
            BY <2>1, <2>2, <3>2, Greetings DEF hello
        <3>4. QED
            BY <2>3, <3>1, <3>3
    <2>4. CASE ~socks[s].alive
        <3>1. socks'[s].down = <<>>
            BY <1>1, <2>1, <2>4, AcceptStep
        <3>2. QED
            BY <3>1 DEF Hellos
    <2>5. QED
        BY <2>3, <2>4
<1>4. Handled(s)'
    <2>1. socks'[s].todo \subseteq DOMAIN socks' /\ socks'[s].todo # {} /\ socks'[s].at = "send"
          /\ socks'[s].msg.type = "presence"
        BY <1>1, <1>2, SocketTypes DEF Starts, Frame
    <2>2. \A t \in socks'[s].todo : socks'[t].at # "open"
        BY <1>2, <2>1, Alive DEF Starts, Frame
    <2>3. socks'[s].alive => tab'[socks'[s].tab].sock = s
        BY <1>1, <1>2, AcceptStep, Alive DEF Frame, Handled
    <2>4. QED
        BY <1>1, <1>3, <2>1, <2>2, <2>3, AcceptStep DEF Handled
<1>5. QED
    BY <1>1, <1>2, <1>4, AcceptStep, Alive, FrameShapes DEF Handled

LEMMA RefuseShapes ==
    ASSUME Shapes, NEW s \in DOMAIN socks, Refuse(s) \/ Forget(s) PROVE Shapes'
<1>1. Typed /\ Typed'
    BY RefuseStep DEF Shapes, Typed, Frame
<1>2. Handled(s)'
    <2>1. /\ Frame(s) /\ socks[s].at = "open" /\ socks'[s].at = "gone" /\ ~socks'[s].alive
          /\ socks'[s].up = socks[s].up /\ socks'[s].down = socks[s].down
          /\ socks'[s].todo = socks[s].todo /\ socks'[s].msg = socks[s].msg
        BY <1>1, RefuseStep
    <2>2. Handled(s)
        BY Alive
    <2>3. socks'[s].todo = {} /\ socks'[s].up = <<>> /\ socks'[s].down = <<>>
        BY <2>1, <2>2 DEF Handled
    <2>4. QED
        BY <2>1, <2>2, <2>3 DEF Handled, Frame
<1>3. \A d \in Tabs : tab'[d].sock = tab[d].sock \/ (tab[d].sock = s /\ tab'[d].sock = 0)
    BY <1>1, RefuseStep DEF Typed, Tab
<1>4. \A d \in Tabs : tab'[d].sock # s
    <2> SUFFICES ASSUME NEW d \in Tabs, tab'[d].sock = s PROVE FALSE
        OBVIOUS
    <2>1. tab[d].sock = s
        BY <1>3, Alive
    <2>2. socks[s].alive
        BY <2>1, Alive
    <2>3. tab'[d] = [tab[d] EXCEPT !.sock = 0]
        BY <1>1, <2>1, <2>2, RefuseStep
    <2>4. tab'[d].sock = 0
        BY <1>1, <2>3 DEF Typed, Tab
    <2>5. QED
        BY <2>4, Alive
<1>5. QED
    BY <1>1, <1>2, <1>3, <1>4, RefuseStep, FrameShapes

LEMMA ReceiveShapes == ASSUME Shapes, NEW s \in DOMAIN socks, Receive(s) PROVE Shapes'
<1>1. Typed /\ Typed'
    BY ReceiveStep DEF Shapes, Typed, Frame
<1>2. Frame(s) /\ Line(s) /\ tab' = tab /\ socks[s].at = "serve"
    BY <1>1, ReceiveStep
<1>3. PICK todo \in SUBSET Joined :
         \E m : Starts(s, "send", m, todo) /\ m.type \in {"code", "chat"}
    <2>1. CASE Head(socks[s].up).type = "code"
        <3> DEFINE m == [type |-> "code", code |-> room'.code, from |-> Role(socks[s].tab)]
        <3>1. Starts(s, "send", m, Joined \ {s}) /\ m.type = "code"
            BY <1>1, <2>1, ReceiveStep
        <3> HIDE DEF m
        <3>2. QED
            BY <3>1
    <2>2. CASE Head(socks[s].up).type = "chat"
        <3>1. Starts(s, "send", Head(socks[s].up), Joined)
            BY <1>1, <2>2, ReceiveStep
        <3>2. QED
            BY <2>2, <3>1
    <2>3. QED
        BY <1>1, <2>1, <2>2, ReceiveStep
<1>4. Handled(s)'
    <2>1. /\ socks'[s].todo \subseteq DOMAIN socks'
          /\ socks'[s].todo # {} <=> socks'[s].at = "send"
          /\ socks'[s].todo = {} <=> socks'[s].msg.type = "none"
          /\ socks'[s].at \in {"serve", "send"}
        BY <1>2, <1>3, Alive DEF Starts, Frame
    <2>2. \A t \in socks'[s].todo : socks'[t].at # "open"
        BY <1>2, <1>3, <2>1, Alive DEF Starts, Frame
    <2>3. Handled(s)
        BY Alive
    <2>4. QED
        BY <1>2, <2>1, <2>2, <2>3 DEF Handled, Frame, Line
<1>5. (socks'[s].at = "open" => socks[s].at = "open") /\ \A d \in Tabs : tab'[d].sock = s => socks'[s].alive
    BY <1>2, <1>3, Alive DEF Line, Starts
<1>6. QED
    BY <1>1, <1>2, <1>4, <1>5, FrameShapes

LEMMA LeaveShapes == ASSUME Shapes, NEW s \in DOMAIN socks, Leave(s) PROVE Shapes'
<1>1. Typed /\ Typed'
    BY LeaveStep DEF Shapes, Typed, Frame
<1>2. Frame(s) /\ Line(s) /\ tab' = tab /\ socks[s].at = "serve" /\ ~socks[s].alive
      /\ Starts(s, "leave", [type |-> "presence"], Joined \ {s}) /\ socks'[s].up = <<>>
    <2>1. socks[s].up = <<>> /\ socks'[s].up = socks[s].up
        BY <1>1, LeaveStep
    <2>2. QED
        BY <1>1, <2>1, LeaveStep
<1>3. Handled(s)'
    <2>1. /\ socks'[s].todo \subseteq DOMAIN socks'
          /\ socks'[s].todo # {} <=> socks'[s].at = "leave"
          /\ socks'[s].todo = {} <=> socks'[s].msg.type = "none"
          /\ socks'[s].at = "leave" => socks'[s].msg.type = "presence"
          /\ socks'[s].at \in {"leave", "gone"}
        BY <1>2, Alive DEF Starts, Frame
    <2>2. \A t \in socks'[s].todo : socks'[t].at # "open"
        BY <1>2, <2>1, Alive DEF Starts, Frame
    <2>3. QED
        BY <1>2, <2>1, <2>2, Alive DEF Handled, Frame, Line
<1>4. QED
    <2>1. (socks'[s].at = "open" => socks[s].at = "open")
          /\ \A d \in Tabs : tab'[d].sock = s => socks'[s].alive
        BY <1>2, Alive DEF Line, Starts
    <2>2. QED
        BY <1>1, <1>2, <1>3, <2>1, FrameShapes

LEMMA SendShapes ==
    ASSUME Shapes, NEW s \in DOMAIN socks, NEW t \in DOMAIN socks, Send(s, t) PROVE Shapes'
<1>1. Typed /\ Handled(s)
    BY Alive DEF Shapes
<1>2. /\ t \in socks[s].todo /\ socks[s].at \in {"send", "leave"}
      /\ socks[s].msg.type # "none" /\ Sent(s) \in Down /\ Sent(s).type # "hello"
      /\ socks' \in Seq(Sock) /\ DOMAIN socks' = DOMAIN socks
      /\ Starts(s, socks[s].at, socks[s].msg, socks[s].todo \ {t})
      /\ UNCHANGED <<room, tab, row, count>>
    BY <1>1, SendStep
<1>3. \A u \in DOMAIN socks :
         /\ socks'[u].tab = socks[u].tab /\ socks'[u].up = socks[u].up
         /\ socks'[u].alive = socks[u].alive
         /\ u # t => socks'[u].down = socks[u].down
         /\ u # s => /\ socks'[u].at = socks[u].at /\ socks'[u].todo = socks[u].todo
                     /\ socks'[u].msg = socks[u].msg
    BY <1>1, SendStep
<1>4. Typed'
    BY <1>1, <1>2 DEF Typed
<1>5. ASSUME NEW u \in DOMAIN socks
      PROVE  Handled(u)'
    <2>1. Handled(u) /\ socks[u].down \in Seq(Down)
        BY Alive DEF Sock
    <2>2. socks[s].todo \subseteq DOMAIN socks /\ (socks[s].at = "leave" => socks[s].msg.type = "presence")
        BY <1>1 DEF Handled
    <2>3. \A v \in socks[u].todo : socks'[v].at # "open"
        <3>1. socks'[s].at # "open"
            BY <1>2 DEF Starts
        <3>2. QED
            BY <1>3, <2>1, <3>1 DEF Handled
    <2>4. /\ socks'[u].todo \subseteq socks[u].todo
          /\ socks'[u].todo # {} <=> socks'[u].at \in {"send", "leave"}
          /\ socks'[u].todo = {} <=> socks'[u].msg.type = "none"
          /\ socks'[u].at = "leave" => socks'[u].msg.type = "presence"
          /\ socks'[u].at = "open" => socks[u].at = "open"
          /\ socks'[u].at \in {"leave", "gone"} => socks[u].at \in {"leave", "gone"}
        <3>1. CASE u = s
            BY <1>1, <1>2, <2>2, <3>1 DEF Starts
        <3>2. CASE u # s
            BY <1>3, <2>1, <3>2 DEF Handled
        <3>3. QED
            BY <3>1, <3>2
    <2>5. /\ Hellos(socks'[u].down) \subseteq {1} /\ (~socks[u].alive => socks'[u].down = <<>>)
          /\ socks'[u].at = "open" => socks'[u].down = <<>>
        <3>1. CASE u = t /\ socks[u].alive
            <4>1. socks'[u].down = Append(socks[u].down, Sent(s))
                BY <1>1, <3>1, SendStep
            <4>2. Hellos(socks[u].down) \subseteq {1}
                BY <2>1 DEF Handled
            <4>3. Hellos(socks'[u].down) = Hellos(socks[u].down)
                BY <1>2, <2>1, <4>1, <4>2, Greetings
            <4>4. socks[u].at # "open"
                BY <1>1, <1>2, <3>1 DEF Handled
            <4>5. QED
                BY <2>4, <3>1, <4>2, <4>3, <4>4
        <3>2. CASE ~(u = t /\ socks[u].alive)
            <4>1. socks'[u].down = socks[u].down
                BY <1>1, <1>3, <3>2, SendStep
            <4>2. QED
                BY <2>1, <2>4, <4>1 DEF Handled
        <3>3. QED
            BY <3>1, <3>2
    <2>6. QED
        BY <1>2, <1>3, <2>1, <2>3, <2>4, <2>5 DEF Handled
<1>6. \A c \in Tabs : Uses(c)'
    BY <1>2, <1>3 DEF Shapes, Uses
<1>7. QED
    BY <1>2, <1>4, <1>5, <1>6 DEF Shapes

\* A step that leaves the sockets alone.
LEMMA PageShapes ==
    ASSUME Shapes, Typed', socks' = socks, \A d \in Tabs : tab'[d].sock = tab[d].sock
    PROVE  Shapes'
<1>1. ASSUME NEW s \in DOMAIN socks PROVE Handled(s)'
    BY Alive DEF Handled
<1>2. QED
    BY <1>1 DEF Shapes, Uses

LEMMA ConnectShapes == ASSUME Shapes, NEW c \in Tabs, Connect(c) PROVE Shapes'
<1>n. PICK n : n = tab'[c].sock
    OBVIOUS
<1>1. /\ Typed /\ Page1(c) /\ n \notin DOMAIN socks /\ n \in Nat \ {0} /\ tab[c].sock = 0
      /\ socks' \in Seq(Sock) /\ DOMAIN socks' = DOMAIN socks \cup {n}
      /\ \A s \in DOMAIN socks : socks'[s] = socks[s]
      /\ UNCHANGED <<room, row, count>>
    BY <1>n, ConnectStep DEF Shapes
<1>2. /\ socks'[n].tab = c /\ socks'[n].up = <<>> /\ socks'[n].down = <<>> /\ socks'[n].alive
      /\ socks'[n].at = "open" /\ socks'[n].todo = {} /\ socks'[n].msg.type = "none"
    <2>1. socks'[n] = NewSock(c)
        BY <1>n, <1>1, ConnectStep
    <2>2. QED
        BY <2>1 DEF NewSock
<1>3. Typed'
    BY <1>1 DEF Typed, Page1
<1>4. Handled(n)'
    <2>1. tab'[socks'[n].tab].sock = n
        BY <1>n, <1>2
    <2>2. Hellos(<<>>) = {}
        BY DEF Hellos
    <2>3. Hellos(socks'[n].down) \subseteq {1}
        BY <1>2, <2>2
    <2>4. QED
        BY <1>1, <1>2, <2>1, <2>3 DEF Handled
<1>5. ASSUME NEW s \in DOMAIN socks PROVE Handled(s)'
    <2>1. Handled(s) /\ socks[s].tab \in Tabs /\ 0 \notin DOMAIN socks
        BY Alive
    <2>2. socks[s].alive => tab'[socks[s].tab].sock = s
        BY <1>n, <1>1, <2>1 DEF Handled, Page1
    <2>3. \A t \in socks[s].todo : socks'[t].at # "open"
        BY <1>1, <2>1 DEF Handled
    <2>4. QED
        BY <1>1, <2>1, <2>2, <2>3 DEF Handled
<1>6. ASSUME NEW d \in Tabs PROVE Uses(d)'
    BY <1>n, <1>1, <1>2 DEF Shapes, Uses, Page1
<1>7. QED
    <2>1. \A s \in DOMAIN socks' : Handled(s)'
        BY <1>1, <1>4, <1>5
    <2>2. QED
        BY <1>3, <1>6, <2>1 DEF Shapes

LEMMA DeliverShapes == ASSUME Shapes, NEW c \in Tabs, Deliver(c) PROVE Shapes'
<1>s. PICK s \in DOMAIN socks : s = tab[c].sock
    BY DeliverStep
<1>1. /\ Page1(c) /\ tab'[c].sock = s
      /\ s \in DOMAIN socks /\ socks[s].tab = c /\ socks[s].at \in {"serve", "send"}
      /\ Frame(s) /\ Waits(s) /\ socks[s].alive /\ socks'[s].alive
      /\ socks[s].down # <<>> /\ socks'[s].down = Tail(socks[s].down)
      /\ UNCHANGED <<room, row, count>>
    BY <1>s, DeliverStep
<1>2. Typed'
    BY <1>1 DEF Shapes, Typed, Frame, Page1
<1>3. Handled(s)'
    <2>1. Handled(s) /\ socks[s].down \in Seq(Down)
        BY <1>1, Alive DEF Sock
    <2>2. Hellos(socks'[s].down) \subseteq {1}
        BY <1>1, <2>1, Greetings DEF Handled
    <2>3. \A t \in socks[s].todo : socks'[t].at # "open"
        BY <1>1, <2>1 DEF Handled, Frame, Waits
    <2>4. QED
        <3>1. /\ socks'[s].todo = socks[s].todo /\ socks'[s].at = socks[s].at
              /\ socks'[s].msg = socks[s].msg /\ socks'[s].tab = c /\ DOMAIN socks' = DOMAIN socks
            BY <1>1 DEF Frame, Waits
        <3>2. QED
            BY <1>1, <2>1, <2>2, <2>3, <3>1 DEF Handled
<1>4. \A d \in Tabs : tab'[d].sock = tab[d].sock
    BY <1>s, <1>1 DEF Page1
<1>5. QED
    <2>1. socks'[s].at = "open" => socks[s].at = "open"
        BY <1>1 DEF Waits
    <2>2. QED
        BY <1>1, <1>2, <1>3, <1>4, <2>1, FrameShapes

LEMMA UploadShapes ==
    ASSUME Shapes, NEW c \in Tabs, IsOpen(c), NEW m, Uploads(tab[c].sock, m), Typed',
           \A d \in Tabs : tab'[d].sock = tab[d].sock
    PROVE  Shapes'
<1>s. PICK s \in DOMAIN socks : s = tab[c].sock
    BY Connected DEF IsOpen
<1>1. /\ s \in DOMAIN socks /\ socks[s].tab = c /\ socks[s].alive /\ socks[s].at \in {"serve", "send"}
      /\ Frame(s) /\ Waits(s) /\ Line(s)
    BY <1>s, Connected DEF IsOpen, Uploads
<1>2. Handled(s)'
    <2>1. Handled(s)
        BY <1>1, Alive
    <2>2. \A t \in socks[s].todo : socks'[t].at # "open"
        BY <1>1, <2>1 DEF Handled, Frame, Waits
    <2>3. QED
        <3>1. /\ socks'[s].todo = socks[s].todo /\ socks'[s].at = socks[s].at
              /\ socks'[s].msg = socks[s].msg /\ socks'[s].tab = c /\ DOMAIN socks' = DOMAIN socks
              /\ socks'[s].alive /\ socks'[s].down = socks[s].down
            BY <1>1 DEF Frame, Waits, Line
        <3>2. tab'[c].sock = s
            BY <1>s
        <3>3. QED
            BY <1>1, <2>1, <2>2, <3>1, <3>2 DEF Handled
<1>3. (socks'[s].at = "open" => socks[s].at = "open") /\ socks'[s].alive
    BY <1>1 DEF Waits, Line
<1>4. QED
    BY <1>s, <1>1, <1>2, <1>3, FrameShapes

\* c closes its socket, or loses it.
LEMMA CloseShapes ==
    ASSUME Shapes, NEW c \in Tabs, Page1(c), tab[c].sock # 0, tab'[c].sock = 0,
           Frame(tab[c].sock), Waits(tab[c].sock), ~socks'[tab[c].sock].alive,
           socks'[tab[c].sock].down = <<>>, socks[tab[c].sock].up = <<>> => socks'[tab[c].sock].up = <<>>,
           UNCHANGED <<room, count>>, row' \in [ended : BOOLEAN, final : Versions \cup {NoCode}]
    PROVE  Shapes'
<1>s. PICK s \in DOMAIN socks : s = tab[c].sock
    BY Connected
<1>1. /\ s \in DOMAIN socks /\ socks[s].tab = c /\ socks[s].alive
      /\ Frame(s) /\ Waits(s)
    BY <1>s, Connected
<1>2. Typed'
    BY <1>1 DEF Shapes, Typed, Frame, Page1
<1>3. Handled(s)'
    <2>1. Handled(s)
        BY <1>1, Alive
    <2>2. \A t \in socks[s].todo : socks'[t].at # "open"
        BY <1>1, <2>1 DEF Handled, Frame, Waits
    <2>3. QED
        <3>1. /\ socks'[s].todo = socks[s].todo /\ socks'[s].at = socks[s].at
              /\ socks'[s].msg = socks[s].msg /\ DOMAIN socks' = DOMAIN socks
              /\ ~socks'[s].alive /\ socks'[s].down = <<>>
              /\ socks[s].up = <<>> => socks'[s].up = <<>>
            BY <1>s, <1>1 DEF Frame, Waits
        <3>2. Hellos(<<>>) = {}
            BY DEF Hellos
        <3>3. QED
            BY <1>1, <2>1, <2>2, <3>1, <3>2 DEF Handled
<1>4. \A d \in Tabs : \/ tab'[d].sock = tab[d].sock
                      \/ tab[d].sock = s /\ tab'[d].sock = 0
    BY <1>s DEF Page1
<1>5. \A d \in Tabs : tab'[d].sock # s
    BY <1>s, <1>1, Alive DEF Page1
<1>6. QED
    <2>1. socks'[s].at = "open" => socks[s].at = "open"
        BY <1>1 DEF Waits
    <2>2. QED
        BY <1>1, <1>2, <1>3, <1>4, <1>5, <2>1, FrameShapes

LEMMA RestartShapes == ASSUME Shapes, Restart PROVE Shapes'
<1>1. Typed
    BY DEF Shapes
<1>2. /\ room' \in State
      /\ socks' \in Seq(Sock) /\ DOMAIN socks' = DOMAIN socks
      /\ tab' \in [Tabs -> Tab] /\ row' = row
      /\ count' \in [edits : Versions, chats : 0..MaxChats, restarts : Nat]
    BY <1>1, RestartStep
<1>3. Typed'
    BY <1>1, <1>2 DEF Typed
<1>4. Hellos(<<>>) = {}
    BY DEF Hellos
<1>5. ASSUME NEW s \in DOMAIN socks
      PROVE  Handled(s)'
    <2>1. /\ socks'[s].up = <<>> /\ socks'[s].down = <<>> /\ ~socks'[s].alive
          /\ socks'[s].at = "gone" /\ socks'[s].todo = {} /\ socks'[s].msg.type = "none"
        BY <1>1, RestartStep
    <2>2. QED
        BY <1>4, <2>1 DEF Handled
<1>6. \A c \in Tabs : tab'[c].sock = 0
    BY <1>1, RestartStep
<1>7. QED
    BY <1>2, <1>3, <1>5, <1>6 DEF Shapes, Uses

LEMMA EndShapes == ASSUME Shapes, NEW c \in Tabs, EndRoom(c) PROVE Shapes'
<1>1. /\ Page1(c) /\ tab'[c].sock = 0 /\ UNCHANGED <<room, count>>
      /\ row' \in [ended : BOOLEAN, final : Versions \cup {NoCode}]
    BY EndStep
<1>2. CASE tab[c].sock = 0
    <2>1. socks' = socks /\ \A d \in Tabs : tab'[d].sock = tab[d].sock
        BY <1>1, <1>2, EndStep DEF Page1
    <2>2. Typed'
        BY <1>1, <2>1 DEF Shapes, Typed, Page1
    <2>3. QED
        BY <2>1, <2>2, PageShapes
<1>3. CASE tab[c].sock # 0
    <2>1. /\ Frame(tab[c].sock) /\ Waits(tab[c].sock) /\ ~socks'[tab[c].sock].alive
          /\ socks'[tab[c].sock].down = <<>> /\ socks'[tab[c].sock].up = socks[tab[c].sock].up
        <3>1. DOMAIN socks' = DOMAIN socks' /\ tab[c].sock # 0
            BY <1>3
        <3>2. QED
            BY <1>3, EndStep
    <2>2. QED
        BY <1>1, <1>3, <2>1, CloseShapes
<1>4. QED
    BY <1>2, <1>3

LEMMA DropShapes == ASSUME Shapes, NEW c \in Tabs, Drop(c) PROVE Shapes'
<1>1. /\ Page1(c) /\ tab'[c].sock = 0 /\ tab[c].sock # 0 /\ UNCHANGED <<room, row, count>>
      /\ Frame(tab[c].sock) /\ Waits(tab[c].sock) /\ ~socks'[tab[c].sock].alive
      /\ socks'[tab[c].sock].down = <<>>
    BY DropStep
<1>2. socks[tab[c].sock].up = <<>> => socks'[tab[c].sock].up = <<>>
    <2>1. PICK n \in 0..Len(socks[tab[c].sock].up) :
             socks'[tab[c].sock].up = SubSeq(socks[tab[c].sock].up, 1, n)
        BY DropStep
    <2>2. HAVE socks[tab[c].sock].up = <<>>
    <2>3. n = 0
        BY <2>1, <2>2
    <2>4. QED
        BY <2>1, <2>2, <2>3
<1>3. row' \in [ended : BOOLEAN, final : Versions \cup {NoCode}]
    BY <1>1 DEF Shapes, Typed
<1>4. QED
    BY <1>1, <1>2, <1>3, CloseShapes

LEMMA EditShapes == ASSUME Shapes, NEW c \in Tabs, Edit(c) PROVE Shapes'
<1>1. /\ Page1(c) /\ tab'[c].sock = tab[c].sock /\ UNCHANGED <<room, row>>
      /\ count' \in [edits : Versions, chats : 0..MaxChats, restarts : Nat]
    BY EditStep
<1>2. \A d \in Tabs : tab'[d].sock = tab[d].sock
    BY <1>1 DEF Page1
<1>3. CASE socks' = socks
    BY <1>1, <1>2, <1>3, PageShapes DEF Shapes, Typed, Page1
<1>4. CASE socks' # socks
    <2>1. IsOpen(c) /\ Uploads(tab[c].sock, [type |-> "code", code |-> count.edits + 1])
        BY <1>4, EditStep
    <2>2. Typed'
        BY <1>1, <2>1 DEF Shapes, Typed, Page1, Uploads, Frame
    <2>3. QED
        BY <1>2, <2>1, <2>2, UploadShapes
<1>5. QED
    BY <1>3, <1>4

LEMMA ChatShapes == ASSUME Shapes, NEW c \in Tabs, SendChat(c) PROVE Shapes'
<1>1. /\ IsOpen(c) /\ Uploads(tab[c].sock, [type |-> "chat", item |-> count.chats + 1])
      /\ count' \in [edits : Versions, chats : 0..MaxChats, restarts : Nat]
      /\ UNCHANGED <<room, tab, row>>
    BY ChatStep
<1>2. Typed'
    BY <1>1 DEF Shapes, Typed, Uploads, Frame
<1>3. QED
    BY <1>1, <1>2, UploadShapes

\* Every step is one of these.
LEMMA Steps ==
    ASSUME Next
    PROVE  \/ \E s \in DOMAIN socks : Accept(s)
           \/ \E s \in DOMAIN socks : Refuse(s) \/ Forget(s)
           \/ \E s \in DOMAIN socks : Receive(s)
           \/ \E s \in DOMAIN socks : Leave(s)
           \/ \E s, t \in DOMAIN socks : Send(s, t)
           \/ \E c \in Tabs : LoadRoom(c) \/ ClearGuard(c)
           \/ \E c \in Tabs : Connect(c)
           \/ \E c \in Tabs : Deliver(c)
           \/ \E c \in Tabs : Edit(c)
           \/ \E c \in Tabs : SendChat(c)
           \/ \E c \in Tabs : Drop(c)
           \/ \E c \in Tabs : EndRoom(c)
           \/ Restart
BY DEF Next, Handler, Page, User

LEMMA ShapesKept == ASSUME Shapes, [Next]_vars PROVE Shapes'
<1>1. ASSUME NEW c \in Tabs, LoadRoom(c) \/ ClearGuard(c) PROVE Shapes'
    <2>1. /\ Page1(c) /\ tab'[c].sock = tab[c].sock /\ UNCHANGED <<room, socks, row, count>>
        BY <1>1, LoadStep, ClearStep DEF Shapes
    <2>2. QED
        BY <2>1, PageShapes DEF Shapes, Typed, Page1
<1>2. CASE UNCHANGED vars
    BY <1>2, PageShapes DEF vars, Shapes, Typed
<1>3. CASE Next
    BY <1>1, <1>3, Steps, AcceptShapes, RefuseShapes, ReceiveShapes, LeaveShapes, SendShapes,
       ConnectShapes, DeliverShapes, EditShapes, ChatShapes, DropShapes, EndShapes, RestartShapes
<1>4. QED
    BY <1>2, <1>3

LEMMA ShapesType == Shapes => TypeOK
<1> SUFFICES ASSUME Shapes PROVE TypeOK
    OBVIOUS
<1>1. /\ room.code \in -1..MaxEdits /\ room.chat \in Seq(1..MaxChats) /\ room.presence \subseteq Roles
    BY Bounds DEF Shapes, Typed, State, Versions, Items, NoCode
<1>2. ASSUME NEW s \in DOMAIN socks
      PROVE  /\ socks[s].tab \in Tabs /\ socks[s].at \in Handlers /\ socks[s].todo \subseteq DOMAIN socks
             /\ socks[s].todo # {} <=> socks[s].at \in {"send", "leave"}
    BY Alive DEF Handled, Sock
<1>3. ASSUME NEW c \in Tabs
      PROVE  /\ tab[c].code \in -1..MaxEdits /\ tab[c].guard \in {"clear", "timer", "stuck"}
             /\ tab[c].sock \in 0..Len(socks)
             /\ tab[c].sock # 0 => socks[tab[c].sock].tab = c /\ socks[tab[c].sock].at # "gone"
    <2>1. tab[c] \in Tab
        BY DEF Shapes, Typed
    <2>2. tab[c].sock # 0 => tab[c].sock \in DOMAIN socks /\ socks[tab[c].sock].tab = c
                             /\ socks[tab[c].sock].at # "gone"
        BY Connected
    <2>3. Len(socks) \in Nat /\ DOMAIN socks = 1..Len(socks)
        BY LenProperties DEF Shapes, Typed
    <2>4. QED
        BY <2>1, <2>2, <2>3, Bounds DEF Tab, Versions, NoCode
<1>4. row \in [ended : BOOLEAN, final : -1..MaxEdits]
    BY Bounds DEF Shapes, Typed, Versions, NoCode
<1>5. QED
    BY <1>1, <1>2, <1>3, <1>4 DEF TypeOK

LEMMA ShapesInit == Init => Shapes
<1> SUFFICES ASSUME Init PROVE Shapes
    OBVIOUS
<1>1. /\ NewRoom \in State /\ NewTab \in Tab /\ <<>> \in Seq(Sock)
      /\ NewRow \in [ended : BOOLEAN, final : Versions \cup {NoCode}]
    <2>1. <<>> \in Seq(Items) /\ {} \in SUBSET Roles
        OBVIOUS
    <2>2. QED
        BY <2>1 DEF NewRoom, State, NewTab, Tab, NewRow
<1>2. Typed
    BY <1>1, Bounds DEF Init, Typed, Versions
<1>3. QED
    BY <1>2 DEF Init, Shapes, Uses, NewTab

LEMMA ShapesJoined ==
    ASSUME InitJoined
    PROVE  /\ Shapes
           /\ \A s \in DOMAIN socks :
                /\ socks[s].up = <<>> /\ socks[s].down = <<>> /\ socks[s].alive
                /\ socks[s].at = "serve" /\ socks[s].msg.type = "none"
           /\ \A c \in Tabs :
                /\ tab[c].sock # 0 /\ tab[c].code = 0 /\ tab[c].chat = <<>>
                /\ tab[c].presence = room.presence
<1> DEFINE N == Cardinality(Tabs)
<1>0. /\ room \in State /\ room.presence \in SUBSET Roles /\ 0 \in Versions
      /\ <<>> \in Seq(Items)
    <2>1. <<>> \in Seq(Items) /\ {Role(c) : c \in Tabs} \in SUBSET Roles /\ 0 \in Versions
        BY Bounds DEF Role, Roles, Versions
    <2>2. room = [code |-> 0, chat |-> <<>>, presence |-> {Role(c) : c \in Tabs}]
        BY DEF InitJoined, NewRoom
    <2> DEFINE p == {Role(c) : c \in Tabs}
    <2>3. room = [code |-> 0, chat |-> <<>>, presence |-> p] /\ p \in SUBSET Roles
        BY <2>1, <2>2
    <2> HIDE DEF p
    <2>4. room \in State
        BY <2>1, <2>3 DEF State
    <2>5. room.presence \in SUBSET Roles
        BY <2>3
    <2>6. QED
        BY <2>1, <2>4, <2>5
<1>1. N \in Nat /\ IsFiniteSet(Tabs) /\ IsFiniteSet(1..N) /\ Cardinality(1..N) = N
    BY LiveAssumption, FS_CardinalityType, FS_Interval
<1>2. PICK order \in [1..N -> Tabs], loaded \in SUBSET Tabs :
         /\ \A c \in Tabs : \E s \in DOMAIN order : order[s] = c
         /\ socks = [s \in DOMAIN order |-> [NewSock(order[s]) EXCEPT !.at = "serve"]]
         /\ tab = [c \in Tabs |->
                   [NewTab EXCEPT !.sock = CHOOSE s \in DOMAIN order : order[s] = c,
                                  !.code = 0, !.presence = room.presence,
                                  !.loaded = c \in loaded]]
    BY DEF InitJoined
<1>3. \A s, t \in 1..N : order[s] = order[t] => s = t
    <2>1. order \in Surjection(1..N, Tabs)
        BY <1>2 DEF Surjection
    <2>2. order \in Injection(1..N, Tabs)
        BY <1>1, <2>1, FS_SurjSameCardinalityImpliesInj
    <2>3. QED
        BY <2>2 DEF Injection, IsInjective
<1>4. \A c \in Tabs : /\ tab[c].sock \in 1..N /\ order[tab[c].sock] = c
                      /\ tab[c] \in Tab /\ tab[c].code = 0 /\ tab[c].chat = <<>>
                      /\ tab[c].presence = room.presence
    <2> TAKE c \in Tabs
    <2>1. tab[c] = [NewTab EXCEPT !.sock = CHOOSE s \in DOMAIN order : order[s] = c,
                                  !.code = 0, !.presence = room.presence, !.loaded = c \in loaded]
        BY <1>2
    <2>2. (CHOOSE s \in DOMAIN order : order[s] = c) \in 1..N
          /\ order[CHOOSE s \in DOMAIN order : order[s] = c] = c
        BY <1>2
    <2>3. (c \in loaded) \in BOOLEAN /\ (CHOOSE s \in DOMAIN order : order[s] = c) \in Nat
        BY <1>1, <2>2
    <2>4. /\ tab[c] \in Tab /\ tab[c].sock = CHOOSE s \in DOMAIN order : order[s] = c
          /\ tab[c].code = 0 /\ tab[c].chat = <<>> /\ tab[c].presence = room.presence
        <3> DEFINE i == CHOOSE s \in DOMAIN order : order[s] = c
        <3>1. i \in Nat
            BY <2>3
        <3>2. tab[c] = [NewTab EXCEPT !.sock = i, !.code = 0, !.presence = room.presence,
                                      !.loaded = c \in loaded]
            BY <2>1
        <3> HIDE DEF i
        <3>a. PICK l \in BOOLEAN : l = (c \in loaded)
            <4>1. (c \in loaded) \in BOOLEAN
                BY <2>3
            <4> WITNESS (c \in loaded) \in BOOLEAN
            <4> QED OBVIOUS
        <3>b. tab[c] = [NewTab EXCEPT !.sock = i, !.code = 0, !.presence = room.presence,
                                      !.loaded = l]
            BY <3>2, <3>a, Zenon
        <3>3. /\ tab[c] \in Tab /\ tab[c].sock = i
              /\ tab[c].code = 0 /\ tab[c].chat = <<>> /\ tab[c].presence = room.presence
            <4>1. room.presence \in SUBSET Roles
                BY <1>0
            <4>2. tab[c] = [sock |-> i, code |-> 0, chat |-> <<>>, presence |-> room.presence,
                            guard |-> "clear", loaded |-> l, ended |-> FALSE]
                BY <3>b DEF NewTab
            <4>3. QED
                BY <1>0, <3>1, <3>a, <4>1, <4>2 DEF Tab
        <3>4. QED
            BY <3>3 DEF i
    <2>5. QED
        BY <2>2, <2>4
<1>5. \A s \in 1..N :
         /\ socks[s] \in Sock /\ socks[s].tab = order[s] /\ socks[s].up = <<>> /\ socks[s].down = <<>>
         /\ socks[s].alive /\ socks[s].at = "serve" /\ socks[s].todo = {} /\ socks[s].msg.type = "none"
    <2> TAKE s \in 1..N
    <2>1. <<>> \in Seq(Up) /\ <<>> \in Seq(Down) /\ [type |-> "none"] \in Cast /\ order[s] \in Tabs
        BY DEF Cast
    <2>2. socks[s] = [NewSock(order[s]) EXCEPT !.at = "serve"]
        BY <1>2
    <2>3. ASSUME NEW c \in Tabs
          PROVE  LET k == [NewSock(c) EXCEPT !.at = "serve"]
                 IN  /\ k \in Sock /\ k.tab = c /\ k.up = <<>> /\ k.down = <<>> /\ k.alive
                     /\ k.at = "serve" /\ k.todo = {} /\ k.msg.type = "none"
        BY <2>1 DEF NewSock, Sock, Handlers
    <2>4. QED
        BY <2>1, <2>2, <2>3
<1>6. DOMAIN socks = 1..N /\ socks \in Seq(Sock)
    <2>1. socks \in [1..N -> Sock]
        BY <1>2, <1>5
    <2> HIDE DEF N
    <2>2. QED
        BY <1>1, <2>1
<1>7. Typed
    <2>1. /\ room \in State /\ row \in [ended : BOOLEAN, final : Versions \cup {NoCode}]
          /\ count \in [edits : Versions, chats : 0..MaxChats, restarts : Nat]
        <3>1. row = NewRow /\ count = [edits |-> 0, chats |-> 0, restarts |-> 0]
            BY DEF InitJoined
        <3>2. QED
            BY <1>0, <3>1, Bounds DEF NewRow
    <2>2. tab \in [Tabs -> Tab]
        BY <1>2, <1>4
    <2>3. QED
        BY <1>6, <2>1, <2>2 DEF Typed
<1>8. ASSUME NEW s \in DOMAIN socks PROVE Handled(s)
    <2>1. tab[order[s]].sock = s
        BY <1>3, <1>4, <1>6
    <2>2. QED
        BY <1>5, <1>6, <2>1 DEF Handled, Hellos
<1>9. \A c \in Tabs : Uses(c)
    BY <1>4, <1>5, <1>6 DEF Uses
<1>10. Shapes
    BY <1>7, <1>8, <1>9 DEF Shapes
<1> HIDE DEF N
<1>11. \A c \in Tabs : tab[c].sock # 0
    BY <1>1, <1>4
<1>12. QED
    BY <1>4, <1>5, <1>6, <1>10, <1>11

\* Of a room just opened, and of one that everybody has joined: nothing but the
\* messages of live.py is on the way, a handler has receivers left exactly while
\* it broadcasts, and a page uses a socket of its own that is not over.
THEOREM TypesHold == (Spec => []TypeOK) /\ (SpecJoined => []TypeOK)
<1>1. Spec => []TypeOK
    BY ShapesInit, ShapesKept, ShapesType, PTL DEF Spec
<1>2. SpecJoined => []TypeOK
    BY ShapesJoined, ShapesKept, ShapesType, PTL DEF SpecJoined
<1>3. QED
    BY <1>1, <1>2

-----------------------------------------------------------------------------
(* Who is shown as connected.                                              *)

\* A tab is not back before the server misses it.
OneSocket ==
    \A s, t \in DOMAIN socks :
        /\ socks[s].tab = socks[t].tab
        /\ socks[s].at # "gone" /\ socks[t].at # "gone"
        => s = t

Serving(c) == tab[c].sock # 0 /\ socks[tab[c].sock].at \in {"serve", "send"}

Bears(m) == m.type \in {"hello", "presence"}
Borne(m) == IF m.type = "hello" THEN m.state.presence ELSE m.presence

\* A page with presence p that is still to receive q will show v.
WillShow(q, p, v) ==
    /\ (\A i \in DOMAIN q : ~Bears(q[i])) => p = v
    /\ \A i \in DOMAIN q :
         Bears(q[i]) /\ (\A j \in DOMAIN q : j > i => ~Bears(q[j])) => Borne(q[i]) = v

\* Somebody is about to send s the presence.
Told(s) == \E r \in DOMAIN socks : socks[r].msg.type = "presence" /\ s \in socks[r].todo

Knows(c) ==
    Serving(c) => \/ Told(tab[c].sock)
                  \/ WillShow(socks[tab[c].sock].down, tab[c].presence, room.presence)

Present == {Role(socks[s].tab) : s \in Joined}

PresenceInv == Shapes /\ OneSocket /\ room.presence = Present /\ \A c \in Tabs : Knows(c)

LEMMA ShowsAppended ==
    ASSUME NEW q \in Seq(Down), NEW p, NEW v, NEW m \in Down
    PROVE  /\ ~Bears(m) /\ WillShow(q, p, v) => WillShow(Append(q, m), p, v)
           /\ Bears(m) => WillShow(Append(q, m), p, Borne(m))
<1> DEFINE a == Append(q, m)
<1>1. /\ DOMAIN a = DOMAIN q \cup {Len(q) + 1} /\ Len(q) + 1 \notin DOMAIN q
      /\ \A i \in DOMAIN q : a[i] = q[i] /\ i < Len(q) + 1
      /\ a[Len(q) + 1] = m
    BY Appended
<1>2. \A i \in DOMAIN a : i \in Int
    BY LenProperties, AppendProperties
<1> HIDE DEF a
<1>3. ASSUME ~Bears(m), WillShow(q, p, v)
      PROVE  WillShow(a, p, v)
    <2> USE DEF WillShow
    <2>1. ASSUME \A i \in DOMAIN a : ~Bears(a[i]) PROVE p = v
        BY <1>1, <1>3, <2>1
    <2>2. ASSUME NEW i \in DOMAIN a, Bears(a[i]), \A j \in DOMAIN a : j > i => ~Bears(a[j])
          PROVE  Borne(a[i]) = v
        BY <1>1, <1>3, <2>2
    <2>3. QED
        BY <2>1, <2>2
<1>4. ASSUME Bears(m)
      PROVE  WillShow(a, p, Borne(m))
    <2>1. \A i \in DOMAIN a : (\A j \in DOMAIN a : j > i => ~Bears(a[j])) => i = Len(q) + 1
        BY <1>1, <1>2, <1>4
    <2>2. QED
        BY <1>1, <1>4, <2>1 DEF WillShow
<1>5. QED
    BY <1>3, <1>4 DEF a

LEMMA ShowsTaken ==
    ASSUME NEW q \in Seq(Down), q # <<>>, NEW p, NEW v, WillShow(q, p, v)
    PROVE  /\ ~Bears(Head(q)) => WillShow(Tail(q), p, v)
           /\ Bears(Head(q)) => WillShow(Tail(q), Borne(Head(q)), v)
<1> DEFINE t == Tail(q)
<1>1. /\ 1 \in DOMAIN q /\ Head(q) = q[1]
      /\ \A i \in DOMAIN t : i + 1 \in DOMAIN q /\ t[i] = q[i + 1] /\ i \in Nat \ {0}
      /\ \A i \in DOMAIN q : i # 1 => i - 1 \in DOMAIN t
    BY Shifted
<1>2. \A i \in DOMAIN q : i \in Nat \ {0}
    BY LenProperties
<1> HIDE DEF t
<1>3. \A i \in DOMAIN q : i # 1 => i - 1 \in DOMAIN t /\ t[i - 1] = q[i]
    BY <1>1, <1>2
<1>4. ASSUME NEW i \in DOMAIN t, Bears(t[i]), \A j \in DOMAIN t : j > i => ~Bears(t[j])
      PROVE  Borne(t[i]) = v
    <2>1. i + 1 \in DOMAIN q /\ t[i] = q[i + 1] /\ i \in Nat \ {0}
        BY <1>1
    <2>2. ASSUME NEW j \in DOMAIN q, j > i + 1 PROVE ~Bears(q[j])
        <3>1. j - 1 \in DOMAIN t /\ t[j - 1] = q[j] /\ j - 1 > i
            BY <1>2, <1>3, <2>1, <2>2
        <3>2. QED
            BY <1>4, <3>1
    <2>3. QED
        BY <1>4, <2>1, <2>2 DEF WillShow
<1>5. ASSUME \A i \in DOMAIN t : ~Bears(t[i])
      PROVE  v = IF Bears(q[1]) THEN Borne(q[1]) ELSE p
    <2>1. \A j \in DOMAIN q : j # 1 => ~Bears(q[j])
        BY <1>3, <1>5
    <2>2. QED
        BY <1>1, <1>2, <2>1 DEF WillShow
<1>6. QED
    BY <1>1, <1>4, <1>5 DEF WillShow, t

\* No socket changes hands, and a handler that is over stays so.
LEMMA Lasting ==
    ASSUME Shapes, Next
    PROVE  /\ DOMAIN socks \subseteq DOMAIN socks'
           /\ \A s \in DOMAIN socks :
                socks'[s].tab = socks[s].tab /\ (socks[s].at = "gone" => socks'[s].at = "gone")
           /\ DOMAIN socks' = DOMAIN socks \/ \E c \in Tabs : Connect(c)
<1> DEFINE Goal == /\ DOMAIN socks' = DOMAIN socks
                   /\ \A s \in DOMAIN socks :
                        /\ socks'[s].tab = socks[s].tab
                        /\ socks[s].at = "gone" => socks'[s].at = "gone"
<1>0. Typed
    BY DEF Shapes
<1>1. ASSUME NEW s \in DOMAIN socks, Frame(s), socks[s].at # "gone" \/ socks'[s].at = socks[s].at
      PROVE  Goal
    BY <1>1 DEF Frame
<1>2. ASSUME NEW s \in DOMAIN socks, Accept(s) \/ Refuse(s) \/ Forget(s) \/ Receive(s) \/ Leave(s)
      PROVE  Goal
    <2>1. Frame(s) /\ socks[s].at \in {"open", "serve"}
        BY <1>0, <1>2, AcceptStep, RefuseStep, ReceiveStep, LeaveStep
    <2>2. QED
        BY <1>1, <2>1
<1>3. ASSUME NEW s \in DOMAIN socks, NEW t \in DOMAIN socks, Send(s, t)
      PROVE  Goal
    <2>1. Handled(s)
        BY Alive
    <2>2. /\ DOMAIN socks' = DOMAIN socks /\ socks[s].at \in {"send", "leave"}
          /\ \A u \in DOMAIN socks : socks'[u].tab = socks[u].tab /\ (u # s => socks'[u].at = socks[u].at)
        BY <1>0, <1>3, <2>1, SendStep
    <2>3. QED
        BY <2>2
<1>4. ASSUME NEW c \in Tabs, LoadRoom(c) \/ ClearGuard(c)
      PROVE  Goal
    BY <1>0, <1>4, LoadStep, ClearStep
<1>5. ASSUME NEW c \in Tabs, Deliver(c) \/ Edit(c) \/ SendChat(c) \/ Drop(c) \/ EndRoom(c)
      PROVE  Goal
    <2>1. socks' = socks \/ (tab[c].sock # 0 /\ Frame(tab[c].sock) /\ Waits(tab[c].sock))
        BY <1>5, DeliverStep, EditStep, ChatStep, DropStep, EndStep DEF Uploads, IsOpen
    <2>2. CASE socks' = socks
        BY <2>2
    <2>3. CASE tab[c].sock # 0 /\ Frame(tab[c].sock) /\ Waits(tab[c].sock)
        <3>1. PICK s \in DOMAIN socks : s = tab[c].sock
            BY <2>3, Connected
        <3>2. QED
            BY <1>1, <2>3, <3>1 DEF Waits
    <2>4. QED
        BY <2>1, <2>2, <2>3
<1>6. ASSUME Restart PROVE Goal
    BY <1>0, <1>6, RestartStep
<1>7. ASSUME NEW c \in Tabs, Connect(c)
      PROVE  /\ DOMAIN socks \subseteq DOMAIN socks'
             /\ \A s \in DOMAIN socks : socks'[s] = socks[s]
    BY <1>0, <1>7, ConnectStep
<1>8. Goal \/ \E c \in Tabs : Connect(c)
    <2> HIDE DEF Goal
    <2>1. \/ \E s \in DOMAIN socks : Accept(s) \/ Refuse(s) \/ Forget(s) \/ Receive(s) \/ Leave(s)
          \/ \E s, t \in DOMAIN socks : Send(s, t)
          \/ \E c \in Tabs : LoadRoom(c) \/ ClearGuard(c)
          \/ \E c \in Tabs : Deliver(c) \/ Edit(c) \/ SendChat(c) \/ Drop(c) \/ EndRoom(c)
          \/ Restart
          \/ \E c \in Tabs : Connect(c)
        BY Steps, Zenon
    <2>2. QED
        <3>1. (\E s \in DOMAIN socks : Accept(s) \/ Refuse(s) \/ Forget(s) \/ Receive(s) \/ Leave(s)) => Goal
            BY <1>2, Zenon
        <3>2. (\E s, t \in DOMAIN socks : Send(s, t)) => Goal
            BY <1>3, Zenon
        <3>3. (\E c \in Tabs : LoadRoom(c) \/ ClearGuard(c)) => Goal
            BY <1>4, Zenon
        <3>4. (\E c \in Tabs : Deliver(c) \/ Edit(c) \/ SendChat(c) \/ Drop(c) \/ EndRoom(c)) => Goal
            BY <1>5, Zenon
        <3>5. QED
            BY <1>6, <2>1, <3>1, <3>2, <3>3, <3>4, Zenon
<1>9. QED
    BY <1>7, <1>8

LEMMA OneSocketKept ==
    ASSUME ~HalfOpen, Shapes, OneSocket, Next
    PROVE  OneSocket'
<1>1. CASE DOMAIN socks' = DOMAIN socks
    <2>1. \A s \in DOMAIN socks :
             /\ socks'[s].tab = socks[s].tab
             /\ socks[s].at = "gone" => socks'[s].at = "gone"
        BY Lasting
    <2>2. QED
        BY <1>1, <2>1 DEF OneSocket
<1>2. ASSUME NEW c \in Tabs, Connect(c)
      PROVE  OneSocket'
    <2>1. PICK n : n = tab'[c].sock
        OBVIOUS
    <2>2. /\ DOMAIN socks' = DOMAIN socks \cup {n} /\ n \notin DOMAIN socks
          /\ \A s \in DOMAIN socks : socks'[s] = socks[s]
          /\ socks'[n] = NewSock(c)
        BY <1>2, <2>1, ConnectStep DEF Shapes
    <2>3. \A s \in DOMAIN socks : socks[s].tab = c => socks[s].at = "gone"
        BY <1>2 DEF Connect
    <2>4. socks'[n].tab = c
        BY <2>2 DEF NewSock
    <2>5. QED
        BY <2>2, <2>3, <2>4 DEF OneSocket
<1>3. QED
    BY <1>1, <1>2, Lasting

\* A page that hears nothing new, while the presence stays and nobody who was
\* about to tell it stops.
LEMMA KnowsKept ==
    ASSUME Shapes, NEW c \in Tabs, Knows(c), NEW s \in DOMAIN socks, tab[c].sock = s,
           tab'[c].sock = s, Serving(c)' => Serving(c),
           tab'[c].presence = tab[c].presence, room'.presence = room.presence,
           socks'[s].down = socks[s].down, DOMAIN socks \subseteq DOMAIN socks',
           \A r \in DOMAIN socks :
              socks[r].msg.type = "presence" /\ s \in socks[r].todo
                => socks'[r].msg.type = "presence" /\ s \in socks'[r].todo
    PROVE  Knows(c)'
<1> SUFFICES ASSUME Serving(c)' PROVE Told(s)' \/ WillShow(socks[s].down, tab[c].presence, room.presence)
    BY DEF Knows
<1>1. Told(s) \/ WillShow(socks[s].down, tab[c].presence, room.presence)
    BY DEF Knows
<1>2. Told(s) => Told(s)'
    BY DEF Told
<1>3. QED
    BY <1>1, <1>2

LEMMA PresentFrame ==
    ASSUME Shapes, NEW s \in DOMAIN socks, Frame(s)
    PROVE  /\ (s \in Joined' <=> s \in Joined) => Joined' = Joined /\ Present' = Present
           /\ s \in Joined' /\ s \notin Joined =>
                Joined' = Joined \cup {s} /\ Present' = Present \cup {Role(socks[s].tab)}
           /\ s \notin Joined' /\ s \in Joined =>
                Joined' = Joined \ {s} /\ Present' = {Role(socks[t].tab) : t \in Joined \ {s}}
<1>1. \A t \in DOMAIN socks : socks'[t].tab = socks[t].tab /\ (t # s => (t \in Joined' <=> t \in Joined))
    BY DEF Frame, Joined
<1>2. DOMAIN socks' = DOMAIN socks /\ Joined \subseteq DOMAIN socks /\ Joined' \subseteq DOMAIN socks
    BY DEF Frame, Joined
<1>3. Present' = {Role(socks[t].tab) : t \in Joined'}
    BY <1>1, <1>2 DEF Present
<1>4. QED
    <2>1. ASSUME s \in Joined' <=> s \in Joined
          PROVE  Joined' = Joined /\ Present' = Present
        <3>1. Joined' = Joined
            <4>1. \A t \in DOMAIN socks : t \in Joined' <=> t \in Joined
                BY <1>1, <2>1
            <4>2. QED
                BY <1>2, <4>1
        <3>2. QED
            BY <1>3, <3>1 DEF Present
    <2>2. ASSUME s \in Joined', s \notin Joined
          PROVE  Joined' = Joined \cup {s} /\ Present' = Present \cup {Role(socks[s].tab)}
        <3>1. Joined' = Joined \cup {s}
            BY <1>1, <1>2, <2>2
        <3>2. QED
            BY <1>3, <3>1 DEF Present
    <2>3. ASSUME s \notin Joined', s \in Joined
          PROVE  Joined' = Joined \ {s} /\ Present' = {Role(socks[t].tab) : t \in Joined \ {s}}
        <3>1. Joined' = Joined \ {s}
            BY <1>1, <1>2, <2>3
        <3>2. QED
            BY <1>3, <3>1
    <2>4. QED
        BY <2>1, <2>2, <2>3

\* Everybody joined is among the receivers of a broadcast of the presence.
LEMMA AllTold ==
    ASSUME Shapes, Shapes', NEW s \in DOMAIN socks, DOMAIN socks' = DOMAIN socks, NEW todo,
           Joined \ {s} \subseteq todo, Starts(s, "send", [type |-> "presence"], todo)
                                       \/ Starts(s, "leave", [type |-> "presence"], todo),
           NEW c \in Tabs, Serving(c)', tab'[c].sock \in todo
    PROVE  Knows(c)'
<1>1. s \in DOMAIN socks' /\ tab'[c].sock \in socks'[s].todo /\ socks'[s].msg.type = "presence"
    BY DEF Starts
<1>2. Told(tab[c].sock)'
    BY <1>1 DEF Told
<1>3. QED
    BY <1>2 DEF Knows

LEMMA AcceptPresence ==
    ASSUME PresenceInv, NEW s \in DOMAIN socks, Accept(s), Shapes'
    PROVE  room'.presence = Present' /\ \A c \in Tabs : Knows(c)'
<1>1. /\ Shapes /\ Typed /\ Frame(s) /\ socks[s].at = "open" /\ tab' = tab
      /\ room'.presence = room.presence \cup {Role(socks[s].tab)}
      /\ Starts(s, "send", [type |-> "presence"], Joined \cup {s})
    BY AcceptStep DEF PresenceInv, Shapes
<1>2. s \notin Joined /\ s \in Joined'
    BY <1>1 DEF Joined, Starts, Frame
<1>3. room'.presence = Present'
    BY <1>1, <1>2, PresentFrame DEF PresenceInv
<1>4. ASSUME NEW c \in Tabs, Serving(c)'
      PROVE  Knows(c)'
    <2>1. tab[c].sock = s \/ tab[c].sock \in Joined
        BY <1>1, <1>4, Connected DEF Serving, Frame, Joined
    <2>2. QED
        BY <1>1, <1>4, <2>1, AllTold DEF Frame
<1>5. QED
    BY <1>3, <1>4 DEF Knows

LEMMA LeavePresence ==
    ASSUME \A c, d \in Tabs : Role(c) = Role(d) => c = d,
           PresenceInv, NEW s \in DOMAIN socks, Leave(s), Shapes'
    PROVE  room'.presence = Present' /\ \A c \in Tabs : Knows(c)'
<1>1. /\ Shapes /\ Typed /\ Frame(s) /\ socks[s].at = "serve" /\ ~socks[s].alive /\ tab' = tab
      /\ room'.presence = room.presence \ {Role(socks[s].tab)}
      /\ Starts(s, "leave", [type |-> "presence"], Joined \ {s})
    BY LeaveStep DEF PresenceInv, Shapes
<1>2. s \in Joined /\ s \notin Joined'
    BY <1>1 DEF Joined, Starts
<1>3. room'.presence = Present'
    <2>1. \A t \in Joined \ {s} : Role(socks[t].tab) # Role(socks[s].tab)
        <3>1. \A t \in Joined : t \in DOMAIN socks /\ socks[t].tab \in Tabs /\ socks[t].at # "gone"
            BY <1>1, Alive DEF Joined
        <3>2. QED
            BY <1>2, <3>1 DEF PresenceInv, OneSocket
    <2>2. Present = {Role(socks[t].tab) : t \in Joined \ {s}} \cup {Role(socks[s].tab)}
        BY <1>2 DEF Present
    <2>3. Present' = {Role(socks[t].tab) : t \in Joined \ {s}}
        BY <1>1, <1>2, PresentFrame
    <2>4. {Role(socks[t].tab) : t \in Joined \ {s}} = Present \ {Role(socks[s].tab)}
        BY <2>1, <2>2
    <2>5. QED
        BY <1>1, <2>3, <2>4 DEF PresenceInv
<1>4. ASSUME NEW c \in Tabs, Serving(c)'
      PROVE  Knows(c)'
    <2>1. tab[c].sock # 0 /\ tab[c].sock # s
        BY <1>1, <1>4, Alive DEF Serving
    <2>2. tab[c].sock \in Joined \ {s}
        BY <1>1, <1>4, <2>1, Connected DEF Serving, Frame, Joined
    <2>3. QED
        BY <1>1, <1>4, <2>2, AllTold DEF Frame
<1>5. QED
    BY <1>3, <1>4 DEF Knows

LEMMA RefusePresence ==
    ASSUME PresenceInv, NEW s \in DOMAIN socks, Refuse(s) \/ Forget(s), Shapes'
    PROVE  room'.presence = Present' /\ \A c \in Tabs : Knows(c)'
<1>1. /\ Shapes /\ Typed /\ Frame(s) /\ socks[s].at = "open" /\ socks'[s].at = "gone" /\ room' = room
      /\ socks'[s].down = socks[s].down /\ socks'[s].todo = socks[s].todo /\ socks'[s].msg = socks[s].msg
    BY RefuseStep DEF PresenceInv, Shapes
<1>2. s \notin Joined /\ s \notin Joined'
    BY <1>1 DEF Joined
<1>3. room'.presence = Present'
    BY <1>1, <1>2, PresentFrame DEF PresenceInv
<1>4. ASSUME NEW c \in Tabs, Serving(c)'
      PROVE  Knows(c)'
    <2>1. tab'[c].sock # 0 /\ tab'[c].sock # s /\ tab'[c].sock \in DOMAIN socks
        <3>1. tab'[c].sock # 0 /\ tab'[c].sock # s
            BY <1>1, <1>4 DEF Serving
        <3>2. tab'[c].sock \in DOMAIN socks'
            BY <3>1 DEF Shapes, Uses
        <3>3. QED
            BY <1>1, <3>1, <3>2 DEF Frame
    <2>2. tab'[c] = tab[c]
        <3>1. CASE tab[c].sock # s
            BY <1>1, <3>1, RefuseStep
        <3>2. CASE tab[c].sock = s
            <4>1. tab'[c] = tab[c] \/ tab'[c] = [tab[c] EXCEPT !.sock = 0]
                BY <1>1, <3>2, RefuseStep
            <4>2. QED
                BY <1>1, <2>1, <4>1 DEF Typed, Tab
        <3>3. QED
            BY <3>1, <3>2
    <2>3. PICK t \in DOMAIN socks : t = tab[c].sock /\ t # s
        BY <2>1, <2>2
    <2>4. Serving(c)
        BY <1>1, <1>4, <2>1, <2>2 DEF Serving, Frame
    <2>5. QED
        BY <1>1, <2>1, <2>2, <2>3, <2>4, KnowsKept DEF Frame, PresenceInv
<1>5. QED
    BY <1>3, <1>4 DEF Knows

LEMMA ReceivePresence ==
    ASSUME PresenceInv, NEW s \in DOMAIN socks, Receive(s), Shapes'
    PROVE  room'.presence = Present' /\ \A c \in Tabs : Knows(c)'
<1>1. /\ Shapes /\ Typed /\ Frame(s) /\ socks[s].at = "serve" /\ room'.presence = room.presence
      /\ Line(s) /\ tab' = tab
    BY ReceiveStep DEF PresenceInv, Shapes
<1>2. s \in Joined /\ s \in Joined' /\ socks[s].todo = {}
    <2>1. socks'[s].at \in {"serve", "send"}
        BY <1>1, ReceiveStep DEF Starts
    <2>2. socks[s].todo = {}
        BY <1>1, Alive DEF Handled
    <2>3. QED
        BY <1>1, <2>1, <2>2 DEF Joined, Frame
<1>3. room'.presence = Present'
    BY <1>1, <1>2, PresentFrame DEF PresenceInv
<1>4. ASSUME NEW c \in Tabs, Serving(c)'
      PROVE  Knows(c)'
    <2>1. PICK t \in DOMAIN socks : t = tab[c].sock
        BY <1>1, <1>4, Connected DEF Serving
    <2>2. Serving(c) /\ socks'[t].down = socks[t].down
        BY <1>1, <1>4, <2>1 DEF Serving, Frame, Line
    <2>3. \A r \in DOMAIN socks : t \in socks[r].todo => r # s /\ socks'[r] = socks[r]
        BY <1>1, <1>2 DEF Frame
    <2>4. DOMAIN socks \subseteq DOMAIN socks' /\ Knows(c)
        BY <1>1 DEF Frame, PresenceInv
    <2>5. QED
        BY <1>1, <2>1, <2>2, <2>3, <2>4, KnowsKept
<1>5. QED
    BY <1>3, <1>4 DEF Knows

LEMMA SendPresence ==
    ASSUME PresenceInv, NEW s \in DOMAIN socks, NEW t \in DOMAIN socks, Send(s, t), Shapes'
    PROVE  room'.presence = Present' /\ \A c \in Tabs : Knows(c)'
<1>0. Typed /\ Handled(s)
    BY Alive DEF PresenceInv, Shapes
<1>1. /\ Shapes /\ Typed /\ Handled(s) /\ t \in socks[s].todo /\ socks[s].at \in {"send", "leave"}
      /\ socks[s].todo \subseteq DOMAIN socks /\ Sent(s) \in Down /\ Sent(s).type # "hello"
      /\ DOMAIN socks' = DOMAIN socks /\ UNCHANGED <<room, tab, row, count>>
    BY SendStep, Alive DEF PresenceInv, Shapes, Handled
<1>2. Starts(s, socks[s].at, socks[s].msg, socks[s].todo \ {t})
    BY <1>0, SendStep
<1>3. \A u \in DOMAIN socks :
         /\ socks'[u].tab = socks[u].tab /\ socks'[u].up = socks[u].up
         /\ socks'[u].alive = socks[u].alive
         /\ u # t => socks'[u].down = socks[u].down
         /\ u # s => /\ socks'[u].at = socks[u].at /\ socks'[u].todo = socks[u].todo
                     /\ socks'[u].msg = socks[u].msg
    BY <1>0, SendStep
<1>4. \A u \in DOMAIN socks : socks'[u].at \in {"serve", "send"} <=> socks[u].at \in {"serve", "send"}
    BY <1>1, <1>2, <1>3 DEF Starts
<1>5. room'.presence = Present'
    <2>1. Joined' = Joined
        BY <1>1, <1>4 DEF Joined
    <2>2. \A u \in Joined : socks'[u].tab = socks[u].tab
        BY <1>3 DEF Joined
    <2>3. Present' = Present
        BY <2>1, <2>2 DEF Present
    <2>4. QED
        BY <1>1, <2>3 DEF PresenceInv
<1>6. ASSUME NEW c \in Tabs, Serving(c)'
      PROVE  Knows(c)'
    <2>1. PICK k \in DOMAIN socks : k = tab[c].sock /\ socks[k].alive
        BY <1>1, <1>6, Connected DEF Serving
    <2>2. Serving(c) /\ Knows(c)
        BY <1>1, <1>4, <1>6, <2>1 DEF Serving, PresenceInv
    <2>3. ASSUME NEW r \in DOMAIN socks, socks[r].msg.type = "presence", k \in socks[r].todo,
                 ~(r = s /\ k = t)
          PROVE  socks'[r].msg.type = "presence" /\ k \in socks'[r].todo
        <3>1. CASE r = s
            BY <1>2, <2>3, <3>1 DEF Starts
        <3>2. CASE r # s
            BY <1>3, <2>3, <3>2
        <3>3. QED
            BY <3>1, <3>2
    <2>4. CASE k # t
        BY <1>1, <1>3, <2>1, <2>2, <2>3, <2>4, KnowsKept
    <2>5. CASE k = t
        <3>1. /\ socks'[t].down = Append(socks[t].down, Sent(s)) /\ socks[t].down \in Seq(Down)
            BY <1>1, <2>1, <2>5, SendStep, Alive DEF Sock
        <3>2. CASE socks[s].msg.type = "presence"
            <4>1. Bears(Sent(s)) /\ Borne(Sent(s)) = room.presence
                BY <3>2 DEF Sent, Bears, Borne
            <4>2. WillShow(socks'[t].down, tab[c].presence, room.presence)
                BY <1>1, <3>1, <4>1, ShowsAppended
            <4>3. QED
                BY <1>1, <2>1, <2>5, <4>2 DEF Knows
        <3>3. CASE socks[s].msg.type # "presence"
            <4>1. ~Bears(Sent(s))
                BY <1>1, <3>3 DEF Sent, Bears
            <4>2. CASE WillShow(socks[t].down, tab[c].presence, room.presence)
                <5>1. WillShow(socks'[t].down, tab[c].presence, room.presence)
                    BY <1>1, <3>1, <4>1, <4>2, ShowsAppended
                <5>2. QED
                    BY <1>1, <2>1, <2>5, <5>1 DEF Knows
            <4>3. CASE Told(k)
                <5>1. Told(k)'
                    BY <1>1, <2>3, <3>3, <4>3 DEF Told
                <5>2. QED
                    BY <1>1, <2>1, <5>1 DEF Knows
            <4>4. QED
                BY <2>1, <2>2, <2>5, <4>2, <4>3 DEF Knows
        <3>4. QED
            BY <3>2, <3>3
    <2>6. QED
        BY <2>4, <2>5
<1>7. QED
    BY <1>5, <1>6 DEF Knows

\* A page acts: nobody joins, leaves or is told anything.
LEMMA PagePresence ==
    ASSUME PresenceInv, Shapes', NEW c \in Tabs, Page1(c), Hears(c), room' = room,
           DOMAIN socks' = DOMAIN socks,
           \A s \in DOMAIN socks : /\ socks'[s].tab = socks[s].tab
                                   /\ socks'[s].at = socks[s].at /\ socks'[s].todo = socks[s].todo
                                   /\ socks'[s].msg = socks[s].msg
                                   /\ s # tab[c].sock \/ tab'[c].sock = s => socks'[s].down = socks[s].down,
           \/ tab'[c].sock = 0
           \/ tab'[c].sock = tab[c].sock
    PROVE  room'.presence = Present' /\ \A d \in Tabs : Knows(d)'
<1>1. room'.presence = Present'
    <2>1. Joined' = Joined
        BY DEF Joined
    <2>2. \A u \in Joined : socks'[u].tab = socks[u].tab
        BY DEF Joined
    <2>3. Present' = Present
        BY <2>1, <2>2 DEF Present
    <2>4. QED
        BY <2>3 DEF PresenceInv
<1>2. ASSUME NEW d \in Tabs, Serving(d)'
      PROVE  Knows(d)'
    <2>1. tab'[d].sock = tab[d].sock /\ tab'[d].presence = tab[d].presence
        BY <1>2 DEF Page1, Hears, Serving
    <2>2. PICK k \in DOMAIN socks : k = tab[d].sock /\ socks[k].tab = d
        BY <1>2, <2>1, Connected DEF Serving, PresenceInv
    <2>3. Serving(d) /\ Knows(d) /\ Shapes
        BY <1>2, <2>1, <2>2 DEF Serving, PresenceInv
    <2>4. socks'[k].down = socks[k].down
        <3>1. CASE d = c
            BY <2>1, <2>2, <3>1
        <3>2. CASE d # c
            <4>1. tab[c].sock # k
                BY <2>2, <2>3, <3>2, Alive
            <4>2. QED
                BY <2>2, <4>1
        <3>3. QED
            BY <3>1, <3>2
    <2>5. QED
        BY <2>1, <2>2, <2>3, <2>4, KnowsKept
<1>3. QED
    BY <1>1, <1>2 DEF Knows

LEMMA IdlePresence ==
    ASSUME PresenceInv, Shapes', NEW c \in Tabs,
           LoadRoom(c) \/ ClearGuard(c) \/ Edit(c) \/ SendChat(c) \/ Drop(c) \/ EndRoom(c)
    PROVE  room'.presence = Present' /\ \A d \in Tabs : Knows(d)'
<1>0. Shapes /\ Typed
    BY DEF PresenceInv, Shapes
<1>1. CASE LoadRoom(c) \/ ClearGuard(c)
    <2>1. Page1(c) /\ Hears(c) /\ room' = room /\ socks' = socks /\ tab'[c].sock = tab[c].sock
        BY <1>0, <1>1, LoadStep, ClearStep
    <2>2. QED
        BY <2>1, PagePresence
<1>2. CASE Edit(c) \/ SendChat(c)
    <2>1. Page1(c) /\ Hears(c) /\ room' = room /\ tab'[c].sock = tab[c].sock
        BY <1>0, <1>2, EditStep, ChatStep DEF Page1, Hears, Typed
    <2>2. socks' = socks \/ (IsOpen(c) /\ \E m : Uploads(tab[c].sock, m))
        BY <1>0, <1>2, EditStep, ChatStep
    <2>3. CASE socks' = socks
        BY <2>1, <2>3, PagePresence
    <2>4. CASE IsOpen(c) /\ \E m : Uploads(tab[c].sock, m)
        <3>1. /\ Frame(tab[c].sock) /\ Waits(tab[c].sock) /\ Line(tab[c].sock)
            BY <2>4 DEF Uploads
        <3>2. QED
            BY <2>1, <3>1, PagePresence DEF Frame, Waits, Line
    <2>5. QED
        BY <2>2, <2>3, <2>4
<1>3. CASE Drop(c) \/ EndRoom(c)
    <2>1. Page1(c) /\ Hears(c) /\ room' = room /\ tab'[c].sock = 0
        BY <1>0, <1>3, DropStep, EndStep
    <2>2. socks' = socks \/ (tab[c].sock # 0 /\ Frame(tab[c].sock) /\ Waits(tab[c].sock))
        BY <1>0, <1>3, DropStep, EndStep
    <2>3. CASE socks' = socks
        BY <2>1, <2>3, PagePresence
    <2>4. CASE tab[c].sock # 0 /\ Frame(tab[c].sock) /\ Waits(tab[c].sock)
        <3>1. 0 \notin DOMAIN socks
            BY <1>0, <2>4, Alive, Connected
        <3>2. QED
            BY <2>1, <2>4, <3>1, PagePresence DEF Frame, Waits
    <2>5. QED
        BY <2>2, <2>3, <2>4
<1>4. QED
    BY <1>1, <1>2, <1>3

LEMMA DeliverPresence ==
    ASSUME PresenceInv, Shapes', NEW c \in Tabs, Deliver(c)
    PROVE  room'.presence = Present' /\ \A d \in Tabs : Knows(d)'
<1>0. Shapes
    BY DEF PresenceInv
<1>s. PICK s \in DOMAIN socks : s = tab[c].sock
    BY <1>0, DeliverStep
<1>1. /\ Page1(c) /\ tab'[c].sock = s /\ s # 0
      /\ socks[s].tab = c /\ socks[s].at \in {"serve", "send"}
      /\ Frame(s) /\ Waits(s) /\ socks[s].down # <<>> /\ socks'[s].down = Tail(socks[s].down)
      /\ Next1(c) = Head(socks[s].down) /\ room' = room
    BY <1>0, <1>s, DeliverStep DEF Next1
<1>2. room'.presence = Present'
    <2>1. s \in Joined /\ s \in Joined'
        BY <1>1 DEF Joined, Frame, Waits
    <2>2. QED
        BY <1>0, <1>1, <2>1, PresentFrame DEF PresenceInv
<1>3. \A r \in DOMAIN socks : socks'[r].msg = socks[r].msg /\ socks'[r].todo = socks[r].todo
    BY <1>1 DEF Frame, Waits
<1>4. ASSUME NEW d \in Tabs, d # c, Serving(d)'
      PROVE  Knows(d)'
    <2>1. tab'[d] = tab[d]
        BY <1>1, <1>4 DEF Page1
    <2>2. PICK k \in DOMAIN socks : k = tab[d].sock /\ socks[k].tab = d
        BY <1>0, <1>4, <2>1, Connected DEF Serving
    <2>3. socks'[k] = socks[k]
        BY <1>1, <1>4, <2>2 DEF Frame
    <2>4. Serving(d) /\ Knows(d) /\ DOMAIN socks \subseteq DOMAIN socks'
        BY <1>1, <1>4, <2>1, <2>2, <2>3 DEF Serving, PresenceInv, Frame
    <2>5. QED
        BY <1>0, <1>1, <1>3, <2>1, <2>2, <2>3, <2>4, KnowsKept
<1>5. Knows(c)'
    <2>1. Serving(c) /\ Knows(c)
        BY <1>s, <1>1 DEF Serving, PresenceInv
    <2>2. CASE Told(s)
        <3>1. Told(s)'
            BY <1>1, <1>3, <2>2 DEF Told, Frame
        <3>2. QED
            BY <1>1, <3>1 DEF Knows
    <2>3. CASE WillShow(socks[s].down, tab[c].presence, room.presence)
        <3> DEFINE m == Head(socks[s].down)
                   q == socks[s].down
        <3>1. q \in Seq(Down) /\ q # <<>>
            BY <1>0, <1>1, Alive DEF Sock
        <3>a. \/ m.type = "hello" /\ tab'[c].presence = m.state.presence
              \/ m.type = "presence" /\ tab'[c].presence = m.presence
              \/ m.type \in {"code", "chat"} /\ tab'[c].presence = tab[c].presence
            <4>1. \/ /\ Next1(c).type = "hello" /\ tab'[c].presence = Next1(c).state.presence
                  \/ /\ Next1(c).type = "code" /\ Hears(c)
                  \/ /\ Next1(c).type = "chat" /\ tab'[c].presence = tab[c].presence
                  \/ /\ Next1(c).type = "presence" /\ tab'[c].presence = Next1(c).presence
                BY <1>0, DeliverStep
            <4>2. QED
                BY <1>1, <4>1 DEF Hears
        <3>2. CASE Bears(m)
            <4>1. tab'[c].presence = Borne(m)
                BY <3>2, <3>a DEF Bears, Borne
            <4>2. WillShow(Tail(q), Borne(m), room.presence)
                BY <2>3, <3>1, <3>2, ShowsTaken
            <4>3. QED
                BY <1>1, <4>1, <4>2 DEF Knows
        <3>3. CASE ~Bears(m)
            <4>1. tab'[c].presence = tab[c].presence
                BY <3>3, <3>a DEF Bears
            <4>2. WillShow(Tail(q), tab[c].presence, room.presence)
                BY <2>3, <3>1, <3>3, ShowsTaken
            <4>3. QED
                BY <1>1, <4>1, <4>2 DEF Knows
        <3>4. QED
            BY <3>2, <3>3
    <2>4. QED
        BY <1>s, <2>1, <2>2, <2>3 DEF Knows
<1>6. QED
    BY <1>2, <1>4, <1>5 DEF Knows

LEMMA ConnectPresence ==
    ASSUME PresenceInv, Shapes', NEW c \in Tabs, Connect(c)
    PROVE  room'.presence = Present' /\ \A d \in Tabs : Knows(d)'
<1>0. Shapes /\ Typed
    BY DEF PresenceInv, Shapes
<1>n. PICK n : n = tab'[c].sock
    OBVIOUS
<1>1. /\ Page1(c) /\ n \notin DOMAIN socks /\ DOMAIN socks' = DOMAIN socks \cup {n}
      /\ \A s \in DOMAIN socks : socks'[s] = socks[s]
      /\ socks'[n].at = "open" /\ room' = room
    <2>1. socks'[n] = NewSock(c)
        BY <1>0, <1>n, ConnectStep
    <2>2. NewSock(c).at = "open"
        BY DEF NewSock
    <2>3. QED
        BY <1>0, <1>n, <2>1, <2>2, ConnectStep
<1>2. room'.presence = Present'
    <2>1. Joined' = Joined
        BY <1>1 DEF Joined
    <2>2. \A u \in Joined : socks'[u].tab = socks[u].tab
        BY <1>1 DEF Joined
    <2>3. Present' = Present
        BY <2>1, <2>2 DEF Present
    <2>4. QED
        BY <1>1, <2>3 DEF PresenceInv
<1>3. ASSUME NEW d \in Tabs, Serving(d)'
      PROVE  Knows(d)'
    <2>1. d # c
        BY <1>n, <1>1, <1>3 DEF Serving
    <2>2. tab'[d] = tab[d]
        BY <1>1, <2>1 DEF Page1
    <2>3. PICK k \in DOMAIN socks : k = tab[d].sock
        BY <1>0, <1>3, <2>2, Connected DEF Serving
    <2>4. Serving(d) /\ Knows(d)
        BY <1>1, <1>3, <2>2, <2>3 DEF Serving, PresenceInv
    <2>5. QED
        BY <1>0, <1>1, <2>2, <2>3, <2>4, KnowsKept
<1>4. QED
    BY <1>2, <1>3 DEF Knows

LEMMA RestartPresence ==
    ASSUME PresenceInv, Restart
    PROVE  room'.presence = Present' /\ \A d \in Tabs : Knows(d)'
<1>1. /\ room' = NewRoom /\ DOMAIN socks' = DOMAIN socks
      /\ \A s \in DOMAIN socks : socks'[s].at = "gone"
      /\ \A c \in Tabs : tab'[c].sock = 0
    BY RestartStep DEF PresenceInv, Shapes
<1>2. Joined' = {}
    BY <1>1 DEF Joined
<1>3. QED
    BY <1>1, <1>2 DEF Present, NewRoom, Knows, Serving

LEMMA PresenceKept ==
    ASSUME ~HalfOpen, \A c, d \in Tabs : Role(c) = Role(d) => c = d, PresenceInv, [Next]_vars
    PROVE  PresenceInv'
<1>1. Shapes'
    BY ShapesKept DEF PresenceInv
<1>2. CASE UNCHANGED vars
    BY <1>1, <1>2 DEF vars, PresenceInv, OneSocket, Present, Joined, Knows, Serving, Told
<1>3. CASE Next
    <2>1. OneSocket'
        BY <1>3, OneSocketKept DEF PresenceInv
    <2>2. room'.presence = Present' /\ \A d \in Tabs : Knows(d)'
        BY <1>1, <1>3, Steps, AcceptPresence, RefusePresence, ReceivePresence, LeavePresence,
           SendPresence, ConnectPresence, DeliverPresence, IdlePresence, RestartPresence
    <2>3. QED
        BY <1>1, <2>1, <2>2 DEF PresenceInv
<1>4. QED
    BY <1>2, <1>3

LEMMA PresenceInit == Init \/ InitJoined => PresenceInv
<1>1. ASSUME Init PROVE PresenceInv
    <2>1. Shapes /\ DOMAIN socks = {} /\ room.presence = {} /\ \A c \in Tabs : tab[c].sock = 0
        BY <1>1, ShapesInit DEF Init, NewRoom, NewTab
    <2>2. QED
        BY <2>1 DEF PresenceInv, OneSocket, Present, Joined, Knows, Serving
<1>2. ASSUME InitJoined PROVE PresenceInv
    <2>1. /\ Shapes
          /\ \A s \in DOMAIN socks : socks[s].down = <<>> /\ socks[s].alive /\ socks[s].at = "serve"
          /\ \A c \in Tabs : tab[c].sock # 0 /\ tab[c].presence = room.presence
        BY <1>2, ShapesJoined
    <2>2. OneSocket
        BY <2>1, Alive DEF OneSocket, Handled
    <2>3. Joined = DOMAIN socks /\ \A c \in Tabs : tab[c].sock \in Joined /\ socks[tab[c].sock].tab = c
        BY <2>1, Connected DEF Joined
    <2>4. \A s \in Joined : socks[s].tab \in Tabs
        BY <2>1, <2>3, Alive
    <2>5. room.presence = {Role(c) : c \in Tabs}
        BY <1>2 DEF InitJoined, NewRoom
    <2>6. room.presence = Present
        BY <2>3, <2>4, <2>5 DEF Present
    <2>7. \A c \in Tabs : Knows(c)
        BY <2>1, <2>3 DEF Knows, WillShow
    <2>8. QED
        BY <2>1, <2>2, <2>6, <2>7 DEF PresenceInv
<1>3. QED
    BY <1>1, <1>2

LEMMA PresenceQuiet == PresenceInv => QuietPresence
<1> DEFINE here == {c \in Tabs : tab[c].sock # 0}
<1> SUFFICES ASSUME PresenceInv, Settled, \A s \in Joined : socks[s].alive, NEW c \in here
             PROVE  tab[c].presence = {Role(d) : d \in here}
    BY DEF QuietPresence
<1>1. Shapes
    BY DEF PresenceInv
<1>2. \A d \in here : tab[d].sock \in Joined /\ socks[tab[d].sock].tab = d
    BY <1>1, Connected DEF Settled, Joined
<1>3. \A s \in Joined : socks[s].tab \in here
    <2>1. ASSUME NEW s \in Joined
          PROVE  socks[s].tab \in here
        <3>1. s \in DOMAIN socks /\ s # 0 /\ socks[s].alive
            BY <1>1, Alive DEF Joined
        <3>2. tab[socks[s].tab].sock = s /\ socks[s].tab \in Tabs
            BY <1>1, <3>1, Alive DEF Handled
        <3>3. QED
            BY <3>1, <3>2
    <2>2. QED
        BY <2>1
<1>4. Present = {Role(d) : d \in here}
    BY <1>2, <1>3 DEF Present
<1>5. ~Told(tab[c].sock)
    <2>1. \A r \in DOMAIN socks : socks[r].todo = {}
        BY <1>1, Alive DEF Settled, Handled
    <2>2. QED
        BY <2>1 DEF Told
<1>6. WillShow(socks[tab[c].sock].down, tab[c].presence, room.presence)
    BY <1>2, <1>5 DEF PresenceInv, Knows, Serving, Joined
<1>7. socks[tab[c].sock].down = <<>>
    BY <1>2 DEF Settled, Joined
<1>8. QED
    BY <1>4, <1>6, <1>7 DEF WillShow, PresenceInv

\* If no two pages have the same role, and a page whose socket broke is back only
\* after the server has noticed, then however the handlers' broadcasts of the
\* presence interleave with joins, losses and restarts, every page ends up showing
\* who is connected: whoever is about to be told will be, and the last presence
\* on its way to anybody else is that of the room.
THEOREM PresenceShown ==
    ASSUME ~HalfOpen, \A c, d \in Tabs : Role(c) = Role(d) => c = d
    PROVE  (Spec => []QuietPresence) /\ (SpecJoined => []QuietPresence)
<1>1. PresenceInv /\ [Next]_vars => PresenceInv'
    BY PresenceKept
<1>2. Spec => []QuietPresence
    BY <1>1, PresenceInit, PresenceQuiet, PTL DEF Spec
<1>3. SpecJoined => []QuietPresence
    BY <1>1, PresenceInit, PresenceQuiet, PTL DEF SpecJoined
<1>4. QED
    BY <1>2, <1>3

-----------------------------------------------------------------------------
(* The chat.                                                               *)

Said(q) == {i \in DOMAIN q : q[i].type = "chat"}

\* The messages in a queue, and that it holds none of them twice.
Spoken(q) == {q[i].item : i \in Said(q)}
NoTwice(q) == \A i, j \in Said(q) : q[i].item = q[j].item => i = j
Once(q) == \A i, j \in DOMAIN q : q[i] = q[j] => i = j

\* What a page with chat h shows before the messages in q: if it is still to be
\* told the state of the room, that.
Log(q, h) == IF Hellos(q) # {} THEN q[1].state.chat ELSE h

\* What handlers are still to send to s.
Awaited(s) == {socks[r].msg.item : r \in {r \in DOMAIN socks :
                                            socks[r].msg.type = "chat" /\ s \in socks[r].todo}}

\* The messages of the room are those a page shows, those on their way to it and
\* those it is still to be sent, each once.
Sees(c) ==
    LET s == tab[c].sock
        q == socks[s].down
        log == Log(q, tab[c].chat)
    IN  /\ Once(log) /\ NoTwice(q)
        /\ Spoken(q) \cap ToSet(log) = {}
        /\ Awaited(s) \cap (ToSet(log) \cup Spoken(q)) = {}
        /\ ToSet(log) \cup Spoken(q) \cup Awaited(s) = ToSet(room.chat)

Uploading ==
    /\ \A s \in DOMAIN socks : /\ NoTwice(socks[s].up)
                               /\ Spoken(socks[s].up) \cap ToSet(room.chat) = {}
                               /\ \A v \in Spoken(socks[s].up) : v <= count.chats
    /\ \A s, t \in DOMAIN socks : s # t => Spoken(socks[s].up) \cap Spoken(socks[t].up) = {}

Casting ==
    \A s \in DOMAIN socks : socks[s].msg.type = "chat" =>
        /\ socks[s].msg.item \in ToSet(room.chat)
        /\ \A t \in DOMAIN socks :
             socks[t].msg.type = "chat" /\ socks[t].msg.item = socks[s].msg.item => s = t

Logged == Once(room.chat) /\ \A v \in ToSet(room.chat) : v <= count.chats

ChatInv == /\ Shapes /\ Logged /\ Uploading /\ Casting
           /\ \A c \in Tabs : Serving(c) => Sees(c)

LEMMA SpokenAppended ==
    ASSUME NEW S, NEW q \in Seq(S), NEW m \in S
    PROVE  /\ m.type # "chat" => /\ Spoken(Append(q, m)) = Spoken(q)
                                 /\ NoTwice(q) => NoTwice(Append(q, m))
           /\ m.type = "chat" => /\ Spoken(Append(q, m)) = Spoken(q) \cup {m.item}
                                 /\ NoTwice(q) /\ m.item \notin Spoken(q) => NoTwice(Append(q, m))
<1> DEFINE a == Append(q, m)
           n == Len(q) + 1
<1>1. /\ DOMAIN a = DOMAIN q \cup {n} /\ n \notin DOMAIN q
      /\ \A i \in DOMAIN q : a[i] = q[i]
      /\ a[n] = m
    BY Appended
<1> HIDE DEF a, n
<1>2. CASE m.type # "chat"
    <2>1. Said(a) = Said(q)
        BY <1>1, <1>2 DEF Said
    <2>2. \A i \in Said(q) : a[i] = q[i]
        BY <1>1 DEF Said
    <2>3. QED
        BY <1>2, <2>1, <2>2 DEF Spoken, NoTwice, a
<1>3. CASE m.type = "chat"
    <2>1. Said(a) = Said(q) \cup {n} /\ n \notin Said(q)
        BY <1>1, <1>3 DEF Said
    <2>2. (\A i \in Said(q) : a[i] = q[i]) /\ a[n] = m
        BY <1>1 DEF Said
    <2>3. Spoken(a) = Spoken(q) \cup {m.item}
        BY <2>1, <2>2 DEF Spoken
    <2>4. ASSUME NoTwice(q), m.item \notin Spoken(q) PROVE NoTwice(a)
        BY <2>1, <2>2, <2>4 DEF Spoken, NoTwice
    <2>5. QED
        BY <1>3, <2>3, <2>4 DEF a
<1>4. QED
    BY <1>2, <1>3

LEMMA SpokenTaken ==
    ASSUME NEW S, NEW q \in Seq(S), q # <<>>, NoTwice(q)
    PROVE  /\ NoTwice(Tail(q))
           /\ Head(q).type # "chat" => Spoken(Tail(q)) = Spoken(q)
           /\ Head(q).type = "chat" => /\ Spoken(q) = Spoken(Tail(q)) \cup {Head(q).item}
                                       /\ Head(q).item \notin Spoken(Tail(q))
<1> DEFINE t == Tail(q)
<1>1. /\ 1 \in DOMAIN q /\ Head(q) = q[1]
      /\ \A i \in DOMAIN t : i + 1 \in DOMAIN q /\ t[i] = q[i + 1] /\ i \in Nat \ {0}
      /\ \A i \in DOMAIN q : i # 1 => i - 1 \in DOMAIN t
    BY Shifted
<1>2. \A i \in DOMAIN q : i \in Nat \ {0}
    BY LenProperties
<1> HIDE DEF t
<1>3. \A i \in Said(t) : i + 1 \in Said(q) /\ t[i] = q[i + 1] /\ i \in Nat \ {0}
    BY <1>1 DEF Said
<1>4. \A i \in Said(q) : i # 1 => i - 1 \in Said(t) /\ t[i - 1] = q[i]
    BY <1>1, <1>2 DEF Said
<1>5. NoTwice(t)
    BY <1>3 DEF NoTwice
<1>6. \A v \in Spoken(t) : v \in Spoken(q)
    BY <1>3 DEF Spoken
<1>7. \A v \in Spoken(q) : v \in Spoken(t) \/ (q[1].type = "chat" /\ v = q[1].item)
    <2> TAKE v \in Spoken(q)
    <2>1. PICK i \in Said(q) : v = q[i].item
        BY DEF Spoken
    <2>2. CASE i = 1
        BY <2>1, <2>2 DEF Said
    <2>3. CASE i # 1
        BY <1>4, <2>1, <2>3 DEF Spoken
    <2>4. QED
        BY <2>2, <2>3
<1>8. CASE q[1].type # "chat"
    BY <1>1, <1>5, <1>6, <1>7, <1>8 DEF t
<1>9. CASE q[1].type = "chat"
    <2>1. 1 \in Said(q)
        BY <1>1, <1>9 DEF Said
    <2>2. q[1].item \in Spoken(q)
        BY <2>1 DEF Spoken
    <2>3. q[1].item \notin Spoken(t)
        <3> SUFFICES ASSUME NEW i \in Said(t), q[1].item = t[i].item PROVE FALSE
            BY DEF Spoken
        <3>1. i + 1 \in Said(q) /\ q[i + 1].item = q[1].item /\ i + 1 # 1
            BY <1>3
        <3>2. QED
            BY <2>1, <3>1 DEF NoTwice
    <2>4. QED
        BY <1>1, <1>5, <1>6, <1>7, <1>9, <2>2, <2>3 DEF t
<1>10. QED
    BY <1>8, <1>9

LEMMA SpokenCut ==
    ASSUME NEW S, NEW q \in Seq(S), NEW n \in 0..Len(q), NoTwice(q)
    PROVE  NoTwice(SubSeq(q, 1, n)) /\ Spoken(SubSeq(q, 1, n)) \subseteq Spoken(q)
<1> DEFINE p == SubSeq(q, 1, n)
<1>1. \A i \in DOMAIN p : i \in DOMAIN q /\ p[i] = q[i]
    BY Cut
<1> HIDE DEF p
<1>2. \A i \in Said(p) : i \in Said(q) /\ p[i] = q[i]
    BY <1>1 DEF Said
<1>3. NoTwice(p)
    BY <1>2 DEF NoTwice
<1>4. Spoken(p) \subseteq Spoken(q)
    BY <1>2 DEF Spoken
<1>5. QED
    BY <1>3, <1>4 DEF p

LEMMA Nothing == Said(<<>>) = {} /\ Spoken(<<>>) = {} /\ NoTwice(<<>>) /\ Once(<<>>) /\ ToSet(<<>>) = {}
BY DEF Said, Spoken, NoTwice, Once, ToSet

LEMMA OnceAppended ==
    ASSUME NEW S, NEW q \in Seq(S), NEW v \in S
    PROVE  /\ ToSet(Append(q, v)) = ToSet(q) \cup {v}
           /\ Once(q) /\ v \notin ToSet(q) => Once(Append(q, v))
<1> DEFINE a == Append(q, v)
           n == Len(q) + 1
<1>1. /\ DOMAIN a = DOMAIN q \cup {n} /\ n \notin DOMAIN q
      /\ \A i \in DOMAIN q : a[i] = q[i]
      /\ a[n] = v
    BY Appended
<1> HIDE DEF a, n
<1>2. ToSet(a) = ToSet(q) \cup {v}
    BY <1>1 DEF ToSet
<1>3. ASSUME Once(q), v \notin ToSet(q) PROVE Once(a)
    BY <1>1, <1>3 DEF Once, ToSet
<1>4. QED
    BY <1>2, <1>3 DEF a

LEMMA AwaitedKept ==
    ASSUME NEW k, DOMAIN socks \subseteq DOMAIN socks',
           \A r \in DOMAIN socks' \ DOMAIN socks : k \notin socks'[r].todo,
           \A r \in DOMAIN socks :
              \/ socks'[r].msg = socks[r].msg /\ (k \in socks'[r].todo <=> k \in socks[r].todo)
              \/ k \notin socks'[r].todo /\ k \notin socks[r].todo
              \/ /\ socks'[r].msg.type # "chat" \/ k \notin socks'[r].todo
                 /\ socks[r].msg.type # "chat" \/ k \notin socks[r].todo
    PROVE  Awaited(k)' = Awaited(k)
<1> DEFINE A == {r \in DOMAIN socks : socks[r].msg.type = "chat" /\ k \in socks[r].todo}
           B == {r \in DOMAIN socks' : socks'[r].msg.type = "chat" /\ k \in socks'[r].todo}
<1>1. A = B /\ \A r \in A : socks'[r].msg = socks[r].msg
    OBVIOUS
<1>2. {socks'[r].msg.item : r \in B} = {socks[r].msg.item : r \in A}
    <2> HIDE DEF A, B
    <2> QED BY <1>1
<1>3. QED
    BY <1>2 DEF Awaited

\* A page that is sent nothing, by the room or by a handler.
LEMMA SeesKept ==
    ASSUME NEW c \in Tabs, Sees(c), NEW s, tab[c].sock = s, tab'[c].sock = s,
           tab'[c].chat = tab[c].chat, socks'[s].down = socks[s].down,
           room'.chat = room.chat, Awaited(s)' = Awaited(s)
    PROVE  Sees(c)'
BY DEF Sees

LEMMA UploadingKept ==
    ASSUME Uploading, DOMAIN socks' = DOMAIN socks, room'.chat = room.chat, count'.chats = count.chats,
           \A s \in DOMAIN socks : /\ NoTwice(socks'[s].up)
                                   /\ Spoken(socks'[s].up) \subseteq Spoken(socks[s].up)
    PROVE  Uploading'
<1>1. \A s \in DOMAIN socks :
         /\ Spoken(socks'[s].up) \cap ToSet(room.chat) = {}
         /\ \A v \in Spoken(socks'[s].up) : v <= count.chats
    BY DEF Uploading
<1>2. \A s, t \in DOMAIN socks : s # t => Spoken(socks'[s].up) \cap Spoken(socks'[t].up) = {}
    BY DEF Uploading
<1>3. QED
    BY <1>1, <1>2 DEF Uploading

LEMMA CastingKept ==
    ASSUME Casting, DOMAIN socks' = DOMAIN socks, room'.chat = room.chat,
           \A s \in DOMAIN socks : socks'[s].msg = socks[s].msg \/ socks'[s].msg.type # "chat"
    PROVE  Casting'
BY DEF Casting

LEMMA AcceptChat ==
    ASSUME ChatInv, NEW s \in DOMAIN socks, Accept(s), Shapes'
    PROVE  ChatInv'
<1>1. /\ Shapes /\ Typed /\ Frame(s) /\ socks[s].at = "open" /\ tab' = tab /\ count' = count
      /\ room'.chat = room.chat /\ room' \in State
      /\ Starts(s, "send", [type |-> "presence"], Joined \cup {s})
      /\ socks'[s].up = socks[s].up
    BY AcceptStep DEF ChatInv, Shapes
<1>2. /\ socks[s].todo = {} /\ socks[s].down = <<>> /\ \A r \in DOMAIN socks : s \notin socks[r].todo
      /\ socks'[s].msg.type = "presence"
    BY <1>1, Alive DEF Handled, Starts
<1>3. Uploading' /\ Casting' /\ Logged'
    <2>1. DOMAIN socks' = DOMAIN socks /\ \A t \in DOMAIN socks : socks'[t].up = socks[t].up
                                       /\ (t # s => socks'[t].msg = socks[t].msg)
        BY <1>1 DEF Frame
    <2>2. Uploading'
        BY <1>1, <2>1, UploadingKept DEF ChatInv, Uploading
    <2>3. Casting'
        BY <1>1, <1>2, <2>1, CastingKept DEF ChatInv
    <2>4. QED
        BY <1>1, <2>2, <2>3 DEF ChatInv, Logged
<1>4. ASSUME NEW k PROVE Awaited(k)' = Awaited(k)
    <2>1. \A r \in DOMAIN socks :
              \/ socks'[r].msg = socks[r].msg /\ (k \in socks'[r].todo <=> k \in socks[r].todo)
              \/ /\ socks'[r].msg.type # "chat" \/ k \notin socks'[r].todo
                 /\ socks[r].msg.type # "chat" \/ k \notin socks[r].todo
        BY <1>1, <1>2 DEF Frame
    <2>2. QED
        BY <1>1, <2>1, AwaitedKept DEF Frame
<1>5. ASSUME NEW c \in Tabs, Serving(c)'
      PROVE  Sees(c)'
    <2>1. PICK k \in DOMAIN socks : k = tab[c].sock /\ socks[k].alive
        BY <1>1, <1>5, Connected DEF Serving
    <2>2. CASE k # s
        <3>1. Serving(c) /\ socks'[k].down = socks[k].down
            BY <1>1, <1>5, <2>1, <2>2 DEF Serving, Frame
        <3>2. QED
            BY <1>1, <1>4, <2>1, <3>1, SeesKept DEF ChatInv
    <2>3. CASE k = s
        <3> DEFINE m == [type |-> "hello", state |-> room']
                   q == socks'[s].down
        <3>1. q = Append(<<>>, m)
            BY <1>1, <1>2, <2>1, <2>3, AcceptStep
        <3>2. m \in Down /\ m.type = "hello" /\ m.state.chat = room.chat
            BY <1>1 DEF Down
        <3>3. q[1] = m /\ Hellos(q) # {} /\ Spoken(q) = {} /\ NoTwice(q)
            <4> HIDE DEF m
            <4>1. Append(<<>>, m) = <<m>>
                OBVIOUS
            <4>2. QED
                BY <3>1, <3>2, <4>1 DEF Hellos, Spoken, Said, NoTwice
        <3>4. Awaited(s) = {}
            BY <1>2 DEF Awaited
        <3> HIDE DEF m, q
        <3>5. Log(q, tab[c].chat) = room.chat
            BY <3>2, <3>3 DEF Log
        <3>6. Awaited(s)' = {}
            BY <1>4, <3>4
        <3>7. Once(room.chat)
            BY DEF ChatInv, Logged
        <3>8. QED
            BY <1>1, <2>1, <2>3, <3>3, <3>5, <3>6, <3>7 DEF Sees, q
    <2>4. QED
        BY <2>2, <2>3
<1>6. QED
    BY <1>3, <1>5 DEF ChatInv

\* A handler begins or ends without touching the chat.
LEMMA HandlerChat ==
    ASSUME ChatInv, NEW s \in DOMAIN socks, Frame(s), Shapes', room'.chat = room.chat,
           count'.chats = count.chats, socks'[s].down = socks[s].down,
           NoTwice(socks'[s].up), Spoken(socks'[s].up) \subseteq Spoken(socks[s].up),
           socks'[s].msg.type # "chat", socks[s].msg.type # "chat",
           \A c \in Tabs : Serving(c)' => /\ Serving(c) /\ tab'[c].sock = tab[c].sock
                                          /\ tab'[c].chat = tab[c].chat
    PROVE  ChatInv'
<1>1. Uploading' /\ Casting' /\ Logged'
    <2>1. Uploading'
        BY UploadingKept DEF ChatInv, Uploading, Frame
    <2>2. Casting'
        BY CastingKept DEF ChatInv, Frame
    <2>3. QED
        BY <2>1, <2>2 DEF ChatInv, Logged
<1>2. ASSUME NEW k PROVE Awaited(k)' = Awaited(k)
    <2>1. \A r \in DOMAIN socks :
              \/ socks'[r].msg = socks[r].msg /\ (k \in socks'[r].todo <=> k \in socks[r].todo)
              \/ /\ socks'[r].msg.type # "chat" \/ k \notin socks'[r].todo
                 /\ socks[r].msg.type # "chat" \/ k \notin socks[r].todo
        BY DEF Frame
    <2>2. QED
        BY <2>1, AwaitedKept DEF Frame
<1>3. ASSUME NEW c \in Tabs, Serving(c)'
      PROVE  Sees(c)'
    <2>1. Serving(c) /\ Sees(c) /\ tab'[c].sock = tab[c].sock /\ tab'[c].chat = tab[c].chat
        BY <1>3 DEF ChatInv
    <2>2. PICK k \in DOMAIN socks : k = tab[c].sock
        BY <2>1, Connected DEF Serving, ChatInv
    <2>3. socks'[k].down = socks[k].down
        BY DEF Frame
    <2>4. QED
        BY <1>2, <2>1, <2>2, <2>3, SeesKept
<1>4. QED
    BY <1>1, <1>3 DEF ChatInv

LEMMA RefuseChat ==
    ASSUME ChatInv, NEW s \in DOMAIN socks, Refuse(s) \/ Forget(s), Shapes'
    PROVE  ChatInv'
<1>1. /\ Shapes /\ Typed /\ Frame(s) /\ socks[s].at = "open" /\ socks'[s].at = "gone" /\ room' = room
      /\ socks'[s].down = socks[s].down /\ socks'[s].todo = socks[s].todo /\ socks'[s].msg = socks[s].msg
      /\ socks'[s].up = socks[s].up /\ count' = count
    BY RefuseStep DEF ChatInv, Shapes
<1>2. socks[s].msg.type = "none"
    BY <1>1, Alive DEF Handled
<1>3. ASSUME NEW c \in Tabs, Serving(c)'
      PROVE  Serving(c) /\ tab'[c] = tab[c]
    <2>1. tab'[c].sock # 0 /\ tab'[c].sock # s
        BY <1>1, <1>3 DEF Serving
    <2>2. tab'[c] = tab[c]
        <3>1. CASE tab[c].sock # s
            BY <1>1, <3>1, RefuseStep
        <3>2. CASE tab[c].sock = s
            <4>1. tab'[c] = tab[c] \/ tab'[c] = [tab[c] EXCEPT !.sock = 0]
                BY <1>1, <3>2, RefuseStep
            <4>2. QED
                BY <1>1, <2>1, <4>1 DEF Typed, Tab
        <3>3. QED
            BY <3>1, <3>2
    <2>3. tab[c].sock \in DOMAIN socks
        BY <1>1, <2>1, <2>2, Connected
    <2>4. QED
        BY <1>1, <1>3, <2>1, <2>2, <2>3 DEF Serving, Frame
<1>4. NoTwice(socks'[s].up)
    BY <1>1 DEF ChatInv, Uploading
<1>5. QED
    BY <1>1, <1>2, <1>3, <1>4, HandlerChat

LEMMA LeaveChat ==
    ASSUME ChatInv, NEW s \in DOMAIN socks, Leave(s), Shapes'
    PROVE  ChatInv'
<1>1. /\ Shapes /\ Typed /\ Frame(s) /\ socks[s].at = "serve" /\ ~socks[s].alive /\ tab' = tab
      /\ room'.chat = room.chat /\ count' = count /\ Line(s) /\ socks'[s].up = socks[s].up
      /\ Starts(s, "leave", [type |-> "presence"], Joined \ {s})
    BY LeaveStep DEF ChatInv, Shapes
<1>2. socks[s].msg.type = "none" /\ socks'[s].msg.type \in {"presence", "none"}
    BY <1>1, Alive DEF Handled, Starts
<1>3. ASSUME NEW c \in Tabs, Serving(c)'
      PROVE  Serving(c)
    <2>1. tab[c].sock # s /\ tab[c].sock \in DOMAIN socks
        BY <1>1, <1>3, Alive, Connected DEF Serving
    <2>2. QED
        BY <1>1, <1>3, <2>1 DEF Serving, Frame
<1>4. NoTwice(socks'[s].up)
    BY <1>1 DEF ChatInv, Uploading
<1>5. QED
    BY <1>1, <1>2, <1>3, <1>4, HandlerChat DEF Line

LEMMA ReceiveCodeChat ==
    ASSUME ChatInv, NEW s \in DOMAIN socks, Receive(s), Head(socks[s].up).type = "code", Shapes'
    PROVE  ChatInv'
<1>1. Shapes /\ Typed
    BY DEF ChatInv, Shapes
<1>2. /\ Frame(s) /\ socks[s].at = "serve" /\ tab' = tab
      /\ room'.chat = room.chat /\ count' = count /\ Line(s) /\ socks'[s].up = Tail(socks[s].up)
      /\ Starts(s, "send", [type |-> "code", code |-> room'.code, from |-> Role(socks[s].tab)],
                Joined \ {s})
      /\ socks[s].up # <<>>
    BY <1>1, ReceiveStep
<1>3. /\ socks[s].msg.type = "none" /\ socks'[s].msg.type \in {"code", "none"}
      /\ socks'[s].at \in {"send", "serve"}
    BY <1>1, <1>2, Alive DEF Handled, Starts
<1>4. NoTwice(socks'[s].up) /\ Spoken(socks'[s].up) \subseteq Spoken(socks[s].up)
    <2>1. socks[s].up \in Seq(Up) /\ NoTwice(socks[s].up)
        BY <1>1, Alive DEF Sock, ChatInv, Uploading
    <2>2. QED
        BY <1>2, <2>1, SpokenTaken
<1>5. ASSUME NEW c \in Tabs, Serving(c)'
      PROVE  Serving(c)
    <2>1. tab[c].sock \in DOMAIN socks
        BY <1>1, <1>2, <1>5, Connected DEF Serving
    <2>2. QED
        BY <1>2, <1>5, <2>1 DEF Serving, Frame
<1>6. QED
    BY <1>1, <1>2, <1>3, <1>4, <1>5, HandlerChat DEF Line

LEMMA ReceiveChat ==
    ASSUME ChatInv, NEW s \in DOMAIN socks, Receive(s), Head(socks[s].up).type = "chat", Shapes'
    PROVE  ChatInv'
<1> DEFINE m == Head(socks[s].up)
           v == m.item
<1>1. Shapes /\ Typed
    BY DEF ChatInv, Shapes
<1>2. /\ Frame(s) /\ socks[s].at = "serve" /\ tab' = tab /\ m \in Up
      /\ room'.chat = Append(room.chat, v) /\ count' = count /\ Line(s)
      /\ socks'[s].up = Tail(socks[s].up) /\ Starts(s, "send", m, Joined) /\ socks[s].up # <<>>
    BY <1>1, ReceiveStep
<1>3. /\ s \in Joined /\ socks[s].todo = {} /\ socks'[s].todo = Joined /\ socks'[s].msg = m
      /\ socks'[s].at = "send" /\ Joined \subseteq DOMAIN socks
    BY <1>1, <1>2, Alive DEF Handled, Starts, Joined
<1>4. /\ NoTwice(socks'[s].up) /\ Spoken(socks[s].up) = Spoken(socks'[s].up) \cup {v}
      /\ v \notin Spoken(socks'[s].up)
    <2>1. socks[s].up \in Seq(Up) /\ NoTwice(socks[s].up)
        BY <1>1, Alive DEF Sock, ChatInv, Uploading
    <2>2. QED
        BY <1>2, <2>1, SpokenTaken
<1>5. /\ v \notin ToSet(room.chat) /\ v <= count.chats
      /\ \A t \in DOMAIN socks : t # s => v \notin Spoken(socks[t].up)
    <2>1. v \in Spoken(socks[s].up)
        BY <1>4
    <2>2. QED
        BY <2>1 DEF ChatInv, Uploading
<1>6. ToSet(room'.chat) = ToSet(room.chat) \cup {v} /\ (Once(room.chat) => Once(room'.chat))
    <2>1. room.chat \in Seq(Items) /\ v \in Items
        BY <1>1, <1>2, MessageTypes DEF Typed, State
    <2>2. QED
        BY <1>2, <1>5, <2>1, OnceAppended
<1> HIDE DEF m, v
<1>7. Logged'
    BY <1>2, <1>5, <1>6 DEF ChatInv, Logged
<1>8. Uploading'
    <2>1. \A t \in DOMAIN socks :
             /\ NoTwice(socks'[t].up) /\ Spoken(socks'[t].up) \subseteq Spoken(socks[t].up)
             /\ v \notin Spoken(socks'[t].up)
        <3> TAKE t \in DOMAIN socks
        <3>1. NoTwice(socks[t].up)
            BY DEF ChatInv, Uploading
        <3>2. CASE t = s
            BY <1>4, <3>2
        <3>3. CASE t # s
            <4>1. socks'[t].up = socks[t].up
                BY <1>2, <3>3 DEF Frame
            <4>2. QED
                BY <1>5, <3>1, <3>3, <4>1
        <3>4. QED
            BY <3>2, <3>3
    <2>2. \A t \in DOMAIN socks : /\ Spoken(socks'[t].up) \cap ToSet(room'.chat) = {}
                                  /\ \A w \in Spoken(socks'[t].up) : w <= count'.chats
        <3> TAKE t \in DOMAIN socks
        <3>1. /\ Spoken(socks[t].up) \cap ToSet(room.chat) = {}
              /\ \A w \in Spoken(socks[t].up) : w <= count.chats
            BY DEF ChatInv, Uploading
        <3>2. QED
            BY <1>2, <1>6, <2>1, <3>1
    <2>3. \A t, u \in DOMAIN socks : t # u => Spoken(socks'[t].up) \cap Spoken(socks'[u].up) = {}
        BY <2>1 DEF ChatInv, Uploading
    <2>4. QED
        BY <1>2, <2>1, <2>2, <2>3 DEF Uploading, Frame
<1>9. Casting'
    <2>1. \A t \in DOMAIN socks : socks[t].msg.type = "chat" => socks[t].msg.item # v
        BY <1>5 DEF ChatInv, Casting
    <2>2. \A t \in DOMAIN socks : t # s => socks'[t].msg = socks[t].msg
        BY <1>2 DEF Frame
    <2>3. socks'[s].msg.item = v
        BY <1>3 DEF v
    <2>4. QED
        BY <1>2, <1>6, <2>1, <2>2, <2>3 DEF ChatInv, Casting, Frame
<1>10. ASSUME NEW k \in Joined
       PROVE  Awaited(k)' = Awaited(k) \cup {v}
    <2> DEFINE A == {r \in DOMAIN socks : socks[r].msg.type = "chat" /\ k \in socks[r].todo}
               B == {r \in DOMAIN socks' : socks'[r].msg.type = "chat" /\ k \in socks'[r].todo}
    <2>1. B = A \cup {s} /\ (\A r \in A : socks'[r].msg = socks[r].msg) /\ socks'[s].msg.item = v
        BY <1>2, <1>3 DEF Frame, v, m
    <2>2. {socks'[r].msg.item : r \in B} = {socks[r].msg.item : r \in A} \cup {v}
        <3> HIDE DEF A, B
        <3> QED BY <2>1
    <2>3. QED
        BY <2>2 DEF Awaited
<1>11. ASSUME NEW c \in Tabs, Serving(c)'
       PROVE  Sees(c)'
    <2>1. PICK k \in DOMAIN socks : k = tab[c].sock
        BY <1>1, <1>2, <1>11, Connected DEF Serving
    <2>2. k \in Joined /\ Serving(c) /\ socks'[k].down = socks[k].down
        BY <1>1, <1>2, <1>3, <1>11, <2>1, Alive DEF Serving, Frame, Line
    <2>3. Awaited(k)' = Awaited(k) \cup {v}
        BY <1>10, <2>2
    <2> DEFINE q == socks[k].down
               log == Log(q, tab[c].chat)
    <2>4. /\ Once(log) /\ NoTwice(q)
          /\ Spoken(q) \cap ToSet(log) = {}
          /\ Awaited(k) \cap (ToSet(log) \cup Spoken(q)) = {}
          /\ ToSet(log) \cup Spoken(q) \cup Awaited(k) = ToSet(room.chat)
        BY <2>1, <2>2 DEF ChatInv, Sees
    <2>5. socks'[k].down = q /\ tab'[c].sock = k /\ Log(socks'[k].down, tab'[c].chat) = log
        BY <1>2, <2>1, <2>2
    <2> HIDE DEF q, log
    <2>6. /\ Awaited(k)' \cap (ToSet(log) \cup Spoken(q)) = {}
          /\ ToSet(log) \cup Spoken(q) \cup Awaited(k)' = ToSet(room'.chat)
        BY <1>5, <1>6, <2>3, <2>4
    <2>7. QED
        BY <2>4, <2>5, <2>6 DEF Sees
<1>12. QED
    BY <1>7, <1>8, <1>9, <1>11 DEF ChatInv

LEMMA SendsChat ==
    ASSUME ChatInv, NEW s \in DOMAIN socks, NEW t \in DOMAIN socks, Send(s, t), Shapes'
    PROVE  ChatInv'
<1>0. Typed /\ Handled(s)
    BY Alive DEF ChatInv, Shapes
<1>1. /\ Shapes /\ t \in socks[s].todo /\ socks[s].at \in {"send", "leave"}
      /\ Sent(s) \in Down /\ Sent(s).type # "hello"
      /\ DOMAIN socks' = DOMAIN socks /\ UNCHANGED <<room, tab, row, count>>
    BY <1>0, SendStep DEF ChatInv
<1>2. Starts(s, socks[s].at, socks[s].msg, socks[s].todo \ {t})
    BY <1>0, SendStep
<1>3. \A u \in DOMAIN socks :
         /\ socks'[u].tab = socks[u].tab /\ socks'[u].up = socks[u].up
         /\ socks'[u].alive = socks[u].alive
         /\ u # t => socks'[u].down = socks[u].down
         /\ u # s => /\ socks'[u].at = socks[u].at /\ socks'[u].todo = socks[u].todo
                     /\ socks'[u].msg = socks[u].msg
    BY <1>0, SendStep
<1>4. \A u \in DOMAIN socks :
         /\ socks'[u].msg = socks[u].msg \/ (u = s /\ socks'[u].msg.type = "none" /\ socks'[u].todo = {})
         /\ u # s => socks'[u].todo = socks[u].todo
         /\ socks'[s].todo = socks[s].todo \ {t}
         /\ socks'[u].at \in {"serve", "send"} <=> socks[u].at \in {"serve", "send"}
    BY <1>1, <1>2, <1>3 DEF Starts
<1>5. Uploading' /\ Casting' /\ Logged'
    <2>1. Uploading'
        BY <1>1, <1>3, UploadingKept DEF ChatInv, Uploading
    <2>2. Casting'
        BY <1>1, <1>4, CastingKept DEF ChatInv
    <2>3. QED
        BY <1>1, <2>1, <2>2 DEF ChatInv, Logged
<1>6. ASSUME NEW k, k # t \/ socks[s].msg.type # "chat"
      PROVE  Awaited(k)' = Awaited(k)
    <2>1. ASSUME NEW r \in DOMAIN socks
          PROVE  \/ socks'[r].msg = socks[r].msg /\ (k \in socks'[r].todo <=> k \in socks[r].todo)
                 \/ k \notin socks'[r].todo /\ k \notin socks[r].todo
                 \/ /\ socks'[r].msg.type # "chat" \/ k \notin socks'[r].todo
                    /\ socks[r].msg.type # "chat" \/ k \notin socks[r].todo
        <3>1. CASE r # s
            BY <1>3, <3>1
        <3>2. CASE r = s /\ k # t
            BY <1>4, <3>2
        <3>3. CASE r = s /\ socks[s].msg.type # "chat"
            BY <1>4, <3>3
        <3>4. QED
            BY <1>6, <3>1, <3>2, <3>3
    <2>2. QED
        BY <1>1, <2>1, AwaitedKept
<1>7. ASSUME NEW c \in Tabs, Serving(c)'
      PROVE  Sees(c)'
    <2>1. PICK k \in DOMAIN socks : k = tab[c].sock /\ socks[k].alive
        BY <1>1, <1>7, Connected DEF Serving
    <2>2. Serving(c) /\ Sees(c)
        BY <1>1, <1>4, <1>7, <2>1 DEF Serving, ChatInv
    <2>3. CASE k # t
        BY <1>1, <1>3, <1>6, <2>1, <2>2, <2>3, SeesKept
    <2>4. CASE k = t
        <3> DEFINE q == socks[t].down
                   p == Append(q, Sent(s))
                   log == Log(q, tab[c].chat)
        <3>1. socks'[t].down = p /\ q \in Seq(Down) /\ Hellos(q) \subseteq {1} /\ tab'[c].sock = t
              /\ tab'[c].chat = tab[c].chat
            <4>1. socks[t] \in Sock /\ Handled(t)
                BY <1>1, Alive
            <4>2. socks'[t].down = IF socks[t].alive THEN p ELSE q
                BY <1>0, SendStep
            <4>3. socks'[t].down = p
                BY <2>1, <2>4, <4>2
            <4>4. q \in Seq(Down) /\ Hellos(q) \subseteq {1}
                BY <4>1 DEF Sock, Handled
            <4>5. QED
                BY <1>1, <2>1, <2>4, <4>3, <4>4
        <3>2. /\ Once(log) /\ NoTwice(q)
              /\ Spoken(q) \cap ToSet(log) = {}
              /\ Awaited(t) \cap (ToSet(log) \cup Spoken(q)) = {}
              /\ ToSet(log) \cup Spoken(q) \cup Awaited(t) = ToSet(room.chat)
            BY <2>1, <2>2, <2>4 DEF Sees
        <3>3. Log(p, tab[c].chat) = log
            <4>1. Hellos(p) = Hellos(q)
                BY <1>1, <3>1, Greetings
            <4>2. Hellos(q) # {} => p[1] = q[1]
                BY <1>1, <3>1, Appended DEF Hellos
            <4>3. QED
                BY <4>1, <4>2 DEF Log
        <3>4. CASE Sent(s).type # "chat"
            <4>1. socks[s].msg.type # "chat"
                BY <3>4 DEF Sent
            <4>2. Spoken(p) = Spoken(q) /\ NoTwice(p)
                BY <1>1, <3>1, <3>2, <3>4, SpokenAppended
            <4>3. Awaited(t)' = Awaited(t)
                BY <1>6, <4>1
            <4> HIDE DEF q, p, log
            <4>4. QED
                BY <1>1, <3>1, <3>2, <3>3, <4>2, <4>3 DEF Sees
        <3>5. CASE Sent(s).type = "chat"
            <4> DEFINE v == socks[s].msg.item
            <4>1. Sent(s) = socks[s].msg /\ socks[s].msg.type = "chat"
                BY <3>5 DEF Sent
            <4>2. v \in Awaited(t)
                BY <1>1, <4>1 DEF Awaited
            <4>3. Spoken(p) = Spoken(q) \cup {v} /\ NoTwice(p)
                <5>1. v \notin Spoken(q)
                    BY <3>2, <4>2
                <5>2. QED
                    BY <1>1, <3>1, <3>2, <3>5, <4>1, <5>1, SpokenAppended
            <4>4. Awaited(t)' = Awaited(t) \ {v}
                <5> DEFINE A == {r \in DOMAIN socks : socks[r].msg.type = "chat" /\ t \in socks[r].todo}
                           B == {r \in DOMAIN socks' : socks'[r].msg.type = "chat" /\ t \in socks'[r].todo}
                <5>1. s \in A /\ B = A \ {s} /\ \A r \in B : socks'[r].msg = socks[r].msg
                    <6>1. s \in A
                        BY <1>1, <4>1
                    <6>2. \A r \in DOMAIN socks : r # s =>
                             socks'[r].msg = socks[r].msg /\ socks'[r].todo = socks[r].todo
                        BY <1>3
                    <6>3. t \notin socks'[s].todo
                        BY <1>4
                    <6>4. QED
                        BY <1>1, <6>1, <6>2, <6>3
                <5>2. \A r \in A : socks[r].msg.item = v => r = s
                    BY <4>1 DEF ChatInv, Casting
                <5>3. {socks'[r].msg.item : r \in B} = {socks[r].msg.item : r \in A} \ {v}
                    <6> HIDE DEF A, B
                    <6> QED BY <5>1, <5>2
                <5>4. QED
                    BY <5>3 DEF Awaited
            <4> HIDE DEF q, p, log, v
            <4>5. /\ Spoken(p) \cap ToSet(log) = {}
                  /\ Awaited(t)' \cap (ToSet(log) \cup Spoken(p)) = {}
                  /\ ToSet(log) \cup Spoken(p) \cup Awaited(t)' = ToSet(room.chat)
                BY <3>2, <4>2, <4>3, <4>4
            <4>6. QED
                BY <1>1, <3>1, <3>2, <3>3, <4>3, <4>5 DEF Sees
        <3>6. QED
            BY <2>1, <2>4, <3>4, <3>5
    <2>5. QED
        BY <2>3, <2>4
<1>8. QED
    BY <1>1, <1>5, <1>7 DEF ChatInv

\* A page acts, and keeps its chat and what is on its way to it unless it is gone.
LEMMA PageChat ==
    ASSUME ChatInv, Shapes', NEW c \in Tabs, Page1(c), room'.chat = room.chat,
           count'.chats = count.chats, DOMAIN socks' = DOMAIN socks, Hears(c),
           \A s \in DOMAIN socks :
              /\ socks'[s].at = socks[s].at /\ socks'[s].todo = socks[s].todo
              /\ socks'[s].msg = socks[s].msg
              /\ s # tab[c].sock \/ tab'[c].sock = s => socks'[s].down = socks[s].down
              /\ NoTwice(socks'[s].up) /\ Spoken(socks'[s].up) \subseteq Spoken(socks[s].up),
           tab'[c].sock = 0 \/ tab'[c].sock = tab[c].sock
    PROVE  ChatInv'
<1>1. Uploading' /\ Casting' /\ Logged'
    <2>1. Uploading'
        BY UploadingKept DEF ChatInv
    <2>2. Casting'
        BY CastingKept DEF ChatInv
    <2>3. QED
        BY <2>1, <2>2 DEF ChatInv, Logged
<1>2. ASSUME NEW k PROVE Awaited(k)' = Awaited(k)
    BY AwaitedKept
<1>3. ASSUME NEW d \in Tabs, Serving(d)'
      PROVE  Sees(d)'
    <2>1. tab'[d].sock = tab[d].sock /\ tab'[d].chat = tab[d].chat
        BY <1>3 DEF Page1, Hears, Serving
    <2>2. PICK k \in DOMAIN socks : k = tab[d].sock /\ socks[k].tab = d
        BY <1>3, <2>1, Connected DEF Serving, ChatInv
    <2>3. Serving(d) /\ Sees(d) /\ Shapes
        BY <1>3, <2>1, <2>2 DEF Serving, ChatInv
    <2>4. socks'[k].down = socks[k].down
        <3>1. CASE d = c
            BY <2>1, <2>2, <3>1
        <3>2. CASE d # c
            <4>1. tab[c].sock # k
                BY <2>2, <2>3, <3>2, Alive
            <4>2. QED
                BY <2>2, <4>1
        <3>3. QED
            BY <3>1, <3>2
    <2>5. QED
        BY <1>2, <2>1, <2>2, <2>3, <2>4, SeesKept
<1>4. QED
    BY <1>1, <1>3 DEF ChatInv

LEMMA IdleChat ==
    ASSUME ChatInv, Shapes', NEW c \in Tabs,
           LoadRoom(c) \/ ClearGuard(c) \/ Edit(c) \/ Drop(c) \/ EndRoom(c)
    PROVE  ChatInv'
<1>0. Shapes /\ Typed /\ \A s \in DOMAIN socks : NoTwice(socks[s].up) /\ socks[s].up \in Seq(Up)
    BY Alive DEF ChatInv, Shapes, Uploading, Sock
<1>1. CASE LoadRoom(c) \/ ClearGuard(c)
    <2>1. Page1(c) /\ Hears(c) /\ room' = room /\ socks' = socks /\ tab'[c].sock = tab[c].sock
          /\ count' = count
        BY <1>0, <1>1, LoadStep, ClearStep
    <2>2. QED
        BY <1>0, <2>1, PageChat
<1>2. CASE Edit(c)
    <2>1. Page1(c) /\ Hears(c) /\ room' = room /\ tab'[c].sock = tab[c].sock
          /\ count'.chats = count.chats
        BY <1>0, <1>2, EditStep
    <2>2. socks' = socks \/ (IsOpen(c) /\ \E m : Uploads(tab[c].sock, m) /\ m.type = "code")
        BY <1>0, <1>2, EditStep
    <2>3. CASE socks' = socks
        BY <1>0, <2>1, <2>3, PageChat
    <2>4. CASE IsOpen(c) /\ \E m : Uploads(tab[c].sock, m) /\ m.type = "code"
        <3>1. PICK s \in DOMAIN socks : s = tab[c].sock
            BY <1>0, <2>4, Connected DEF IsOpen
        <3>2. PICK m : Uploads(s, m) /\ m.type = "code"
            BY <2>4, <3>1
        <3>3. NoTwice(socks'[s].up) /\ Spoken(socks'[s].up) = Spoken(socks[s].up)
            BY <1>0, <3>2, SpokenAppended DEF Uploads
        <3>4. Frame(s) /\ Waits(s) /\ Line(s)
            BY <3>2 DEF Uploads
        <3>5. \A t \in DOMAIN socks :
                /\ socks'[t].at = socks[t].at /\ socks'[t].todo = socks[t].todo
                /\ socks'[t].msg = socks[t].msg /\ socks'[t].down = socks[t].down
                /\ NoTwice(socks'[t].up) /\ Spoken(socks'[t].up) \subseteq Spoken(socks[t].up)
            BY <1>0, <3>3, <3>4 DEF Frame, Waits, Line
        <3>6. QED
            BY <2>1, <3>4, <3>5, PageChat DEF Frame
    <2>5. QED
        BY <2>2, <2>3, <2>4
<1>3. CASE Drop(c) \/ EndRoom(c)
    <2>1. Page1(c) /\ Hears(c) /\ room' = room /\ tab'[c].sock = 0 /\ count' = count
        BY <1>0, <1>3, DropStep, EndStep
    <2>2. \/ socks' = socks
          \/ /\ tab[c].sock # 0 /\ Frame(tab[c].sock) /\ Waits(tab[c].sock)
             /\ \/ socks'[tab[c].sock].up = socks[tab[c].sock].up
                \/ \E n \in 0..Len(socks[tab[c].sock].up) :
                      socks'[tab[c].sock].up = SubSeq(socks[tab[c].sock].up, 1, n)
        BY <1>0, <1>3, DropStep, EndStep
    <2>3. CASE socks' = socks
        BY <1>0, <2>1, <2>3, PageChat
    <2>4. CASE socks' # socks
        <3>1. PICK s \in DOMAIN socks : s = tab[c].sock /\ s # 0
            BY <1>0, <2>2, <2>4, Connected
        <3>2. Frame(s) /\ Waits(s)
            BY <2>2, <2>4, <3>1
        <3>3. NoTwice(socks'[s].up) /\ Spoken(socks'[s].up) \subseteq Spoken(socks[s].up)
            BY <1>0, <2>2, <2>4, <3>1, SpokenCut
        <3>4. \A t \in DOMAIN socks :
                /\ socks'[t].at = socks[t].at /\ socks'[t].todo = socks[t].todo
                /\ socks'[t].msg = socks[t].msg /\ (t # s => socks'[t].down = socks[t].down)
                /\ NoTwice(socks'[t].up) /\ Spoken(socks'[t].up) \subseteq Spoken(socks[t].up)
            BY <1>0, <3>2, <3>3 DEF Frame, Waits
        <3>5. 0 \notin DOMAIN socks
            BY <1>0, <3>1, Alive
        <3>6. QED
            BY <2>1, <3>1, <3>2, <3>4, <3>5, PageChat DEF Frame
    <2>5. QED
        BY <2>3, <2>4
<1>4. QED
    BY <1>1, <1>2, <1>3

LEMMA SayChat == ASSUME ChatInv, Shapes', NEW c \in Tabs, SendChat(c) PROVE ChatInv'
<1> DEFINE v == count.chats + 1
           m == [type |-> "chat", item |-> v]
<1>0. Shapes
    BY DEF ChatInv
<1>s. PICK s \in DOMAIN socks : s = tab[c].sock
    BY <1>0, ChatStep, Connected DEF IsOpen
<1>1. /\ Uploads(s, m) /\ m.type = "chat" /\ m.item = v
      /\ count'.chats = v /\ count.chats \in Nat /\ UNCHANGED <<room, tab, row>>
    BY <1>0, <1>s, ChatStep
<1> HIDE DEF m
<1>2. Frame(s) /\ Waits(s) /\ Line(s) /\ m \in Up /\ socks'[s].up = Append(socks[s].up, m)
    BY <1>1 DEF Uploads
<1>n. (\A t \in DOMAIN socks : v \notin Spoken(socks[t].up)) /\ v \notin ToSet(room.chat)
    BY <1>1 DEF ChatInv, Uploading, Logged
<1>3. NoTwice(socks'[s].up) /\ Spoken(socks'[s].up) = Spoken(socks[s].up) \cup {v}
    <2>1. socks[s].up \in Seq(Up) /\ NoTwice(socks[s].up)
        BY <1>0, Alive DEF Sock, ChatInv, Uploading
    <2>2. QED
        BY <1>1, <1>2, <1>n, <2>1, SpokenAppended
<1>4. Logged'
    <2>1. \A w \in Items : w \in Int
        BY DEF Items
    <2>2. ToSet(room.chat) \subseteq Items
        <3>1. room.chat \in Seq(Items)
            BY <1>0 DEF Shapes, Typed, State
        <3>2. QED
            BY <3>1, LenProperties DEF ToSet
    <2>3. QED
        BY <1>1, <2>1, <2>2 DEF ChatInv, Logged
<1>5. Uploading'
    <2>1. \A t \in DOMAIN socks : \A w \in Spoken(socks[t].up) : w \in Int
        <3> SUFFICES ASSUME NEW t \in DOMAIN socks, NEW i \in Said(socks[t].up)
                     PROVE  socks[t].up[i].item \in Int
            BY DEF Spoken
        <3>1. socks[t].up \in Seq(Up)
            BY <1>0, Alive DEF Sock
        <3>2. socks[t].up[i] \in Up /\ socks[t].up[i].type = "chat"
            BY <3>1, LenProperties DEF Said
        <3>3. QED
            BY <3>2, MessageTypes DEF Items
    <2>2. \A t \in DOMAIN socks : t # s => socks'[t].up = socks[t].up
        BY <1>2 DEF Frame
    <2>3. \A t \in DOMAIN socks :
             /\ NoTwice(socks'[t].up)
             /\ Spoken(socks'[t].up) = Spoken(socks[t].up) \cup (IF t = s THEN {v} ELSE {})
        BY <1>3, <2>2 DEF ChatInv, Uploading
    <2>4. \A t \in DOMAIN socks : /\ Spoken(socks'[t].up) \cap ToSet(room.chat) = {}
                                  /\ \A w \in Spoken(socks'[t].up) : w <= v
        <3> TAKE t \in DOMAIN socks
        <3>1. /\ Spoken(socks[t].up) \cap ToSet(room.chat) = {}
              /\ \A w \in Spoken(socks[t].up) : w <= count.chats
            BY DEF ChatInv, Uploading
        <3>2. \A w \in Spoken(socks[t].up) : w <= v
            BY <1>1, <2>1, <3>1
        <3>3. v <= v
            BY <1>1
        <3> HIDE DEF v
        <3>4. Spoken(socks'[t].up) \subseteq Spoken(socks[t].up) \cup {v}
            BY <2>3
        <3>5. QED
            BY <1>n, <3>1, <3>2, <3>3, <3>4
    <2>5. \A t, u \in DOMAIN socks : t # u => Spoken(socks'[t].up) \cap Spoken(socks'[u].up) = {}
        BY <1>n, <2>3 DEF ChatInv, Uploading
    <2>6. QED
        BY <1>1, <1>2, <2>3, <2>4, <2>5 DEF Uploading, Frame
<1>6. \A t \in DOMAIN socks :
         /\ socks'[t].at = socks[t].at /\ socks'[t].todo = socks[t].todo
         /\ socks'[t].msg = socks[t].msg /\ socks'[t].down = socks[t].down
    BY <1>2 DEF Frame, Waits, Line
<1>7. Casting'
    BY <1>1, <1>2, <1>6, CastingKept DEF ChatInv, Frame
<1>8. ASSUME NEW k PROVE Awaited(k)' = Awaited(k)
    BY <1>2, <1>6, AwaitedKept DEF Frame
<1>9. ASSUME NEW d \in Tabs, Serving(d)'
      PROVE  Sees(d)'
    <2>1. PICK k \in DOMAIN socks : k = tab[d].sock
        BY <1>0, <1>1, <1>9, Connected DEF Serving
    <2>2. Serving(d) /\ Sees(d)
        BY <1>1, <1>6, <1>9, <2>1 DEF Serving, ChatInv
    <2>3. QED
        BY <1>1, <1>6, <1>8, <2>1, <2>2, SeesKept
<1>10. QED
    BY <1>4, <1>5, <1>7, <1>9 DEF ChatInv

LEMMA DeliverChat == ASSUME ChatInv, Shapes', NEW c \in Tabs, Deliver(c) PROVE ChatInv'
<1>0. Shapes
    BY DEF ChatInv
<1>s. PICK s \in DOMAIN socks : s = tab[c].sock
    BY <1>0, DeliverStep
<1> DEFINE q == socks[s].down
           m == Head(socks[s].down)
           h == tab[c].chat
<1>1. /\ Page1(c) /\ tab'[c].sock = s /\ s # 0
      /\ socks[s].tab = c /\ socks[s].at \in {"serve", "send"}
      /\ Frame(s) /\ Waits(s) /\ q # <<>> /\ socks'[s].down = Tail(q)
      /\ Next1(c) = m /\ m \in Down /\ room' = room /\ count' = count
    BY <1>0, <1>s, DeliverStep DEF Next1
<1>2. /\ q \in Seq(Down) /\ Hellos(q) \subseteq {1} /\ socks[s].up \in Seq(Up)
      /\ NoTwice(socks[s].up) /\ h \in Seq(Items)
    <2>1. socks[s] \in Sock /\ Handled(s)
        BY <1>0, Alive
    <2>2. tab[c] \in Tab
        BY <1>0 DEF Shapes, Typed
    <2>3. QED
        BY <2>1, <2>2 DEF Handled, Sock, Tab, ChatInv, Uploading
<1>3. \/ m.type = "hello" /\ tab'[c].chat = m.state.chat
      \/ m.type = "chat" /\ tab'[c].chat = Append(h, m.item)
      \/ m.type \in {"code", "presence"} /\ tab'[c].chat = h
    <2>1. \/ /\ Next1(c).type = "hello" /\ tab'[c].chat = Next1(c).state.chat
          \/ /\ Next1(c).type = "code" /\ Hears(c)
          \/ /\ Next1(c).type = "chat" /\ tab'[c].chat = Append(tab[c].chat, Next1(c).item)
          \/ /\ Next1(c).type = "presence" /\ tab'[c].chat = tab[c].chat
        BY <1>0, DeliverStep
    <2>2. QED
        BY <1>1, <2>1 DEF Hears
<1>4. NoTwice(socks'[s].up) /\ Spoken(socks'[s].up) = Spoken(socks[s].up)
    <2> DEFINE k == [type |-> "code", code |-> tab[c].code]
    <2>1. \/ socks'[s].up = socks[s].up
          \/ tab[c].code # NoCode /\ socks'[s].up = Append(socks[s].up, k)
        BY <1>0, <1>s, DeliverStep
    <2>2. tab[c].code # NoCode => k \in Up
        BY <1>0 DEF Shapes, Typed, Tab, Up
    <2>3. k.type # "chat"
        OBVIOUS
    <2> HIDE DEF k
    <2>4. CASE socks'[s].up = socks[s].up
        BY <1>2, <2>4
    <2>5. CASE tab[c].code # NoCode /\ socks'[s].up = Append(socks[s].up, k)
        <3>1. k \in Up /\ socks[s].up \in Seq(Up) /\ NoTwice(socks[s].up)
            BY <1>2, <2>2, <2>5
        <3>2. NoTwice(Append(socks[s].up, k)) /\ Spoken(Append(socks[s].up, k)) = Spoken(socks[s].up)
            BY <2>3, <3>1, SpokenAppended
        <3>3. QED
            BY <2>5, <3>2
    <2>6. QED
        BY <2>1, <2>4, <2>5
<1>5. \A t \in DOMAIN socks :
         /\ socks'[t].at = socks[t].at /\ socks'[t].todo = socks[t].todo
         /\ socks'[t].msg = socks[t].msg /\ (t # s => socks'[t].down = socks[t].down)
         /\ NoTwice(socks'[t].up) /\ Spoken(socks'[t].up) = Spoken(socks[t].up)
    BY <1>1, <1>4 DEF Frame, Waits, ChatInv, Uploading
<1>6. Uploading' /\ Casting' /\ Logged'
    <2>1. Uploading'
        BY <1>1, <1>5, UploadingKept DEF ChatInv, Frame
    <2>2. Casting'
        BY <1>1, <1>5, CastingKept DEF ChatInv, Frame
    <2>3. QED
        BY <1>1, <2>1, <2>2 DEF ChatInv, Logged
<1>7. ASSUME NEW k PROVE Awaited(k)' = Awaited(k)
    BY <1>1, <1>5, AwaitedKept DEF Frame
<1>8. ASSUME NEW d \in Tabs, d # c, Serving(d)'
      PROVE  Sees(d)'
    <2>1. tab'[d] = tab[d]
        BY <1>1, <1>8 DEF Page1
    <2>2. PICK k \in DOMAIN socks : k = tab[d].sock /\ socks[k].tab = d
        BY <1>0, <1>8, <2>1, Connected DEF Serving
    <2>3. Serving(d) /\ Sees(d) /\ k # s
        BY <1>1, <1>5, <1>8, <2>1, <2>2 DEF Serving, ChatInv
    <2>4. QED
        BY <1>1, <1>5, <1>7, <2>1, <2>2, <2>3, SeesKept
<1>9. Sees(c)'
    <2> DEFINE t == Tail(q)
               g == tab'[c].chat
               log == Log(q, h)
    <2>1. /\ Once(log) /\ NoTwice(q)
          /\ Spoken(q) \cap ToSet(log) = {}
          /\ Awaited(s) \cap (ToSet(log) \cup Spoken(q)) = {}
          /\ ToSet(log) \cup Spoken(q) \cup Awaited(s) = ToSet(room.chat)
        BY <1>s, <1>1 DEF ChatInv, Serving, Sees
    <2>2. /\ NoTwice(t) /\ (m.type # "chat" => Spoken(t) = Spoken(q))
          /\ m.type = "chat" => Spoken(q) = Spoken(t) \cup {m.item} /\ m.item \notin Spoken(t)
        BY <1>1, <1>2, <2>1, SpokenTaken
    <2>3. Log(t, g) = g
        <3>1. Hellos(t) = {}
            BY <1>1, <1>2, Greetings
        <3>2. QED
            BY <3>1 DEF Log
    <2>4. log = IF m.type = "hello" THEN m.state.chat ELSE h
        <3>1. 1 \in DOMAIN q /\ m = q[1]
            BY <1>1, <1>2, Shifted
        <3>2. Hellos(q) # {} <=> m.type = "hello"
            BY <1>2, <3>1 DEF Hellos
        <3>3. QED
            BY <3>1, <3>2 DEF Log
    <2>5. CASE m.type # "chat"
        <3>1. g = log
            BY <1>3, <2>4, <2>5
        <3> HIDE DEF t, g, log, q, h, m
        <3>2. /\ Once(g) /\ NoTwice(t)
              /\ Spoken(t) \cap ToSet(g) = {}
              /\ Awaited(s) \cap (ToSet(g) \cup Spoken(t)) = {}
              /\ ToSet(g) \cup Spoken(t) \cup Awaited(s) = ToSet(room.chat)
            BY <2>1, <2>2, <2>5, <3>1
        <3>3. QED
            BY <1>1, <1>7, <2>3, <3>2 DEF Sees, t, g
    <2>6. CASE m.type = "chat"
        <3>1. g = Append(h, m.item) /\ log = h
            BY <1>3, <2>4, <2>6
        <3>2. m.item \in Items
            BY <1>1, <2>6, MessageTypes
        <3>3. m.item \in Spoken(q) /\ m.item \notin ToSet(h)
            BY <2>1, <2>2, <2>6, <3>1
        <3>4. ToSet(g) = ToSet(h) \cup {m.item} /\ Once(g)
            BY <1>2, <2>1, <3>1, <3>2, <3>3, OnceAppended
        <3> HIDE DEF t, g, log, q, h, m
        <3>5. /\ Spoken(t) \cap ToSet(g) = {}
              /\ Awaited(s) \cap (ToSet(g) \cup Spoken(t)) = {}
              /\ ToSet(g) \cup Spoken(t) \cup Awaited(s) = ToSet(room.chat)
            BY <2>1, <2>2, <2>6, <3>1, <3>4
        <3>6. QED
            BY <1>1, <1>7, <2>2, <2>3, <3>4, <3>5 DEF Sees, t, g
    <2>7. QED
        BY <2>5, <2>6
<1>10. QED
    BY <1>6, <1>8, <1>9 DEF ChatInv

LEMMA ConnectChat == ASSUME ChatInv, Shapes', NEW c \in Tabs, Connect(c) PROVE ChatInv'
<1>0. Shapes /\ Typed
    BY DEF ChatInv, Shapes
<1>n. PICK n : n = tab'[c].sock
    OBVIOUS
<1>1. /\ Page1(c) /\ n \notin DOMAIN socks /\ DOMAIN socks' = DOMAIN socks \cup {n}
      /\ \A s \in DOMAIN socks : socks'[s] = socks[s]
      /\ socks'[n] = NewSock(c) /\ room' = room /\ count' = count
    BY <1>0, <1>n, ConnectStep
<1>2. /\ socks'[n].at = "open" /\ socks'[n].up = <<>> /\ socks'[n].todo = {}
      /\ socks'[n].msg.type = "none"
    BY <1>1 DEF NewSock
<1>3. Uploading' /\ Casting' /\ Logged'
    <2>1. Uploading'
        BY <1>1, <1>2, Nothing DEF ChatInv, Uploading
    <2>2. Casting'
        BY <1>1, <1>2 DEF ChatInv, Casting
    <2>3. QED
        BY <1>1, <2>1, <2>2 DEF ChatInv, Logged
<1>4. ASSUME NEW k PROVE Awaited(k)' = Awaited(k)
    BY <1>1, <1>2, AwaitedKept
<1>5. ASSUME NEW d \in Tabs, Serving(d)'
      PROVE  Sees(d)'
    <2>1. d # c
        BY <1>n, <1>2, <1>5 DEF Serving
    <2>2. tab'[d] = tab[d]
        BY <1>1, <2>1 DEF Page1
    <2>3. PICK k \in DOMAIN socks : k = tab[d].sock
        BY <1>0, <1>5, <2>2, Connected DEF Serving
    <2>4. Serving(d) /\ Sees(d)
        BY <1>1, <1>5, <2>2, <2>3 DEF Serving, ChatInv
    <2>5. QED
        BY <1>1, <1>4, <2>2, <2>3, <2>4, SeesKept
<1>6. QED
    BY <1>3, <1>5 DEF ChatInv

LEMMA RestartChat == ASSUME ChatInv, Shapes', Restart PROVE ChatInv'
<1>1. /\ room' = NewRoom /\ DOMAIN socks' = DOMAIN socks
      /\ \A s \in DOMAIN socks : socks'[s].up = <<>> /\ socks'[s].msg.type = "none"
      /\ \A c \in Tabs : tab'[c].sock = 0
    BY RestartStep DEF ChatInv, Shapes
<1>2. room'.chat = <<>>
    BY <1>1 DEF NewRoom
<1>3. QED
    BY <1>1, <1>2, Nothing DEF ChatInv, Logged, Uploading, Casting, Serving

LEMMA ChatKept == ASSUME ChatInv, [Next]_vars PROVE ChatInv'
<1>1. Shapes'
    BY ShapesKept DEF ChatInv
<1>2. CASE UNCHANGED vars
    <2>1. room' = room /\ socks' = socks /\ tab' = tab /\ count' = count
        BY <1>2 DEF vars
    <2>2. Logged' /\ Uploading' /\ Casting'
        BY <2>1 DEF ChatInv, Logged, Uploading, Casting
    <2>3. ASSUME NEW k PROVE Awaited(k)' = Awaited(k)
        BY <2>1, AwaitedKept
    <2>4. ASSUME NEW c \in Tabs, Serving(c)'
          PROVE  Sees(c)'
        <3>1. Serving(c)
            BY <2>1, <2>4 DEF Serving
        <3>2. Sees(c)
            BY <3>1 DEF ChatInv
        <3>3. QED
            BY <2>1, <2>3, <3>2, SeesKept
    <2>5. QED
        BY <1>1, <2>2, <2>4 DEF ChatInv
<1>3. ASSUME NEW s \in DOMAIN socks, Receive(s) PROVE ChatInv'
    <2>1. Head(socks[s].up).type = "code" \/ Head(socks[s].up).type = "chat"
        BY <1>3 DEF Receive
    <2>2. QED
        BY <1>1, <1>3, <2>1, ReceiveCodeChat, ReceiveChat
<1>4. CASE Next
    BY <1>1, <1>3, <1>4, Steps, AcceptChat, RefuseChat, LeaveChat, SendsChat, ConnectChat,
       DeliverChat, IdleChat, SayChat, RestartChat
<1>5. QED
    BY <1>2, <1>4

LEMMA ChatInit == Init \/ InitJoined => ChatInv
<1>1. ASSUME Init PROVE ChatInv
    <2>1. Shapes /\ DOMAIN socks = {} /\ room.chat = <<>> /\ \A c \in Tabs : tab[c].sock = 0
        BY <1>1, ShapesInit DEF Init, NewRoom, NewTab
    <2>2. QED
        BY <2>1, Nothing DEF ChatInv, Logged, Uploading, Casting, Serving
<1>2. ASSUME InitJoined PROVE ChatInv
    <2>1. /\ Shapes /\ room.chat = <<>>
          /\ \A s \in DOMAIN socks : socks[s].up = <<>> /\ socks[s].down = <<>> /\ socks[s].msg.type = "none"
          /\ \A c \in Tabs : tab[c].chat = <<>> /\ tab[c].sock # 0
        BY <1>2, ShapesJoined DEF InitJoined, NewRoom
    <2>2. \A k : Awaited(k) = {}
        BY <2>1 DEF Awaited
    <2>3. \A c \in Tabs : Sees(c)
        <3> TAKE c \in Tabs
        <3>1. socks[tab[c].sock].down = <<>>
            BY <2>1, Connected
        <3>2. Log(<<>>, <<>>) = <<>>
            BY DEF Log, Hellos
        <3>3. QED
            BY <2>1, <2>2, <3>1, <3>2, Nothing DEF Sees
    <2>4. QED
        BY <2>1, <2>3, Nothing DEF ChatInv, Logged, Uploading, Casting
<1>3. QED
    BY <1>1, <1>2

\* Two sequences without repetitions and with the same elements are as long.
LEMMA SameLength ==
    ASSUME NEW S, NEW p \in Seq(S), NEW q \in Seq(S), Once(p), Once(q), ToSet(p) = ToSet(q)
    PROVE  Len(p) = Len(q)
<1>1. \A r \in Seq(S) : Once(r) => IsFiniteSet(ToSet(r)) /\ Cardinality(ToSet(r)) = Len(r)
    <2> TAKE r \in Seq(S)
    <2> HAVE Once(r)
    <2>1. Len(r) \in Nat /\ DOMAIN r = 1..Len(r)
        BY LenProperties
    <2>2. r \in [1..Len(r) -> ToSet(r)]
        BY <2>1, LenProperties DEF ToSet
    <2>3. r \in Bijection(1..Len(r), ToSet(r))
        BY <2>1, <2>2 DEF Bijection, Injection, Surjection, IsInjective, Once, ToSet
    <2>4. ExistsBijection(1..Len(r), ToSet(r))
        BY <2>3 DEF ExistsBijection
    <2>5. QED
        BY <2>1, <2>4, FS_CountingElements, FS_NatBijection
<1>2. QED
    BY <1>1

LEMMA ChatQuiet == ChatInv => (Quiet => ChatShared)
<1> SUFFICES ASSUME ChatInv, Quiet, NEW c \in Tabs
             PROVE  Len(tab[c].chat) = Len(room.chat) /\ ToSet(tab[c].chat) = ToSet(room.chat)
    BY DEF ChatShared
<1> DEFINE s == tab[c].sock
<1>1. /\ Shapes /\ s \in DOMAIN socks /\ socks[s].at = "serve" /\ socks[s].down = <<>>
    BY Connected DEF ChatInv, Quiet, Settled
<1>2. Sees(c)
    BY <1>1 DEF ChatInv, Serving, Quiet
<1>3. Awaited(s) = {}
    <2>1. \A r \in DOMAIN socks : socks[r].todo = {}
        BY <1>1, Alive DEF Quiet, Settled, Handled
    <2>2. QED
        BY <2>1 DEF Awaited
<1>4. Log(<<>>, tab[c].chat) = tab[c].chat
    BY DEF Log, Hellos
<1>5. Once(tab[c].chat) /\ ToSet(tab[c].chat) = ToSet(room.chat)
    BY <1>1, <1>2, <1>3, <1>4, Nothing DEF Sees
<1>6. tab[c].chat \in Seq(Items) /\ room.chat \in Seq(Items) /\ Once(room.chat)
    BY <1>1 DEF Shapes, Typed, Tab, State, ChatInv, Logged
<1>7. QED
    BY <1>5, <1>6, SameLength

\* However messages, joins, losses and restarts interleave, once nothing is on its
\* way every page shows the messages of the room, each once: those said while it
\* joined are either in the state it is told or sent to it, and never both.
THEOREM ChatNeitherLostNorDoubled ==
    (Spec => [](Quiet => ChatShared)) /\ (SpecJoined => [](Quiet => ChatShared))
<1>1. Spec => [](Quiet => ChatShared)
    BY ChatInit, ChatKept, ChatQuiet, PTL DEF Spec
<1>2. SpecJoined => [](Quiet => ChatShared)
    BY ChatInit, ChatKept, ChatQuiet, PTL DEF SpecJoined
<1>3. QED
    BY <1>1, <1>2

-----------------------------------------------------------------------------
(* The code.                                                               *)

Coded(q) == {i \in DOMAIN q : q[i].type = "code"}

\* The messages with code in a queue, and that there is at most one.
Codes(q) == {q[i] : i \in Coded(q)}
Single(q) == \A i, j \in Coded(q) : i = j

\* s is to join, or its page to be told the state of the room.
Arriving(s) == socks[s].at = "open" \/ Hellos(socks[s].down) # {}

\* Code is on its way from s, to s, or from its handler.
Moving(s) ==
    Codes(socks[s].up) # {} \/ Codes(socks[s].down) # {} \/ socks[s].msg.type = "code"

\* What is sent to a page is the code of the room; its own code does not come
\* back to it.
SameCode ==
    \A s \in DOMAIN socks :
        /\ \A m \in Codes(socks[s].down) : m.code = room.code /\ m.from # Role(socks[s].tab)
        /\ Hellos(socks[s].down) # {} => socks[s].down[1].state.code = room.code
        /\ socks[s].msg.type = "code" =>
             /\ socks[s].msg.code = room.code /\ socks[s].msg.from = Role(socks[s].tab)
             /\ \A t \in socks[s].todo : socks[t].tab # socks[s].tab

\* One page joins, or one code is on its way to the room or from it, at a time.
OneSource ==
    /\ \A s \in DOMAIN socks : Single(socks[s].up)
    /\ \A s, t \in DOMAIN socks : Arriving(s) => ~Moving(t) /\ (Arriving(t) => s = t)
    /\ \A s, t \in DOMAIN socks : Codes(socks[s].up) # {} =>
         /\ socks[t].msg.type # "code" /\ Codes(socks[t].down) = {}
         /\ Codes(socks[t].up) # {} => s = t

\* The page of s is to hear of the room's code, or the room of its.
Coming(s) ==
    \/ Hellos(socks[s].down) # {} \/ Codes(socks[s].down) # {} \/ Codes(socks[s].up) # {}
    \/ \E r \in DOMAIN socks : socks[r].msg.type = "code" /\ s \in socks[r].todo

Matches(c) ==
    LET s == tab[c].sock
    IN  /\ \A m \in Codes(socks[s].up) : m.code = tab[c].code
        /\ Coming(s) \/ (room.code # NoCode /\ tab[c].code = room.code)

Follows == \A c \in Tabs : Serving(c) => Matches(c)

\* While a page is still to load the starter code there is no other.
Starting ==
    (\E c \in Tabs : ~tab[c].loaded) =>
        /\ room.code \in {0, NoCode} /\ \A c \in Tabs : tab[c].code = 0
        /\ \A s \in DOMAIN socks : \A m \in Codes(socks[s].up) : m.code = 0

Shown == \A c \in Tabs : tab[c].code # NoCode

CodeInv == PresenceInv /\ SameCode /\ OneSource /\ Follows /\ Starting /\ Shown

LEMMA CodesAppended ==
    ASSUME NEW S, NEW q \in Seq(S), NEW m \in S
    PROVE  /\ m.type # "code" => /\ Codes(Append(q, m)) = Codes(q)
                                 /\ Single(q) => Single(Append(q, m))
           /\ m.type = "code" => /\ Codes(Append(q, m)) = Codes(q) \cup {m}
                                 /\ Codes(q) = {} => Single(Append(q, m))
<1> DEFINE a == Append(q, m)
           n == Len(q) + 1
<1>1. /\ DOMAIN a = DOMAIN q \cup {n} /\ n \notin DOMAIN q
      /\ \A i \in DOMAIN q : a[i] = q[i]
      /\ a[n] = m
    BY Appended
<1> HIDE DEF a, n
<1>2. CASE m.type # "code"
    <2>1. Coded(a) = Coded(q)
        BY <1>1, <1>2 DEF Coded
    <2>2. \A i \in Coded(q) : a[i] = q[i]
        BY <1>1 DEF Coded
    <2>3. QED
        BY <1>2, <2>1, <2>2 DEF Codes, Single, a
<1>3. CASE m.type = "code"
    <2>1. Coded(a) = Coded(q) \cup {n} /\ n \notin Coded(q)
        BY <1>1, <1>3 DEF Coded
    <2>2. (\A i \in Coded(q) : a[i] = q[i]) /\ a[n] = m
        BY <1>1 DEF Coded
    <2>3. Codes(a) = Codes(q) \cup {m}
        BY <2>1, <2>2 DEF Codes
    <2>4. ASSUME Codes(q) = {} PROVE Single(a)
        BY <2>1, <2>4 DEF Codes, Single
    <2>5. QED
        BY <1>3, <2>3, <2>4 DEF a
<1>4. QED
    BY <1>2, <1>3

LEMMA CodesTaken ==
    ASSUME NEW S, NEW q \in Seq(S), q # <<>>
    PROVE  /\ Codes(Tail(q)) \subseteq Codes(q)
           /\ Single(q) => Single(Tail(q))
           /\ Head(q).type # "code" => Codes(Tail(q)) = Codes(q)
           /\ Head(q).type = "code" => /\ Head(q) \in Codes(q)
                                       /\ Single(q) => Codes(Tail(q)) = {}
<1> DEFINE t == Tail(q)
<1>1. /\ 1 \in DOMAIN q /\ Head(q) = q[1]
      /\ \A i \in DOMAIN t : i + 1 \in DOMAIN q /\ t[i] = q[i + 1] /\ i \in Nat \ {0}
      /\ \A i \in DOMAIN q : i # 1 => i - 1 \in DOMAIN t
    BY Shifted
<1>2. \A i \in DOMAIN q : i \in Nat \ {0}
    BY LenProperties
<1> HIDE DEF t
<1>3. \A i \in Coded(t) : i + 1 \in Coded(q) /\ t[i] = q[i + 1] /\ i \in Nat \ {0}
    BY <1>1 DEF Coded
<1>4. \A i \in Coded(q) : i # 1 => i - 1 \in Coded(t) /\ t[i - 1] = q[i]
    BY <1>1, <1>2 DEF Coded
<1>5. Codes(t) \subseteq Codes(q)
    BY <1>3 DEF Codes
<1>6. ASSUME Single(q) PROVE Single(t)
    <2> SUFFICES ASSUME NEW i \in Coded(t), NEW j \in Coded(t) PROVE i = j
        BY DEF Single
    <2>1. i + 1 = j + 1 /\ i \in Nat /\ j \in Nat
        BY <1>3, <1>6 DEF Single
    <2>2. QED
        BY <2>1
<1>7. ASSUME q[1].type # "code" PROVE Codes(q) \subseteq Codes(t)
    <2> SUFFICES ASSUME NEW i \in Coded(q) PROVE q[i] \in Codes(t)
        BY DEF Codes
    <2>1. i # 1
        BY <1>7 DEF Coded
    <2>2. QED
        BY <1>4, <2>1 DEF Codes
<1>8. ASSUME q[1].type = "code"
      PROVE  q[1] \in Codes(q) /\ (Single(q) => Codes(t) = {})
    <2>1. 1 \in Coded(q)
        BY <1>1, <1>8 DEF Coded
    <2>2. ASSUME Single(q), NEW i \in Coded(t) PROVE FALSE
        <3>1. i + 1 = 1 /\ i \in Nat \ {0}
            BY <1>3, <2>1, <2>2 DEF Single
        <3>2. QED
            BY <3>1
    <2>3. QED
        BY <2>1, <2>2 DEF Codes
<1>9. QED
    BY <1>1, <1>5, <1>6, <1>7, <1>8 DEF t

LEMMA CodesCut ==
    ASSUME NEW S, NEW q \in Seq(S), NEW n \in 0..Len(q)
    PROVE  Codes(SubSeq(q, 1, n)) \subseteq Codes(q) /\ (Single(q) => Single(SubSeq(q, 1, n)))
<1> DEFINE p == SubSeq(q, 1, n)
<1>1. \A i \in DOMAIN p : i \in DOMAIN q /\ p[i] = q[i]
    BY Cut
<1> HIDE DEF p
<1>2. \A i \in Coded(p) : i \in Coded(q) /\ p[i] = q[i]
    BY <1>1 DEF Coded
<1>3. QED
    BY <1>2 DEF Single, Codes, p

LEMMA NoCodes == Codes(<<>>) = {} /\ Single(<<>>) /\ Hellos(<<>>) = {}
BY DEF Codes, Coded, Single, Hellos

\* While a page that is served hears nothing new and the room keeps its code.
LEMMA MatchesKept ==
    ASSUME NEW c \in Tabs, Matches(c), NEW s, tab[c].sock = s, tab'[c].sock = s,
           tab'[c].code = tab[c].code, room'.code = room.code,
           Codes(socks'[s].up) \subseteq Codes(socks[s].up), Coming(s) => Coming(s)'
    PROVE  Matches(c)'
BY DEF Matches

\* No code starts on its way.
Settling ==
    /\ DOMAIN socks' = DOMAIN socks /\ room'.code = room.code
    /\ \A s \in DOMAIN socks :
         /\ socks'[s].tab = socks[s].tab
         /\ Codes(socks'[s].up) \subseteq Codes(socks[s].up)
         /\ Codes(socks'[s].down) \subseteq Codes(socks[s].down)
         /\ Single(socks'[s].up)
         /\ Arriving(s)' => Arriving(s)
         /\ Hellos(socks'[s].down) # {} => socks'[s].down[1].state.code = room.code
         /\ \/ socks'[s].msg.type # "code"
            \/ socks'[s].msg = socks[s].msg /\ socks'[s].todo \subseteq socks[s].todo

LEMMA Sources ==
    ASSUME CodeInv, Settling
    PROVE  SameCode' /\ OneSource'
<1>0. Shapes /\ SameCode /\ OneSource
    BY DEF CodeInv, PresenceInv
<1>1. \A s \in DOMAIN socks :
         /\ Moving(s)' => Moving(s)
         /\ Arriving(s)' => Arriving(s)
         /\ Codes(socks'[s].up) # {} => Codes(socks[s].up) # {}
         /\ Codes(socks[s].down) = {} => Codes(socks'[s].down) = {}
         /\ socks'[s].msg.type = "code" => socks[s].msg.type = "code"
         /\ Single(socks'[s].up)
    BY DEF Moving, Settling
<1>2. OneSource'
    <2>1. DOMAIN socks' = DOMAIN socks
        BY DEF Settling
    <2>2. QED
        BY <1>0, <1>1, <2>1 DEF OneSource
<1>3. SameCode'
    <2>0. /\ DOMAIN socks' = DOMAIN socks /\ room'.code = room.code
          /\ \A s \in DOMAIN socks : socks'[s].tab = socks[s].tab
        BY DEF Settling
    <2> SUFFICES ASSUME NEW s \in DOMAIN socks
                 PROVE  /\ \A m \in Codes(socks'[s].down) :
                             m.code = room.code /\ m.from # Role(socks[s].tab)
                        /\ Hellos(socks'[s].down) # {} => socks'[s].down[1].state.code = room.code
                        /\ socks'[s].msg.type = "code" =>
                             /\ socks'[s].msg.code = room.code
                             /\ socks'[s].msg.from = Role(socks[s].tab)
                             /\ \A t \in socks'[s].todo : socks'[t].tab # socks[s].tab
        BY <2>0 DEF SameCode
    <2>1. \A m \in Codes(socks'[s].down) : m.code = room.code /\ m.from # Role(socks[s].tab)
        <3>1. Codes(socks'[s].down) \subseteq Codes(socks[s].down)
            BY DEF Settling
        <3>2. \A m \in Codes(socks[s].down) : m.code = room.code /\ m.from # Role(socks[s].tab)
            BY <1>0 DEF SameCode
        <3>3. QED
            BY <3>1, <3>2
    <2>2. ASSUME socks'[s].msg.type = "code"
          PROVE  /\ socks'[s].msg.code = room.code
                 /\ socks'[s].msg.from = Role(socks[s].tab)
                 /\ \A t \in socks'[s].todo : socks'[t].tab # socks[s].tab
        <3>1. socks'[s].msg = socks[s].msg /\ socks'[s].todo \subseteq socks[s].todo
            BY <2>2 DEF Settling
        <3>2. socks[s].todo \subseteq DOMAIN socks
            BY <1>0, Alive DEF Handled
        <3>3. QED
            BY <1>0, <2>2, <3>1, <3>2 DEF SameCode, Settling
    <2>3. QED
        BY <2>1, <2>2 DEF Settling
<1>4. QED
    BY <1>2, <1>3

LEMMA Calm ==
    ASSUME CodeInv, PresenceInv', Settling,
           \A c \in Tabs : /\ tab'[c].code = tab[c].code
                           /\ tab[c].loaded => tab'[c].loaded
                           /\ Serving(c)' => Matches(c)'
    PROVE  CodeInv'
<1>1. SameCode' /\ OneSource'
    BY Sources
<1>2. Starting'
    BY DEF CodeInv, Starting, Settling
<1>3. QED
    BY <1>1, <1>2 DEF CodeInv, Follows, Shown

\* What is on its way to k stays.
LEMMA ComingKept ==
    ASSUME NEW k, Coming(k), DOMAIN socks \subseteq DOMAIN socks',
           Codes(socks[k].up) \subseteq Codes(socks'[k].up), socks'[k].down = socks[k].down,
           \A r \in DOMAIN socks : socks[r].msg.type = "code" /\ k \in socks[r].todo
             => socks'[r].msg.type = "code" /\ k \in socks'[r].todo
    PROVE  Coming(k)'
BY DEF Coming

LEMMA Unchanged ==
    ASSUME CodeInv, NEW s \in DOMAIN socks
    PROVE  /\ Single(socks[s].up)
           /\ Hellos(socks[s].down) # {} => socks[s].down[1].state.code = room.code
BY DEF CodeInv, OneSource, SameCode

\* A handler begins or ends without touching the code.
LEMMA HandlerCode ==
    ASSUME CodeInv, PresenceInv', NEW s \in DOMAIN socks, Frame(s), room'.code = room.code,
           socks'[s].down = socks[s].down, Codes(socks'[s].up) = Codes(socks[s].up),
           Single(socks'[s].up), socks'[s].msg.type # "code", socks[s].msg.type # "code",
           socks'[s].at = "open" => socks[s].at = "open",
           \A c \in Tabs : /\ tab'[c].code = tab[c].code /\ tab'[c].loaded = tab[c].loaded
                           /\ Serving(c)' => Serving(c) /\ tab'[c].sock = tab[c].sock
    PROVE  CodeInv'
<1>1. Settling
    <2> SUFFICES ASSUME NEW t \in DOMAIN socks
                 PROVE  /\ socks'[t].tab = socks[t].tab
                        /\ Codes(socks'[t].up) \subseteq Codes(socks[t].up)
                        /\ Codes(socks'[t].down) \subseteq Codes(socks[t].down)
                        /\ Single(socks'[t].up)
                        /\ Arriving(t)' => Arriving(t)
                        /\ Hellos(socks'[t].down) # {} => socks'[t].down[1].state.code = room.code
                        /\ \/ socks'[t].msg.type # "code"
                           \/ socks'[t].msg = socks[t].msg /\ socks'[t].todo \subseteq socks[t].todo
        BY DEF Settling, Frame
    <2>1. CASE t = s
        BY <2>1, Unchanged DEF Frame, Arriving
    <2>2. CASE t # s
        BY <2>2, Unchanged DEF Frame, Arriving
    <2>3. QED
        BY <2>1, <2>2
<1>2. ASSUME NEW c \in Tabs, Serving(c)'
      PROVE  Matches(c)'
    <2>1. Serving(c) /\ Matches(c) /\ tab'[c].sock = tab[c].sock /\ tab'[c].code = tab[c].code
        BY <1>2 DEF CodeInv, Follows
    <2>2. PICK k \in DOMAIN socks : k = tab[c].sock
        BY <2>1, Connected DEF Serving, CodeInv, PresenceInv
    <2>3. socks'[k].down = socks[k].down /\ Codes(socks'[k].up) = Codes(socks[k].up)
        BY DEF Frame
    <2>4. \A r \in DOMAIN socks : socks[r].msg.type = "code" /\ k \in socks[r].todo
             => socks'[r].msg.type = "code" /\ k \in socks'[r].todo
        BY DEF Frame
    <2>5. Coming(k) => Coming(k)'
        BY <2>3, <2>4, ComingKept DEF Frame
    <2>6. QED
        BY <2>1, <2>2, <2>3, <2>5, MatchesKept
<1>3. QED
    BY <1>1, <1>2, Calm

LEMMA RefuseCode ==
    ASSUME CodeInv, PresenceInv', NEW s \in DOMAIN socks, Refuse(s) \/ Forget(s)
    PROVE  CodeInv'
<1>0. Shapes /\ Typed
    BY DEF CodeInv, PresenceInv, Shapes
<1>1. /\ Frame(s) /\ socks[s].at = "open" /\ socks'[s].at = "gone" /\ room' = room
      /\ socks'[s].down = socks[s].down /\ socks'[s].todo = socks[s].todo /\ socks'[s].msg = socks[s].msg
      /\ socks'[s].up = socks[s].up
    BY <1>0, RefuseStep
<1>2. socks[s].msg.type = "none"
    BY <1>0, <1>1, Alive DEF Handled
<1>3. ASSUME NEW c \in Tabs
      PROVE  /\ tab'[c].code = tab[c].code /\ tab'[c].loaded = tab[c].loaded
             /\ Serving(c)' => Serving(c) /\ tab'[c].sock = tab[c].sock
    <2>1. \/ tab'[c] = tab[c]
          \/ tab'[c] = [tab[c] EXCEPT !.sock = 0]
        BY <1>0, RefuseStep
    <2>2. tab[c] \in Tab
        BY <1>0 DEF Typed
    <2>3. CASE tab'[c] = [tab[c] EXCEPT !.sock = 0]
        BY <2>2, <2>3 DEF Tab, Serving
    <2>4. CASE tab'[c] = tab[c]
        <3> SUFFICES ASSUME Serving(c)' PROVE Serving(c)
            BY <2>4
        <3>1. tab[c].sock \in DOMAIN socks
            BY <1>0, <2>4, Connected DEF Serving
        <3>2. QED
            BY <1>1, <2>4, <3>1 DEF Serving, Frame
    <2>5. QED
        BY <2>1, <2>3, <2>4
<1>4. Single(socks'[s].up)
    BY <1>1, Unchanged
<1>5. QED
    BY <1>1, <1>2, <1>3, <1>4, HandlerCode

LEMMA LeaveCode ==
    ASSUME CodeInv, PresenceInv', NEW s \in DOMAIN socks, Leave(s)
    PROVE  CodeInv'
<1>0. Shapes /\ Typed
    BY DEF CodeInv, PresenceInv, Shapes
<1>1. /\ Frame(s) /\ socks[s].at = "serve" /\ ~socks[s].alive /\ tab' = tab
      /\ room'.code = room.code /\ Line(s) /\ socks'[s].up = socks[s].up
      /\ Starts(s, "leave", [type |-> "presence"], Joined \ {s})
    BY <1>0, LeaveStep
<1>2. /\ socks[s].msg.type = "none" /\ socks'[s].msg.type \in {"presence", "none"}
      /\ socks'[s].at # "open"
    BY <1>0, <1>1, Alive DEF Handled, Starts
<1>3. ASSUME NEW c \in Tabs, Serving(c)'
      PROVE  Serving(c)
    <2>1. tab[c].sock # s /\ tab[c].sock \in DOMAIN socks
        BY <1>0, <1>1, <1>3, Alive, Connected DEF Serving
    <2>2. QED
        BY <1>1, <1>3, <2>1 DEF Serving, Frame
<1>4. Single(socks'[s].up)
    BY <1>1, Unchanged
<1>5. QED
    BY <1>1, <1>2, <1>3, <1>4, HandlerCode DEF Line

LEMMA ReceiveChatCode ==
    ASSUME CodeInv, PresenceInv', NEW s \in DOMAIN socks, Receive(s), Head(socks[s].up).type = "chat"
    PROVE  CodeInv'
<1>0. Shapes /\ Typed
    BY DEF CodeInv, PresenceInv, Shapes
<1>1. /\ Frame(s) /\ socks[s].at = "serve" /\ tab' = tab /\ socks[s].up # <<>>
      /\ room'.code = room.code /\ Line(s) /\ socks'[s].up = Tail(socks[s].up)
      /\ Starts(s, "send", Head(socks[s].up), Joined)
    BY <1>0, ReceiveStep
<1>2. /\ socks[s].msg.type = "none" /\ socks'[s].msg.type \in {"chat", "none"}
      /\ socks'[s].at \in {"serve", "send"}
    BY <1>0, <1>1, Alive DEF Handled, Starts
<1>3. Single(socks'[s].up) /\ Codes(socks'[s].up) = Codes(socks[s].up)
    <2>1. socks[s].up \in Seq(Up) /\ Single(socks[s].up)
        BY <1>0, Alive, Unchanged DEF Sock
    <2>2. QED
        BY <1>1, <2>1, CodesTaken
<1>4. ASSUME NEW c \in Tabs, Serving(c)'
      PROVE  Serving(c)
    <2>1. tab[c].sock \in DOMAIN socks
        BY <1>0, <1>1, <1>4, Connected DEF Serving
    <2>2. QED
        BY <1>1, <1>4, <2>1 DEF Serving, Frame
<1>5. QED
    BY <1>1, <1>2, <1>3, <1>4, HandlerCode DEF Line

LEMMA AcceptCode ==
    ASSUME CodeInv, PresenceInv', NEW s \in DOMAIN socks, Accept(s)
    PROVE  CodeInv'
<1> DEFINE hello == [type |-> "hello", state |-> room']
<1>0. Shapes /\ Typed
    BY DEF CodeInv, PresenceInv, Shapes
<1>1. /\ Frame(s) /\ socks[s].at = "open" /\ tab' = tab
      /\ room' \in State /\ room'.code = room.code /\ socks'[s].up = socks[s].up
      /\ Starts(s, "send", [type |-> "presence"], Joined \cup {s})
      /\ ~socks[s].alive => socks'[s].down = socks[s].down
      /\ socks[s].alive => socks'[s].down = Append(socks[s].down, hello)
    BY <1>0, AcceptStep
<1>2. /\ socks[s].up = <<>> /\ socks[s].down = <<>> /\ socks[s].msg.type = "none"
      /\ socks'[s].msg.type = "presence" /\ socks'[s].at = "send"
    <2>1. Handled(s)
        BY <1>0, Alive
    <2>2. Joined \cup {s} # {}
        OBVIOUS
    <2>3. socks'[s].msg = [type |-> "presence"] /\ socks'[s].at = "send"
        BY <1>1, <2>2 DEF Starts
    <2>4. QED
        BY <1>1, <2>1, <2>3 DEF Handled
<1>3. /\ Codes(socks'[s].down) = {} /\ Codes(socks'[s].up) = {} /\ Single(socks'[s].up)
      /\ Hellos(socks'[s].down) # {} => socks'[s].down[1].state.code = room.code
      /\ socks[s].alive => Hellos(socks'[s].down) # {}
    <2>1. /\ hello \in Down /\ hello.type = "hello" /\ hello.state.code = room.code
          /\ socks[s].down \in Seq(Down)
        BY <1>0, <1>1, Alive DEF Down, Sock
    <2> HIDE DEF hello
    <2>2. CASE ~socks[s].alive
        BY <1>1, <1>2, <2>2, NoCodes
    <2>3. CASE socks[s].alive
        <3>1. Codes(socks'[s].down) = {}
            <4>1. Codes(Append(socks[s].down, hello)) = Codes(socks[s].down)
                BY <2>1, CodesAppended
            <4>2. Codes(socks[s].down) = {}
                BY <1>2, NoCodes
            <4>3. QED
                BY <1>1, <2>3, <4>1, <4>2
        <3>2. Hellos(socks'[s].down) = {1}
            BY <1>1, <1>2, <2>1, <2>3, Greetings, NoCodes
        <3>3. socks'[s].down[1] = hello
            BY <1>1, <1>2, <2>1, <2>3
        <3>4. QED
            BY <1>1, <1>2, <2>1, <3>1, <3>2, <3>3, NoCodes
    <2>4. QED
        BY <2>2, <2>3
<1>4. Settling
    <2> SUFFICES ASSUME NEW t \in DOMAIN socks
                 PROVE  /\ socks'[t].tab = socks[t].tab
                        /\ Codes(socks'[t].up) \subseteq Codes(socks[t].up)
                        /\ Codes(socks'[t].down) \subseteq Codes(socks[t].down)
                        /\ Single(socks'[t].up)
                        /\ Arriving(t)' => Arriving(t)
                        /\ Hellos(socks'[t].down) # {} => socks'[t].down[1].state.code = room.code
                        /\ \/ socks'[t].msg.type # "code"
                           \/ socks'[t].msg = socks[t].msg /\ socks'[t].todo \subseteq socks[t].todo
        BY <1>1 DEF Settling, Frame
    <2>1. CASE t = s
        BY <1>1, <1>2, <1>3, <2>1 DEF Frame, Arriving
    <2>2. CASE t # s
        BY <1>1, <2>2, Unchanged DEF Frame, Arriving
    <2>3. QED
        BY <2>1, <2>2
<1>5. ASSUME NEW c \in Tabs, Serving(c)'
      PROVE  Matches(c)'
    <2>1. PICK k \in DOMAIN socks : k = tab[c].sock /\ socks[k].alive
        BY <1>0, <1>1, <1>5, Connected DEF Serving
    <2>2. CASE k = s
        BY <1>1, <1>3, <2>1, <2>2 DEF Matches, Coming
    <2>3. CASE k # s
        <3>1. Serving(c) /\ Matches(c)
            BY <1>1, <1>5, <2>1, <2>3 DEF Serving, Frame, CodeInv, Follows
        <3>2. socks'[k] = socks[k]
            BY <1>1, <2>3 DEF Frame
        <3>3. \A r \in DOMAIN socks : socks[r].msg.type = "code" /\ k \in socks[r].todo
                 => socks'[r].msg.type = "code" /\ k \in socks'[r].todo
            BY <1>1, <1>2 DEF Frame
        <3>4. Coming(k) => Coming(k)'
            BY <1>1, <3>2, <3>3, ComingKept DEF Frame
        <3>5. QED
            BY <1>1, <2>1, <3>1, <3>2, <3>4, MatchesKept
    <2>4. QED
        BY <2>2, <2>3
<1>6. QED
    BY <1>1, <1>4, <1>5, Calm

LEMMA ReceiveCode ==
    ASSUME CodeInv, PresenceInv', NEW s \in DOMAIN socks, Receive(s), Head(socks[s].up).type = "code"
    PROVE  CodeInv'
<1> DEFINE m == Head(socks[s].up)
<1>0. Shapes /\ Typed /\ SameCode /\ OneSource /\ Follows /\ Starting /\ Shown /\ OneSocket
    BY DEF CodeInv, PresenceInv, Shapes
<1>1. /\ Frame(s) /\ socks[s].at = "serve" /\ tab' = tab /\ socks[s].up # <<>> /\ m \in Up
      /\ room'.code = m.code /\ Line(s) /\ socks'[s].up = Tail(socks[s].up)
      /\ Starts(s, "send", [type |-> "code", code |-> room'.code, from |-> Role(socks[s].tab)],
                Joined \ {s})
    BY <1>0, ReceiveStep
<1>2. /\ m \in Codes(socks[s].up) /\ Codes(socks'[s].up) = {} /\ Single(socks'[s].up)
    <2>1. socks[s].up \in Seq(Up) /\ Single(socks[s].up)
        BY <1>0, Alive, Unchanged DEF Sock
    <2>2. QED
        BY <1>1, <2>1, CodesTaken
<1>3. m.code \in Versions /\ m.code # NoCode
    BY <1>1, MessageTypes, Bounds DEF Versions, NoCode
<1>4. \A t \in DOMAIN socks :
         /\ socks[t].at # "open" /\ Hellos(socks[t].down) = {} /\ Codes(socks[t].down) = {}
         /\ socks[t].msg.type # "code" /\ (t # s => Codes(socks[t].up) = {})
    BY <1>0, <1>2 DEF OneSource, Arriving, Moving
<1>5. /\ socks'[s].todo = Joined \ {s} /\ socks'[s].at \in {"serve", "send"}
      /\ socks'[s].msg.type = "code" => /\ socks'[s].msg.code = room'.code
                                        /\ socks'[s].msg.from = Role(socks[s].tab)
      /\ Joined \ {s} # {} => socks'[s].msg.type = "code"
    BY <1>1 DEF Starts
<1>6. \A t \in DOMAIN socks :
         /\ socks'[t].at # "open" /\ Hellos(socks'[t].down) = {} /\ Codes(socks'[t].down) = {}
         /\ (t # s => socks'[t].msg.type # "code") /\ Codes(socks'[t].up) = {}
         /\ Single(socks'[t].up) /\ socks'[t].tab = socks[t].tab
    BY <1>1, <1>2, <1>4, <1>5, Unchanged DEF Frame, Line
<1>7. OneSource'
    <2>1. \A t \in DOMAIN socks : ~Arriving(t)'
        BY <1>6 DEF Arriving
    <2>2. DOMAIN socks' = DOMAIN socks
        BY <1>1 DEF Frame
    <2>3. \A t \in DOMAIN socks : Single(socks'[t].up) /\ Codes(socks'[t].up) = {}
        BY <1>6
    <2>4. QED
        BY <2>1, <2>2, <2>3 DEF OneSource
<1>8. SameCode'
    <2>1. \A t \in Joined \ {s} : t \in DOMAIN socks /\ socks[t].tab # socks[s].tab
        BY <1>0, <1>1, Alive DEF Joined, OneSocket
    <2>2. QED
        BY <1>1, <1>5, <1>6, <2>1 DEF SameCode, Frame
<1>9. ASSUME NEW c \in Tabs, Serving(c)'
      PROVE  Matches(c)'
    <2>1. PICK k \in DOMAIN socks : k = tab[c].sock /\ socks[k].tab = c
        BY <1>0, <1>1, <1>9, Connected DEF Serving
    <2>2. socks[k].at \in {"serve", "send"}
        BY <1>1, <1>9, <2>1 DEF Serving, Frame
    <2>3. CASE k = s
        <3>1. Matches(c)
            BY <1>0, <1>1, <1>9, <2>1, <2>2 DEF Serving, Follows
        <3>2. m.code = tab[c].code
            BY <1>2, <2>1, <2>3, <3>1 DEF Matches
        <3>3. QED
            BY <1>1, <1>3, <1>6, <2>1, <3>2 DEF Matches
    <2>4. CASE k # s
        <3>1. k \in Joined \ {s}
            BY <2>2, <2>4 DEF Joined
        <3>2. socks'[s].msg.type = "code" /\ k \in socks'[s].todo
            BY <1>5, <3>1
        <3>3. Coming(k)'
            BY <1>1, <3>2 DEF Coming, Frame
        <3>4. QED
            BY <1>1, <1>6, <2>1, <3>3 DEF Matches
    <2>5. QED
        BY <2>3, <2>4
<1>10. Starting'
    <2>1. (\E c \in Tabs : ~tab[c].loaded) => m.code = 0
        BY <1>0, <1>2 DEF Starting
    <2>2. QED
        BY <1>0, <1>1, <1>6, <2>1 DEF Starting, Frame
<1>11. QED
    BY <1>0, <1>1, <1>7, <1>8, <1>9, <1>10 DEF CodeInv, Follows, Shown

LEMMA SendCode ==
    ASSUME \A c, d \in Tabs : Role(c) = Role(d) => c = d,
           CodeInv, PresenceInv', NEW s \in DOMAIN socks, NEW t \in DOMAIN socks, Send(s, t)
    PROVE  CodeInv'
<1> DEFINE q == socks[t].down
           p == Append(q, Sent(s))
<1>0. Shapes /\ Typed /\ SameCode /\ OneSource /\ Follows /\ Starting /\ Shown /\ Handled(s)
    BY Alive DEF CodeInv, PresenceInv, Shapes
<1>1. /\ t \in socks[s].todo /\ socks[s].at \in {"send", "leave"}
      /\ Sent(s) \in Down /\ Sent(s).type # "hello"
      /\ DOMAIN socks' = DOMAIN socks /\ UNCHANGED <<room, tab, row, count>>
    BY <1>0, SendStep
<1>2. Starts(s, socks[s].at, socks[s].msg, socks[s].todo \ {t})
    BY <1>0, SendStep
<1>3. \A u \in DOMAIN socks :
         /\ socks'[u].tab = socks[u].tab /\ socks'[u].up = socks[u].up
         /\ socks'[u].alive = socks[u].alive
         /\ u # t => socks'[u].down = socks[u].down
         /\ u # s => /\ socks'[u].at = socks[u].at /\ socks'[u].todo = socks[u].todo
                     /\ socks'[u].msg = socks[u].msg
    BY <1>0, SendStep
<1>4. \A u \in DOMAIN socks :
         /\ socks'[u].msg = socks[u].msg \/ (socks'[u].msg.type = "none" /\ socks'[u].todo = {})
         /\ socks'[u].todo \subseteq socks[u].todo
         /\ \A k \in socks[u].todo : k \in socks'[u].todo \/ (u = s /\ k = t)
         /\ socks'[u].todo # {} => socks'[u].msg = socks[u].msg
         /\ socks'[u].at \in {"serve", "send"} <=> socks[u].at \in {"serve", "send"}
         /\ socks'[u].at = "open" <=> socks[u].at = "open"
    BY <1>1, <1>2, <1>3 DEF Starts
<1>5. socks'[t].down = p \/ (~socks[t].alive /\ socks'[t].down = q)
    BY <1>0, SendStep
<1>6. q \in Seq(Down) /\ Hellos(q) \subseteq {1} /\ (Hellos(q) # {} => q[1].state.code = room.code)
    BY <1>0, Alive, Unchanged DEF Sock, Handled
<1>7. /\ Hellos(socks'[t].down) = Hellos(q)
      /\ Hellos(q) # {} => socks'[t].down[1].state.code = room.code
    <2>1. Hellos(p) = Hellos(q)
        BY <1>1, <1>6, Greetings
    <2>2. Hellos(q) # {} => p[1] = q[1]
        BY <1>1, <1>6, Appended DEF Hellos
    <2>3. QED
        BY <1>5, <1>6, <2>1, <2>2
<1>8. /\ Sent(s).type # "code" => Codes(p) = Codes(q)
      /\ Sent(s).type = "code" => /\ Codes(p) = Codes(q) \cup {Sent(s)}
                                  /\ Sent(s) = socks[s].msg
    BY <1>1, <1>6, CodesAppended DEF Sent
<1>c. socks[s].msg.type = "code" <=> Sent(s).type = "code"
    BY DEF Sent
<1> HIDE DEF q, p
<1>9. ASSUME NEW c \in Tabs, Serving(c)'
      PROVE  Matches(c)'
    <2>1. PICK k \in DOMAIN socks : k = tab[c].sock /\ socks[k].alive
        BY <1>0, <1>1, <1>9, Connected DEF Serving
    <2>2. Serving(c) /\ Matches(c)
        BY <1>0, <1>1, <1>4, <1>9, <2>1 DEF Serving, Follows
    <2>3. CASE k # t
        <3>1. \A r \in DOMAIN socks : socks[r].msg.type = "code" /\ k \in socks[r].todo
                 => socks'[r].msg.type = "code" /\ k \in socks'[r].todo
            BY <1>4, <2>3
        <3>2. Coming(k) => Coming(k)'
            BY <1>1, <1>3, <2>3, <3>1, ComingKept
        <3>3. QED
            BY <1>1, <1>3, <2>1, <2>2, <2>3, <3>2, MatchesKept
    <2>4. CASE k = t
        <3>1. socks'[t].down = p
            BY <1>5, <2>1, <2>4
        <3>2. CASE Sent(s).type = "code"
            <4>1. Codes(p) # {}
                BY <1>8, <3>2
            <4>2. Coming(t)'
                BY <3>1, <4>1 DEF Coming
            <4>3. QED
                BY <1>1, <1>3, <2>1, <2>2, <2>4, <4>2, MatchesKept
        <3>3. CASE Sent(s).type # "code"
            <4>1. Codes(p) = Codes(q)
                BY <1>8, <3>3
            <4>2. \A r \in DOMAIN socks : socks[r].msg.type = "code" /\ t \in socks[r].todo
                     => socks'[r].msg.type = "code" /\ t \in socks'[r].todo
                BY <1>c, <1>3, <3>3
            <4>3. Coming(t) => Coming(t)'
                BY <1>1, <1>3, <1>7, <3>1, <4>1, <4>2 DEF Coming, q
            <4>4. QED
                BY <1>1, <1>3, <2>1, <2>2, <2>4, <4>3, MatchesKept
        <3>4. QED
            BY <3>2, <3>3
    <2>5. QED
        BY <2>3, <2>4
<1>10. CASE Sent(s).type # "code"
    <2>1. Settling
        <3> SUFFICES ASSUME NEW u \in DOMAIN socks
                     PROVE  /\ socks'[u].tab = socks[u].tab
                            /\ Codes(socks'[u].up) \subseteq Codes(socks[u].up)
                            /\ Codes(socks'[u].down) \subseteq Codes(socks[u].down)
                            /\ Single(socks'[u].up)
                            /\ Arriving(u)' => Arriving(u)
                            /\ Hellos(socks'[u].down) # {} => socks'[u].down[1].state.code = room.code
                            /\ \/ socks'[u].msg.type # "code"
                               \/ socks'[u].msg = socks[u].msg /\ socks'[u].todo \subseteq socks[u].todo
            BY <1>1 DEF Settling
        <3>1. CASE u = t
            BY <1>3, <1>4, <1>5, <1>7, <1>8, <1>10, <3>1, Unchanged DEF Arriving, q
        <3>2. CASE u # t
            BY <1>3, <1>4, <3>2, Unchanged DEF Arriving
        <3>3. QED
            BY <3>1, <3>2
    <2>2. QED
        BY <1>1, <1>9, <2>1, Calm
<1>11. CASE Sent(s).type = "code"
    <2>1. /\ Sent(s).code = room.code /\ Sent(s).from = Role(socks[s].tab)
          /\ \A u \in socks[s].todo : socks[u].tab # socks[s].tab
        BY <1>0, <1>8, <1>11 DEF SameCode
    <2>2. Sent(s).from # Role(socks[t].tab)
        BY <1>0, <1>1, <2>1, Alive
    <2>3. /\ Codes(socks'[t].down) \subseteq Codes(q) \cup {Sent(s)}
          /\ \A u \in DOMAIN socks : ~Arriving(u) /\ Codes(socks[u].up) = {}
        <3>1. Moving(s) /\ socks[s].msg.type = "code"
            BY <1>8, <1>11 DEF Moving
        <3>2. QED
            BY <1>0, <1>5, <1>8, <1>11, <3>1 DEF OneSource
    <2>4. \A u \in DOMAIN socks : ~Arriving(u)' /\ Hellos(socks'[u].down) = {} /\ Codes(socks'[u].up) = {}
        BY <1>3, <1>4, <1>7, <2>3 DEF Arriving, q
    <2>5. OneSource'
        BY <1>0, <1>1, <1>3, <2>4 DEF OneSource
    <2>6. SameCode'
        <3> SUFFICES ASSUME NEW u \in DOMAIN socks'
                     PROVE  /\ \A m \in Codes(socks'[u].down) :
                                 m.code = room'.code /\ m.from # Role(socks'[u].tab)
                            /\ Hellos(socks'[u].down) # {} =>
                                 socks'[u].down[1].state.code = room'.code
                            /\ socks'[u].msg.type = "code" =>
                                 /\ socks'[u].msg.code = room'.code
                                 /\ socks'[u].msg.from = Role(socks'[u].tab)
                                 /\ \A v \in socks'[u].todo : socks'[v].tab # socks'[u].tab
            BY DEF SameCode
        <3>0. u \in DOMAIN socks /\ room' = room /\ socks'[u].tab = socks[u].tab /\ Hellos(socks'[u].down) = {}
            BY <1>1, <1>3, <2>4
        <3>1. \A m \in Codes(socks'[u].down) : m.code = room.code /\ m.from # Role(socks[u].tab)
            <4>1. \A m \in Codes(socks[u].down) : m.code = room.code /\ m.from # Role(socks[u].tab)
                BY <1>0, <3>0 DEF SameCode
            <4>2. CASE u = t
                BY <2>1, <2>2, <2>3, <4>1, <4>2 DEF q
            <4>3. CASE u # t
                BY <1>3, <3>0, <4>1, <4>3
            <4>4. QED
                BY <4>2, <4>3
        <3>2. ASSUME socks'[u].msg.type = "code"
              PROVE  /\ socks'[u].msg.code = room.code
                     /\ socks'[u].msg.from = Role(socks[u].tab)
                     /\ \A v \in socks'[u].todo : socks'[v].tab # socks[u].tab
            <4>1. /\ socks'[u].msg = socks[u].msg /\ socks'[u].todo \subseteq socks[u].todo
                  /\ socks[u].todo \subseteq DOMAIN socks
                BY <1>0, <1>4, <3>0, <3>2, Alive DEF Handled
            <4>2. QED
                BY <1>0, <1>3, <3>0, <3>2, <4>1 DEF SameCode
        <3>3. QED
            BY <3>0, <3>1, <3>2
    <2>7. Starting'
        BY <1>0, <1>1, <2>4 DEF Starting
    <2>8. QED
        BY <1>0, <1>1, <1>9, <2>5, <2>6, <2>7 DEF CodeInv, Follows, Shown
<1>12. QED
    BY <1>10, <1>11

\* A page acts, and keeps its code and what is on its way to it unless it is gone.
LEMMA PageCode ==
    ASSUME CodeInv, PresenceInv', NEW c \in Tabs, Page1(c), room' = room, DOMAIN socks' = DOMAIN socks,
           \A s \in DOMAIN socks :
              /\ socks'[s].tab = socks[s].tab /\ socks'[s].at = socks[s].at
              /\ socks'[s].todo = socks[s].todo /\ socks'[s].msg = socks[s].msg
              /\ Codes(socks'[s].up) \subseteq Codes(socks[s].up) /\ Single(socks'[s].up)
              /\ socks'[s].down = socks[s].down \/ socks'[s].down = <<>>
              /\ s # tab[c].sock \/ tab'[c].sock = s => /\ Codes(socks'[s].up) = Codes(socks[s].up)
                                                        /\ socks'[s].down = socks[s].down,
           tab'[c].sock = 0 \/ tab'[c].sock = tab[c].sock,
           tab'[c].code = tab[c].code, tab[c].loaded => tab'[c].loaded
    PROVE  CodeInv'
<1>0. Shapes
    BY DEF CodeInv, PresenceInv
<1>1. Settling
    <2> SUFFICES ASSUME NEW s \in DOMAIN socks
                 PROVE  /\ Codes(socks'[s].down) \subseteq Codes(socks[s].down)
                        /\ Arriving(s)' => Arriving(s)
                        /\ Hellos(socks'[s].down) # {} => socks'[s].down[1].state.code = room.code
        BY DEF Settling
    <2>1. CASE socks'[s].down = socks[s].down
        BY <2>1, Unchanged DEF Arriving
    <2>2. CASE socks'[s].down = <<>>
        BY <2>2, NoCodes DEF Arriving
    <2>3. QED
        BY <2>1, <2>2
<1>2. ASSUME NEW d \in Tabs, Serving(d)'
      PROVE  Matches(d)'
    <2>1. tab'[d].sock = tab[d].sock /\ tab'[d].code = tab[d].code /\ tab[d].sock # 0
        BY <1>2 DEF Serving, Page1
    <2>2. PICK k \in DOMAIN socks : k = tab[d].sock /\ socks[k].tab = d
        BY <1>0, <2>1, Connected
    <2>3. Serving(d) /\ Matches(d)
        BY <1>2, <2>1, <2>2 DEF Serving, CodeInv, Follows
    <2>4. k # tab[c].sock \/ tab'[c].sock = k
        BY <1>0, <2>1, <2>2, Alive
    <2>5. Coming(k) => Coming(k)'
        BY <2>4, ComingKept
    <2>6. QED
        BY <2>1, <2>2, <2>3, <2>4, <2>5, MatchesKept
<1>3. \A d \in Tabs : tab'[d].code = tab[d].code /\ (tab[d].loaded => tab'[d].loaded)
    BY DEF Page1
<1>4. QED
    BY <1>1, <1>2, <1>3, Calm

LEMMA IdleCode ==
    ASSUME CodeInv, PresenceInv', NEW c \in Tabs,
           LoadRoom(c) \/ ClearGuard(c) \/ SendChat(c) \/ Drop(c) \/ EndRoom(c)
    PROVE  CodeInv'
<1>0. Shapes /\ Typed /\ \A s \in DOMAIN socks : Single(socks[s].up) /\ socks[s].up \in Seq(Up)
    BY Alive, Unchanged DEF CodeInv, PresenceInv, Shapes, Sock
<1>1. CASE LoadRoom(c) \/ ClearGuard(c)
    <2>1. Page1(c) /\ room' = room /\ socks' = socks /\ tab'[c].sock = tab[c].sock
          /\ (tab[c].loaded => tab'[c].loaded)
        BY <1>0, <1>1, LoadStep, ClearStep
    <2>2. tab'[c].code = tab[c].code
        BY <1>0, <1>1, LoadStep, ClearStep DEF CodeInv, Starting
    <2>3. QED
        BY <1>0, <2>1, <2>2, PageCode
<1>2. CASE SendChat(c)
    <2>1. PICK s \in DOMAIN socks : s = tab[c].sock
        BY <1>0, <1>2, ChatStep, Connected DEF IsOpen
    <2>2. PICK m : Uploads(s, m) /\ m.type = "chat"
        BY <1>0, <1>2, <2>1, ChatStep
    <2>3. Frame(s) /\ Waits(s) /\ Line(s) /\ m \in Up /\ socks'[s].up = Append(socks[s].up, m)
        BY <2>2 DEF Uploads
    <2>4. Codes(socks'[s].up) = Codes(socks[s].up) /\ Single(socks'[s].up)
        BY <1>0, <2>2, <2>3, CodesAppended
    <2>5. room' = room /\ tab' = tab /\ Page1(c)
        BY <1>0, <1>2, ChatStep DEF Page1, Typed
    <2>6. \A t \in DOMAIN socks :
             /\ socks'[t].tab = socks[t].tab /\ socks'[t].at = socks[t].at
             /\ socks'[t].todo = socks[t].todo /\ socks'[t].msg = socks[t].msg
             /\ Codes(socks'[t].up) = Codes(socks[t].up) /\ Single(socks'[t].up)
             /\ socks'[t].down = socks[t].down
        BY <1>0, <2>3, <2>4 DEF Frame, Waits, Line
    <2>7. QED
        BY <2>3, <2>5, <2>6, PageCode DEF Frame
<1>3. CASE Drop(c) \/ EndRoom(c)
    <2>1. Page1(c) /\ room' = room /\ tab'[c].sock = 0 /\ tab'[c].code = tab[c].code
          /\ tab'[c].loaded = tab[c].loaded
        BY <1>0, <1>3, DropStep, EndStep
    <2>2. \/ socks' = socks
          \/ /\ tab[c].sock # 0 /\ Frame(tab[c].sock) /\ Waits(tab[c].sock)
             /\ socks'[tab[c].sock].down = <<>>
             /\ \/ socks'[tab[c].sock].up = socks[tab[c].sock].up
                \/ \E n \in 0..Len(socks[tab[c].sock].up) :
                      socks'[tab[c].sock].up = SubSeq(socks[tab[c].sock].up, 1, n)
        BY <1>0, <1>3, DropStep, EndStep
    <2>3. CASE socks' = socks
        BY <1>0, <2>1, <2>3, PageCode
    <2>4. CASE socks' # socks
        <3>1. PICK s \in DOMAIN socks : s = tab[c].sock /\ s # 0
            BY <1>0, <2>2, <2>4, Connected
        <3>2. Frame(s) /\ Waits(s) /\ socks'[s].down = <<>>
            BY <2>2, <2>4, <3>1
        <3>3. Codes(socks'[s].up) \subseteq Codes(socks[s].up) /\ Single(socks'[s].up)
            BY <1>0, <2>2, <2>4, <3>1, CodesCut
        <3>4. \A t \in DOMAIN socks :
                /\ socks'[t].tab = socks[t].tab /\ socks'[t].at = socks[t].at
                /\ socks'[t].todo = socks[t].todo /\ socks'[t].msg = socks[t].msg
                /\ Codes(socks'[t].up) \subseteq Codes(socks[t].up) /\ Single(socks'[t].up)
                /\ socks'[t].down = socks[t].down \/ socks'[t].down = <<>>
                /\ t # s => socks'[t].up = socks[t].up /\ socks'[t].down = socks[t].down
            BY <1>0, <3>2, <3>3 DEF Frame, Waits
        <3>5. 0 \notin DOMAIN socks
            BY <1>0, <3>1, Alive
        <3>6. QED
            BY <2>1, <3>1, <3>2, <3>4, <3>5, PageCode DEF Frame
    <2>5. QED
        BY <2>3, <2>4
<1>4. QED
    BY <1>1, <1>2, <1>3

\* The code of one page is all that is on its way.
LEMMA OneUpload ==
    ASSUME NEW s,
           \A t \in DOMAIN socks' :
              /\ ~Arriving(t)' /\ Codes(socks'[t].down) = {} /\ socks'[t].msg.type # "code"
              /\ IF t = s THEN Single(socks'[t].up) ELSE Codes(socks'[t].up) = {}
    PROVE  SameCode' /\ OneSource'
<1>1. \A t \in DOMAIN socks' : Hellos(socks'[t].down) = {} /\ Single(socks'[t].up)
    BY DEF Arriving, Codes, Single
<1>2. SameCode'
    BY <1>1 DEF SameCode
<1>3. OneSource'
    BY <1>1 DEF OneSource
<1>4. QED
    BY <1>2, <1>3

\* Where everything sent has arrived, no page waits for code.
LEMMA SettledCode ==
    ASSUME CodeInv, Settled
    PROVE  /\ \A s \in DOMAIN socks :
                /\ ~Arriving(s) /\ socks[s].msg.type # "code" /\ socks[s].todo = {}
                /\ socks[s].up = <<>> /\ Codes(socks[s].up) = {} /\ Codes(socks[s].down) = {}
           /\ \A c \in Tabs : tab[c].sock # 0 => room.code # NoCode /\ tab[c].code = room.code
<1>0. Shapes
    BY DEF CodeInv, PresenceInv
<1>1. \A s \in DOMAIN socks :
         /\ ~Arriving(s) /\ socks[s].msg.type # "code" /\ socks[s].todo = {}
         /\ socks[s].up = <<>> /\ Codes(socks[s].up) = {} /\ Codes(socks[s].down) = {}
    <2> TAKE s \in DOMAIN socks
    <2>1. /\ socks[s].up = <<>> /\ socks[s].down = <<>> /\ socks[s].at \in {"serve", "gone"}
        BY DEF Settled
    <2>2. socks[s].todo = {} /\ socks[s].msg.type = "none"
        BY <1>0, <2>1, Alive DEF Handled
    <2>3. QED
        BY <2>1, <2>2, NoCodes DEF Arriving
<1>2. ASSUME NEW c \in Tabs, tab[c].sock # 0
      PROVE  room.code # NoCode /\ tab[c].code = room.code
    <2>1. PICK s \in DOMAIN socks : s = tab[c].sock
        BY <1>0, <1>2, Connected
    <2>2. socks[s].at = "serve"
        BY <1>0, <1>2, <2>1, Connected DEF Settled
    <2>3. Matches(c) /\ ~Coming(s)
        BY <1>1, <1>2, <2>1, <2>2 DEF CodeInv, Follows, Serving, Coming, Arriving
    <2>4. QED
        BY <2>1, <2>3 DEF Matches
<1>3. QED
    BY <1>1, <1>2

LEMMA EditCode ==
    ASSUME Typing = "turns", CodeInv, PresenceInv', NEW c \in Tabs, Edit(c)
    PROVE  CodeInv'
<1> DEFINE v == count.edits + 1
<1>0. Shapes /\ Typed /\ Shown
    BY DEF CodeInv, PresenceInv, Shapes
<1>1. Settled /\ tab[c].guard = "clear" /\ \A d \in Tabs : tab[d].loaded
    BY DEF Edit
<1>2. Page1(c) /\ tab'[c].sock = tab[c].sock /\ tab'[c].code = v /\ v \in Versions
      /\ tab'[c].loaded = tab[c].loaded /\ room' = room
    BY <1>0, EditStep
<1>3. v # NoCode
    BY <1>2, Bounds DEF Versions, NoCode
<1> HIDE DEF v
<1>4. /\ \A s \in DOMAIN socks :
           /\ ~Arriving(s) /\ socks[s].msg.type # "code" /\ socks[s].todo = {}
           /\ socks[s].up = <<>> /\ Codes(socks[s].up) = {} /\ Codes(socks[s].down) = {}
      /\ \A d \in Tabs : tab[d].sock # 0 => room.code # NoCode /\ tab[d].code = room.code
    BY <1>1, SettledCode
<1>5. Starting' /\ Shown'
    BY <1>0, <1>1, <1>2, <1>3 DEF Starting, Shown, Page1
<1>6. CASE tab[c].sock = 0
    <2>1. socks' = socks
        BY <1>0, <1>6, EditStep DEF IsOpen
    <2>2. SameCode' /\ OneSource'
        <3>1. \A t \in DOMAIN socks' :
                 /\ ~Arriving(t)' /\ Codes(socks'[t].down) = {} /\ socks'[t].msg.type # "code"
                 /\ Codes(socks'[t].up) = {} /\ Single(socks'[t].up)
            BY <1>4, <2>1, Unchanged DEF Arriving
        <3>2. QED
            BY <3>1, OneUpload
    <2>3. ASSUME NEW d \in Tabs, Serving(d)' PROVE Matches(d)'
        <3>1. d # c
            BY <1>2, <1>6, <2>3 DEF Serving
        <3>2. tab'[d] = tab[d]
            BY <1>2, <3>1 DEF Page1
        <3>3. Serving(d) /\ Matches(d)
            BY <2>1, <2>3, <3>2 DEF Serving, CodeInv, Follows
        <3>4. QED
            BY <1>2, <2>1, <3>2, <3>3 DEF Matches, Coming
    <2>4. QED
        BY <1>5, <2>2, <2>3 DEF CodeInv, Follows
<1>7. CASE tab[c].sock # 0
    <2> DEFINE m == [type |-> "code", code |-> v]
    <2>1. PICK s \in DOMAIN socks : s = tab[c].sock
        BY <1>0, <1>7, Connected
    <2>2. Uploads(s, m)
        <3>1. IsOpen(c)
            BY <1>0, <1>1, <1>7, <2>1, Connected DEF IsOpen, Settled
        <3>2. QED
            BY <1>0, <1>1, <2>1, <3>1, EditStep DEF v
    <2>3. m.type = "code" /\ m.code = v
        OBVIOUS
    <2> HIDE DEF m
    <2>4. Frame(s) /\ Waits(s) /\ Line(s) /\ m \in Up /\ socks'[s].up = Append(socks[s].up, m)
        BY <2>2 DEF Uploads
    <2>5. Codes(socks'[s].up) = {m} /\ Single(socks'[s].up)
        <3>1. socks[s].up \in Seq(Up) /\ Codes(socks[s].up) = {}
            BY <1>0, <1>4, Alive DEF Sock
        <3>2. QED
            BY <2>3, <2>4, <3>1, CodesAppended
    <2>6. \A t \in DOMAIN socks :
             /\ socks'[t].at = socks[t].at /\ socks'[t].down = socks[t].down
             /\ socks'[t].msg = socks[t].msg /\ (t # s => socks'[t].up = socks[t].up)
        BY <2>4 DEF Frame, Waits, Line
    <2>7. SameCode' /\ OneSource'
        <3>1. \A t \in DOMAIN socks' :
                 /\ ~Arriving(t)' /\ Codes(socks'[t].down) = {} /\ socks'[t].msg.type # "code"
                 /\ IF t = s THEN Single(socks'[t].up) ELSE Codes(socks'[t].up) = {}
            <4> SUFFICES ASSUME NEW t \in DOMAIN socks
                         PROVE  /\ ~Arriving(t)' /\ Codes(socks'[t].down) = {}
                                /\ socks'[t].msg.type # "code"
                                /\ IF t = s THEN Single(socks'[t].up) ELSE Codes(socks'[t].up) = {}
                BY <2>4 DEF Frame
            <4>1. ~Arriving(t)'
                BY <1>4, <2>6 DEF Arriving
            <4>2. Codes(socks'[t].down) = {} /\ socks'[t].msg.type # "code"
                BY <1>4, <2>6
            <4>3. t # s => Codes(socks'[t].up) = {}
                BY <1>4, <2>6
            <4>4. QED
                BY <2>5, <4>1, <4>2, <4>3
        <3>2. QED
            BY <3>1, OneUpload
    <2>8. ASSUME NEW d \in Tabs, Serving(d)' PROVE Matches(d)'
        <3>1. CASE d = c
            BY <1>2, <2>1, <2>3, <2>5, <3>1 DEF Matches, Coming
        <3>2. CASE d # c
            <4>1. tab'[d] = tab[d] /\ tab[d].sock # 0
                BY <1>2, <2>8, <3>2 DEF Page1, Serving
            <4>2. PICK k \in DOMAIN socks : k = tab[d].sock /\ socks[k].tab = d
                BY <1>0, <4>1, Connected
            <4>3. k # s
                BY <1>0, <1>7, <2>1, <3>2, <4>2, Connected
            <4>4. Codes(socks'[k].up) = {}
                BY <1>4, <2>6, <4>3
            <4>5. QED
                BY <1>2, <1>4, <4>1, <4>2, <4>4 DEF Matches
        <3>3. QED
            BY <3>1, <3>2
    <2>9. QED
        BY <1>5, <2>7, <2>8 DEF CodeInv, Follows
<1>8. QED
    BY <1>6, <1>7

\* A page takes a message that leaves it on the code of the room, and pushes none.
LEMMA ToldCode ==
    ASSUME CodeInv, PresenceInv', NEW c \in Tabs, NEW s \in DOMAIN socks, s = tab[c].sock,
           socks[s].tab = c, Page1(c), Frame(s), Waits(s), room' = room, tab'[c].sock = s,
           tab'[c].loaded = tab[c].loaded, Hellos(socks'[s].down) = {},
           Codes(socks'[s].down) \subseteq Codes(socks[s].down), socks'[s].up = socks[s].up,
           \/ tab'[c].code = tab[c].code /\ (Coming(s) => Coming(s)')
           \/ room.code # NoCode /\ tab'[c].code = room.code /\ Codes(socks[s].up) = {}
    PROVE  CodeInv'
<1>0. Shapes /\ Starting /\ Shown
    BY DEF CodeInv, PresenceInv
<1>1. Settling
    <2> SUFFICES ASSUME NEW t \in DOMAIN socks
                 PROVE  /\ socks'[t].tab = socks[t].tab
                        /\ Codes(socks'[t].up) \subseteq Codes(socks[t].up)
                        /\ Codes(socks'[t].down) \subseteq Codes(socks[t].down)
                        /\ Single(socks'[t].up)
                        /\ Arriving(t)' => Arriving(t)
                        /\ Hellos(socks'[t].down) # {} => socks'[t].down[1].state.code = room.code
                        /\ \/ socks'[t].msg.type # "code"
                           \/ socks'[t].msg = socks[t].msg /\ socks'[t].todo \subseteq socks[t].todo
        BY DEF Settling, Frame
    <2>1. CASE t = s
        BY <2>1, Unchanged DEF Frame, Waits, Arriving
    <2>2. CASE t # s
        BY <2>2, Unchanged DEF Frame, Arriving
    <2>3. QED
        BY <2>1, <2>2
<1>2. SameCode' /\ OneSource'
    BY <1>1, Sources
<1>3. ASSUME NEW d \in Tabs, Serving(d)'
      PROVE  Matches(d)'
    <2>1. PICK k \in DOMAIN socks : k = tab[d].sock /\ tab'[d].sock = k /\ socks[k].tab = d
        BY <1>0, <1>3, Connected DEF Serving, Page1
    <2>2. Serving(d) /\ Matches(d)
        BY <1>3, <2>1 DEF Serving, Frame, Waits, CodeInv, Follows
    <2>3. socks'[k].up = socks[k].up
        BY DEF Frame
    <2>4. CASE d # c
        <3>1. tab'[d] = tab[d] /\ socks'[k] = socks[k]
            BY <2>1, <2>4 DEF Page1, Frame
        <3>2. \A r \in DOMAIN socks : socks'[r].msg = socks[r].msg /\ socks'[r].todo = socks[r].todo
            BY DEF Frame, Waits
        <3>3. Coming(k) => Coming(k)'
            BY <3>1, <3>2, ComingKept DEF Frame
        <3>4. QED
            BY <2>1, <2>2, <3>1, <3>3, MatchesKept
    <2>5. CASE d = c /\ tab'[c].code = tab[c].code /\ (Coming(s) => Coming(s)')
        BY <2>1, <2>2, <2>3, <2>5, MatchesKept
    <2>6. CASE d = c /\ room.code # NoCode /\ tab'[c].code = room.code /\ Codes(socks[s].up) = {}
        BY <2>1, <2>3, <2>6 DEF Matches
    <2>7. QED
        BY <2>4, <2>5, <2>6
<1>4. Starting'
    <2>1. Starting' \/ \E d \in Tabs : ~tab[d].loaded
        BY DEF Starting, Page1
    <2>2. ASSUME NEW d \in Tabs, ~tab[d].loaded PROVE Starting'
        <3>1. /\ room.code \in {0, NoCode} /\ \A e \in Tabs : tab[e].code = 0
              /\ \A t \in DOMAIN socks : \A m \in Codes(socks[t].up) : m.code = 0
            BY <1>0, <2>2 DEF Starting
        <3>2. \A e \in Tabs : tab'[e].code = 0
            BY <3>1 DEF Page1
        <3>3. QED
            BY <1>1, <3>1, <3>2 DEF Starting, Settling
    <2>3. QED
        BY <2>1, <2>2
<1>5. Shown'
    BY <1>0 DEF Shown, Page1
<1>6. QED
    BY <1>2, <1>3, <1>4, <1>5 DEF CodeInv, Follows

\* A page that is told the state of a room without code, or with its own, pushes
\* its code.
LEMMA PushCode ==
    ASSUME CodeInv, PresenceInv', NEW c \in Tabs, NEW s \in DOMAIN socks, s = tab[c].sock,
           socks[s].tab = c, Page1(c), Frame(s), Waits(s), room' = room, tab'[c].sock = s,
           tab'[c].loaded = tab[c].loaded, tab'[c].code = tab[c].code, socks[s].at # "open",
           Hellos(socks[s].down) # {}, socks'[s].down = Tail(socks[s].down), socks[s].down # <<>>,
           NEW m \in Up, m.type = "code", m.code = tab[c].code,
           socks'[s].up = Append(socks[s].up, m)
    PROVE  CodeInv'
<1>0. Shapes /\ Starting /\ Shown /\ OneSource
    BY DEF CodeInv, PresenceInv
<1>1. \A t \in DOMAIN socks :
         /\ t # s => ~Arriving(t)
         /\ Codes(socks[t].up) = {} /\ Codes(socks[t].down) = {} /\ socks[t].msg.type # "code"
    BY <1>0 DEF OneSource, Arriving, Moving
<1>2. Hellos(socks'[s].down) = {} /\ Codes(socks'[s].down) = {}
    <2>1. socks[s].down \in Seq(Down) /\ Hellos(socks[s].down) \subseteq {1}
        BY <1>0, Alive DEF Sock, Handled
    <2>2. QED
        BY <1>1, <2>1, Greetings, CodesTaken
<1>3. Codes(socks'[s].up) = {m} /\ Single(socks'[s].up)
    <2>1. socks[s].up \in Seq(Up) /\ Codes(socks[s].up) = {}
        BY <1>0, <1>1, Alive DEF Sock
    <2>2. QED
        BY <2>1, CodesAppended
<1>4. \A t \in DOMAIN socks :
         /\ socks'[t].at = socks[t].at /\ socks'[t].msg = socks[t].msg
         /\ t # s => socks'[t] = socks[t]
    BY DEF Frame, Waits
<1>5. SameCode' /\ OneSource'
    <2>1. \A t \in DOMAIN socks' :
             /\ ~Arriving(t)' /\ Codes(socks'[t].down) = {} /\ socks'[t].msg.type # "code"
             /\ IF t = s THEN Single(socks'[t].up) ELSE Codes(socks'[t].up) = {}
        <3> SUFFICES ASSUME NEW t \in DOMAIN socks
                     PROVE  /\ ~Arriving(t)' /\ Codes(socks'[t].down) = {}
                            /\ socks'[t].msg.type # "code"
                            /\ IF t = s THEN Single(socks'[t].up) ELSE Codes(socks'[t].up) = {}
            BY DEF Frame
        <3>1. CASE t = s
            BY <1>1, <1>2, <1>3, <1>4, <3>1 DEF Arriving
        <3>2. CASE t # s
            BY <1>1, <1>4, <3>2 DEF Arriving
        <3>3. QED
            BY <3>1, <3>2
    <2>2. QED
        BY <2>1, OneUpload
<1>6. ASSUME NEW d \in Tabs, Serving(d)'
      PROVE  Matches(d)'
    <2>1. PICK k \in DOMAIN socks : k = tab[d].sock /\ tab'[d].sock = k /\ socks[k].tab = d
        BY <1>0, <1>6, Connected DEF Serving, Page1
    <2>2. CASE d = c
        BY <1>3, <2>1, <2>2 DEF Matches, Coming
    <2>3. CASE d # c
        <3>1. tab'[d] = tab[d] /\ socks'[k] = socks[k]
            BY <2>1, <2>3 DEF Page1, Frame
        <3>2. Serving(d) /\ Matches(d)
            BY <1>6, <2>1, <3>1 DEF Serving, CodeInv, Follows
        <3>3. \A r \in DOMAIN socks : socks'[r].msg = socks[r].msg /\ socks'[r].todo = socks[r].todo
            BY DEF Frame, Waits
        <3>4. Coming(k) => Coming(k)'
            BY <3>1, <3>3, ComingKept DEF Frame
        <3>5. QED
            BY <2>1, <3>1, <3>2, <3>4, MatchesKept
    <2>4. QED
        BY <2>2, <2>3
<1>7. Starting'
    <2>1. \A t \in DOMAIN socks : \A n \in Codes(socks'[t].up) :
             n \in Codes(socks[t].up) \/ n.code = tab[c].code
        BY <1>3, <1>4
    <2>2. \A d \in Tabs : tab'[d].code = tab[d].code /\ tab'[d].loaded = tab[d].loaded
        BY DEF Page1
    <2>3. QED
        BY <1>0, <2>1, <2>2 DEF Starting, Frame
<1>8. Shown'
    BY <1>0 DEF Shown, Page1
<1>9. QED
    BY <1>5, <1>6, <1>7, <1>8 DEF CodeInv, Follows

LEMMA DeliverCode ==
    ASSUME CodeInv, PresenceInv', NEW c \in Tabs, Deliver(c)
    PROVE  CodeInv'
<1>0. Shapes /\ Typed /\ OneSource /\ SameCode /\ Shown
    BY DEF CodeInv, PresenceInv, Shapes
<1>s. PICK s \in DOMAIN socks : s = tab[c].sock
    BY <1>0, DeliverStep
<1> DEFINE q == socks[s].down
           m == Next1(c)
           k == [type |-> "code", code |-> tab[c].code]
<1>1. /\ Page1(c) /\ tab'[c].sock = s /\ tab'[c].loaded = tab[c].loaded
      /\ socks[s].tab = c /\ socks[s].at \in {"serve", "send"}
      /\ Frame(s) /\ Waits(s) /\ q # <<>> /\ socks'[s].down = Tail(q) /\ m \in Down /\ room' = room
    BY <1>0, <1>s, DeliverStep
<1>2. m = Head(q) /\ m = q[1] /\ 1 \in DOMAIN q /\ q \in Seq(Down) /\ Hellos(q) \subseteq {1}
    <2>1. q \in Seq(Down) /\ Hellos(q) \subseteq {1}
        BY <1>0, Alive DEF Sock, Handled
    <2>2. QED
        BY <1>s, <1>1, <2>1, Shifted DEF Next1
<1>3. Hellos(socks'[s].down) = {} /\ Codes(socks'[s].down) \subseteq Codes(q)
    BY <1>1, <1>2, Greetings, CodesTaken
<1>4. CASE m.type = "hello"
    <2>1. m.state.code = room.code /\ Hellos(q) # {}
        BY <1>0, <1>2, <1>4 DEF SameCode, Hellos
    <2>2. Codes(socks[s].up) = {}
        BY <1>0, <2>1 DEF OneSource, Arriving, Moving
    <2>3. /\ tab'[c].code = IF room.code = NoCode THEN tab[c].code ELSE room.code
          /\ IF room.code \in {NoCode, tab[c].code}
             THEN socks'[s].up = Append(socks[s].up, k)
             ELSE socks'[s].up = socks[s].up
        <3>1. tab[c].code # NoCode
            BY <1>0 DEF Shown
        <3>2. /\ tab'[c].code = IF m.state.code = NoCode THEN tab[c].code ELSE m.state.code
              /\ IF tab[c].code # NoCode /\ m.state.code \in {NoCode, tab[c].code}
                 THEN socks'[s].up = Append(socks[s].up, k)
                 ELSE socks'[s].up = socks[s].up
            BY <1>0, <1>s, <1>4, DeliverStep
        <3>3. QED
            BY <2>1, <3>1, <3>2
    <2>4. k \in Up /\ k.type = "code" /\ k.code = tab[c].code
        BY <1>0 DEF Typed, Tab, Up, Shown
    <2> HIDE DEF k, m
    <2>5. CASE room.code \in {NoCode, tab[c].code}
        BY <1>s, <1>1, <2>1, <2>3, <2>4, <2>5, PushCode
    <2>6. CASE room.code \notin {NoCode, tab[c].code}
        BY <1>s, <1>1, <1>3, <2>2, <2>3, <2>6, ToldCode
    <2>7. QED
        BY <2>5, <2>6
<1>5. CASE m.type = "code"
    <2>1. m \in Codes(q)
        BY <1>1, <1>2, <1>5, CodesTaken
    <2>2. m.code = room.code /\ m.from # Role(c) /\ Codes(socks[s].up) = {}
        BY <1>0, <1>1, <2>1 DEF SameCode, OneSource
    <2>3. room.code # NoCode
        BY <1>1, <1>5, <2>2, MessageTypes, Bounds DEF Versions, NoCode
    <2>4. tab'[c].code = room.code /\ socks'[s].up = socks[s].up
        <3>1. socks'[s].up = socks[s].up /\ tab'[c].code = IF m.from = Role(c) THEN tab[c].code ELSE m.code
            BY <1>0, <1>s, <1>5, DeliverStep
        <3>2. QED
            BY <2>2, <3>1
    <2> HIDE DEF m
    <2>5. QED
        BY <1>s, <1>1, <1>3, <2>2, <2>3, <2>4, ToldCode
<1>6. CASE m.type \in {"chat", "presence"}
    <2>1. tab'[c].code = tab[c].code /\ socks'[s].up = socks[s].up
        BY <1>0, <1>s, <1>6, DeliverStep
    <2>2. Hellos(q) = {} /\ Codes(socks'[s].down) = Codes(q)
        BY <1>1, <1>2, <1>6, CodesTaken DEF Hellos
    <2>3. \A r \in DOMAIN socks : socks'[r].msg = socks[r].msg /\ socks'[r].todo = socks[r].todo
        BY <1>1 DEF Frame, Waits
    <2>4. Coming(s) => Coming(s)'
        BY <1>1, <2>1, <2>2, <2>3 DEF Coming, Frame
    <2> HIDE DEF m
    <2>5. QED
        BY <1>s, <1>1, <1>3, <2>1, <2>4, ToldCode
<1>7. QED
    BY <1>1, <1>4, <1>5, <1>6, MessageTypes

LEMMA ConnectCode ==
    ASSUME Typing = "turns", CodeInv, PresenceInv', NEW c \in Tabs, Connect(c)
    PROVE  CodeInv'
<1>0. Shapes /\ Typed /\ Starting /\ Shown
    BY DEF CodeInv, PresenceInv, Shapes
<1>n. PICK n : n = tab'[c].sock
    OBVIOUS
<1>1. /\ Page1(c) /\ tab'[c].code = tab[c].code /\ tab'[c].loaded = tab[c].loaded
      /\ n \notin DOMAIN socks /\ DOMAIN socks' = DOMAIN socks \cup {n}
      /\ \A s \in DOMAIN socks : socks'[s] = socks[s]
      /\ socks'[n] = NewSock(c) /\ room' = room
    BY <1>0, <1>n, ConnectStep
<1>2. /\ socks'[n].at = "open" /\ socks'[n].up = <<>> /\ socks'[n].down = <<>>
      /\ socks'[n].todo = {} /\ socks'[n].msg.type = "none"
    BY <1>1 DEF NewSock
<1>3. /\ \A s \in DOMAIN socks :
           /\ ~Arriving(s) /\ socks[s].msg.type # "code" /\ socks[s].todo = {}
           /\ socks[s].up = <<>> /\ Codes(socks[s].up) = {} /\ Codes(socks[s].down) = {}
      /\ \A d \in Tabs : tab[d].sock # 0 => room.code # NoCode /\ tab[d].code = room.code
    BY SettledCode DEF Connect
<1>4. \A s \in DOMAIN socks' :
         /\ Arriving(s)' => s = n
         /\ ~Moving(s)' /\ Codes(socks'[s].up) = {} /\ Codes(socks'[s].down) = {}
         /\ Hellos(socks'[s].down) = {} /\ socks'[s].msg.type # "code" /\ Single(socks'[s].up)
    <2> SUFFICES ASSUME NEW s \in DOMAIN socks'
                 PROVE  /\ Arriving(s)' => s = n
                        /\ Codes(socks'[s].up) = {} /\ Codes(socks'[s].down) = {}
                        /\ Hellos(socks'[s].down) = {} /\ socks'[s].msg.type # "code"
                        /\ Single(socks'[s].up)
        BY DEF Moving
    <2>1. CASE s = n
        BY <1>2, <2>1, NoCodes
    <2>2. CASE s # n
        BY <1>1, <1>3, <2>2, NoCodes DEF Arriving
    <2>3. QED
        BY <2>1, <2>2
<1>5. SameCode' /\ OneSource'
    BY <1>4 DEF SameCode, OneSource
<1>6. ASSUME NEW d \in Tabs, Serving(d)'
      PROVE  Matches(d)'
    <2>1. d # c
        BY <1>n, <1>2, <1>6 DEF Serving
    <2>2. tab'[d] = tab[d] /\ tab[d].sock # 0
        BY <1>1, <1>6, <2>1 DEF Page1, Serving
    <2>3. PICK k \in DOMAIN socks : k = tab[d].sock
        BY <1>0, <2>2, Connected
    <2>4. QED
        BY <1>1, <1>3, <2>2, <2>3 DEF Matches
<1>7. Starting' /\ Shown'
    BY <1>0, <1>1, <1>4 DEF Starting, Shown, Page1
<1>8. QED
    BY <1>5, <1>6, <1>7 DEF CodeInv, Follows

LEMMA RestartCode ==
    ASSUME CodeInv, PresenceInv', Restart
    PROVE  CodeInv'
<1>0. Typed /\ Starting /\ Shown
    BY DEF CodeInv, PresenceInv, Shapes
<1>1. /\ room' = NewRoom /\ DOMAIN socks' = DOMAIN socks
      /\ \A s \in DOMAIN socks : /\ socks'[s].up = <<>> /\ socks'[s].down = <<>>
                                 /\ socks'[s].at = "gone" /\ socks'[s].msg.type = "none"
      /\ \A c \in Tabs : /\ tab'[c].sock = 0 /\ tab'[c].code = tab[c].code
                         /\ tab'[c].loaded = tab[c].loaded
    BY <1>0, RestartStep
<1>2. \A s \in DOMAIN socks :
         /\ ~Arriving(s)' /\ Codes(socks'[s].up) = {} /\ Codes(socks'[s].down) = {}
         /\ socks'[s].msg.type # "code" /\ Single(socks'[s].up)
    BY <1>1, NoCodes DEF Arriving
<1>3. SameCode' /\ OneSource'
    BY <1>1, <1>2, OneUpload
<1>4. Starting' /\ Shown'
    BY <1>0, <1>1, <1>2 DEF Starting, Shown, NewRoom
<1>5. QED
    BY <1>1, <1>3, <1>4 DEF CodeInv, Follows, Serving

LEMMA CodeKept ==
    ASSUME ~HalfOpen, Typing = "turns", \A c, d \in Tabs : Role(c) = Role(d) => c = d,
           CodeInv, [Next]_vars
    PROVE  CodeInv'
<1>1. PresenceInv'
    BY PresenceKept DEF CodeInv
<1>2. CASE UNCHANGED vars
    <2>1. room' = room /\ socks' = socks /\ tab' = tab
        BY <1>2 DEF vars
    <2>2. Settling
        BY <2>1, Unchanged DEF Settling, Arriving
    <2>3. \A c \in Tabs : Serving(c)' => Matches(c)'
        BY <2>1 DEF CodeInv, Follows, Serving, Matches, Coming
    <2>4. QED
        BY <1>1, <2>1, <2>2, <2>3, Calm
<1>3. ASSUME NEW s \in DOMAIN socks, Receive(s) PROVE CodeInv'
    <2>1. Head(socks[s].up).type = "code" \/ Head(socks[s].up).type = "chat"
        BY <1>3 DEF Receive
    <2>2. QED
        BY <1>1, <1>3, <2>1, ReceiveCode, ReceiveChatCode
<1>4. CASE Next
    BY <1>1, <1>3, <1>4, Steps, AcceptCode, RefuseCode, LeaveCode, SendCode, ConnectCode,
       DeliverCode, EditCode, IdleCode, RestartCode
<1>5. QED
    BY <1>2, <1>4

LEMMA CodeInit == InitJoined => CodeInv
<1> SUFFICES ASSUME InitJoined PROVE CodeInv
    OBVIOUS
<1>1. PresenceInv
    BY PresenceInit
<1>2. /\ \A s \in DOMAIN socks : /\ socks[s].up = <<>> /\ socks[s].down = <<>>
                                 /\ socks[s].at = "serve" /\ socks[s].msg.type = "none"
      /\ \A c \in Tabs : tab[c].sock # 0 /\ tab[c].code = 0
    BY ShapesJoined
<1>3. room.code = 0 /\ room.code # NoCode
    <2>1. room.code = 0
        BY DEF InitJoined, NewRoom
    <2>2. QED
        BY <2>1 DEF NoCode
<1>4. \A s \in DOMAIN socks :
         /\ ~Arriving(s) /\ Hellos(socks[s].down) = {} /\ Single(socks[s].up)
         /\ Codes(socks[s].up) = {} /\ Codes(socks[s].down) = {} /\ socks[s].msg.type # "code"
    BY <1>2, NoCodes DEF Arriving
<1>5. SameCode /\ OneSource
    BY <1>4 DEF SameCode, OneSource
<1>6. Follows
    <2>1. \A c \in Tabs : tab[c].sock \in DOMAIN socks
        BY <1>1, <1>2, Connected DEF PresenceInv
    <2>2. QED
        BY <1>2, <1>3, <1>4, <2>1 DEF Follows, Matches
<1>7. Starting /\ Shown
    BY <1>2, <1>3, <1>4 DEF Starting, Shown
<1>8. QED
    BY <1>1, <1>5, <1>6, <1>7 DEF CodeInv

LEMMA CodeQuiet == CodeInv => (Quiet => Agreed)
BY SettledCode DEF Quiet, Agreed

\* If users take turns, no two pages have the same role and a page whose socket
\* broke is back only after the server has noticed, then once nothing is on its
\* way every page shows the code that the room hands to the next one that joins,
\* however sockets broke, the server restarted and broadcasts interleaved: one
\* code is on its way at a time, and a page is either on the room's code, or
\* told it, or about to tell its own.
THEOREM PagesAgree ==
    ASSUME ~HalfOpen, Typing = "turns", \A c, d \in Tabs : Role(c) = Role(d) => c = d
    PROVE  SpecJoined => []QuietAgree
<1>1. CodeInv /\ [Next]_vars => CodeInv'
    BY CodeKept
<1>2. SpecJoined => [](Quiet => Agreed)
    BY <1>1, CodeInit, CodeQuiet, PTL DEF SpecJoined
<1>3. (Quiet => Agreed) /\ (Quiet => ChatShared) => QuietAgree
    BY DEF QuietAgree
<1>4. QED
    BY <1>2, <1>3, ChatNeitherLostNorDoubled, PTL
=============================================================================
