--------------------------- MODULE TerminalProofs ---------------------------
(***************************************************************************)
(* Theorems about the parts of the terminal program that keep what the     *)
(* user sees and decides: the rooms of the chat (Rooms), the keys          *)
(* (KeyRing), what is searched, browsed and downloaded (SearchBrowse), the *)
(* peers shown (PeersView), the settings (SettingsView) and the transfers  *)
(* (TransferView), for any users, rooms, keys, files, peers, lines and     *)
(* transfers and any number of runs of the program.                        *)
(***************************************************************************)
EXTENDS SearchBrowse, Rooms, KeyRing, PeersView, SettingsView, TransferView, SelectionProofs

-----------------------------------------------------------------------------
(* Rooms *)

Nick == Users \cup {Me}
Name == Open \cup {General} \cup {Direct(u) : u \in Nick}
Text == {"text", "/join", "/part", "/nick"}
Message == [src : Nick, dest : Name, text : Text, old : Nick]

\* The room a message may be shown in.
Fits(m, name) ==
  m.text = "text" => /\ m.dest \in Open => name = m.dest
                     /\ m.dest = Direct(Me) => name = Direct(m.src)
                     /\ m.dest \notin Open /\ m.dest # Direct(Me) => m.src = Me /\ name = m.dest

RoomRecord == [name : Name, unread : Nat, messages : Seq(Message), users : SUBSET Nick]
FitRoom == {r \in RoomRecord : \A k \in 1 .. Len(r.messages) : Fits(r.messages[k], r.name)}
Said == [task : {"message"}, name : Name, m : Message, user : Nick]
Presence == [task : {"joined", "left"}, name : Name, user : Nick]
FitTask == {t \in Said : Fits(t.m, t.name)} \cup Presence

RoomsTyped == rooms \in Seq(FitRoom) /\ tasks \in Seq(FitTask)
RoomsInv == RoomsTyped /\ room \in 1 .. Len(rooms) /\ rooms[1].name = General

LEMMA DirectIsNotOpen == \A u : Direct(u) \notin Open
BY Zenon DEF Direct, Open

LEMMA OpenTyped ==
  /\ General \in Name /\ Open \subseteq Name /\ Me \in Nick /\ Users \subseteq Nick
  /\ \A u \in Nick : Direct(u) \in Name
BY Zenon DEF Name, Nick

LEMMA NewRoomFits ==
  ASSUME NEW name \in Name
  PROVE  NewRoom(name) \in FitRoom /\ NewRoom(name).name = name
BY DEF NewRoom, FitRoom, RoomRecord

LEMMA SayFits ==
  ASSUME NEW m \in Message, NEW name \in Name, Fits(m, name)
  PROVE  Say(name, m) \in FitTask
BY DEF Say, FitTask, Said, Message

LEMMA PresenceFits ==
  ASSUME NEW name \in Name, NEW u \in Nick
  PROVE  Joined(name, u) \in FitTask /\ Left(name, u) \in FitTask
BY DEF Joined, Left, FitTask, Presence

LEMMA TextsAre ==
  /\ "text" \in Text /\ "/part" \in Text
  /\ "/join" # "text" /\ "/part" # "text" /\ "/nick" # "text"
BY Zenon DEF Text

LEMMA TasksAre ==
  ASSUME NEW m
  PROVE  \/ m.text # "text" /\ TasksOf(m) = <<Joined(m.dest, m.src), Say(m.dest, m)>>
         \/ m.text # "text" /\ TasksOf(m) = <<Left(m.dest, m.src), Say(m.dest, m)>>
         \/ m.text # "text" /\ TasksOf(m) = <<Left(m.dest, m.old), Joined(m.dest, m.src), Say(m.dest, m)>>
         \/ TasksOf(m) = <<Say(RoomOf(m), m)>> /\ Hears(m)
         \/ TasksOf(m) = <<>>
<1>1. CASE m.text = "/join"
  BY <1>1, TextsAre, Zenon DEF TasksOf
<1>2. CASE m.text = "/part"
  BY <1>2, TextsAre, Zenon DEF TasksOf
<1>3. CASE m.text = "/nick"
  BY <1>3, TextsAre, Zenon DEF TasksOf
<1>4. CASE ~(m.text \in {"/join", "/part", "/nick"})
  BY <1>4, TextsAre, Zenon DEF TasksOf
<1> QED BY <1>1, <1>2, <1>3, <1>4, Zenon

\* What the network says is shown where it may be.
LEMMA HeardFits ==
  ASSUME NEW m \in Message, Hears(m), m.text = "text"
  PROVE  Fits(m, RoomOf(m)) /\ RoomOf(m) \in Name
<1>1. m.src \in Nick /\ m.dest \in Name
  BY DEF Message
<1>2. CASE m.dest \in Open
  <2>1. RoomOf(m) = m.dest
    BY <1>2, Zenon DEF RoomOf
  <2>2. m.dest # Direct(Me)
    BY <1>2, DirectIsNotOpen, Zenon
  <2> QED BY <1>1, <1>2, <2>1, <2>2, Zenon DEF Fits
<1>3. CASE m.dest \notin Open /\ m.src = Me
  <2>1. RoomOf(m) = m.dest
    BY <1>3, Zenon DEF RoomOf
  <2> QED BY <1>1, <1>3, <2>1, Zenon DEF Fits
<1>4. CASE m.dest \notin Open /\ m.src # Me
  <2>1. RoomOf(m) = Direct(m.src) /\ m.dest = Direct(Me)
    BY <1>4, Zenon DEF RoomOf, Hears
  <2> QED BY <1>1, <1>4, <2>1, OpenTyped, Zenon DEF Fits
<1> QED BY <1>2, <1>3, <1>4, Zenon

LEMMA TasksFit ==
  ASSUME NEW m \in Message
  PROVE  TasksOf(m) \in Seq(FitTask)
<1>1. m.src \in Nick /\ m.dest \in Name /\ m.old \in Nick
  BY DEF Message
<1>2. Joined(m.dest, m.src) \in FitTask /\ Left(m.dest, m.src) \in FitTask /\ Left(m.dest, m.old) \in FitTask
  BY <1>1, PresenceFits
<1>3. m.text # "text" => Say(m.dest, m) \in FitTask
  BY <1>1, SayFits DEF Fits
<1>4. Hears(m) => RoomOf(m) \in Name
  BY <1>1, OpenTyped, Zenon DEF RoomOf
<1>5. Hears(m) => Say(RoomOf(m), m) \in FitTask
  <2>1. Hears(m) => Fits(m, RoomOf(m))
    BY HeardFits, Zenon DEF Fits
  <2> QED BY <1>4, <2>1, SayFits, Zenon
<1>6. \A a, b, c \in FitTask : {<<>>, <<a>>, <<a, b>>, <<a, b, c>>} \subseteq Seq(FitTask)
  OBVIOUS
<1>7. <<>> \in Seq(FitTask)
  OBVIOUS
<1> QED BY <1>2, <1>3, <1>5, <1>6, <1>7, TasksAre, Zenon

LEMMA RoomsStart == RoomsInit => RoomsInv
<1> SUFFICES ASSUME RoomsInit PROVE RoomsInv
  OBVIOUS
<1>1. NewRoom(General) \in FitRoom /\ NewRoom(General).name = General
  BY OpenTyped, NewRoomFits
<1>2. rooms = <<NewRoom(General)>> /\ room = 1 /\ tasks = <<>>
  BY DEF RoomsInit
<1> QED BY <1>1, <1>2 DEF RoomsInv, RoomsTyped

\* A room is added at the end.
LEMMA RoomAdded ==
  ASSUME RoomsInv, NEW r \in FitRoom, rooms' = Append(rooms, r), tasks' \in Seq(FitTask),
         room' = room \/ room' = Len(rooms) + 1
  PROVE  RoomsInv'
<1>1. rooms \in Seq(FitRoom) /\ Len(rooms) \in Nat /\ room \in 1 .. Len(rooms) /\ rooms[1].name = General
  BY DEF RoomsInv, RoomsTyped
<1>2. /\ rooms' \in Seq(FitRoom) /\ Len(rooms') = Len(rooms) + 1
      /\ \A i \in 1 .. Len(rooms) : rooms'[i] = rooms[i]
  BY <1>1, AppendProperties
<1>3. room' \in 1 .. Len(rooms') /\ 1 \in 1 .. Len(rooms)
  BY <1>1, <1>2
<1>4. rooms'[1].name = General
  BY <1>1, <1>2, <1>3
<1> QED BY <1>2, <1>3, <1>4 DEF RoomsInv, RoomsTyped

\* Found finds a room of the name, or there is none.
LEMMA FoundIs ==
  ASSUME NEW name, Len(rooms) \in Nat
  PROVE  Found(name) = 0 \/ (Found(name) \in 1 .. Len(rooms) /\ rooms[Found(name)].name = name)
<1> DEFINE is == {i \in 1 .. Len(rooms) : rooms[i].name = name}
<1>1. CASE is = {}
  BY <1>1, Zenon DEF Found
<1>2. CASE is # {}
  <2>1. is \in SUBSET Nat
    OBVIOUS
  <2>2. PICK x \in is : \A j \in is : x <= j
    BY <1>2, <2>1, LeastOf
  <2>3. Found(name) = CHOOSE i \in is : \A j \in is : i <= j
    BY <1>2, Zenon DEF Found
  <2>4. Found(name) \in is
    BY <2>2, <2>3, Zenon
  <2> QED BY <2>4
<1> QED BY <1>1, <1>2

\* A room changes and keeps its name.
LEMMA RoomChanged ==
  ASSUME RoomsInv, NEW i \in 1 .. Len(rooms), NEW r \in FitRoom, r.name = rooms[i].name,
         rooms' = [rooms EXCEPT ![i] = r], tasks' \in Seq(FitTask), room' = room
  PROVE  RoomsInv'
<1>1. rooms \in Seq(FitRoom) /\ Len(rooms) \in Nat /\ room \in 1 .. Len(rooms) /\ rooms[1].name = General
  BY DEF RoomsInv, RoomsTyped
<1>2. /\ rooms' \in Seq(FitRoom) /\ Len(rooms') = Len(rooms)
      /\ \A j \in 1 .. Len(rooms) : rooms'[j] = IF j = i THEN r ELSE rooms[j]
  BY <1>1
<1>3. 1 \in 1 .. Len(rooms)
  BY <1>1
<1>4. rooms'[1].name = General
  BY <1>1, <1>2, <1>3
<1> QED BY <1>1, <1>2, <1>4 DEF RoomsInv, RoomsTyped

LEMMA TaskIs ==
  ASSUME RoomsInv, NEW t, RoomTask(t)
  PROVE  /\ tasks[1] \in FitTask /\ tasks' \in Seq(FitTask)
         /\ rooms \in Seq(FitRoom) /\ Len(rooms) \in Nat
<1>1. tasks \in Seq(FitTask) /\ tasks # <<>> /\ tasks' = Tail(tasks)
  BY DEF RoomsInv, RoomsTyped, RoomTask
<1>2. tasks[1] \in FitTask /\ Tail(tasks) \in Seq(FitTask)
  BY <1>1
<1> QED BY <1>1, <1>2 DEF RoomsInv, RoomsTyped

\* What a room shows after one more message.
Shows(s, r, m, n) == s = [r EXCEPT !.messages = Append(@, m), !.unread = n]

LEMMA MessageShown ==
  ASSUME NEW r \in FitRoom, NEW m \in Message, Fits(m, r.name), NEW n \in Nat,
         NEW s, Shows(s, r, m, n)
  PROVE  s \in FitRoom /\ s.name = r.name
<1>1. /\ r = [name |-> r.name, unread |-> r.unread, messages |-> r.messages, users |-> r.users]
      /\ r.name \in Name /\ r.messages \in Seq(Message) /\ r.users \in SUBSET Nick
      /\ \A k \in 1 .. Len(r.messages) : Fits(r.messages[k], r.name)
  BY DEF FitRoom, RoomRecord
<1> DEFINE ms == Append(r.messages, m)
<1>2. s = [name |-> r.name, unread |-> n, messages |-> ms, users |-> r.users]
  BY <1>1 DEF Shows
<1>3. /\ ms \in Seq(Message)
      /\ \A k \in 1 .. Len(ms) : Fits(ms[k], r.name)
  <2>1. /\ ms \in Seq(Message) /\ Len(ms) = Len(r.messages) + 1 /\ Len(r.messages) \in Nat
        /\ \A k \in 1 .. Len(r.messages) : ms[k] = r.messages[k]
        /\ ms[Len(r.messages) + 1] = m
    BY <1>1, AppendProperties
  <2> HIDE DEF ms
  <2>2. ASSUME NEW k \in 1 .. Len(ms) PROVE Fits(ms[k], r.name)
    <3>1. CASE k = Len(r.messages) + 1
      BY <2>1, <3>1
    <3>2. CASE k # Len(r.messages) + 1
      <4>1. k \in 1 .. Len(r.messages)
        BY <2>1, <3>2
      <4> QED BY <1>1, <2>1, <4>1
    <3> QED BY <3>1, <3>2
  <2> QED BY <2>1, <2>2
<1> HIDE DEF ms
<1>4. s \in RoomRecord /\ s.messages = ms /\ s.name = r.name
  <2>1. r.name \in Name /\ ms \in Seq(Message) /\ r.users \in SUBSET Nick
    BY <1>1, <1>3
  <2>2. [name |-> r.name, unread |-> n, messages |-> ms, users |-> r.users] \in RoomRecord
    BY <2>1 DEF RoomRecord
  <2>3. s.messages = ms /\ s.name = r.name
    BY <1>2
  <2> QED BY <1>2, <2>2, <2>3
<1> QED BY <1>3, <1>4 DEF FitRoom

LEMMA ShowMessageStep ==
  ASSUME RoomsInv, ShowMessage
  PROVE  RoomsInv'
<1> DEFINE t == tasks[1]  i == Found(t.name)
           said == [NewRoom(t.name) EXCEPT !.unread = 1, !.messages = <<t.m>>]
<1>1. /\ t \in FitTask /\ tasks' \in Seq(FitTask) /\ rooms \in Seq(FitRoom) /\ Len(rooms) \in Nat
      /\ t.task = "message" /\ room' = room
  BY TaskIs DEF ShowMessage, RoomTask
<1>2. t.m \in Message /\ t.name \in Name /\ Fits(t.m, t.name)
  <2>1. t \notin Presence
    BY <1>1 DEF Presence
  <2> QED BY <1>1, <2>1 DEF FitTask, Said
<1>3. rooms' = IF i = 0 THEN Append(rooms, said)
               ELSE [rooms EXCEPT ![i].messages = Append(@, t.m),
                                  ![i].unread = IF i = room THEN @ ELSE @ + 1]
  BY DEF ShowMessage
<1>4. i = 0 \/ (i \in 1 .. Len(rooms) /\ rooms[i].name = t.name)
  BY <1>1, FoundIs
<1> HIDE DEF t, i
<1>5. CASE i = 0
  <2>1. said \in FitRoom
    <3>1. NewRoom(t.name) \in FitRoom /\ NewRoom(t.name).name = t.name
      BY <1>2, NewRoomFits
    <3>2. said = [NewRoom(t.name) EXCEPT !.messages = Append(@, t.m), !.unread = 1]
      <4>1. <<t.m>> = Append(<<>>, t.m)
        OBVIOUS
      <4> QED BY <4>1 DEF NewRoom
    <3> DEFINE new == NewRoom(t.name)
    <3> HIDE DEF said, new
    <3>3. new \in FitRoom /\ Fits(t.m, new.name) /\ 1 \in Nat
      BY <1>2, <3>1 DEF new
    <3>4. Shows(said, new, t.m, 1)
      BY <3>2 DEF new, Shows
    <3> QED BY <1>2, <3>3, <3>4, MessageShown
  <2> QED BY <1>1, <1>3, <1>5, <2>1, RoomAdded
<1>6. CASE i # 0
  <2> DEFINE n == IF i = room THEN rooms[i].unread ELSE rooms[i].unread + 1
             r == [rooms[i] EXCEPT !.messages = Append(@, t.m), !.unread = n]
  <2>1. i \in 1 .. Len(rooms) /\ rooms[i].name = t.name /\ rooms[i] \in FitRoom
    BY <1>1, <1>4, <1>6
  <2>2. rooms[i] \in RoomRecord /\ n \in Nat
    BY <2>1 DEF FitRoom, RoomRecord
  <2>3. rooms' = [rooms EXCEPT ![i] = r]
    BY <1>1, <1>3, <1>6, <2>1, <2>2 DEF RoomRecord
  <2> HIDE DEF n
  <2>5. r = [rooms[i] EXCEPT !.messages = Append(@, t.m), !.unread = n]
    OBVIOUS
  <2> HIDE DEF r
  <2>4. r \in FitRoom /\ r.name = rooms[i].name
    <3> DEFINE old == rooms[i]
    <3>1. old \in FitRoom /\ Fits(t.m, old.name) /\ t.m \in Message /\ n \in Nat
          /\ Shows(r, old, t.m, n)
      BY <1>2, <2>1, <2>2, <2>5 DEF Shows
    <3> HIDE DEF old
    <3>2. r \in FitRoom /\ r.name = old.name
      BY <3>1, MessageShown
    <3> QED BY <3>2 DEF old
  <2> QED BY <1>1, <2>1, <2>3, <2>4, RoomChanged
<1> QED BY <1>5, <1>6

LEMMA ShowPresenceStep ==
  ASSUME RoomsInv, ShowPresence
  PROVE  RoomsInv'
<1> DEFINE t == tasks[1]  i == Found(t.name)
           users == IF i = 0 THEN {} ELSE rooms[i].users
           now == IF t.task = "joined" THEN users \cup {t.user} ELSE users \ {t.user}
<1>1. /\ t \in FitTask /\ tasks' \in Seq(FitTask) /\ rooms \in Seq(FitRoom) /\ Len(rooms) \in Nat
      /\ t.task \in {"joined", "left"} /\ room' = room
  BY TaskIs DEF ShowPresence, RoomTask
<1>2. t.user \in Nick
  BY <1>1 DEF FitTask, Said, Presence
<1>3. rooms' = IF i = 0 THEN rooms ELSE [rooms EXCEPT ![i].users = now]
  BY DEF ShowPresence
<1>4. i = 0 \/ (i \in 1 .. Len(rooms) /\ rooms[i].name = t.name)
  BY <1>1, FoundIs
<1> HIDE DEF t, i
<1>5. CASE i = 0
  BY <1>1, <1>3, <1>5 DEF RoomsInv, RoomsTyped
<1>6. CASE i # 0
  <2> DEFINE r == [rooms[i] EXCEPT !.users = now]
  <2>1. i \in 1 .. Len(rooms) /\ rooms[i] \in FitRoom
    BY <1>1, <1>4, <1>6
  <2>2. now \in SUBSET Nick
    BY <1>2, <1>6, <2>1 DEF FitRoom, RoomRecord
  <2> HIDE DEF now
  <2>3. r \in FitRoom /\ r.name = rooms[i].name
    BY <2>1, <2>2 DEF FitRoom, RoomRecord
  <2>4. rooms' = [rooms EXCEPT ![i] = r]
    BY <1>1, <1>3, <1>6, <2>1
  <2> HIDE DEF r
  <2> QED BY <1>1, <2>1, <2>3, <2>4, RoomChanged
<1> QED BY <1>5, <1>6

LEMMA LeaveRoomStep ==
  ASSUME RoomsInv, LeaveRoom
  PROVE  RoomsInv'
<1>1. /\ rooms \in Seq(FitRoom) /\ Len(rooms) \in Nat /\ room \in 1 .. Len(rooms)
      /\ rooms[1].name = General /\ room > 1 /\ tasks' \in Seq(FitTask)
      /\ rooms' = RemoveAt(rooms, room) /\ room' = room - 1
  BY DEF RoomsInv, RoomsTyped, LeaveRoom
<1>2. /\ rooms' \in Seq(FitRoom) /\ Len(rooms') = Len(rooms) - 1
      /\ \A i \in 1 .. room - 1 : rooms'[i] = rooms[i]
  BY <1>1, RemovedIs
<1>3. 1 \in 1 .. room - 1 /\ room' \in 1 .. Len(rooms')
  BY <1>1, <1>2
<1>4. rooms'[1].name = General
  BY <1>1, <1>2, <1>3
<1> QED BY <1>1, <1>2, <1>3, <1>4 DEF RoomsInv, RoomsTyped

LEMMA RoomsStep == RoomsInv /\ [RoomsNext]_roomVars => RoomsInv'
<1> SUFFICES ASSUME RoomsInv, [RoomsNext]_roomVars PROVE RoomsInv'
  OBVIOUS
<1>0. /\ rooms \in Seq(FitRoom) /\ Len(rooms) \in Nat /\ room \in 1 .. Len(rooms)
      /\ rooms[room] \in FitRoom /\ tasks \in Seq(FitTask)
  BY DEF RoomsInv, RoomsTyped
<1>1. CASE ReceiveChat
  <2>1. PICK src \in Users, dest \in Open \cup {Direct(u) : u \in Users \cup {Me}} :
        \E text \in Text : \E old \in IF text = "/nick" THEN Users ELSE {src} :
          tasks' = tasks \o TasksOf([src |-> src, dest |-> dest, text |-> text, old |-> old])
    BY <1>1, Zenon DEF ReceiveChat, Text
  <2>2. PICK text \in Text, old \in Users :
          tasks' = tasks \o TasksOf([src |-> src, dest |-> dest, text |-> text, old |-> old])
    BY <2>1, Zenon
  <2> DEFINE m == [src |-> src, dest |-> dest, text |-> text, old |-> old]
  <2>3. src \in Nick /\ old \in Nick /\ dest \in Name
    BY OpenTyped DEF Nick
  <2>4. m \in Message
    BY <2>3 DEF Message
  <2> HIDE DEF m
  <2>5. TasksOf(m) \in Seq(FitTask)
    BY <2>4, TasksFit
  <2>6. tasks' = tasks \o TasksOf(m)
    BY <2>2 DEF m
  <2>7. tasks' \in Seq(FitTask)
    BY <1>0, <2>5, <2>6
  <2> QED BY <1>1, <2>7 DEF ReceiveChat, RoomsInv, RoomsTyped
<1>2. CASE SendChat
  <2>1. PICK text \in {"text", "/part"} :
          tasks' = Append(tasks, Say(rooms[room].name, [src |-> Me, dest |-> rooms[room].name,
                                                        text |-> text, old |-> Me]))
    BY <1>2, Zenon DEF SendChat
  <2> DEFINE name == rooms[room].name  m == [src |-> Me, dest |-> name, text |-> text, old |-> Me]
  <2>2. text \in Text
    BY TextsAre, Zenon
  <2>3. name \in Name
    BY <1>0 DEF FitRoom, RoomRecord
  <2> HIDE DEF name
  <2>4. m \in Message /\ Fits(m, name)
    BY <2>2, <2>3, OpenTyped DEF Message, Fits
  <2>5. tasks' = Append(tasks, Say(name, m))
    BY <2>1 DEF name
  <2> HIDE DEF m
  <2>6. tasks' \in Seq(FitTask)
    BY <1>0, <2>3, <2>4, <2>5, SayFits
  <2> QED BY <1>2, <2>6 DEF SendChat, RoomsInv, RoomsTyped
<1>3. CASE JoinRoom
  <2>1. PICK name \in Open : rooms' = Append(rooms, NewRoom(name))
    BY <1>3 DEF JoinRoom
  <2>2. NewRoom(name) \in FitRoom
    BY OpenTyped, NewRoomFits
  <2>3. tasks' \in Seq(FitTask) /\ room' = room
    BY <1>0, <1>3 DEF JoinRoom
  <2> QED BY <2>1, <2>2, <2>3, RoomAdded
<1>4. CASE StartDirect
  <2>1. PICK u \in Users :
          /\ IF Found(Direct(u)) # 0 THEN rooms' = rooms /\ room' = Found(Direct(u))
             ELSE rooms' = Append(rooms, NewRoom(Direct(u))) /\ room' = Len(rooms) + 1
          /\ tasks' = tasks
    BY <1>4, Zenon DEF StartDirect
  <2>2. CASE Found(Direct(u)) # 0
    <3>1. Found(Direct(u)) \in 1 .. Len(rooms)
      BY <1>0, <2>2, FoundIs
    <3> QED BY <2>1, <2>2, <3>1 DEF RoomsInv, RoomsTyped
  <2>3. CASE Found(Direct(u)) = 0
    <3>1. NewRoom(Direct(u)) \in FitRoom
      BY OpenTyped, NewRoomFits
    <3> QED BY <1>0, <2>1, <2>3, <3>1, RoomAdded
  <2> QED BY <2>2, <2>3
<1>5. CASE LeaveRoom
  BY <1>5, LeaveRoomStep
<1>6. CASE SelectRoom
  BY <1>6 DEF SelectRoom, RoomsInv, RoomsTyped
<1>7. CASE ShowMessage
  BY <1>7, ShowMessageStep
<1>8. CASE ShowPresence
  BY <1>8, ShowPresenceStep
<1>9. CASE UNCHANGED roomVars
  BY <1>9 DEF roomVars, RoomsInv, RoomsTyped
<1> QED BY <1>1, <1>2, <1>3, <1>4, <1>5, <1>6, <1>7, <1>8, <1>9 DEF RoomsNext

LEMMA RoomsShowRight == RoomsInv => DirectStaysBetweenTwo
<1> SUFFICES ASSUME RoomsInv PROVE DirectStaysBetweenTwo
  OBVIOUS
<1>1. ASSUME NEW i \in 1 .. Len(rooms), NEW k \in 1 .. Len(rooms[i].messages)
      PROVE  Fits(rooms[i].messages[k], rooms[i].name)
  <2>1. rooms[i] \in FitRoom
    BY DEF RoomsInv, RoomsTyped
  <2> QED BY <2>1 DEF FitRoom
<1> QED BY <1>1 DEF DirectStaysBetweenTwo, Fits, RoomsInv

\* What was written to one user is shown to no third one, whatever the names of users and rooms
\* and however many messages, rooms and commands there are (app.cpp:2653-2661).
THEOREM DirectIsBetweenTwo == RoomsSpec => []DirectStaysBetweenTwo
<1>1. RoomsSpec => []RoomsInv
  BY RoomsStart, RoomsStep, PTL DEF RoomsSpec
<1> QED BY <1>1, RoomsShowRight, PTL

-----------------------------------------------------------------------------
(* KeyRing *)

Entry == [key : PeerKeys \cup OwnKeys \cup {Garbage}, pending : BOOLEAN]
\* The entries of a keyring file, of which a trusted one is of a key in chosen.
FileEntry(chosen) == {e \in Entry : e.pending \/ e.key \in chosen \cup {Garbage}}
Listed(keys) == [key : keys, local : BOOLEAN]

KeysTyped ==
  /\ pr3 \in Seq(FileEntry(askedFor)) /\ g_pklist \in Seq(Listed(askedFor))
  /\ g_pklist_pending \in Seq(Listed(PeerKeys \cup OwnKeys \cup {Garbage}))
  /\ onStack \subseteq askedFor /\ askedFor \subseteq PeerKeys \cup OwnKeys \cup {Garbage}
  /\ g_pubkeyhash \in OwnKeys \cup {NoKey} /\ pr4 \in OwnKeys \cup {NoKey, Garbage}
AllThere ==
  program = "running" => /\ g_key = pr4 /\ g_pubkeyhash = pr4
                         /\ {"dns", "mql", "listen", "database"} \subseteq parts
KeyRingInv == KeysTyped /\ AllThere

-----------------------------------------------------------------------------
(* What is read and saved *)

\* What can be read of the file: the trusted entries are of keys that were asked for.
LEMMA ReadableIs ==
  ASSUME NEW S, NEW file \in Seq(S)
  PROVE  Readable(file) \in Seq({e \in S : e.key # Garbage})
<1> DEFINE bad == {i \in 1 .. Len(file) : file[i].key = Garbage}
           first == CHOOSE i \in bad : \A j \in bad : i <= j
           T == {e \in S : e.key # Garbage}
<1>1. Len(file) \in Nat /\ bad \in SUBSET (1 .. Len(file)) /\ \A i \in 1 .. Len(file) : file[i] \in S
  OBVIOUS
<1>2. Readable(file) = IF bad = {} THEN file ELSE SubSeq(file, 1, first - 1)
  BY Zenon DEF Readable
<1>3. CASE bad = {}
  <2>1. \A i \in 1 .. Len(file) : file[i] \in T
    BY <1>1, <1>3
  <2> HIDE DEF T
  <2> QED BY <1>2, <1>3, <2>1
<1>4. CASE bad # {}
  <2>1. first - 1 \in Nat /\ first - 1 <= Len(file) /\ \A j \in 1 .. first - 1 : j \notin bad
    <3> HIDE DEF bad
    <3> QED BY <1>1, <1>4, FirstIs
  <2> HIDE DEF first
  <2> DEFINE some == SubSeq(file, 1, first - 1)
  <2>2. some \in Seq(S) /\ Len(some) = first - 1 /\ \A i \in 1 .. first - 1 : some[i] = file[i]
    BY <2>1, StartIs
  <2>3. \A i \in 1 .. first - 1 : i \in 1 .. Len(file) /\ file[i].key # Garbage
    BY <1>1, <2>1
  <2> HIDE DEF some, bad
  <2>4. \A i \in 1 .. Len(some) : some[i] \in T
    BY <1>1, <2>2, <2>3
  <2> HIDE DEF T
  <2>5. some \in Seq(T)
    BY <2>2, <2>4
  <2> QED BY <1>2, <1>4, <2>5 DEF some, T
<1> QED BY <1>3, <1>4

LEMMA KeysApart ==
  /\ Garbage \notin PeerKeys \cup OwnKeys /\ NoKey \notin PeerKeys \cup OwnKeys
  /\ PeerKeys \cap OwnKeys = {} /\ Garbage # NoKey
<1>1. Garbage # NoKey
  BY Zenon DEF Garbage, NoKey
<1> QED BY <1>1, KeysAssumption

\* The lists after a file was read into them.
LEMMA Loads ==
  ASSUME KeysTyped, LoadPKList
  PROVE  /\ g_pklist' \in Seq(Listed(askedFor))
         /\ g_pklist_pending' \in Seq(Listed(PeerKeys \cup OwnKeys \cup {Garbage}))
<1> DEFINE file == Readable(pr3)
           T == {e \in FileEntry(askedFor) : e.key # Garbage}
           some(p) == Picked(file, {i \in 1 .. Len(file) : file[i].pending = p})
           of(p) == [i \in 1 .. Len(some(p)) |-> Heap(some(p)[i].key)]
<1>1. file \in Seq(T)
  BY ReadableIs DEF KeysTyped
<1>2. g_pklist' = g_pklist \o of(FALSE) /\ g_pklist_pending' = g_pklist_pending \o of(TRUE)
  BY DEF LoadPKList
<1> HIDE DEF file
<1>3. some(FALSE) \in Seq({e \in T : ~e.pending})
  <2> DEFINE at == {i \in 1 .. Len(file) : file[i].pending = FALSE}
             U == {e \in T : ~e.pending}
  <2>1. \A i \in 1 .. Len(file) : i \in at => file[i] \in U
    BY <1>1
  <2> HIDE DEF at, U, T
  <2>2. Picked(file, at) \in Seq(U)
    BY <1>1, <2>1, KeptFrom
  <2> QED BY <2>2 DEF at, U
<1>4. some(TRUE) \in Seq(T)
  <2> DEFINE at == {i \in 1 .. Len(file) : file[i].pending = TRUE}
  <2>1. \A i \in 1 .. Len(file) : i \in at => file[i] \in T
    BY <1>1
  <2> HIDE DEF at, T
  <2>2. Picked(file, at) \in Seq(T)
    BY <1>1, <2>1, KeptFrom
  <2> QED BY <2>2 DEF at
<1>5. \A e \in {e \in T : ~e.pending} : Heap(e.key) \in Listed(askedFor)
  BY DEF FileEntry, Heap, Listed
<1>6. \A e \in T : Heap(e.key) \in Listed(PeerKeys \cup OwnKeys \cup {Garbage})
  BY DEF FileEntry, Entry, Heap, Listed
<1> HIDE DEF some, T
<1>7. of(FALSE) \in Seq(Listed(askedFor))
  <2> DEFINE s == some(FALSE)  U == {e \in T : ~e.pending}
  <2>0. s \in Seq(U)
    BY <1>3
  <2> HIDE DEF s, U
  <2>1. Len(s) \in Nat /\ \A i \in 1 .. Len(s) : s[i] \in U
    BY <2>0
  <2>2. \A i \in 1 .. Len(s) : Heap(s[i].key) \in Listed(askedFor)
    BY <1>5, <2>1 DEF U
  <2>3. [i \in 1 .. Len(s) |-> Heap(s[i].key)] \in Seq(Listed(askedFor))
    BY <2>1, <2>2
  <2> QED BY <2>3 DEF s
<1>8. of(TRUE) \in Seq(Listed(PeerKeys \cup OwnKeys \cup {Garbage}))
  <2> DEFINE s == some(TRUE)  L == Listed(PeerKeys \cup OwnKeys \cup {Garbage})
  <2>0. s \in Seq(T)
    BY <1>4
  <2>2. \A e \in T : Heap(e.key) \in L
    BY <1>6
  <2> HIDE DEF s, L
  <2>1. Len(s) \in Nat /\ \A i \in 1 .. Len(s) : s[i] \in T
    BY <2>0
  <2>3. [i \in 1 .. Len(s) |-> Heap(s[i].key)] \in Seq(L)
    BY <2>1, <2>2
  <2> QED BY <2>3 DEF s, L
<1> HIDE DEF of
<1> QED BY <1>2, <1>7, <1>8, ConcatProperties DEF KeysTyped

\* What the trusted entries read as: keys that were asked for, or garbage.
LEMMA ReadingIs ==
  ASSUME NEW chosen, NEW list \in Seq(Listed(chosen)), onStack \subseteq chosen, NEW read \in Readings(list)
  PROVE  read \in Seq(chosen \cup {Garbage})
<1> DEFINE lost == {i \in 1 .. Len(list) : list[i].local}
<1>1. PICK found \in [lost -> onStack \cup {Garbage}] :
        read = [i \in 1 .. Len(list) |-> IF i \in lost THEN found[i] ELSE list[i].key]
  BY DEF Readings
<1>2. ASSUME NEW i \in 1 .. Len(list)
      PROVE  (IF i \in lost THEN found[i] ELSE list[i].key) \in chosen \cup {Garbage}
  <2>1. list[i].key \in chosen
    <3>1. list[i] \in Listed(chosen)
      OBVIOUS
    <3> QED BY <3>1 DEF Listed
  <2> HIDE DEF lost
  <2> QED BY <1>1, <2>1
<1>3. Len(list) \in Nat
  OBVIOUS
<1> HIDE DEF lost
<1> QED BY <1>1, <1>2, <1>3

\* What is saved holds as trusted only keys that were asked for, or garbage.
LEMMA Saves ==
  ASSUME NEW chosen \in SUBSET (PeerKeys \cup OwnKeys \cup {Garbage}),
         NEW read \in Seq(chosen \cup {Garbage}),
         NEW pending \in Seq(Listed(PeerKeys \cup OwnKeys \cup {Garbage})), SavePKList(read, pending)
  PROVE  pr3' \in Seq(FileEntry(chosen)) /\ program' \in {program, "off"}
<1> DEFINE a == Trusted(read)
           b == [i \in 1 .. Len(pending) |-> [key |-> pending[i].key, pending |-> TRUE]]
           records == a \o b
           bad == {i \in 1 .. Len(read) : read[i] = Garbage}
           first == CHOOSE i \in bad : \A j \in bad : i <= j
           at == {i \in 1 .. Len(records) : records[i].key # Garbage}
           F == FileEntry(chosen)
<1>1. \/ pr3' = records /\ program' = program
      \/ bad # {} /\ pr3' = Picked(records, at) /\ program' = program
      \/ bad # {} /\ pr3' = SubSeq(records, 1, first - 1) /\ program' = "off"
  BY DEF SavePKList
<1>2. a \in Seq(F) /\ Len(a) = Len(read)
  <2>1. \A i \in 1 .. Len(read) : [key |-> read[i], pending |-> FALSE] \in F
    BY DEF FileEntry, Entry
  <2> HIDE DEF F
  <2> QED BY <2>1 DEF Trusted
<1>3. b \in Seq(F)
  <2> DEFINE K == PeerKeys \cup OwnKeys \cup {Garbage}
  <2>1. \A k \in K : [key |-> k, pending |-> TRUE] \in F
    BY DEF FileEntry, Entry
  <2>2. \A e \in Listed(K) : e.key \in K
    BY DEF Listed
  <2>3. Len(pending) \in Nat /\ \A i \in 1 .. Len(pending) : pending[i] \in Listed(K)
    OBVIOUS
  <2> HIDE DEF F, K
  <2>4. \A i \in 1 .. Len(pending) : [key |-> pending[i].key, pending |-> TRUE] \in F
    BY <2>1, <2>2, <2>3
  <2> QED BY <2>3, <2>4
<1> HIDE DEF a, b, F
<1>4. records \in Seq(F) /\ Len(records) = Len(read) + Len(b) /\ Len(read) \in Nat /\ Len(b) \in Nat
  <2>1. records \in Seq(F) /\ Len(records) = Len(a) + Len(b)
    BY <1>2, <1>3, ConcatProperties
  <2>2. Len(read) \in Nat /\ Len(b) \in Nat
    BY <1>3
  <2> QED BY <1>2, <2>1, <2>2
<1> HIDE DEF records
<1>5. Picked(records, at) \in Seq(F)
  <2>1. \A i \in 1 .. Len(records) : i \in at => records[i] \in F
    BY <1>4
  <2> HIDE DEF at
  <2> QED BY <1>4, <2>1, KeptFrom
<1>6. bad # {} => SubSeq(records, 1, first - 1) \in Seq(F)
  <2> SUFFICES ASSUME bad # {} PROVE SubSeq(records, 1, first - 1) \in Seq(F)
    OBVIOUS
  <2>1. bad \in SUBSET (1 .. Len(read))
    OBVIOUS
  <2>2. first - 1 \in Nat /\ first - 1 <= Len(read)
    <3> HIDE DEF bad
    <3> QED BY <1>4, <2>1, FirstIs
  <2> HIDE DEF first
  <2>3. first - 1 <= Len(records)
    BY <1>4, <2>2
  <2> QED BY <1>4, <2>2, <2>3, StartIs
<1> HIDE DEF at, first, bad
<1> QED BY <1>1, <1>4, <1>5, <1>6 DEF F

-----------------------------------------------------------------------------
(* The steps *)

LEMMA AskedGrows ==
  ASSUME NEW chosen, NEW more, chosen \subseteq more
  PROVE  /\ \A s \in Seq(Listed(chosen)) : s \in Seq(Listed(more))
         /\ \A s \in Seq(FileEntry(chosen)) : s \in Seq(FileEntry(more))
<1>1. Listed(chosen) \subseteq Listed(more) /\ FileEntry(chosen) \subseteq FileEntry(more)
  BY DEF Listed, FileEntry
<1> QED BY <1>1

LEMMA KeyRingStarts == KeyRingInit => KeyRingInv
<1> SUFFICES ASSUME KeyRingInit PROVE KeyRingInv
  OBVIOUS
<1>1. pr3 \in Seq(Entry) /\ askedFor = {pr3[i].key : i \in {k \in 1 .. Len(pr3) : ~pr3[k].pending}}
  BY KeysAssumption DEF KeyRingInit, Entry
<1>2. \A i \in 1 .. Len(pr3) : pr3[i] \in FileEntry(askedFor)
  BY <1>1 DEF FileEntry
<1>3. pr3 \in Seq(FileEntry(askedFor))
  BY <1>1, <1>2
<1>4. askedFor \subseteq PeerKeys \cup OwnKeys \cup {Garbage}
  <2> SUFFICES ASSUME NEW i \in 1 .. Len(pr3)
               PROVE  pr3[i].key \in PeerKeys \cup OwnKeys \cup {Garbage}
    BY <1>1
  <2>1. pr3[i] \in Entry
    BY <1>1
  <2> QED BY <2>1 DEF Entry
<1>5. /\ g_pklist = <<>> /\ g_pklist_pending = <<>> /\ onStack = {} /\ program = "off"
      /\ g_pubkeyhash = NoKey /\ pr4 \in OwnKeys \cup {NoKey}
  BY DEF KeyRingInit
<1>6. program # "running"
  BY <1>5
<1> QED BY <1>3, <1>4, <1>5, <1>6 DEF KeyRingInv, KeysTyped, AllThere

LEMMA InitializeStep ==
  ASSUME KeyRingInv, NEW file \in OwnKeys \cup {Garbage}, NEW where \in {"off", "setup"},
         Initialize(file, where), UNCHANGED <<pr3, onStack, askedFor>>
  PROVE  KeyRingInv'
<1>1. KeysTyped
  BY DEF KeyRingInv
<1>2. CASE /\ file = Garbage /\ program' = where /\ UNCHANGED g_pubkeyhash /\ Unread /\ pr4' = file
  <2>1. program' # "running"
    BY <1>2
  <2> QED BY <1>1, <1>2, <2>1 DEF KeyRingInv, KeysTyped, AllThere, Unread
<1>3. CASE /\ file # Garbage /\ g_key' = file /\ g_pubkeyhash' = file /\ pr4' = file /\ LoadPKList
           /\ \/ program' = where
              \/ program' = "running" /\ parts' = {"config", "dns", "mql", "listen", "database", "thread"}
  <2>1. /\ g_pklist' \in Seq(Listed(askedFor))
        /\ g_pklist_pending' \in Seq(Listed(PeerKeys \cup OwnKeys \cup {Garbage}))
    BY <1>1, <1>3, Loads
  <2>2. KeysTyped'
    BY <1>1, <1>3, <2>1 DEF KeysTyped
  <2>3. AllThere'
    BY <1>3 DEF AllThere
  <2> QED BY <2>2, <2>3 DEF KeyRingInv
<1> QED BY <1>2, <1>3 DEF Initialize

LEMMA AddTrustedStep ==
  ASSUME KeyRingInv, program = "running", NEW key \in PeerKeys \cup OwnKeys \cup {Garbage},
         NEW pending \in Seq(Listed(PeerKeys \cup OwnKeys \cup {Garbage})),
         AddTrusted(key, pending), InKeys
  PROVE  KeyRingInv'
<1> DEFINE chosen == askedFor \cup {key}
<1>1. KeysTyped /\ AllThere
  BY DEF KeyRingInv
<1>2. /\ onStack' = onStack \cup {key} /\ askedFor' = chosen
      /\ g_pklist' = Append(g_pklist, Local(key)) /\ g_pklist_pending' = pending
      /\ UNCHANGED <<pr4, g_key, g_pubkeyhash, parts>>
  BY DEF AddTrusted, InKeys
<1>3. PICK read \in Readings(g_pklist) : SavePKList(Append(read, key), pending)
  BY DEF AddTrusted
<1>4. chosen \in SUBSET (PeerKeys \cup OwnKeys \cup {Garbage}) /\ askedFor \subseteq chosen /\ key \in chosen
  BY <1>1 DEF KeysTyped
<1> HIDE DEF chosen
<1>5. Append(read, key) \in Seq(chosen \cup {Garbage})
  <2>1. read \in Seq(askedFor \cup {Garbage})
    BY <1>1, ReadingIs DEF KeysTyped
  <2>2. read \in Seq(chosen \cup {Garbage})
    BY <1>4, <2>1
  <2> QED BY <1>4, <2>2, AppendProperties
<1>6. pr3' \in Seq(FileEntry(chosen)) /\ program' \in {program, "off"}
  BY <1>3, <1>4, <1>5, Saves
<1>7. g_pklist' \in Seq(Listed(chosen))
  <2>1. g_pklist \in Seq(Listed(chosen))
    BY <1>1, <1>4, AskedGrows DEF KeysTyped
  <2>2. Local(key) \in Listed(chosen)
    BY <1>4 DEF Local, Listed
  <2> QED BY <1>2, <2>1, <2>2
<1>8. KeysTyped'
  BY <1>1, <1>2, <1>4, <1>6, <1>7 DEF KeysTyped
<1>9. AllThere'
  BY <1>1, <1>2 DEF AllThere
<1> QED BY <1>8, <1>9 DEF KeyRingInv

LEMMA KeyRingStep == KeyRingInv /\ [KeyRingNext]_keyVars => KeyRingInv'
<1> SUFFICES ASSUME KeyRingInv, [KeyRingNext]_keyVars PROVE KeyRingInv'
  OBVIOUS
<1> DEFINE All == PeerKeys \cup OwnKeys \cup {Garbage}
<1>0. KeysTyped /\ AllThere /\ g_pklist_pending \in Seq(Listed(All))
  BY DEF KeyRingInv, KeysTyped
<1> HIDE DEF All
<1>1. CASE Launch
  <2>1. CASE pr4 = NoKey
    <3>1. /\ program' = "setup" /\ UNCHANGED <<pr4, g_key, g_pubkeyhash, parts, pr3, onStack, askedFor>>
          /\ UNCHANGED <<g_pklist, g_pklist_pending>>
      BY <1>1, <2>1 DEF Launch, Unread
    <3> QED BY <1>0, <3>1 DEF KeyRingInv, KeysTyped, AllThere
  <2>2. CASE pr4 # NoKey
    <3>1. Initialize(pr4, "off") /\ UNCHANGED <<pr3, onStack, askedFor>>
      BY <1>1, <2>2 DEF Launch
    <3>2. pr4 \in OwnKeys \cup {Garbage}
      BY <1>0, <2>2 DEF KeysTyped
    <3> QED BY <3>1, <3>2, InitializeStep
  <2> QED BY <2>1, <2>2
<1>2. CASE GenerateNewKeys
  <2>1. PICK key \in OwnKeys : Initialize(key, "setup")
    BY <1>2 DEF GenerateNewKeys
  <2>2. UNCHANGED <<pr3, onStack, askedFor>>
    BY <1>2 DEF GenerateNewKeys
  <2> QED BY <2>1, <2>2, InitializeStep
<1>3. CASE ImportExistingKeys
  <2>1. PICK file \in OwnKeys \cup {Garbage} : Initialize(file, "setup")
    BY <1>3 DEF ImportExistingKeys
  <2>2. UNCHANGED <<pr3, onStack, askedFor>>
    BY <1>3 DEF ImportExistingKeys
  <2> QED BY <2>1, <2>2, InitializeStep
<1>4. CASE Quit
  <2>1. /\ program' = "off" /\ g_pubkeyhash' = NoKey /\ onStack' = {}
        /\ g_pklist' = <<>> /\ g_pklist_pending' = <<>> /\ UNCHANGED <<pr4, pr3, askedFor>>
    BY <1>4 DEF Quit
  <2> QED BY <1>0, <2>1 DEF KeyRingInv, KeysTyped, AllThere
<1>5. CASE TrustPendingKey
  <2> DEFINE key == g_pklist_pending[1].key
  <2>1. g_pklist_pending # <<>> /\ AddTrusted(key, Tail(g_pklist_pending)) /\ InKeys /\ program = "running"
    BY <1>5 DEF TrustPendingKey, AtKeys
  <2>2. g_pklist_pending[1] \in Listed(All) /\ Tail(g_pklist_pending) \in Seq(Listed(All))
    BY <1>0, <2>1, TailIs
  <2>3. key \in All
    BY <2>2 DEF Listed
  <2> HIDE DEF key
  <2> QED BY <2>1, <2>2, <2>3, AddTrustedStep DEF All
<1>6. CASE ImportPublicKey
  <2>1. PICK key \in PeerKeys : AddTrusted(key, g_pklist_pending)
    BY <1>6 DEF ImportPublicKey
  <2>2. InKeys /\ program = "running"
    BY <1>6 DEF ImportPublicKey, AtKeys
  <2> QED BY <1>0, <2>1, <2>2, AddTrustedStep DEF All
<1>7. CASE RemoveTrusted
  <2>1. /\ g_pklist # <<>> /\ g_pklist' = Tail(g_pklist)
        /\ UNCHANGED <<g_pklist_pending, onStack, askedFor, pr4, g_key, g_pubkeyhash, parts>>
    BY <1>7 DEF RemoveTrusted, InKeys
  <2>2. PICK read \in Readings(Tail(g_pklist)) : SavePKList(read, g_pklist_pending)
    BY <1>7 DEF RemoveTrusted
  <2>3. Tail(g_pklist) \in Seq(Listed(askedFor))
    BY <1>0, <2>1, TailIs DEF KeysTyped
  <2>4. read \in Seq(askedFor \cup {Garbage})
    BY <1>0, <2>3, ReadingIs DEF KeysTyped
  <2>5. pr3' \in Seq(FileEntry(askedFor)) /\ program' \in {program, "off"}
    BY <1>0, <2>2, <2>4, Saves DEF KeysTyped
  <2>6. KeysTyped'
    BY <1>0, <2>1, <2>3, <2>5 DEF KeysTyped
  <2>7. AllThere'
    BY <1>0, <2>1, <2>5 DEF AllThere
  <2> QED BY <2>6, <2>7 DEF KeyRingInv
<1>8. CASE RemovePending
  <2>1. /\ g_pklist_pending # <<>> /\ g_pklist_pending' = Tail(g_pklist_pending)
        /\ UNCHANGED <<program, pr3, g_pklist, onStack, askedFor, pr4, g_key, g_pubkeyhash, parts>>
    BY <1>8 DEF RemovePending, InKeys
  <2>2. g_pklist_pending' \in Seq(Listed(All))
    BY <1>0, <2>1, TailIs
  <2> QED BY <1>0, <2>1, <2>2 DEF KeyRingInv, KeysTyped, AllThere, All
<1>9. CASE UNCHANGED keyVars
  BY <1>0, <1>9 DEF keyVars, KeyRingInv, KeysTyped, AllThere
<1> QED BY <1>1, <1>2, <1>3, <1>4, <1>5, <1>6, <1>7, <1>8, <1>9 DEF KeyRingNext

LEMMA KeyRingTrusts == KeyRingInv => TrustsByChoice
<1> SUFFICES ASSUME KeyRingInv, program = "running" PROVE TrustsByChoice
  BY DEF TrustsByChoice
<1>1. KeysTyped /\ AllThere
  BY DEF KeyRingInv
<1>2. ASSUME NEW key \in PeerKeys, Finds(key) PROVE key \in askedFor
  <2>1. key # g_pubkeyhash
    BY <1>1, KeysApart DEF KeysTyped
  <2>2. PICK read \in Readings(g_pklist) : key \in Range(read)
    BY <1>2, <2>1 DEF Finds
  <2>3. read \in Seq(askedFor \cup {Garbage})
    BY <1>1, ReadingIs DEF KeysTyped
  <2>4. key \in askedFor \cup {Garbage}
    BY <2>2, <2>3 DEF Range
  <2> QED BY <2>4, KeysApart
<1> QED BY <1>1, <1>2 DEF TrustsByChoice, AllThere

\* Whatever keys and files there are, and whatever lies where the lost entries were: a key finds
\* its way into the trusted list only by the user's choice, and the host speaks with the key of
\* its file (util.cpp:983, waste_core.cpp:1140-1241).
THEOREM TrustIsByChoice == KeyRingSpec => []TrustsByChoice
<1>1. KeyRingSpec => []KeyRingInv
  BY KeyRingStarts, KeyRingStep, PTL DEF KeyRingSpec
<1> QED BY <1>1, KeyRingTrusts, PTL

-----------------------------------------------------------------------------
(* Search and browse *)

\* What a host tells, on its way and in the hands of the core's thread: what it finds, what it
\* has in a directory, or itself.
File == [name : STRING, id : Int]
ScanIds == {"none", "search", "browse", "users"} \X Nat
Nodes(h) == IF h \in DOMAIN NickOf THEN {Node(h)} ELSE {}
HostTells(kind, h) == IF kind = "users" THEN Nodes(h) ELSE Shared(h)
Heard(h) == Shared(h) \cup Nodes(h)
Answer == {a \in [id : ScanIds, guid : Sharers, items : Seq(File)] :
             Range(a.items) \subseteq HostTells(a.id[1], a.guid)}
Truth(T) == {t \in T : t.entry \in HostTells(t.of[1], t.guid)}
Result == Truth([task : {"result"}, guid : Sharers, entry : File, of : ScanIds])
ToDownload == Truth([task : {"download"}, guid : Sharers, entry : File, of : ScanIds])
Entries == {t \in [task : {"entries"}, guid : Sharers, entries : Seq(File)] :
              Range(t.entries) \subseteq Heard(t.guid)}
View == {"Network", "Search", "Browse"}
Work == {Do(s) : s \in {"leaveBrowse", "sendSearch", "enterBrowse", "sendBrowse", "cancel", "clear"}}

BrowseFits ==
  /\ browse \in [peer : Sharers, path : Paths, guid : Sharers \cup {NoGuid}, entries : Seq(File)]
  /\ browse.entries # <<>> => browse.guid \in Sharers /\ Range(browse.entries) \subseteq Heard(browse.guid)
\* While a question is asked, nothing clears the results.
AskedFits ==
  screen.modal # 0 =>
    /\ screen.modal \in 1 .. Len(search) /\ search[screen.modal] = screen.row
    /\ \A i \in 1 .. Len(todo) : todo[i].task # "clear"
SearchInv ==
  /\ BrowseFits /\ AskedFits
  /\ screen \in [view : View, previous : View, modal : Nat, row : Result \cup {<<>>}]
  /\ search \in Seq(Result) /\ todo \in Seq(Work \cup ToDownload)
  /\ due \subseteq Answer /\ (coreReads = <<>> \/ coreReads \in Answer \X BOOLEAN)
  /\ sent \in Nat /\ posted \in Seq(Result \cup ToDownload \cup Entries)
  /\ g_last_scanid \in ScanIds /\ (g_last_scanid_used = Now => g_last_scanid[1] = "users")

LEMMA ListingsShared ==
  /\ \A h \in Sharers : Shared(h) \subseteq File
  /\ \A h \in Sharers, path \in Paths : Tree[h][path] \in Seq(File) /\ Range(Tree[h][path]) \subseteq Shared(h)
  /\ \A h \in Sharers : Matches[h] \in Seq(File) /\ Range(Matches[h]) \subseteq Shared(h)
  /\ \A h \in Sharers : Nodes(h) \subseteq File /\ \A n \in Nodes(h) : IsDirectory(n)
<1>1. \A h \in Sharers, path \in Paths : Tree[h][path] \in Seq(File)
  BY TheTrees DEF File
<1>2. \A s \in Seq(File) : Range(s) \subseteq File
  BY RangeOfSeq
<1>3. \A h \in Sharers : Matches[h] \in Seq(File) /\ Range(Matches[h]) \subseteq Shared(h)
  BY TheTrees DEF File
<1>4. ASSUME NEW h \in Sharers, NEW n \in Nodes(h) PROVE n \in File /\ IsDirectory(n)
  <2>1. h \in DOMAIN NickOf /\ n = Node(h) /\ NickOf[h] \in STRING /\ -1 \in Int
    BY <1>4, TheTrees DEF Nodes
  <2> QED BY <2>1 DEF Node, File, IsDirectory
<1> QED BY <1>1, <1>2, <1>3, <1>4 DEF Shared

LEMMA TasksDiffer ==
  /\ \A t \in Result : /\ t.task = "result" /\ t.guid \in Sharers /\ t.entry \in File
                       /\ t.of \in ScanIds /\ t.entry \in HostTells(t.of[1], t.guid)
  /\ \A t \in ToDownload : /\ t.task = "download" /\ t.guid \in Sharers
                           /\ t.entry \in HostTells(t.of[1], t.guid)
  /\ \A t \in Entries : /\ t.task = "entries" /\ t.guid \in Sharers /\ t.entries \in Seq(File)
                        /\ Range(t.entries) \subseteq Heard(t.guid)
  /\ \A s : Do(s).task = s
BY DEF Result, ToDownload, Entries, Truth, Do

LEMMA SearchKeysKeep ==
  ASSUME SearchInv, SearchEnter \/ SearchEscape \/ SwitchView \/ BrowseEscape \/ Decline
  PROVE  SearchInv'
<1>1. Do("leaveBrowse") \in Work /\ Do("sendSearch") \in Work /\ Do("cancel") \in Work /\ Do("clear") \in Work
  BY DEF Work
<1>2. CASE SearchEnter
  <2>1. todo' = <<>> \/ todo' = <<Do("leaveBrowse"), Do("sendSearch")>>
    BY <1>2 DEF SearchEnter
  <2>2. <<>> \in Seq(Work \cup ToDownload) /\ <<Do("leaveBrowse"), Do("sendSearch")>> \in Seq(Work \cup ToDownload)
    BY <1>1
  <2>3. todo' \in Seq(Work \cup ToDownload)
    BY <2>1, <2>2
  <2>4. search' = <<>> /\ screen.modal = 0 /\ UNCHANGED <<screen, browse, KeyVars>>
    BY <1>2 DEF SearchEnter, Key
  <2> QED BY <2>3, <2>4 DEF SearchInv, KeyVars, coreVars, scanVars, netVars, AskedFits, BrowseFits
<1>3. CASE SearchEscape
  <2>1. todo' \in Seq(Work \cup ToDownload)
    BY <1>1, <1>3 DEF SearchEscape
  <2> QED BY <1>3, <2>1 DEF SearchInv, SearchEscape, Key, KeyVars, uiVars, coreVars, scanVars, netVars, AskedFits, BrowseFits
<1>4. CASE SwitchView
  BY <1>4 DEF SearchInv, SwitchView, View, KeyVars, coreVars, scanVars, netVars, AskedFits, BrowseFits
<1>5. CASE BrowseEscape
  BY <1>5 DEF SearchInv, BrowseEscape, Key, KeyVars, coreVars, scanVars, netVars, AskedFits, BrowseFits
<1>6. CASE Decline
  BY <1>6 DEF SearchInv, Decline, KeyVars, coreVars, scanVars, netVars, AskedFits, BrowseFits
<1> QED BY <1>2, <1>3, <1>4, <1>5, <1>6

LEMMA AskKeeps ==
  ASSUME SearchInv, AskDownload
  PROVE  SearchInv'
<1>1. todo = <<>> /\ UNCHANGED <<search, browse, todo, KeyVars>>
  BY DEF AskDownload, Key
<1>2. PICK i \in 1 .. Len(search) : screen' = [screen EXCEPT !.modal = i, !.row = search[i]]
  BY DEF AskDownload
<1>3. search[i] \in Result /\ i \in Nat
  BY <1>2 DEF SearchInv
<1>4. /\ screen' \in [view : View, previous : View, modal : Nat, row : Result \cup {<<>>}]
      /\ screen'.modal = i /\ screen'.row = search[i]
  BY <1>2, <1>3 DEF SearchInv
<1> QED BY <1>1, <1>4 DEF SearchInv, KeyVars, coreVars, scanVars, netVars, AskedFits, BrowseFits

LEMMA ConfirmKeeps ==
  ASSUME SearchInv, Confirm
  PROVE  SearchInv'
<1>1. /\ screen' = [screen EXCEPT !.modal = 0, !.row = <<>>]
      /\ UNCHANGED <<search, browse, todo, coreVars, netVars>>
      /\ \/ posted' = posted
         \/ /\ screen.modal # 0
            /\ posted' = Append(posted, [search[screen.modal] EXCEPT !.task = "download"])
  BY DEF Confirm
<1>2. /\ screen' \in [view : View, previous : View, modal : Nat, row : Result \cup {<<>>}]
      /\ screen'.modal = 0
  BY <1>1 DEF SearchInv
<1>3. posted' \in Seq(Result \cup ToDownload \cup Entries)
  <2>1. CASE screen.modal # 0 /\ posted' = Append(posted, [search[screen.modal] EXCEPT !.task = "download"])
    <3>1. search[screen.modal] \in Result
      BY <2>1 DEF SearchInv, AskedFits
    <3>2. [search[screen.modal] EXCEPT !.task = "download"] \in ToDownload
      BY <3>1 DEF Result, ToDownload, Truth
    <3> QED BY <2>1, <3>2 DEF SearchInv
  <2> QED BY <1>1, <2>1 DEF SearchInv
<1> QED BY <1>1, <1>2, <1>3 DEF SearchInv, coreVars, scanVars, netVars, AskedFits, BrowseFits

LEMMA BrowsedFits ==
  ASSUME SearchInv, NEW peer \in Sharers, NEW path \in Paths, Browse(peer, path), todo = <<>>, screen.modal = 0
  PROVE  BrowseFits' /\ todo' \in Seq(Work \cup ToDownload)
<1>1. Do("enterBrowse") \in Work /\ Do("sendBrowse") \in Work
  BY DEF Work
<1>2. browse' = [browse EXCEPT !.peer = peer, !.path = path, !.entries = <<>>]
  BY DEF Browse
<1>3. browse \in [peer : Sharers, path : Paths, guid : Sharers \cup {NoGuid}, entries : Seq(File)]
  BY DEF SearchInv, BrowseFits
<1>4. /\ browse' \in [peer : Sharers, path : Paths, guid : Sharers \cup {NoGuid}, entries : Seq(File)]
      /\ browse'.entries = <<>>
  <2> HIDE DEF NoGuid
  <2> DEFINE u == [browse EXCEPT !.peer = peer, !.path = path, !.entries = <<>>]
  <2>1. <<>> \in Seq(File)
    OBVIOUS
  <2>2. /\ u \in [peer : Sharers, path : Paths, guid : Sharers \cup {NoGuid}, entries : Seq(File)]
        /\ u.entries = <<>>
    BY <1>3, <2>1
  <2> QED BY <1>2, <2>2
<1>5. BrowseFits'
  BY <1>4 DEF BrowseFits
<1> QED BY <1>1, <1>5 DEF Browse

LEMMA BrowsePeerKeeps ==
  ASSUME SearchInv, BrowsePeer
  PROVE  SearchInv'
<1>1. /\ screen' = [screen EXCEPT !.previous = screen.view, !.view = "Browse"]
      /\ UNCHANGED <<search, KeyVars>> /\ todo = <<>> /\ screen.modal = 0
  BY DEF BrowsePeer, Key
<1>2. PICK peer \in Sharers : Browse(peer, Top)
  <2>1. CASE \E h \in Sharers \ {Self} : Browse(h, Top)
    BY <2>1
  <2>2. CASE \E i \in 1 .. Len(search) : Browse(search[i].guid, Top)
    BY <2>2, TasksDiffer DEF SearchInv
  <2> QED BY <2>1, <2>2 DEF BrowsePeer
<1>3. BrowseFits' /\ todo' \in Seq(Work \cup ToDownload)
  BY <1>1, <1>2, ThePaths, BrowsedFits
<1>4. /\ screen' \in [view : View, previous : View, modal : Nat, row : Result \cup {<<>>}]
      /\ screen'.modal = 0
  BY <1>1 DEF SearchInv, View
<1> QED BY <1>1, <1>3, <1>4 DEF SearchInv, KeyVars, coreVars, scanVars, netVars, AskedFits

LEMMA BrowseKeysKeep ==
  ASSUME SearchInv, BrowseUp \/ BrowseDown
  PROVE  SearchInv'
<1>1. UNCHANGED <<screen, search, KeyVars>> /\ todo = <<>> /\ screen.modal = 0
  BY DEF BrowseUp, BrowseDown, Key
<1>2. /\ browse.peer \in Sharers /\ browse.path \in Paths /\ browse.entries \in Seq(File)
      /\ browse.entries # <<>> => browse.guid \in Sharers /\ Range(browse.entries) \subseteq Heard(browse.guid)
  BY DEF SearchInv, BrowseFits
<1>3. PICK path \in Paths : Browse(browse.peer, path)
  <2>1. CASE BrowseUp
    BY <1>2, <2>1, ThePaths DEF BrowseUp
  <2>2. CASE BrowseDown
    <3>1. PICK entry \in Range(browse.entries) : IsDirectory(entry) /\ Browse(browse.peer, Enter(browse.path, entry.name))
      BY <2>2 DEF BrowseDown
    <3>2. browse.entries # <<>>
      BY <3>1 DEF Range
    <3>3. browse.guid \in Sharers /\ (entry \in Shared(browse.guid) \/ entry \in Nodes(browse.guid))
      BY <1>2, <3>1, <3>2 DEF Heard
    <3>4. CASE entry \in Shared(browse.guid)
      BY <1>2, <3>1, <3>3, <3>4, ThePaths
    <3>5. CASE entry \in Nodes(browse.guid)
      <4>1. browse.guid \in DOMAIN NickOf /\ entry.name = NickOf[browse.guid]
        BY <3>5 DEF Nodes, Node
      <4>2. Enter(browse.path, entry.name) \in Paths
        BY <1>2, <4>1, ThePaths
      <4> QED BY <3>1, <4>2
    <3> QED BY <3>3, <3>4, <3>5
  <2> QED BY <2>1, <2>2
<1>4. BrowseFits' /\ todo' \in Seq(Work \cup ToDownload)
  BY <1>1, <1>2, <1>3, BrowsedFits
<1> QED BY <1>1, <1>4 DEF SearchInv, KeyVars, coreVars, scanVars, netVars, AskedFits

LEMMA BrowseDownloadKeeps ==
  ASSUME SearchInv, BrowseDownload
  PROVE  SearchInv'
<1>1. UNCHANGED <<uiVars, KeyVars>> /\ screen.modal = 0 /\ browse.guid # NoGuid
  BY DEF BrowseDownload, Key
<1>2. PICK entry \in Range(browse.entries) :
        ~IsDirectory(entry) /\ todo' = <<[task |-> "download", guid |-> browse.guid, entry |-> entry,
                                          of |-> NoScan]>>
  BY DEF BrowseDownload
<1>3. browse.entries # <<>>
  BY <1>2 DEF Range
<1>4. browse.guid \in Sharers /\ (entry \in Shared(browse.guid) \/ entry \in Nodes(browse.guid))
  BY <1>2, <1>3 DEF SearchInv, BrowseFits, Heard
<1>5. entry \in Shared(browse.guid) /\ entry \in File
  BY <1>2, <1>4, ListingsShared
<1>6. [task |-> "download", guid |-> browse.guid, entry |-> entry, of |-> NoScan] \in ToDownload
  <2>1. NoScan \in ScanIds /\ HostTells(NoScan[1], browse.guid) = Shared(browse.guid)
    BY DEF NoScan, ScanIds, HostTells
  <2> HIDE DEF NoScan
  <2> QED BY <1>4, <1>5, <2>1 DEF ToDownload, Truth
<1>7. todo' \in Seq(Work \cup ToDownload)
  BY <1>2, <1>6
<1> QED BY <1>1, <1>7 DEF SearchInv, uiVars, KeyVars, coreVars, scanVars, netVars, AskedFits, BrowseFits

LEMMA StepIs ==
  ASSUME SearchInv, NEW s, Step(s)
  PROVE  /\ todo' \in Seq(Work \cup ToDownload) /\ Len(todo') = Len(todo) - 1
         /\ \A i \in 1 .. Len(todo') : todo'[i] = todo[i + 1]
         /\ 1 \in 1 .. Len(todo) /\ todo[1].task = s
BY DEF Step, SearchInv

\* A step of the handler that leaves what is shown as it is.
LEMMA QuietKeeps ==
  ASSUME SearchInv, NEW s, Step(s), UNCHANGED uiVars,
         (/\ due \subseteq Answer /\ (coreReads = <<>> \/ coreReads \in Answer \X BOOLEAN) /\ sent \in Nat
          /\ posted \in Seq(Result \cup ToDownload \cup Entries) /\ g_last_scanid \in ScanIds
          /\ (g_last_scanid_used = Now => g_last_scanid[1] = "users"))'
  PROVE  SearchInv'
<1>1. AskedFits'
  <2>1. AskedFits /\ screen' = screen /\ search' = search
    BY DEF SearchInv, uiVars
  <2>2. todo \in Seq(Work \cup ToDownload)
    BY DEF SearchInv
  <2>3. /\ \A i \in 1 .. Len(todo') : todo'[i] = todo[i + 1]
        /\ \A i \in 1 .. Len(todo') : i + 1 \in 1 .. Len(todo)
    BY <2>2, StepIs
  <2> QED BY <2>1, <2>3 DEF AskedFits
<1> QED BY <1>1, StepIs DEF SearchInv, BrowseFits, uiVars

\* The new id of a request.
LEMMA IdIs ==
  ASSUME NEW kind \in {"search", "browse", "users"}, sent \in Nat
  PROVE  Id(kind) \in ScanIds /\ Id(kind)[1] = kind
BY DEF Id, ScanIds

\* Answers that a host gives are of what it is asked for.
LEMMA SentIs ==
  ASSUME NEW D \in SUBSET Sharers, NEW answers \in [D -> Seq(File)],
         NEW kind \in {"search", "browse", "users"},
         \A h \in D : Range(answers[h]) \subseteq HostTells(kind, h),
         sent \in Nat, due \subseteq Answer, Send(kind, answers)
  PROVE  sent' \in Nat /\ due' \subseteq Answer
<1>1. sent' = sent + 1
  BY DEF Send
<1>2. ASSUME NEW d \in due', d \notin due
      PROVE  \E h \in D : d = [id |-> Id(kind), guid |-> h, items |-> answers[h]]
  BY <1>2 DEF Send
<1>3. ASSUME NEW h \in D PROVE [id |-> Id(kind), guid |-> h, items |-> answers[h]] \in Answer
  <2>1. PICK id : id = Id(kind)
    OBVIOUS
  <2>2. id \in ScanIds /\ id[1] = kind
    BY <2>1, IdIs
  <2>3. h \in Sharers /\ answers[h] \in Seq(File) /\ Range(answers[h]) \subseteq HostTells(kind, h)
    OBVIOUS
  <2>4. [id |-> id, guid |-> h, items |-> answers[h]] \in Answer
    BY <2>2, <2>3 DEF Answer
  <2> QED BY <2>1, <2>4
<1>4. due' \subseteq Answer
  BY <1>2, <1>3
<1> QED BY <1>1, <1>4

\* What is found, as rows to be shown.
LEMMA ResultsFound ==
  ASSUME NEW h \in Sharers, NEW s \in Seq(File), NEW n \in ScanIds, Range(s) \subseteq HostTells(n[1], h)
  PROVE  [i \in 1 .. Len(s) |-> [task |-> "result", guid |-> h, entry |-> s[i], of |-> n]] \in Seq(Result)
<1>1. ASSUME NEW i \in 1 .. Len(s) PROVE [task |-> "result", guid |-> h, entry |-> s[i], of |-> n] \in Result
  <2>1. s[i] \in File /\ s[i] \in HostTells(n[1], h)
    BY DEF Range
  <2> QED BY <2>1 DEF Result, Truth
<1>2. Len(s) \in Nat
  OBVIOUS
<1> QED BY <1>1, <1>2, SeqDef

LEMMA SendSearchKeeps ==
  ASSUME SearchInv, SendSearch
  PROVE  SearchInv'
<1>i. PICK id : id = Id("search")
  OBVIOUS
<1>1. /\ Step("sendSearch") /\ UNCHANGED <<uiVars, g_browse_path, coreReads>>
      /\ Send("search", Matches) /\ g_last_scanid' = id /\ g_last_scanid_used' = 1
      /\ posted' = posted \o [i \in 1 .. Len(Matches[Self]) |->
                     [task |-> "result", guid |-> Self, entry |-> Matches[Self][i], of |-> id]]
  BY <1>i DEF SendSearch
<1>2. /\ due \subseteq Answer /\ (coreReads = <<>> \/ coreReads \in Answer \X BOOLEAN) /\ sent \in Nat
      /\ posted \in Seq(Result \cup ToDownload \cup Entries)
  BY DEF SearchInv
<1>j. id \in ScanIds /\ id[1] = "search" /\ \A h : HostTells("search", h) = Shared(h)
  BY <1>i, <1>2, IdIs DEF HostTells
<1>3. sent' \in Nat /\ due' \subseteq Answer
  <2>1. Matches \in [Sharers -> Seq(File)]
    BY TheTrees DEF File
  <2>2. \A h \in Sharers : Range(Matches[h]) \subseteq HostTells("search", h)
    BY <1>j, ListingsShared
  <2>3. Sharers \in SUBSET Sharers /\ "search" \in {"search", "browse", "users"}
    OBVIOUS
  <2>4. sent \in Nat /\ due \subseteq Answer /\ Send("search", Matches)
    BY <1>1, <1>2
  <2> QED BY <2>1, <2>2, <2>3, <2>4, SentIs
<1> DEFINE found == [i \in 1 .. Len(Matches[Self]) |->
                      [task |-> "result", guid |-> Self, entry |-> Matches[Self][i], of |-> id]]
<1>4. found \in Seq(Result)
  <2>1. Self \in Sharers /\ Matches[Self] \in Seq(File) /\ Range(Matches[Self]) \subseteq HostTells(id[1], Self)
    BY <1>j, TheTrees, ListingsShared
  <2> QED BY <1>j, <2>1, ResultsFound
<1> HIDE DEF found
<1>5. posted' \in Seq(Result \cup ToDownload \cup Entries)
  <2>1. posted' = posted \o found
    BY <1>1 DEF found
  <2> QED BY <1>2, <1>4, <2>1
<1>6. g_last_scanid' \in ScanIds /\ g_last_scanid_used' # Now
  BY <1>1, <1>j DEF Now
<1> QED BY <1>1, <1>2, <1>3, <1>5, <1>6, QuietKeeps

LEMMA SendBrowseKeeps ==
  ASSUME SearchInv, SendBrowse
  PROVE  SearchInv'
<1> DEFINE answers == [h \in {browse.peer} |-> Tree[h][browse.path]]
<1>1. /\ Step("sendBrowse") /\ UNCHANGED <<uiVars, coreVars, posted>> /\ Send("browse", answers)
  BY DEF SendBrowse
<1>2. /\ due \subseteq Answer /\ (coreReads = <<>> \/ coreReads \in Answer \X BOOLEAN) /\ sent \in Nat
      /\ posted \in Seq(Result \cup ToDownload \cup Entries)
      /\ g_last_scanid \in ScanIds /\ (g_last_scanid_used = Now => g_last_scanid[1] = "users")
      /\ browse.peer \in Sharers /\ browse.path \in Paths
  BY DEF SearchInv, BrowseFits
<1>3. /\ answers \in [{browse.peer} -> Seq(File)]
      /\ \A h \in {browse.peer} : Range(answers[h]) \subseteq HostTells("browse", h)
  BY <1>2, ListingsShared DEF HostTells
<1> HIDE DEF answers
<1>4. sent' \in Nat /\ due' \subseteq Answer
  BY <1>1, <1>2, <1>3, SentIs
<1> QED BY <1>1, <1>2, <1>4, QuietKeeps DEF coreVars, scanVars

LEMMA OtherStepsKeep ==
  ASSUME SearchInv, LeaveBrowseMode \/ CancelSearch \/ EnterBrowseMode \/ DownloadFile
  PROVE  SearchInv'
<1>1. PICK s : Step(s)
  BY DEF LeaveBrowseMode, CancelSearch, EnterBrowseMode, DownloadFile
<1>2. UNCHANGED <<uiVars, coreReads, netVars, posted>>
  BY DEF LeaveBrowseMode, CancelSearch, EnterBrowseMode, DownloadFile, coreVars
<1>3. \/ UNCHANGED scanVars
      \/ g_last_scanid' = NoScan /\ g_last_scanid_used' = 0
  BY DEF LeaveBrowseMode, CancelSearch, EnterBrowseMode, DownloadFile, coreVars
<1>4. /\ due \subseteq Answer /\ (coreReads = <<>> \/ coreReads \in Answer \X BOOLEAN) /\ sent \in Nat
      /\ posted \in Seq(Result \cup ToDownload \cup Entries)
      /\ g_last_scanid \in ScanIds /\ (g_last_scanid_used = Now => g_last_scanid[1] = "users")
  BY DEF SearchInv
<1>5. g_last_scanid' \in ScanIds /\ (g_last_scanid_used' = Now => g_last_scanid'[1] = "users")
  BY <1>3, <1>4 DEF scanVars, NoScan, ScanIds, Now
<1> QED BY <1>1, <1>2, <1>4, <1>5, QuietKeeps DEF netVars

\* A host that has connected, and what is asked then.
LEMMA DoPingKeeps ==
  ASSUME SearchInv, DoPing
  PROVE  SearchInv'
<1> DEFINE nodes == [h \in DOMAIN NickOf |-> <<Node(h)>>]
<1>1. UNCHANGED <<uiVars, g_browse_path, coreReads, todo, posted>>
  BY DEF DoPing
<1>2. /\ due \subseteq Answer /\ sent \in Nat /\ g_last_scanid \in ScanIds
      /\ (g_last_scanid_used = Now => g_last_scanid[1] = "users")
  BY DEF SearchInv
<1>3. DOMAIN NickOf \subseteq Sharers
  BY TheTrees
<1>4. ASSUME NEW h \in DOMAIN NickOf
      PROVE  nodes[h] \in Seq(File) /\ Range(nodes[h]) \subseteq HostTells("users", h)
  <2>1. Nodes(h) = {Node(h)} /\ Node(h) \in File
    BY <1>3, ListingsShared DEF Nodes
  <2>2. nodes[h] = <<Node(h)>>
    OBVIOUS
  <2> QED BY <2>1, <2>2 DEF HostTells, Range
<1>5. nodes \in [DOMAIN NickOf -> Seq(File)]
  BY <1>4
<1>6. CASE Send("users", nodes) /\ g_last_scanid' = Id("users")
  <2> HIDE DEF nodes
  <2>1. sent' \in Nat /\ due' \subseteq Answer
    BY <1>2, <1>3, <1>4, <1>5, <1>6, SentIs
  <2>2. g_last_scanid' \in ScanIds /\ g_last_scanid'[1] = "users"
    BY <1>2, <1>6, IdIs
  <2> QED BY <1>1, <2>1, <2>2 DEF SearchInv, AskedFits, BrowseFits, uiVars, scanVars
<1>7. CASE /\ g_last_scanid_used = Now /\ sent' = sent + 1 /\ UNCHANGED scanVars
           /\ \E H \in SUBSET (DOMAIN NickOf \ {Self}) :
                due' = due \cup {[id |-> g_last_scanid, guid |-> h, items |-> nodes[h]] : h \in H}
  <2> HIDE DEF nodes
  <2>1. ASSUME NEW h \in DOMAIN NickOf
        PROVE  [id |-> g_last_scanid, guid |-> h, items |-> nodes[h]] \in Answer
    <3>1. g_last_scanid \in ScanIds /\ g_last_scanid[1] = "users" /\ h \in Sharers
      BY <1>2, <1>3, <1>7
    <3> QED BY <3>1, <1>4 DEF Answer
  <2>2. due' \subseteq Answer
    BY <1>2, <1>7, <2>1
  <2>3. sent' \in Nat
    BY <1>2, <1>7
  <2> QED BY <1>1, <1>2, <1>7, <2>2, <2>3 DEF SearchInv, AskedFits, BrowseFits, uiVars, scanVars
<1> QED BY <1>6, <1>7 DEF DoPing

LEMMA ClearKeeps ==
  ASSUME SearchInv, ClearResults
  PROVE  SearchInv'
<1>1. Step("clear") /\ search' = <<>> /\ UNCHANGED <<screen, browse, KeyVars>>
  BY DEF ClearResults
<1>2. screen.modal = 0
  BY <1>1, StepIs DEF SearchInv, AskedFits
<1> QED BY <1>1, <1>2, StepIs DEF SearchInv, AskedFits, BrowseFits, KeyVars, coreVars, scanVars, netVars

LEMMA TakeReplyKeeps ==
  ASSUME SearchInv, TakeReply
  PROVE  SearchInv'
<1>1. UNCHANGED <<uiVars, g_browse_path, scanVars, sent, todo, posted>>
  BY DEF TakeReply
<1>d. PICK d \in due : \E n \in {1, Len(d.items)} :
        /\ n <= Len(d.items)
        /\ coreReads' = <<[d EXCEPT !.items = SubSeq(@, 1, n)], g_browse_path # NoPath>>
        /\ due' = (due \ {d}) \cup IF n = Len(d.items) THEN {}
                                   ELSE {[d EXCEPT !.items = SubSeq(@, n + 1, Len(@))]}
  BY DEF TakeReply
<1>2. PICK n \in {1, Len(d.items)} :
        /\ n <= Len(d.items)
        /\ coreReads' = <<[d EXCEPT !.items = SubSeq(@, 1, n)], g_browse_path # NoPath>>
        /\ due' = (due \ {d}) \cup IF n = Len(d.items) THEN {}
                                   ELSE {[d EXCEPT !.items = SubSeq(@, n + 1, Len(@))]}
  BY <1>d
<1>3. d \in Answer /\ due \subseteq Answer
  BY DEF SearchInv
<1>4. d.items \in Seq(File) /\ Len(d.items) \in Nat /\ n \in 0 .. Len(d.items)
  BY <1>2, <1>3 DEF Answer
<1>5. [d EXCEPT !.items = SubSeq(@, 1, n)] \in Answer
  <2>1. SubSeq(d.items, 1, n) \in Seq(File) /\ Range(SubSeq(d.items, 1, n)) \subseteq Range(d.items)
    BY <1>4 DEF Range
  <2> QED BY <1>3, <2>1 DEF Answer
<1>6. [d EXCEPT !.items = SubSeq(@, n + 1, Len(@))] \in Answer
  <2>1. /\ SubSeq(d.items, n + 1, Len(d.items)) \in Seq(File)
        /\ Range(SubSeq(d.items, n + 1, Len(d.items))) \subseteq Range(d.items)
    BY <1>4 DEF Range
  <2> QED BY <1>3, <2>1 DEF Answer
<1>7. due' \subseteq Answer /\ coreReads' \in Answer \X BOOLEAN
  BY <1>2, <1>3, <1>5, <1>6
<1> QED BY <1>1, <1>7 DEF SearchInv, AskedFits, BrowseFits, uiVars, scanVars

LEMMA BrowseReplyKeeps ==
  ASSUME SearchInv, BrowseReply
  PROVE  SearchInv'
<1>1. /\ coreReads # <<>> /\ coreReads' = <<>> /\ UNCHANGED <<uiVars, scanVars, netVars, todo>>
      /\ posted' = Append(posted, [task |-> "entries", guid |-> coreReads[1].guid, entries |-> coreReads[1].items])
  BY DEF BrowseReply
<1>2. coreReads[1] \in Answer
  BY <1>1 DEF SearchInv
<1>3. [task |-> "entries", guid |-> coreReads[1].guid, entries |-> coreReads[1].items] \in Entries
  BY <1>2 DEF Answer, Entries, HostTells, Heard
<1>4. posted' \in Seq(Result \cup ToDownload \cup Entries)
  BY <1>1, <1>3 DEF SearchInv
<1> QED BY <1>1, <1>4 DEF SearchInv, AskedFits, BrowseFits, uiVars, scanVars, netVars

LEMMA SearchReplyKeeps ==
  ASSUME SearchInv, SearchReply
  PROVE  SearchInv'
<1> DEFINE a == coreReads[1]
           found == [i \in 1 .. Len(a.items) |->
                       [task |-> "result", guid |-> a.guid, entry |-> a.items[i], of |-> a.id]]
<1>1. /\ coreReads # <<>> /\ coreReads' = <<>> /\ UNCHANGED <<uiVars, g_browse_path, scanVars, netVars, todo>>
      /\ posted' = posted \/ posted' = posted \o found
  BY DEF SearchReply
<1>2. a \in Answer
  BY <1>1 DEF SearchInv
<1>3. found \in Seq(Result)
  <2>1. a.items \in Seq(File) /\ Len(a.items) \in Nat /\ a.guid \in Sharers /\ a.id \in ScanIds
        /\ Range(a.items) \subseteq HostTells(a.id[1], a.guid)
    BY <1>2 DEF Answer
  <2> HIDE DEF a
  <2> QED BY <2>1, ResultsFound
<1> HIDE DEF found
<1>4. posted' \in Seq(Result \cup ToDownload \cup Entries)
  <2>1. posted \in Seq(Result \cup ToDownload \cup Entries) /\ found \in Seq(Result \cup ToDownload \cup Entries)
    BY <1>3 DEF SearchInv
  <2>2. posted \o found \in Seq(Result \cup ToDownload \cup Entries)
    BY <2>1, ConcatProperties
  <2> QED BY <1>1, <2>1, <2>2
<1> QED BY <1>1, <1>4 DEF SearchInv, AskedFits, BrowseFits, uiVars, scanVars, netVars

LEMMA PostedIs ==
  ASSUME SearchInv, NEW t, SearchTask(t)
  PROVE  /\ todo = <<>> /\ posted[1].task = t /\ posted[1] \in Result \cup ToDownload \cup Entries
         /\ posted' \in Seq(Result \cup ToDownload \cup Entries)
BY DEF SearchTask, SearchInv

LEMMA PostedKeep ==
  ASSUME SearchInv, ShowResult \/ ShowEntries \/ RunDownload
  PROVE  SearchInv'
<1>1. CASE ShowResult
  <2>1. posted[1] \in Result /\ posted' \in Seq(Result \cup ToDownload \cup Entries)
    BY <1>1, PostedIs, TasksDiffer DEF ShowResult
  <2>2. search' = Append(search, posted[1]) /\ UNCHANGED <<screen, browse, todo, coreVars, netVars>>
    BY <1>1 DEF ShowResult
  <2>3. search' \in Seq(Result) /\ AskedFits'
    BY <2>1, <2>2 DEF SearchInv, AskedFits
  <2> QED BY <2>1, <2>2, <2>3 DEF SearchInv, BrowseFits, coreVars, scanVars, netVars
<1>2. CASE ShowEntries
  <2>1. posted[1] \in Entries /\ posted' \in Seq(Result \cup ToDownload \cup Entries)
    BY <1>2, PostedIs, TasksDiffer DEF ShowEntries
  <2>2. /\ browse' = [browse EXCEPT !.guid = posted[1].guid, !.entries = posted[1].entries]
        /\ UNCHANGED <<screen, search, todo, coreVars, netVars>>
    BY <1>2 DEF ShowEntries
  <2>3. BrowseFits'
    BY <2>1, <2>2, TasksDiffer DEF SearchInv, BrowseFits
  <2> QED BY <2>1, <2>2, <2>3 DEF SearchInv, AskedFits, coreVars, scanVars, netVars
<1>3. CASE RunDownload
  <2>1. posted[1] \in ToDownload /\ posted' \in Seq(Result \cup ToDownload \cup Entries)
    BY <1>3, PostedIs, TasksDiffer DEF RunDownload
  <2>2. todo' = <<posted[1]>> /\ UNCHANGED <<uiVars, coreVars, netVars>>
    BY <1>3 DEF RunDownload
  <2>3. todo' \in Seq(Work \cup ToDownload) /\ AskedFits'
    BY <2>1, <2>2, TasksDiffer DEF SearchInv, AskedFits, uiVars
  <2> QED BY <2>1, <2>2, <2>3 DEF SearchInv, BrowseFits, uiVars, coreVars, scanVars, netVars
<1> QED BY <1>1, <1>2, <1>3

LEMMA SearchStarts == SearchInit => SearchInv
<1> SUFFICES ASSUME SearchInit PROVE SearchInv
  OBVIOUS
<1>1. BrowseFits /\ AskedFits
  BY TheTrees, ThePaths DEF SearchInit, BrowseFits, AskedFits
<1>2. screen \in [view : View, previous : View, modal : Nat, row : Result \cup {<<>>}]
  BY DEF SearchInit, View
<1>3. g_last_scanid \in ScanIds /\ g_last_scanid_used # Now
  BY DEF SearchInit, NoScan, ScanIds, Now
<1> QED BY <1>1, <1>2, <1>3 DEF SearchInit, SearchInv

LEMMA SearchSteps == SearchInv /\ [SearchNext]_searchVars => SearchInv'
<1> SUFFICES ASSUME SearchInv, [SearchNext]_searchVars PROVE SearchInv'
  OBVIOUS
<1>1. CASE UNCHANGED searchVars
  BY <1>1 DEF SearchInv, AskedFits, BrowseFits, searchVars, uiVars, coreVars, scanVars, netVars
<1> QED BY <1>1, SearchKeysKeep, AskKeeps, ConfirmKeeps, BrowsePeerKeeps, BrowseKeysKeep, BrowseDownloadKeeps,
           SendSearchKeeps, SendBrowseKeeps, OtherStepsKeep, DoPingKeeps, ClearKeeps, TakeReplyKeeps, BrowseReplyKeeps,
           SearchReplyKeeps, PostedKeep, Zenon
    DEF SearchNext

\* Whatever answers come, late, in parts, for another directory, to another question or from
\* another host, a download is of a file of the host it is asked from, or a row with that host's
\* own nickname in answer to DoPing's query, and of the row that was shown (app.cpp:345-361,
\* 773-787, netkern.cpp:478-499).
THEOREM ShownIsDownloaded == SearchSpec => []DownloadsWhatIsShown
<1>1. SearchInv => DownloadsWhatIsShown
  <2> SUFFICES ASSUME SearchInv PROVE DownloadsWhatIsShown
    OBVIOUS
  <2>1. ASSUME NEW i \in 1 .. Len(todo), todo[i].task = "download"
        PROVE  \/ todo[i].entry \in Shared(todo[i].guid)
               \/ todo[i].of[1] = "users" /\ todo[i].entry = Node(todo[i].guid)
    <3>1. todo[i] \in Work \cup ToDownload
      BY DEF SearchInv
    <3>2. \A t \in Work : t.task # "download"
      BY DEF Work, Do
    <3>3. todo[i].entry \in HostTells(todo[i].of[1], todo[i].guid)
      BY <2>1, <3>1, <3>2, TasksDiffer
    <3> QED BY <3>3 DEF HostTells, Nodes
  <2> QED BY <2>1 DEF DownloadsWhatIsShown, SearchInv, AskedFits
<1> QED BY <1>1, SearchStarts, SearchSteps, PTL DEF SearchSpec
-----------------------------------------------------------------------------
(* PeersView: the rows that are online *)

PeerRecs == [addr : STRING, status : Statuses]
PeerTasks == [task : {"connected"}, peer : PeerRecs] \cup [task : {"status"}, status : Statuses]
Halfway == {"Connecting", "Authenticating"}
Counted(list, kinds) == {i \in 1 .. Len(list) : list[i].status \in kinds}
Many(list, kinds) == Cardinality(Counted(list, kinds))
OneIf(b) == IF b THEN 1 ELSE 0

\* What a task will do to the number of rows online, and to that of rows halfway, which are
\* those a status may be shown in.
TellsOnline(task) ==
    OneIf(IF task.task = "connected" THEN task.peer.status = "Online" ELSE task.status = "Online")
RoomFor(task) ==
    IF task.task = "connected" THEN OneIf(task.peer.status \in Halfway)
    ELSE IF task.status \in Halfway THEN 0 ELSE -1

\* From now until the tasks have run no more rows are online than peers are known to be, and
\* there is a row for each status told; in the end as many are online, and there is one for
\* each that is still to be told.
Climbs(c, shown, known, ahead) ==
    /\ c[0] = shown /\ c[Len(ahead)] = known
    /\ \A k \in 1 .. Len(ahead) : c[k] = c[k - 1] + TellsOnline(ahead[k])
    /\ \A k \in 0 .. Len(ahead) : c[k] <= known
Lasts(b, free, half, ahead) ==
    /\ b[0] = free /\ b[Len(ahead)] >= half
    /\ \A k \in 1 .. Len(ahead) : b[k] = b[k - 1] + RoomFor(ahead[k])
Balanced(known, half, ahead, shown, free) ==
    /\ \E c \in [0 .. Len(ahead) -> Int] : Climbs(c, shown, known, ahead)
    /\ \E b \in [0 .. Len(ahead) -> Nat] : Lasts(b, free, half, ahead)

LEMMA CountedIs ==
  ASSUME NEW list \in Seq(PeerRecs), NEW kinds
  PROVE  IsFiniteSet(Counted(list, kinds)) /\ Many(list, kinds) \in Nat
<1>1. Len(list) \in Nat
  OBVIOUS
<1>2. IsFiniteSet(1 .. Len(list))
  BY <1>1, FS_Interval
<1>3. Counted(list, kinds) \subseteq 1 .. Len(list)
  BY DEF Counted
<1>4. IsFiniteSet(Counted(list, kinds))
  BY <1>2, <1>3, FS_Subset
<1> QED BY <1>4, FS_CardinalityType DEF Many

LEMMA ManyAdded ==
  ASSUME NEW list \in Seq(PeerRecs), NEW p \in PeerRecs, NEW kinds
  PROVE  /\ Append(list, p) \in Seq(PeerRecs)
         /\ Many(Append(list, p), kinds) = Many(list, kinds) + OneIf(p.status \in kinds)
<1> DEFINE n == Len(list) + 1  longer == Append(list, p)
<1>1. /\ longer \in Seq(PeerRecs) /\ Len(longer) = n /\ n \in Nat /\ longer[n] = p
      /\ \A i \in 1 .. Len(list) : longer[i] = list[i]
  OBVIOUS
<1> HIDE DEF longer
<1>2. IsFiniteSet(Counted(list, kinds)) /\ Many(list, kinds) \in Nat /\ n \notin Counted(list, kinds)
  BY <1>1, CountedIs DEF Counted
<1>3. CASE p.status \in kinds
  <2>1. Counted(longer, kinds) = Counted(list, kinds) \cup {n}
    BY <1>1, <1>3 DEF Counted
  <2>2. Many(longer, kinds) = Many(list, kinds) + 1
    BY <1>2, <2>1, FS_AddElement DEF Many
  <2> QED BY <1>1, <1>3, <2>2 DEF OneIf, longer
<1>4. CASE p.status \notin kinds
  <2>1. Counted(longer, kinds) = Counted(list, kinds)
    BY <1>1, <1>4 DEF Counted
  <2>2. Many(longer, kinds) = Many(list, kinds) + 0
    BY <1>2, <2>1 DEF Many
  <2> QED BY <1>1, <1>4, <2>2 DEF OneIf, longer
<1> QED BY <1>3, <1>4

LEMMA ChangedIs ==
  ASSUME NEW list \in Seq(PeerRecs), NEW i \in 1 .. Len(list), NEW status \in Statuses
  PROVE  /\ [list EXCEPT ![i].status = status] \in Seq(PeerRecs)
         /\ Len([list EXCEPT ![i].status = status]) = Len(list)
         /\ [list EXCEPT ![i].status = status][i].status = status
         /\ \A j \in 1 .. Len(list) : [list EXCEPT ![i].status = status][j].addr = list[j].addr
         /\ \A j \in 1 .. Len(list) : j # i => [list EXCEPT ![i].status = status][j] = list[j]
<1> DEFINE p == [list[i] EXCEPT !.status = status]  changed == [list EXCEPT ![i].status = status]
<1>1. list[i] \in PeerRecs
  OBVIOUS
<1>2. p \in PeerRecs /\ p.status = status /\ p.addr = list[i].addr
  BY <1>1 DEF PeerRecs
<1>3. changed = [list EXCEPT ![i] = p]
  OBVIOUS
<1> HIDE DEF p, changed
<1>4. changed \in Seq(PeerRecs) /\ Len(changed) = Len(list) /\ changed[i] = p
      /\ \A j \in 1 .. Len(list) : j # i => changed[j] = list[j]
  BY <1>2, <1>3
<1>5. \A j \in 1 .. Len(list) : changed[j].addr = list[j].addr
  BY <1>2, <1>4
<1> QED BY <1>2, <1>4, <1>5 DEF changed

LEMMA ManyChanged ==
  ASSUME NEW list \in Seq(PeerRecs), NEW i \in 1 .. Len(list), NEW status \in Statuses, NEW kinds
  PROVE  Many([list EXCEPT ![i].status = status], kinds) =
             Many(list, kinds) - OneIf(list[i].status \in kinds) + OneIf(status \in kinds)
<1> DEFINE changed == [list EXCEPT ![i].status = status]
           others == Counted(list, kinds) \ {i}
<1>1. /\ changed \in Seq(PeerRecs) /\ Len(changed) = Len(list) /\ changed[i].status = status
      /\ \A j \in 1 .. Len(list) : j # i => changed[j] = list[j]
  BY ChangedIs
<1> HIDE DEF changed
<1>2. Counted(list, kinds) = IF list[i].status \in kinds THEN others \cup {i} ELSE others
  BY DEF Counted
<1>3. Counted(changed, kinds) = IF status \in kinds THEN others \cup {i} ELSE others
  BY <1>1 DEF Counted
<1>4. IsFiniteSet(others) /\ Cardinality(others) \in Nat /\ i \notin others
  <2>1. IsFiniteSet(Counted(list, kinds))
    BY CountedIs
  <2>2. IsFiniteSet(others)
    BY <2>1, FS_Subset
  <2> QED BY <2>2, FS_CardinalityType
<1> HIDE DEF others
<1>5. Cardinality(others \cup {i}) = Cardinality(others) + 1
  BY <1>4, FS_AddElement
<1>6. Many(list, kinds) = Cardinality(others) + OneIf(list[i].status \in kinds)
  BY <1>2, <1>4, <1>5 DEF Many, OneIf
<1>7. Many(changed, kinds) = Cardinality(others) + OneIf(status \in kinds)
  BY <1>3, <1>4, <1>5 DEF Many, OneIf
<1>8. Many(changed, kinds) = Many(list, kinds) - OneIf(list[i].status \in kinds) + OneIf(status \in kinds)
  BY <1>4, <1>6, <1>7 DEF OneIf
<1> QED BY <1>8 DEF changed

LEMMA WeightsAre ==
  ASSUME NEW task \in PeerTasks
  PROVE  TellsOnline(task) \in {0, 1} /\ RoomFor(task) \in {-1, 0, 1}
BY DEF TellsOnline, RoomFor, OneIf, PeerTasks

\* Nothing is ahead.
LEMMA BalancedNow ==
  ASSUME NEW known \in Int, NEW half \in Nat, NEW free \in Nat, half <= free
  PROVE  Balanced(known, half, <<>>, known, free)
<1>1. Climbs([k \in 0 .. 0 |-> known], known, known, <<>>)
  BY DEF Climbs
<1>2. Lasts([k \in 0 .. 0 |-> free], free, half, <<>>)
  BY DEF Lasts
<1>3. [k \in 0 .. 0 |-> known] \in [0 .. 0 -> Int] /\ [k \in 0 .. 0 |-> free] \in [0 .. 0 -> Nat] /\ Len(<<>>) = 0
  OBVIOUS
<1> QED BY <1>1, <1>2, <1>3 DEF Balanced

\* A task more.
LEMMA BalancedWith ==
  ASSUME NEW known \in Int, NEW half \in Nat, NEW ahead \in Seq(PeerTasks), NEW shown \in Int, NEW free \in Nat,
         Balanced(known, half, ahead, shown, free), NEW task \in PeerTasks,
         NEW known2 \in Int, known2 = known + TellsOnline(task),
         NEW half2 \in Nat, half2 <= half + RoomFor(task)
  PROVE  Append(ahead, task) \in Seq(PeerTasks) /\ Balanced(known2, half2, Append(ahead, task), shown, free)
<1> DEFINE n == Len(ahead)  longer == Append(ahead, task)
<1>1. /\ longer \in Seq(PeerTasks) /\ Len(longer) = n + 1 /\ n \in Nat /\ longer[n + 1] = task
      /\ \A k \in 1 .. n : longer[k] = ahead[k]
  OBVIOUS
<1>2. TellsOnline(task) \in {0, 1} /\ RoomFor(task) \in {-1, 0, 1}
  BY WeightsAre
<1> HIDE DEF longer, n
<1>3. PICK c \in [0 .. n -> Int] : Climbs(c, shown, known, ahead)
  BY DEF Balanced, n
<1>4. PICK b \in [0 .. n -> Nat] : Lasts(b, free, half, ahead)
  BY DEF Balanced, n
<1> DEFINE c2 == [k \in 0 .. n + 1 |-> IF k = n + 1 THEN known2 ELSE c[k]]
           b2 == [k \in 0 .. n + 1 |-> IF k = n + 1 THEN b[n] + RoomFor(task) ELSE b[k]]
<1>5. /\ c[0] = shown /\ c[n] = known
      /\ \A k \in 1 .. n : c[k] = c[k - 1] + TellsOnline(ahead[k])
      /\ \A k \in 0 .. n : c[k] <= known
  BY <1>3 DEF Climbs, n
<1>6. /\ b[0] = free /\ b[n] >= half
      /\ \A k \in 1 .. n : b[k] = b[k - 1] + RoomFor(ahead[k])
  BY <1>4 DEF Lasts, n
<1>7. b[n] \in Nat /\ b[n] + RoomFor(task) \in Nat /\ b[n] + RoomFor(task) >= half2
  BY <1>1, <1>2, <1>6
<1>8. /\ c2[0] = shown /\ c2[n + 1] = known2 /\ c2[n] = known
      /\ b2[0] = free /\ b2[n + 1] = b[n] + RoomFor(task) /\ b2[n] = b[n]
      /\ \A k \in 0 .. n : c2[k] = c[k] /\ b2[k] = b[k]
  BY <1>1, <1>5, <1>6
<1>9. c2 \in [0 .. n + 1 -> Int] /\ b2 \in [0 .. n + 1 -> Nat]
  BY <1>1, <1>7
<1> HIDE DEF c2, b2
<1>10. \A k \in 1 .. n + 1 : /\ c2[k] = c2[k - 1] + TellsOnline(longer[k])
                           /\ b2[k] = b2[k - 1] + RoomFor(longer[k])
  <2> TAKE k \in 1 .. n + 1
  <2>1. CASE k = n + 1
    BY <1>1, <1>8, <2>1
  <2>2. CASE k # n + 1
    <3>1. k \in 1 .. n /\ k \in 0 .. n /\ k - 1 \in 0 .. n
      BY <1>1, <2>2
    <3> QED BY <1>1, <1>5, <1>6, <1>8, <3>1
  <2> QED BY <2>1, <2>2
<1>11. \A k \in 0 .. n + 1 : c2[k] <= known2
  <2> TAKE k \in 0 .. n + 1
  <2>1. CASE k = n + 1
    BY <1>8, <2>1
  <2>2. CASE k # n + 1
    <3>1. k \in 0 .. n
      BY <1>1, <2>2
    <3>2. c2[k] = c[k] /\ c[k] \in Int /\ c[k] <= known
      BY <1>5, <1>8, <3>1
    <3> QED BY <1>2, <3>2
  <2> QED BY <2>1, <2>2
<1>12. Climbs(c2, shown, known2, longer) /\ Lasts(b2, free, half2, longer)
  BY <1>1, <1>7, <1>8, <1>10, <1>11 DEF Climbs, Lasts
<1>13. Balanced(known2, half2, longer, shown, free)
  BY <1>1, <1>9, <1>12 DEF Balanced
<1> QED BY <1>1, <1>13 DEF longer

\* The first task has run.
LEMMA BalancedAfter ==
  ASSUME NEW known \in Int, NEW half \in Nat, NEW ahead \in Seq(PeerTasks), NEW shown \in Int, NEW free \in Nat,
         Balanced(known, half, ahead, shown, free), ahead # <<>>
  PROVE  /\ free + RoomFor(ahead[1]) \in Nat
         /\ Balanced(known, half, Tail(ahead), shown + TellsOnline(ahead[1]), free + RoomFor(ahead[1]))
<1> DEFINE n == Len(ahead)  rest == Tail(ahead)
<1>1. /\ rest \in Seq(PeerTasks) /\ Len(rest) = n - 1 /\ n \in Nat /\ n - 1 \in Nat /\ ahead[1] \in PeerTasks
      /\ \A k \in 1 .. n - 1 : rest[k] = ahead[k + 1]
  OBVIOUS
<1> HIDE DEF rest, n
<1>2. PICK c \in [0 .. n -> Int] : Climbs(c, shown, known, ahead)
  BY DEF Balanced, n
<1>3. PICK b \in [0 .. n -> Nat] : Lasts(b, free, half, ahead)
  BY DEF Balanced, n
<1> DEFINE c2 == [k \in 0 .. n - 1 |-> c[k + 1]]
           b2 == [k \in 0 .. n - 1 |-> b[k + 1]]
<1>4. /\ c[0] = shown /\ c[n] = known
      /\ \A k \in 1 .. n : c[k] = c[k - 1] + TellsOnline(ahead[k])
      /\ \A k \in 0 .. n : c[k] <= known
  BY <1>2 DEF Climbs, n
<1>5. /\ b[0] = free /\ b[n] >= half
      /\ \A k \in 1 .. n : b[k] = b[k - 1] + RoomFor(ahead[k])
  BY <1>3 DEF Lasts, n
<1>6. c2 \in [0 .. n - 1 -> Int] /\ b2 \in [0 .. n - 1 -> Nat]
  BY <1>1
<1>7. 1 \in 1 .. n /\ 1 \in 0 .. n /\ 0 \in 0 .. n - 1 /\ n - 1 \in 0 .. n - 1
  BY <1>1
<1>8. c[1] = shown + TellsOnline(ahead[1]) /\ b[1] = free + RoomFor(ahead[1]) /\ b[1] \in Nat
  BY <1>4, <1>5, <1>7
<1>9. \A k \in 0 .. n - 1 : c2[k] = c[k + 1] /\ b2[k] = b[k + 1] /\ k + 1 \in 1 .. n /\ k + 1 \in 0 .. n
  BY <1>1
<1>10. c2[0] = c[1] /\ b2[0] = b[1] /\ c2[n - 1] = known /\ b2[n - 1] = b[n]
  BY <1>1, <1>4, <1>7, <1>9
<1> HIDE DEF c2, b2
<1>11. \A k \in 1 .. n - 1 : /\ c2[k] = c2[k - 1] + TellsOnline(rest[k])
                           /\ b2[k] = b2[k - 1] + RoomFor(rest[k])
  <2> TAKE k \in 1 .. n - 1
  <2>1. k \in 0 .. n - 1 /\ k - 1 \in 0 .. n - 1 /\ (k - 1) + 1 = k /\ (k + 1) - 1 = k
    BY <1>1
  <2>2. c2[k] = c[k + 1] /\ b2[k] = b[k + 1] /\ c2[k - 1] = c[k] /\ b2[k - 1] = b[k] /\ k + 1 \in 1 .. n
    BY <1>9, <2>1
  <2> QED BY <1>1, <1>4, <1>5, <2>1, <2>2
<1>12. \A k \in 0 .. n - 1 : c2[k] <= known
  BY <1>4, <1>9
<1>13. Climbs(c2, shown + TellsOnline(ahead[1]), known, rest) /\ Lasts(b2, free + RoomFor(ahead[1]), half, rest)
  BY <1>1, <1>5, <1>8, <1>10, <1>11, <1>12 DEF Climbs, Lasts
<1>14. Balanced(known, half, rest, shown + TellsOnline(ahead[1]), free + RoomFor(ahead[1]))
  BY <1>1, <1>6, <1>13 DEF Balanced
<1> QED BY <1>8, <1>14 DEF rest

\* A row more is halfway.
LEMMA BalancedAgain ==
  ASSUME NEW known \in Int, NEW half \in Nat, NEW ahead \in Seq(PeerTasks), NEW shown \in Int, NEW free \in Nat,
         Balanced(known, half, ahead, shown, free)
  PROVE  Balanced(known, half, ahead, shown, free + 1)
<1> DEFINE n == Len(ahead)
<1>1. n \in Nat /\ \A k \in 1 .. n : ahead[k] \in PeerTasks
  OBVIOUS
<1> HIDE DEF n
<1>2. PICK b \in [0 .. n -> Nat] : Lasts(b, free, half, ahead)
  BY DEF Balanced, n
<1> DEFINE b2 == [k \in 0 .. n |-> b[k] + 1]
<1>3. /\ b[0] = free /\ b[n] >= half
      /\ \A k \in 1 .. n : b[k] = b[k - 1] + RoomFor(ahead[k])
  BY <1>2 DEF Lasts, n
<1>4. b2 \in [0 .. n -> Nat] /\ b2[0] = free + 1 /\ b2[n] = b[n] + 1 /\ b[n] \in Nat
  BY <1>1, <1>3
<1>5. \A k \in 1 .. n : b2[k] = b2[k - 1] + RoomFor(ahead[k])
  <2> TAKE k \in 1 .. n
  <2>1. k \in 0 .. n /\ k - 1 \in 0 .. n /\ RoomFor(ahead[k]) \in {-1, 0, 1}
    BY <1>1, WeightsAre
  <2>2. b2[k] = b[k] + 1 /\ b2[k - 1] = b[k - 1] + 1 /\ b[k] \in Nat /\ b[k - 1] \in Nat
    BY <2>1
  <2> QED BY <1>3, <2>1, <2>2
<1> HIDE DEF b2
<1>6. Lasts(b2, free + 1, half, ahead)
  BY <1>3, <1>4, <1>5 DEF Lasts, n
<1> QED BY <1>4, <1>6 DEF Balanced, n

LEMMA BalancedShows ==
  ASSUME NEW known \in Int, NEW half \in Nat, NEW ahead \in Seq(PeerTasks), NEW shown \in Int, NEW free \in Nat,
         Balanced(known, half, ahead, shown, free)
  PROVE  shown <= known /\ (ahead = <<>> => shown = known /\ half <= free)
<1>1. PICK c \in [0 .. Len(ahead) -> Int] : Climbs(c, shown, known, ahead)
  BY DEF Balanced
<1>2. PICK b \in [0 .. Len(ahead) -> Nat] : Lasts(b, free, half, ahead)
  BY DEF Balanced
<1>3. Len(ahead) \in Nat /\ 0 \in 0 .. Len(ahead)
  OBVIOUS
<1>4. ASSUME ahead = <<>> PROVE Len(ahead) = 0
  BY <1>4
<1> QED BY <1>1, <1>2, <1>3, <1>4 DEF Climbs, Lasts


CoreLists == {list \in Seq(PeerRecs) : \A i \in 1 .. Len(list) : list[i].status \in {"Connecting", "Online"}}
Passes == [peers : CoreLists, tasks : Seq(PeerTasks)]

LEMMA PeerIs ==
  ASSUME NEW addr \in STRING, NEW status \in Statuses
  PROVE  /\ Peer(addr, status) \in PeerRecs /\ Peer(addr, status).status = status
         /\ ConnectedTask(Peer(addr, status)) \in PeerTasks
         /\ TellsOnline(ConnectedTask(Peer(addr, status))) = OneIf(status = "Online")
         /\ RoomFor(ConnectedTask(Peer(addr, status))) = OneIf(status \in Halfway)
BY DEF Peer, PeerRecs, ConnectedTask, PeerTasks, TellsOnline, RoomFor

LEMMA StatusIs ==
  ASSUME NEW status \in Statuses
  PROVE  /\ StatusTask(status) \in PeerTasks
         /\ TellsOnline(StatusTask(status)) = OneIf(status = "Online")
         /\ RoomFor(StatusTask(status)) = IF status \in Halfway THEN 0 ELSE -1
BY DEF StatusTask, PeerTasks, TellsOnline, RoomFor

\* One queue leaves the peers and the tasks in balance.
LEMMA UpdatedBalances ==
  ASSUME NEW known \in Passes, NEW conn \in STRING
  PROVE  /\ Updated(known, conn) \in Passes
         /\ \A shown \in Int, free \in Nat :
               Balanced(Many(known.peers, {"Online"}), Many(known.peers, Halfway), known.tasks, shown, free) =>
               Balanced(Many(Updated(known, conn).peers, {"Online"}), Many(Updated(known, conn).peers, Halfway),
                        Updated(known, conn).tasks, shown, free)
<1> DEFINE list == known.peers  ahead == known.tasks
           found == {i \in 1 .. Len(list) : list[i].addr = conn}
           next == Updated(known, conn)
<1>1. list \in Seq(PeerRecs) /\ ahead \in Seq(PeerTasks) /\ list \in CoreLists
      /\ \A i \in 1 .. Len(list) : list[i].status \in {"Connecting", "Online"}
  BY DEF Passes, CoreLists
<1>2. Many(list, {"Online"}) \in Nat /\ Many(list, Halfway) \in Nat
  BY <1>1, CountedIs
<1>3. CASE found = {}
  <2> DEFINE p == Peer(conn, "Online")
  <2>1. next = [peers |-> Append(list, p), tasks |-> Append(ahead, ConnectedTask(p))]
    BY <1>3 DEF Updated
  <2>2. /\ p \in PeerRecs /\ p.status = "Online" /\ ConnectedTask(p) \in PeerTasks
        /\ TellsOnline(ConnectedTask(p)) = 1 /\ RoomFor(ConnectedTask(p)) = 0
    BY PeerIs DEF Statuses, OneIf, Halfway
  <2> HIDE DEF p, list, ahead, next
  <2>3. /\ Append(list, p) \in Seq(PeerRecs)
        /\ Many(Append(list, p), {"Online"}) = Many(list, {"Online"}) + 1
        /\ Many(Append(list, p), Halfway) = Many(list, Halfway)
    <3>1. Append(list, p) \in Seq(PeerRecs) /\ \A kinds :
              Many(Append(list, p), kinds) = Many(list, kinds) + OneIf(p.status \in kinds)
      BY <1>1, <2>2, ManyAdded
    <3>2. OneIf(p.status \in {"Online"}) = 1 /\ OneIf(p.status \in Halfway) = 0
      BY <2>2 DEF OneIf, Halfway
    <3> QED BY <1>2, <3>1, <3>2
  <2>4. \A i \in 1 .. Len(Append(list, p)) : Append(list, p)[i].status \in {"Connecting", "Online"}
    BY <1>1, <2>2
  <2>5. Append(ahead, ConnectedTask(p)) \in Seq(PeerTasks)
    BY <1>1, <2>2
  <2>6. next \in Passes /\ next.peers = Append(list, p) /\ next.tasks = Append(ahead, ConnectedTask(p))
    BY <2>1, <2>3, <2>4, <2>5 DEF Passes, CoreLists
  <2>7. ASSUME NEW shown \in Int, NEW free \in Nat, Balanced(Many(list, {"Online"}), Many(list, Halfway), ahead, shown, free)
        PROVE  Balanced(Many(next.peers, {"Online"}), Many(next.peers, Halfway), next.tasks, shown, free)
    <3>1. Many(next.peers, {"Online"}) \in Int /\ Many(next.peers, Halfway) \in Nat
          /\ Many(next.peers, {"Online"}) = Many(list, {"Online"}) + TellsOnline(ConnectedTask(p))
          /\ Many(next.peers, Halfway) <= Many(list, Halfway) + RoomFor(ConnectedTask(p))
          /\ Many(list, {"Online"}) \in Int
      BY <1>2, <2>2, <2>3, <2>6
    <3> QED BY <1>1, <1>2, <2>2, <2>6, <2>7, <3>1, BalancedWith
  <2> QED BY <2>6, <2>7 DEF list, ahead, next
<1>4. CASE found # {} /\ list[Min(found)].status = "Online"
  <2>1. next = known
    BY <1>4 DEF Updated
  <2> QED BY <2>1
<1>5. CASE found # {} /\ list[Min(found)].status # "Online"
  <2> DEFINE i == Min(found)  changed == [list EXCEPT ![i].status = "Online"]
  <2>1. i \in 1 .. Len(list)
    <3>1. found \in SUBSET Nat
      OBVIOUS
    <3>2. Min(found) \in found
      BY <1>5, <3>1, MinIs
    <3> QED BY <3>2
  <2>2. next = [peers |-> changed, tasks |-> Append(ahead, StatusTask("Online"))]
    BY <1>5 DEF Updated
  <2>3. list[i].status = "Connecting"
    BY <1>1, <1>5, <2>1
  <2>4. /\ StatusTask("Online") \in PeerTasks /\ "Online" \in Statuses
        /\ TellsOnline(StatusTask("Online")) = 1 /\ RoomFor(StatusTask("Online")) = -1
    BY StatusIs DEF Statuses, OneIf, Halfway
  <2> HIDE DEF i, list, ahead, next, found
  <2>5. /\ changed \in Seq(PeerRecs) /\ Len(changed) = Len(list)
        /\ Many(changed, {"Online"}) = Many(list, {"Online"}) + 1
        /\ Many(changed, Halfway) = Many(list, Halfway) - 1
    <3>1. changed \in Seq(PeerRecs) /\ Len(changed) = Len(list) /\ \A kinds :
              Many(changed, kinds) = Many(list, kinds) - OneIf(list[i].status \in kinds) + OneIf("Online" \in kinds)
      BY <1>1, <2>1, <2>4, ChangedIs, ManyChanged
    <3>2. /\ OneIf(list[i].status \in {"Online"}) = 0 /\ OneIf("Online" \in {"Online"}) = 1
          /\ OneIf(list[i].status \in Halfway) = 1 /\ OneIf("Online" \in Halfway) = 0
      BY <2>3 DEF OneIf, Halfway
    <3> HIDE DEF changed
    <3> QED BY <1>2, <3>1, <3>2
  <2>6. \A j \in 1 .. Len(changed) : changed[j].status \in {"Connecting", "Online"}
    <3>1. \A j \in 1 .. Len(list) : list[j] \in PeerRecs
      BY <1>1
    <3>2. \A j \in 1 .. Len(list) : changed[j].status = IF j = i THEN "Online" ELSE list[j].status
      BY <1>1, <2>1, <3>1 DEF PeerRecs
    <3> HIDE DEF changed
    <3> QED BY <1>1, <2>5, <3>2
  <2> HIDE DEF changed
  <2>7. Append(ahead, StatusTask("Online")) \in Seq(PeerTasks)
    BY <1>1, <2>4
  <2>8. next \in Passes /\ next.peers = changed /\ next.tasks = Append(ahead, StatusTask("Online"))
    BY <2>2, <2>5, <2>6, <2>7 DEF Passes, CoreLists
  <2>9. ASSUME NEW shown \in Int, NEW free \in Nat, Balanced(Many(list, {"Online"}), Many(list, Halfway), ahead, shown, free)
        PROVE  Balanced(Many(next.peers, {"Online"}), Many(next.peers, Halfway), next.tasks, shown, free)
    <3>1. /\ Many(next.peers, {"Online"}) \in Int /\ Many(list, {"Online"}) \in Int
          /\ Many(next.peers, Halfway) \in Nat
          /\ Many(next.peers, {"Online"}) = Many(list, {"Online"}) + TellsOnline(StatusTask("Online"))
          /\ Many(next.peers, Halfway) <= Many(list, Halfway) + RoomFor(StatusTask("Online"))
      <4>1. Many(changed, Halfway) \in Nat
        BY <2>5, CountedIs
      <4> QED BY <1>2, <2>4, <2>5, <2>8, <4>1
    <3> QED BY <1>1, <1>2, <2>4, <2>8, <2>9, <3>1, BalancedWith
  <2> QED BY <2>8, <2>9 DEF list, ahead, next
<1> QED BY <1>3, <1>4, <1>5


\* What the pass has after each of the queues.
PassGoes(g, base, s, last) ==
    g[0] = base /\ g[Len(s)] = last /\ \A k \in 1 .. Len(s) : g[k] = Updated(g[k - 1], s[k])

LEMMA UpdatedInTurn ==
  ASSUME NEW A, NEW E, NEW base \in A, NEW s \in Seq(E), \A a \in A, e \in E : Updated(a, e) \in A
  PROVE  \E g \in [0 .. Len(s) -> A] : PassGoes(g, base, s, FoldLeft(Updated, base, s))
<1> DEFINE D == SUBSET (1 .. Len(s))
           Further(f, t) == IF t = {} THEN base ELSE Updated(f[t \ {Max(t)}], s[Max(t)])
           Iter == CHOOSE iter : iter = [t \in D |-> Further(iter, t)]
           next == [p \in A \X E |-> Updated(p[1], p[2])]
<1>1. FoldLeft(Updated, base, s) = Iter[1 .. Len(s)]
  <2>1. DOMAIN s = 1 .. Len(s)
    OBVIOUS
  <2> HIDE DEF Updated
  <2> QED BY <2>1 DEF FoldLeft, MapThenFoldSet
<1>2. next \in [A \X E -> A] /\ \A a \in A, e \in E : next[<<a, e>>] = Updated(a, e)
  OBVIOUS
<1> HIDE DEF next
<1>3. PICK f \in [D -> A] : FoldsDown(f, base, next, s)
  BY <1>2, FoldExists
<1>4. ASSUME NEW t \in D, t # {} PROVE Max(t) \in 1 .. Len(s) /\ s[Max(t)] \in E /\ t \ {Max(t)} \in D
  <2>1. Len(s) \in Nat
    OBVIOUS
  <2>2. Max(t) \in t
    BY <1>4, <2>1, GreatestIs, Zenon
  <2> DEFINE m == Max(t)
  <2> HIDE DEF m
  <2>3. m \in 1 .. Len(s)
    BY <2>2 DEF m
  <2>4. s[m] \in E /\ t \ {m} \in D
    BY <2>3
  <2> QED BY <2>3, <2>4 DEF m
<1>5. \A t \in D : f[t] = Further(f, t)
  BY <1>2, <1>3, <1>4 DEF FoldsDown
<1>6. f = [t \in D |-> Further(f, t)]
  <2> HIDE DEF Further
  <2> QED BY <1>3, <1>5
<1>7. Iter = [t \in D |-> Further(Iter, t)]
  <2> HIDE DEF Further
  <2> QED BY <1>6, Zenon
<1> HIDE DEF Iter
<1>8. \A t \in D : Iter[t] = Further(Iter, t)
  <2> DEFINE h == [t \in D |-> Further(Iter, t)]
  <2>1. \A t \in D : h[t] = Further(Iter, t)
    <3> HIDE DEF Further
    <3> QED OBVIOUS
  <2> HIDE DEF h, Further
  <2>2. Iter = h
    BY <1>7, Zenon DEF h
  <2> QED BY <2>1, <2>2
<1>9. FallsTo(A, Iter, base, next, s)
  BY <1>2, <1>4, <1>8 DEF FallsTo
<1>10. PICK g \in [0 .. Len(s) -> A] : GoesUp(g, base, next, s, Iter[1 .. Len(s)])
  BY <1>2, <1>9, FoldGoes
<1>11. \A k \in 1 .. Len(s) : g[k] = Updated(g[k - 1], s[k])
  <2> TAKE k \in 1 .. Len(s)
  <2>1. g[k - 1] \in A /\ s[k] \in E
    OBVIOUS
  <2> QED BY <1>2, <1>10, <2>1 DEF GoesUp
<1>12. g[0] = base /\ g[Len(s)] = Iter[1 .. Len(s)]
  BY <1>10 DEF GoesUp
<1> QED BY <1>1, <1>10, <1>11, <1>12 DEF PassGoes

\* So does the pass over the queues.
LEMMA PassBalances ==
  ASSUME NEW list \in CoreLists, NEW ahead \in Seq(PeerTasks), NEW cs \in Seq(STRING), NEW shown \in Int, NEW free \in Nat,
         Balanced(Many(list, {"Online"}), Many(list, Halfway), ahead, shown, free)
  PROVE  LET known == FoldLeft(Updated, [peers |-> list, tasks |-> ahead], cs)
         IN  known \in Passes /\ Balanced(Many(known.peers, {"Online"}), Many(known.peers, Halfway), known.tasks, shown, free)
<1> DEFINE base == [peers |-> list, tasks |-> ahead]
           Good(p) == Balanced(Many(p.peers, {"Online"}), Many(p.peers, Halfway), p.tasks, shown, free)
           last == FoldLeft(Updated, base, cs)
<1>1. base \in Passes /\ base.peers = list /\ base.tasks = ahead
  BY DEF Passes
<1>2. Good(base)
  BY <1>1
<1>3. \A a \in Passes, e \in STRING : Updated(a, e) \in Passes /\ (Good(a) => Good(Updated(a, e)))
  BY UpdatedBalances
<1> HIDE DEF base, Good
<1>4. PICK g \in [0 .. Len(cs) -> Passes] : PassGoes(g, base, cs, last)
  <2>1. \A a \in Passes, e \in STRING : Updated(a, e) \in Passes
    BY <1>3
  <2> QED BY <1>1, <2>1, UpdatedInTurn
<1> HIDE DEF last
<1> DEFINE S == {k \in 0 .. Len(cs) : Good(g[k])}
<1>5. Len(cs) \in Nat /\ 0 \in S
  BY <1>2, <1>4 DEF PassGoes
<1>6. ASSUME NEW k \in 1 .. Len(cs), k - 1 \in S PROVE k \in S
  <2>1. g[k - 1] \in Passes /\ cs[k] \in STRING /\ Good(g[k - 1]) /\ k \in 0 .. Len(cs)
    BY <1>6
  <2>2. Good(g[k])
    BY <1>3, <1>4, <2>1 DEF PassGoes
  <2> QED BY <2>1, <2>2
<1>7. \A k \in 0 .. Len(cs) : k \in S
  <2> HIDE DEF S
  <2> QED BY <1>5, <1>6, InTurn
<1>8. last \in Passes /\ Good(last)
  BY <1>4, <1>5, <1>7 DEF PassGoes
<1> QED BY <1>8 DEF last, base, Good

CorePeers == IF simulated THEN simPeers ELSE peers
ShownNow == Many(rows, {"Online"}) - (IF demo THEN Many(DemoRows, {"Online"}) ELSE 0)

PeersTyped ==
    /\ simulated \in BOOLEAN /\ demo \in BOOLEAN /\ (~simulated => simPeers = <<>>)
    /\ peers \in CoreLists /\ simPeers \in Seq(PeerRecs) /\ rows \in Seq(PeerRecs)
    /\ added \in Seq(Typed) /\ conns \in Seq(STRING)
    /\ peerTasks \in Seq(PeerTasks) /\ removed \in Nat
AskedAboutARow ==
    asked # NotAsked => asked.row \in 1 .. Len(rows) /\ rows[asked.row].addr = asked.peer.addr
RowsBalance ==
    removed = 0 => Balanced(Many(CorePeers, {"Online"}), Many(CorePeers, Halfway), peerTasks, ShownNow, Many(rows, Halfway))
PeersInv == PeersTyped /\ AskedAboutARow /\ RowsBalance

LEMMA NoneIsCounted ==
  ASSUME NEW kinds
  PROVE  Many(<<>>, kinds) = 0 /\ <<>> \in Seq(PeerRecs) /\ <<>> \in CoreLists /\ <<>> \in Seq(PeerTasks)
<1>1. Counted(<<>>, kinds) = {}
  BY DEF Counted
<1>2. <<>> \in Seq(PeerRecs) /\ <<>> \in Seq(PeerTasks)
  OBVIOUS
<1>3. <<>> \in CoreLists
  BY <1>2 DEF CoreLists
<1> QED BY <1>1, <1>2, <1>3, FS_EmptySet DEF Many

LEMMA CorePeersAre ==
  ASSUME PeersTyped
  PROVE  /\ CorePeers \in Seq(PeerRecs) /\ Many(CorePeers, {"Online"}) \in Nat /\ Many(CorePeers, Halfway) \in Nat
         /\ ShownNow \in Int /\ Many(rows, {"Online"}) \in Nat /\ Many(rows, Halfway) \in Nat
         /\ Many(DemoRows, {"Online"}) \in Nat
<1>1. /\ CorePeers \in Seq(PeerRecs) /\ rows \in Seq(PeerRecs) /\ DemoRows \in Seq(PeerRecs)
  BY PeersAssumption DEF PeersTyped, CorePeers, CoreLists, PeerRecs
<1>2. Many(CorePeers, {"Online"}) \in Nat /\ Many(CorePeers, Halfway) \in Nat
      /\ Many(rows, {"Online"}) \in Nat /\ Many(rows, Halfway) \in Nat /\ Many(DemoRows, {"Online"}) \in Nat
  BY <1>1, CountedIs
<1> QED BY <1>1, <1>2 DEF ShownNow

LEMMA PeersStart == PeersInit => PeersInv
<1> SUFFICES ASSUME PeersInit PROVE PeersInv
  OBVIOUS
<1>1. PeersTyped
  <2>1. <<>> \in Seq(PeerRecs) /\ <<>> \in CoreLists /\ <<>> \in Seq(PeerTasks)
    BY NoneIsCounted
  <2>2. <<>> \in Seq(Typed) /\ <<>> \in Seq(STRING) /\ 0 \in Nat
    OBVIOUS
  <2>3. DemoRows \in Seq(PeerRecs)
    BY PeersAssumption DEF PeerRecs
  <2> QED BY <2>1, <2>2, <2>3 DEF PeersInit, PeersTyped
<1>2. AskedAboutARow
  BY DEF PeersInit, AskedAboutARow
<1>3. CorePeers = <<>> /\ peerTasks = <<>>
  BY DEF PeersInit, CorePeers
<1>4. Many(CorePeers, {"Online"}) = 0 /\ Many(CorePeers, Halfway) = 0
  BY <1>3, NoneIsCounted
<1>5. ShownNow = 0 /\ Many(rows, Halfway) \in Nat
  <2>1. Many(rows, {"Online"}) \in Nat /\ Many(DemoRows, {"Online"}) \in Nat /\ Many(rows, Halfway) \in Nat
    BY <1>1, CorePeersAre
  <2>2. rows = IF demo THEN DemoRows ELSE <<>>
    BY DEF PeersInit
  <2>3. Many(rows, {"Online"}) = IF demo THEN Many(DemoRows, {"Online"}) ELSE 0
    BY <2>2, NoneIsCounted
  <2> QED BY <2>1, <2>3 DEF ShownNow
<1>6. Balanced(0, 0, <<>>, 0, Many(rows, Halfway))
  BY <1>5, BalancedNow
<1>7. RowsBalance
  BY <1>3, <1>4, <1>5, <1>6 DEF RowsBalance
<1> QED BY <1>1, <1>2, <1>7 DEF PeersInv

LEMMA ConnectToPeerKeeps ==
  ASSUME PeersInv, ConnectToPeer
  PROVE  PeersInv'
<1> USE DEF PeersInv
<1>1. PICK addr \in Typed :
        /\ added' = Append(added, addr)
        /\ peers' = Append(peers, Peer(addr, "Connecting"))
        /\ simPeers' = IF simulated THEN Append(simPeers, Peer(addr, "Connecting")) ELSE simPeers
        /\ peerTasks' = Append(peerTasks, ConnectedTask(Peer(addr, "Connecting")))
  BY DEF ConnectToPeer
<1>2. UNCHANGED <<simulated, demo, conns, made, rows, asked, removed>>
  BY DEF ConnectToPeer
<1> DEFINE p == Peer(addr, "Connecting")  task == ConnectedTask(p)
<1>3. /\ p \in PeerRecs /\ p.status = "Connecting" /\ task \in PeerTasks
      /\ TellsOnline(task) = 0 /\ RoomFor(task) = 1
  <2>1. addr \in STRING /\ "Connecting" \in Statuses
    BY PeersAssumption DEF Statuses
  <2> QED BY <2>1, PeerIs DEF OneIf, Halfway
<1> HIDE DEF p, task
<1>4. peers' = Append(peers, p) /\ simPeers' = IF simulated THEN Append(simPeers, p) ELSE simPeers
  BY <1>1 DEF p
<1>5. peerTasks' = Append(peerTasks, task)
  BY <1>1 DEF p, task
<1>6. CorePeers' = Append(CorePeers, p)
  BY <1>2, <1>4 DEF CorePeers
<1>7. /\ CorePeers' \in Seq(PeerRecs) /\ Many(CorePeers', {"Online"}) = Many(CorePeers, {"Online"}) + 0
      /\ Many(CorePeers', Halfway) = Many(CorePeers, Halfway) + 1
  <2>1. CorePeers' \in Seq(PeerRecs) /\ \A kinds : Many(CorePeers', kinds) = Many(CorePeers, kinds) + OneIf(p.status \in kinds)
    BY <1>3, <1>6, CorePeersAre, ManyAdded
  <2>2. OneIf(p.status \in {"Online"}) = 0 /\ OneIf(p.status \in Halfway) = 1
    BY <1>3 DEF OneIf, Halfway
  <2> QED BY <2>1, <2>2
<1>8. PeersTyped'
  <2>1. peers' \in CoreLists
    <3>1. Append(peers, p) \in Seq(PeerRecs)
      BY <1>3 DEF PeersTyped, CoreLists
    <3>2. \A i \in 1 .. Len(Append(peers, p)) : Append(peers, p)[i].status \in {"Connecting", "Online"}
      BY <1>3 DEF PeersTyped, CoreLists
    <3> QED BY <1>4, <3>1, <3>2 DEF CoreLists
  <2>2. simPeers' \in Seq(PeerRecs) /\ added' \in Seq(Typed) /\ peerTasks' \in Seq(PeerTasks)
    BY <1>1, <1>3, <1>4, <1>5 DEF PeersTyped
  <2>3. ~simulated => simPeers' = <<>>
    BY <1>4 DEF PeersTyped
  <2> QED BY <1>2, <2>1, <2>2, <2>3 DEF PeersTyped
<1>9. AskedAboutARow'
  BY <1>2 DEF AskedAboutARow
<1>10. RowsBalance'
  <2> SUFFICES ASSUME removed = 0
               PROVE  Balanced(Many(CorePeers', {"Online"}), Many(CorePeers', Halfway), peerTasks', ShownNow, Many(rows, Halfway))
    BY <1>2 DEF RowsBalance, ShownNow
  <2>1. Balanced(Many(CorePeers, {"Online"}), Many(CorePeers, Halfway), peerTasks, ShownNow, Many(rows, Halfway))
    BY DEF RowsBalance
  <2>2. /\ Many(CorePeers, {"Online"}) \in Int /\ Many(CorePeers, Halfway) \in Nat /\ peerTasks \in Seq(PeerTasks)
        /\ ShownNow \in Int /\ Many(rows, Halfway) \in Nat
    BY CorePeersAre DEF PeersTyped
  <2>3. /\ Many(CorePeers', {"Online"}) \in Int /\ Many(CorePeers', {"Online"}) = Many(CorePeers, {"Online"}) + TellsOnline(task)
        /\ Many(CorePeers', Halfway) \in Nat /\ Many(CorePeers', Halfway) <= Many(CorePeers, Halfway) + RoomFor(task)
    BY <1>3, <1>7, <2>2
  <2>4. Balanced(Many(CorePeers', {"Online"}), Many(CorePeers', Halfway), Append(peerTasks, task), ShownNow, Many(rows, Halfway))
    BY <1>3, <2>1, <2>2, <2>3, BalancedWith
  <2> QED BY <1>5, <2>4
<1> QED BY <1>8, <1>9, <1>10

LEMMA UpdateKeeps ==
  ASSUME PeersInv, UpdatePeerListFromConnections
  PROVE  PeersInv'
<1> USE DEF PeersInv
<1> DEFINE known == FoldLeft(Updated, [peers |-> peers, tasks |-> peerTasks], conns)
<1>1. /\ ~simulated /\ peers' = known.peers /\ peerTasks' = known.tasks
      /\ UNCHANGED <<simulated, demo, simPeers, added, conns, made, rows, asked, removed>>
  BY DEF UpdatePeerListFromConnections
<1> HIDE DEF known
<1>2. peers \in CoreLists /\ peerTasks \in Seq(PeerTasks) /\ conns \in Seq(STRING) /\ removed \in Nat
      /\ ShownNow \in Int /\ Many(rows, Halfway) \in Nat
  BY CorePeersAre DEF PeersTyped
<1>3. known \in Passes
  <2>1. [peers |-> peers, tasks |-> peerTasks] \in Passes
    BY <1>2 DEF Passes
  <2>2. \A a \in Passes, e \in STRING : Updated(a, e) \in Passes
    BY UpdatedBalances
  <2>3. PICK g \in [0 .. Len(conns) -> Passes] : PassGoes(g, [peers |-> peers, tasks |-> peerTasks], conns, known)
    BY <1>2, <2>1, <2>2, UpdatedInTurn DEF known
  <2>4. Len(conns) \in 0 .. Len(conns) /\ known = g[Len(conns)]
    BY <1>2, <2>3 DEF PassGoes
  <2> QED BY <2>4
<1>4. PeersTyped'
  BY <1>1, <1>3 DEF PeersTyped, Passes
<1>5. AskedAboutARow'
  BY <1>1 DEF AskedAboutARow
<1>6. RowsBalance'
  <2> SUFFICES ASSUME removed = 0
               PROVE  Balanced(Many(peers', {"Online"}), Many(peers', Halfway), peerTasks', ShownNow, Many(rows, Halfway))
    BY <1>1 DEF RowsBalance, ShownNow, CorePeers
  <2>1. Balanced(Many(peers, {"Online"}), Many(peers, Halfway), peerTasks, ShownNow, Many(rows, Halfway))
    BY <1>1 DEF RowsBalance, CorePeers
  <2>2. Balanced(Many(known.peers, {"Online"}), Many(known.peers, Halfway), known.tasks, ShownNow, Many(rows, Halfway))
    BY <1>2, <2>1, PassBalances DEF known
  <2> QED BY <1>1, <2>2
<1> QED BY <1>4, <1>5, <1>6

LEMMA SimulationKeeps ==
  ASSUME PeersInv, ProcessSimulation
  PROVE  PeersInv'
<1> USE DEF PeersInv
<1>1. PICK i \in 1 .. Len(simPeers) :
      \E status \in CASE simPeers[i].status = "Connecting" -> {"Authenticating"}
                      [] simPeers[i].status = "Authenticating" -> {"Online", "Failed"}
                      [] OTHER -> {} :
          /\ simPeers' = [simPeers EXCEPT ![i].status = status]
          /\ peerTasks' = Append(peerTasks, StatusTask(status))
  BY DEF ProcessSimulation
<1>2. PICK status \in Statuses :
          /\ simPeers' = [simPeers EXCEPT ![i].status = status]
          /\ peerTasks' = Append(peerTasks, StatusTask(status))
          /\ simPeers[i].status \in Halfway
          /\ status \in Halfway \/ status \in {"Online", "Failed"}
  BY <1>1 DEF Statuses, Halfway
<1>3. UNCHANGED <<simulated, demo, peers, added, conns, made, rows, asked, removed>>
  BY DEF ProcessSimulation
<1>4. simulated /\ simPeers \in Seq(PeerRecs)
  BY DEF PeersTyped
<1>5. /\ simPeers' \in Seq(PeerRecs)
      /\ \A kinds : Many(simPeers', kinds) =
                        Many(simPeers, kinds) - OneIf(simPeers[i].status \in kinds) + OneIf(status \in kinds)
  <2>1. simPeers' \in Seq(PeerRecs)
    BY <1>2, <1>4, ChangedIs
  <2>2. \A kinds : Many(simPeers', kinds) =
                       Many(simPeers, kinds) - OneIf(simPeers[i].status \in kinds) + OneIf(status \in kinds)
    BY <1>2, <1>4, ManyChanged
  <2> QED BY <2>1, <2>2
<1> DEFINE task == StatusTask(status)
<1>6. /\ task \in PeerTasks /\ TellsOnline(task) = OneIf(status = "Online")
      /\ RoomFor(task) = IF status \in Halfway THEN 0 ELSE -1
  BY StatusIs
<1>7. peerTasks' = Append(peerTasks, task)
  BY <1>2
<1> HIDE DEF task
<1>8. PeersTyped'
  BY <1>3, <1>4, <1>5, <1>6, <1>7 DEF PeersTyped
<1>9. AskedAboutARow'
  BY <1>3 DEF AskedAboutARow
<1>10. RowsBalance'
  <2> SUFFICES ASSUME removed = 0
               PROVE  Balanced(Many(simPeers', {"Online"}), Many(simPeers', Halfway), peerTasks', ShownNow, Many(rows, Halfway))
    BY <1>3, <1>4 DEF RowsBalance, ShownNow, CorePeers
  <2>1. Balanced(Many(simPeers, {"Online"}), Many(simPeers, Halfway), peerTasks, ShownNow, Many(rows, Halfway))
    BY <1>4 DEF RowsBalance, CorePeers
  <2>2. /\ Many(simPeers, {"Online"}) \in Nat /\ Many(simPeers, Halfway) \in Nat /\ peerTasks \in Seq(PeerTasks)
        /\ ShownNow \in Int /\ Many(rows, Halfway) \in Nat
        /\ Many(simPeers', {"Online"}) \in Nat /\ Many(simPeers', Halfway) \in Nat
    BY <1>4, <1>5, CorePeersAre, CountedIs DEF PeersTyped
  <2>3. /\ OneIf(simPeers[i].status \in {"Online"}) = 0 /\ OneIf(simPeers[i].status \in Halfway) = 1
        /\ OneIf(status \in {"Online"}) = TellsOnline(task) /\ OneIf(status \in Halfway) = 1 + RoomFor(task)
        /\ TellsOnline(task) \in Int /\ RoomFor(task) \in Int
    BY <1>2, <1>6 DEF OneIf, Halfway
  <2>4. /\ Many(simPeers', {"Online"}) = Many(simPeers, {"Online"}) + TellsOnline(task)
        /\ Many(simPeers', Halfway) = Many(simPeers, Halfway) + RoomFor(task)
    <3>1. Many(simPeers', {"Online"}) =
              Many(simPeers, {"Online"}) - OneIf(simPeers[i].status \in {"Online"}) + OneIf(status \in {"Online"})
      BY <1>5
    <3>2. Many(simPeers', Halfway) =
              Many(simPeers, Halfway) - OneIf(simPeers[i].status \in Halfway) + OneIf(status \in Halfway)
      BY <1>5
    <3> QED BY <2>2, <2>3, <3>1, <3>2
  <2>5. Many(simPeers, {"Online"}) \in Int /\ Many(simPeers', {"Online"}) \in Int
        /\ Many(simPeers', Halfway) <= Many(simPeers, Halfway) + RoomFor(task)
    BY <2>2, <2>3, <2>4
  <2>6. Balanced(Many(simPeers', {"Online"}), Many(simPeers', Halfway), Append(peerTasks, task), ShownNow, Many(rows, Halfway))
    BY <1>6, <2>1, <2>2, <2>4, <2>5, BalancedWith
  <2> QED BY <1>7, <2>6
<1> QED BY <1>8, <1>9, <1>10

LEMMA ConnectionsKeep ==
  ASSUME PeersInv, ConnectionMade \/ ConnectionLost
  PROVE  PeersInv'
<1> USE DEF PeersInv
<1>1. UNCHANGED <<simulated, demo, peers, simPeers, added, rows, asked, removed, peerTasks>>
  BY DEF ConnectionMade, ConnectionLost
<1>2. conns' \in Seq(STRING)
  <2>1. CASE ConnectionMade
    <3>1. PICK addr \in {Reported(a) : a \in Range(added)} \cup Incoming : conns' = Append(conns, addr)
      BY <2>1 DEF ConnectionMade
    <3>2. Range(added) \subseteq Typed
      BY DEF PeersTyped, Range
    <3>3. addr \in STRING
      BY <3>1, <3>2, PeersAssumption
    <3>4. conns \in Seq(STRING)
      BY DEF PeersTyped
    <3>5. conns' = Append(conns, addr)
      BY <3>1
    <3>6. Append(conns, addr) \in Seq(STRING)
      BY <3>3, <3>4, AppendProperties
    <3> QED BY <3>5, <3>6
  <2>2. CASE ConnectionLost
    <3>1. PICK i \in 1 .. Len(conns) : conns' = RemoveAt(conns, i)
      BY <2>2 DEF ConnectionLost
    <3>2. conns \in Seq(STRING)
      BY DEF PeersTyped
    <3> QED BY <3>1, <3>2, RemovedIs
  <2> QED BY <2>1, <2>2
<1>3. PeersTyped'
  BY <1>1, <1>2 DEF PeersTyped
<1>4. AskedAboutARow' /\ RowsBalance'
  BY <1>1 DEF AskedAboutARow, RowsBalance, CorePeers, ShownNow
<1> QED BY <1>3, <1>4

LEMMA ShowPeerKeeps ==
  ASSUME PeersInv, ShowPeer
  PROVE  PeersInv'
<1> USE DEF PeersInv
<1> DEFINE task == peerTasks[1]
<1>1. /\ peerTasks # <<>> /\ task.task = "connected" /\ rows' = Append(rows, task.peer) /\ peerTasks' = Tail(peerTasks)
      /\ UNCHANGED <<simulated, demo, peers, simPeers, added, conns, made, asked, removed>>
  BY DEF ShowPeer
<1>2. /\ peerTasks \in Seq(PeerTasks) /\ rows \in Seq(PeerRecs)
  BY DEF PeersTyped
<1>3. task \in PeerTasks /\ peerTasks' \in Seq(PeerTasks)
  BY <1>1, <1>2
<1>4. task.peer \in PeerRecs
  BY <1>1, <1>3 DEF PeerTasks
<1>5. /\ TellsOnline(task) = OneIf(task.peer.status \in {"Online"}) /\ RoomFor(task) = OneIf(task.peer.status \in Halfway)
  BY <1>1, <1>4 DEF TellsOnline, RoomFor, OneIf
<1> HIDE DEF task
<1>6. /\ rows' \in Seq(PeerRecs) /\ Many(rows', {"Online"}) = Many(rows, {"Online"}) + TellsOnline(task)
      /\ Many(rows', Halfway) = Many(rows, Halfway) + RoomFor(task)
  <2>1. \A kinds : rows' \in Seq(PeerRecs) /\ Many(rows', kinds) = Many(rows, kinds) + OneIf(task.peer.status \in kinds)
    BY <1>1, <1>2, <1>4, ManyAdded
  <2> QED BY <1>5, <2>1
<1>7. PeersTyped'
  BY <1>1, <1>3, <1>6 DEF PeersTyped
<1>8. AskedAboutARow'
  <2> SUFFICES ASSUME asked # NotAsked PROVE asked.row \in 1 .. Len(rows') /\ rows'[asked.row].addr = asked.peer.addr
    BY <1>1 DEF AskedAboutARow
  <2>1. asked.row \in 1 .. Len(rows) /\ rows[asked.row].addr = asked.peer.addr
    BY DEF AskedAboutARow
  <2>2. Len(rows') = Len(rows) + 1 /\ \A i \in 1 .. Len(rows) : rows'[i] = rows[i] /\ i \in 1 .. Len(rows')
    BY <1>1, <1>2, <1>4
  <2> QED BY <2>1, <2>2
<1>9. RowsBalance'
  <2> SUFFICES ASSUME removed = 0
               PROVE  Balanced(Many(CorePeers, {"Online"}), Many(CorePeers, Halfway), peerTasks', ShownNow', Many(rows', Halfway))
    BY <1>1 DEF RowsBalance, CorePeers
  <2>1. Balanced(Many(CorePeers, {"Online"}), Many(CorePeers, Halfway), peerTasks, ShownNow, Many(rows, Halfway))
    BY DEF RowsBalance
  <2>2. /\ Many(CorePeers, {"Online"}) \in Int /\ Many(CorePeers, Halfway) \in Nat
        /\ ShownNow \in Int /\ Many(rows, Halfway) \in Nat /\ Many(rows, {"Online"}) \in Nat
        /\ Many(DemoRows, {"Online"}) \in Nat
    BY CorePeersAre
  <2>3. Balanced(Many(CorePeers, {"Online"}), Many(CorePeers, Halfway), Tail(peerTasks),
                 ShownNow + TellsOnline(task), Many(rows, Halfway) + RoomFor(task))
    BY <1>1, <1>2, <2>1, <2>2, BalancedAfter DEF task
  <2>4. ShownNow' = ShownNow + TellsOnline(task)
    <3>1. TellsOnline(task) \in {0, 1}
      BY <1>3, WeightsAre
    <3> QED BY <1>1, <1>6, <2>2, <3>1 DEF ShownNow
  <2> QED BY <1>1, <1>6, <2>3, <2>4
<1> QED BY <1>7, <1>8, <1>9

LEMMA LastUnfinished ==
  ASSUME PeersTyped, Unfinished # {}
  PROVE  Max(Unfinished) \in 1 .. Len(rows) /\ rows[Max(Unfinished)].status \in Halfway
<1>1. Len(rows) \in Nat
  BY DEF PeersTyped
<1>2. Unfinished \in SUBSET (1 .. Len(rows))
  BY DEF Unfinished
<1>3. Max(Unfinished) \in Unfinished
  BY <1>1, <1>2, GreatestIs, Zenon
<1> DEFINE i == Max(Unfinished)
<1> HIDE DEF i
<1>4. i \in 1 .. Len(rows) /\ rows[i].status \in Halfway
  BY <1>3 DEF i, Unfinished, Halfway
<1> QED BY <1>4 DEF i

\* The row of a status: there is one for each that ends a connection's beginning.
LEMMA ShowStatusKeeps ==
  ASSUME PeersInv, ShowStatus
  PROVE  PeersInv'
<1> USE DEF PeersInv
<1> DEFINE task == peerTasks[1]
<1>1. /\ peerTasks # <<>> /\ task.task = "status" /\ peerTasks' = Tail(peerTasks)
      /\ rows' = IF Unfinished = {} THEN rows ELSE [rows EXCEPT ![Max(Unfinished)].status = task.status]
      /\ UNCHANGED <<simulated, demo, peers, simPeers, added, conns, made, asked, removed>>
  BY DEF ShowStatus
<1>2. /\ peerTasks \in Seq(PeerTasks) /\ rows \in Seq(PeerRecs)
  BY DEF PeersTyped
<1>3. task \in PeerTasks /\ peerTasks' \in Seq(PeerTasks)
  BY <1>1, <1>2
<1>4. task.status \in Statuses /\ TellsOnline(task) = OneIf(task.status \in {"Online"})
      /\ RoomFor(task) = IF task.status \in Halfway THEN 0 ELSE -1
  BY <1>1, <1>3 DEF PeerTasks, TellsOnline, RoomFor, OneIf
<1> HIDE DEF task
<1>5. Unfinished = Counted(rows, Halfway)
  BY DEF Unfinished, Counted, Halfway
<1>6. /\ rows' \in Seq(PeerRecs) /\ Len(rows') = Len(rows)
      /\ \A j \in 1 .. Len(rows) : rows'[j].addr = rows[j].addr
  <2>1. CASE Unfinished = {}
    BY <1>1, <1>2, <2>1
  <2>2. CASE Unfinished # {}
    <3>1. Max(Unfinished) \in 1 .. Len(rows)
      BY <2>2, LastUnfinished
    <3> DEFINE i == Max(Unfinished)  changed == [rows EXCEPT ![i].status = task.status]
    <3>2. rows' = changed
      BY <1>1, <2>2
    <3> HIDE DEF i
    <3>3. i \in 1 .. Len(rows)
      BY <3>1 DEF i
    <3>4. /\ changed \in Seq(PeerRecs) /\ Len(changed) = Len(rows)
          /\ \A j \in 1 .. Len(rows) : changed[j].addr = rows[j].addr
      <4> DEFINE status == task.status
      <4>1. status \in Statuses
        BY <1>4
      <4> HIDE DEF status
      <4> DEFINE set == [rows EXCEPT ![i].status = status]
      <4>2. /\ set \in Seq(PeerRecs) /\ Len(set) = Len(rows)
            /\ \A j \in 1 .. Len(rows) : set[j].addr = rows[j].addr
        BY <1>2, <3>3, <4>1, ChangedIs
      <4> QED BY <4>2 DEF status
    <3> HIDE DEF changed
    <3> QED BY <3>2, <3>4
  <2> QED BY <2>1, <2>2
<1>7. PeersTyped'
  BY <1>1, <1>3, <1>6 DEF PeersTyped
<1>8. AskedAboutARow'
  BY <1>1, <1>6 DEF AskedAboutARow
<1>9. RowsBalance'
  <2> SUFFICES ASSUME removed = 0
               PROVE  Balanced(Many(CorePeers, {"Online"}), Many(CorePeers, Halfway), peerTasks', ShownNow', Many(rows', Halfway))
    BY <1>1 DEF RowsBalance, CorePeers
  <2>1. Balanced(Many(CorePeers, {"Online"}), Many(CorePeers, Halfway), peerTasks, ShownNow, Many(rows, Halfway))
    BY DEF RowsBalance
  <2>2. /\ Many(CorePeers, {"Online"}) \in Int /\ Many(CorePeers, Halfway) \in Nat
        /\ ShownNow \in Int /\ Many(rows, Halfway) \in Nat /\ Many(rows, {"Online"}) \in Nat
        /\ Many(DemoRows, {"Online"}) \in Nat
    BY CorePeersAre
  <2>3. /\ Many(rows, Halfway) + RoomFor(task) \in Nat
        /\ Balanced(Many(CorePeers, {"Online"}), Many(CorePeers, Halfway), Tail(peerTasks),
                    ShownNow + TellsOnline(task), Many(rows, Halfway) + RoomFor(task))
    BY <1>1, <1>2, <2>1, <2>2, BalancedAfter DEF task
  <2>4. /\ Many(rows', {"Online"}) = Many(rows, {"Online"}) + TellsOnline(task)
        /\ Many(rows', Halfway) = Many(rows, Halfway) + RoomFor(task)
    <3>1. CASE Unfinished = {}
      <4>1. Many(rows, Halfway) = 0
        BY <1>5, <3>1, FS_EmptySet DEF Many
      <4>2. RoomFor(task) = 0 /\ task.status \in Halfway
        BY <1>4, <2>3, <4>1
      <4>3. TellsOnline(task) = 0
        BY <1>4, <4>2 DEF OneIf, Halfway
      <4> QED BY <1>1, <2>2, <3>1, <4>2, <4>3
    <3>2. CASE Unfinished # {}
      <4> DEFINE i == Max(Unfinished)
      <4>1. i \in 1 .. Len(rows) /\ rows[i].status \in Halfway
        BY <3>2, LastUnfinished
      <4>2. rows' = [rows EXCEPT ![i].status = task.status]
        BY <1>1, <3>2
      <4> HIDE DEF i
      <4>3. \A kinds : Many(rows', kinds) =
                           Many(rows, kinds) - OneIf(rows[i].status \in kinds) + OneIf(task.status \in kinds)
        <5> DEFINE changed == [rows EXCEPT ![i].status = task.status]
        <5>1. \A kinds : Many(changed, kinds) =
                            Many(rows, kinds) - OneIf(rows[i].status \in kinds) + OneIf(task.status \in kinds)
          BY <1>2, <1>4, <4>1, ChangedIs, ManyChanged
        <5> HIDE DEF changed
        <5> QED BY <4>2, <5>1 DEF changed
      <4>4. OneIf(rows[i].status \in {"Online"}) = 0 /\ OneIf(rows[i].status \in Halfway) = 1
            /\ OneIf(task.status \in Halfway) = 1 + RoomFor(task) /\ TellsOnline(task) \in Int /\ RoomFor(task) \in Int
        BY <1>4, <4>1 DEF OneIf, Halfway
      <4>5. /\ Many(rows', {"Online"}) =
                   Many(rows, {"Online"}) - OneIf(rows[i].status \in {"Online"}) + OneIf(task.status \in {"Online"})
            /\ Many(rows', Halfway) =
                   Many(rows, Halfway) - OneIf(rows[i].status \in Halfway) + OneIf(task.status \in Halfway)
        BY <4>3
      <4> QED BY <1>4, <2>2, <4>4, <4>5
    <3> QED BY <3>1, <3>2
  <2>5. ShownNow' = ShownNow + TellsOnline(task)
    <3>1. TellsOnline(task) \in {0, 1}
      BY <1>3, WeightsAre
    <3> QED BY <1>1, <2>2, <2>4, <3>1 DEF ShownNow
  <2> QED BY <1>1, <2>3, <2>4, <2>5
<1> QED BY <1>7, <1>8, <1>9

LEMMA DisconnectKeeps ==
  ASSUME PeersInv, AskDisconnect \/ ConfirmDisconnect \/ CancelDisconnect
  PROVE  PeersInv'
<1> USE DEF PeersInv
<1>1. UNCHANGED <<simulated, demo, peers, simPeers, added, conns, made, peerTasks>>
  BY DEF AskDisconnect, ConfirmDisconnect, CancelDisconnect
<1>2. CASE AskDisconnect
  <2>1. UNCHANGED <<rows, removed>> /\ \E i \in 1 .. Len(rows) : asked' = [row |-> i, peer |-> rows[i]]
    BY <1>2 DEF AskDisconnect
  <2>2. AskedAboutARow'
    BY <2>1 DEF AskedAboutARow
  <2>3. PeersTyped' /\ RowsBalance'
    BY <1>1, <2>1 DEF PeersTyped, RowsBalance, CorePeers, ShownNow
  <2> QED BY <2>2, <2>3
<1>3. CASE ConfirmDisconnect
  <2>1. asked # NotAsked /\ rows' = RemoveAt(rows, asked.row) /\ removed' = removed + 1 /\ asked' = NotAsked
    BY <1>3 DEF ConfirmDisconnect
  <2>2. rows' \in Seq(PeerRecs)
    BY <2>1, RemovedIs DEF PeersTyped, AskedAboutARow
  <2>3. removed' \in Nat /\ removed' # 0
    BY <2>1 DEF PeersTyped
  <2>4. NotAsked' = NotAsked
    BY DEF NotAsked, Peer
  <2>5. AskedAboutARow'
    BY <2>1, <2>4 DEF AskedAboutARow
  <2> QED BY <1>1, <2>2, <2>3, <2>5 DEF PeersTyped, RowsBalance
<1>4. CASE CancelDisconnect
  <2>1. asked' = NotAsked /\ UNCHANGED <<rows, removed>>
    BY <1>4 DEF CancelDisconnect
  <2>2. AskedAboutARow'
    BY <2>1 DEF AskedAboutARow
  <2>3. PeersTyped' /\ RowsBalance'
    BY <1>1, <2>1 DEF PeersTyped, RowsBalance, CorePeers, ShownNow
  <2> QED BY <2>2, <2>3
<1> QED BY <1>2, <1>3, <1>4

LEMMA RetryKeeps ==
  ASSUME PeersInv, RetryRow
  PROVE  PeersInv'
<1> USE DEF PeersInv
<1>1. PICK i \in 1 .. Len(rows) : rows[i].status = "Failed" /\ rows' = [rows EXCEPT ![i].status = "Connecting"]
  BY DEF RetryRow
<1>2. asked = NotAsked /\ UNCHANGED <<simulated, demo, peers, simPeers, added, conns, made, asked, removed, peerTasks>>
  BY DEF RetryRow
<1>3. rows \in Seq(PeerRecs) /\ "Connecting" \in Statuses
  BY DEF PeersTyped, Statuses
<1>4. /\ rows' \in Seq(PeerRecs)
      /\ \A kinds : Many(rows', kinds) = Many(rows, kinds) - OneIf(rows[i].status \in kinds) + OneIf("Connecting" \in kinds)
  <2> DEFINE connecting == "Connecting"  changed == [rows EXCEPT ![i].status = connecting]
  <2>1. connecting \in Statuses
    BY <1>3
  <2> HIDE DEF connecting
  <2>2. /\ changed \in Seq(PeerRecs)
        /\ \A kinds : Many(changed, kinds) = Many(rows, kinds) - OneIf(rows[i].status \in kinds) + OneIf(connecting \in kinds)
    BY <1>3, <2>1, ChangedIs, ManyChanged
  <2>3. rows' = changed
    BY <1>1 DEF connecting
  <2> HIDE DEF changed
  <2> QED BY <2>2, <2>3 DEF connecting
<1>5. /\ OneIf(rows[i].status \in {"Online"}) = 0 /\ OneIf("Connecting" \in {"Online"}) = 0
      /\ OneIf(rows[i].status \in Halfway) = 0 /\ OneIf("Connecting" \in Halfway) = 1
  BY <1>1 DEF OneIf, Halfway
<1>6. Many(rows', {"Online"}) = Many(rows, {"Online"}) /\ Many(rows', Halfway) = Many(rows, Halfway) + 1
  <2>1. /\ Many(rows', {"Online"}) =
               Many(rows, {"Online"}) - OneIf(rows[i].status \in {"Online"}) + OneIf("Connecting" \in {"Online"})
        /\ Many(rows', Halfway) = Many(rows, Halfway) - OneIf(rows[i].status \in Halfway) + OneIf("Connecting" \in Halfway)
    BY <1>4
  <2>2. Many(rows, {"Online"}) \in Nat /\ Many(rows, Halfway) \in Nat
    BY CorePeersAre
  <2> QED BY <1>5, <2>1, <2>2
<1>7. PeersTyped'
  BY <1>2, <1>4 DEF PeersTyped
<1>8. AskedAboutARow'
  BY <1>2 DEF AskedAboutARow, NotAsked, Peer
<1>9. RowsBalance'
  <2> SUFFICES ASSUME removed = 0
               PROVE  Balanced(Many(CorePeers, {"Online"}), Many(CorePeers, Halfway), peerTasks, ShownNow, Many(rows, Halfway) + 1)
    BY <1>2, <1>6 DEF RowsBalance, CorePeers, ShownNow
  <2>1. Balanced(Many(CorePeers, {"Online"}), Many(CorePeers, Halfway), peerTasks, ShownNow, Many(rows, Halfway))
    BY DEF RowsBalance
  <2>2. /\ Many(CorePeers, {"Online"}) \in Int /\ Many(CorePeers, Halfway) \in Nat /\ peerTasks \in Seq(PeerTasks)
        /\ ShownNow \in Int /\ Many(rows, Halfway) \in Nat
    BY CorePeersAre DEF PeersTyped
  <2> QED BY <2>1, <2>2, BalancedAgain
<1> QED BY <1>7, <1>8, <1>9

\* As many rows are online as peers are known to be, once the view has heard of them.
THEOREM OnlineAgrees == PeersSpec => []AsManyOnline
<1>1. PeersInit => PeersInv
  BY PeersStart
<1>2. PeersInv /\ [PeersNext]_peersVars => PeersInv'
  <2> SUFFICES ASSUME PeersInv, [PeersNext]_peersVars PROVE PeersInv'
    OBVIOUS
  <2>1. CASE UNCHANGED peersVars
    <3>1. UNCHANGED <<simulated, demo, peers, simPeers, added, conns, made, rows, asked, removed, peerTasks>>
      BY <2>1 DEF peersVars
    <3>2. NotAsked' = NotAsked
      BY DEF NotAsked, Peer
    <3> QED BY <3>1, <3>2 DEF PeersInv, PeersTyped, AskedAboutARow, RowsBalance, CorePeers, ShownNow
  <2>2. CASE ConnectToPeer
    BY <2>2, ConnectToPeerKeeps
  <2>3. CASE ConnectionMade \/ ConnectionLost
    BY <2>3, ConnectionsKeep
  <2>4. CASE UpdatePeerListFromConnections
    BY <2>4, UpdateKeeps
  <2>5. CASE ProcessSimulation
    BY <2>5, SimulationKeeps
  <2>6. CASE ShowPeer
    BY <2>6, ShowPeerKeeps
  <2>7. CASE ShowStatus
    BY <2>7, ShowStatusKeeps
  <2>8. CASE AskDisconnect \/ ConfirmDisconnect \/ CancelDisconnect
    BY <2>8, DisconnectKeeps
  <2>9. CASE RetryRow
    BY <2>9, RetryKeeps
  <2> QED BY <2>1, <2>2, <2>3, <2>4, <2>5, <2>6, <2>7, <2>8, <2>9 DEF PeersNext
<1>3. PeersInv => AsManyOnline
  <2> SUFFICES ASSUME PeersInv PROVE AsManyOnline
    OBVIOUS
  <2> DEFINE known == IF simulated THEN Online(simPeers) ELSE Online(peers)
             shown == Online(rows) - (IF demo THEN Online(DemoRows) ELSE 0)
  <2>1. \A list : Online(list) = Many(list, {"Online"})
    <3> TAKE list
    <3>1. {i \in 1 .. Len(list) : list[i].status = "Online"} = Counted(list, {"Online"})
      BY DEF Counted
    <3> QED BY <3>1 DEF Online, Many
  <2>2. known = Many(CorePeers, {"Online"}) /\ shown = ShownNow
    BY <2>1 DEF CorePeers, ShownNow
  <2> HIDE DEF known, shown
  <2>3. removed = 0 => shown <= known /\ (peerTasks = <<>> => shown = known)
    <3> SUFFICES ASSUME removed = 0 PROVE ShownNow <= Many(CorePeers, {"Online"}) /\ (peerTasks = <<>> => ShownNow = Many(CorePeers, {"Online"}))
      BY <2>2
    <3>1. Balanced(Many(CorePeers, {"Online"}), Many(CorePeers, Halfway), peerTasks, ShownNow, Many(rows, Halfway))
      BY DEF PeersInv, RowsBalance
    <3>2. /\ Many(CorePeers, {"Online"}) \in Int /\ Many(CorePeers, Halfway) \in Nat /\ peerTasks \in Seq(PeerTasks)
          /\ ShownNow \in Int /\ Many(rows, Halfway) \in Nat
      BY CorePeersAre DEF PeersTyped, PeersInv
    <3> QED BY <3>1, <3>2, BalancedShows
  <2>4. asked # NotAsked => asked.row <= Len(rows) /\ rows[asked.row].addr = asked.peer.addr
    BY DEF PeersInv, PeersTyped, AskedAboutARow
  <2> QED BY <2>3, <2>4 DEF AsManyOnline, known, shown
<1> QED BY <1>1, <1>2, <1>3, PTL DEF PeersSpec

-----------------------------------------------------------------------------
(* SettingsView: what is kept *)

\* The names of the settings; of which all but the directories are one word.
LEMMA SettingsAre ==
  /\ Settings \in Seq(Range(Settings)) /\ Len(Settings) = 8
  /\ Range(Settings) = Words \cup {"shared_dirs"} /\ "shared_dirs" \notin Words /\ "shared_dirs" \in Range(Settings)
  /\ Words = {"nickname", "port", "network", "downloadflags", "throttleflag", "throttlesend", "throttlerecv"}
  /\ \A i, j \in 1 .. 8 : Settings[i] = Settings[j] => i = j
<1> DEFINE W == {"nickname", "port", "network", "downloadflags", "throttleflag", "throttlesend", "throttlerecv"}
           N == W \cup {"shared_dirs"}
<1>1. /\ Settings[1] = "nickname" /\ Settings[2] = "port" /\ Settings[3] = "network"
      /\ Settings[4] = "downloadflags" /\ Settings[5] = "throttleflag" /\ Settings[6] = "throttlesend"
      /\ Settings[7] = "throttlerecv" /\ Settings[8] = "shared_dirs"
  BY DEF Settings
<1>2. Settings \in Seq(N) /\ Len(Settings) = 8
  BY DEF Settings
<1>3. "shared_dirs" \notin W
  OBVIOUS
<1>4. \A i \in 1 .. 8 : i = 1 \/ i = 2 \/ i = 3 \/ i = 4 \/ i = 5 \/ i = 6 \/ i = 7 \/ i = 8
  OBVIOUS
<1>5. \A i, j \in 1 .. 8 : Settings[i] = Settings[j] => i = j
  BY <1>1, <1>4
<1>6. DOMAIN Settings = 1 .. 8
  BY <1>2
<1>7. Range(Settings) = N
  <2>1. \A i \in 1 .. 8 : Settings[i] \in N
    BY <1>1, <1>4
  <2>2. \A x \in N : \E i \in 1 .. 8 : Settings[i] = x
    <3>1. 1 \in 1 .. 8 /\ 2 \in 1 .. 8 /\ 3 \in 1 .. 8 /\ 4 \in 1 .. 8 /\ 5 \in 1 .. 8 /\ 6 \in 1 .. 8
          /\ 7 \in 1 .. 8 /\ 8 \in 1 .. 8
      OBVIOUS
    <3> QED BY <1>1, <3>1, Zenon
  <2> HIDE DEF N
  <2> QED BY <1>6, <2>1, <2>2 DEF Range
<1>8. Words = W
  <2> HIDE DEF W
  <2> QED BY <1>3, <1>7 DEF Words
<1> QED BY <1>2, <1>3, <1>5, <1>7, <1>8

\* The words of the program, and all others.
Piece == STRING \cup {NoName, Stub, "4001", "7", "6", "0", "1", "2", "3", "128"}
Names == STRING \cup Range(Settings)
Lines == {line \in [name : Names, value : Seq(Piece)] : line.name \in Words => Len(line.value) = 1}
\* What a C_Config holds: one line of each name.
Configs == {strs \in Seq(Lines) : \A i, j \in 1 .. Len(strs) : strs[i].name = strs[j].name => i = j}

LEMMA NamedIs ==
  ASSUME NEW strs \in Configs, NEW i \in 1 .. Len(strs)
  PROVE  /\ Named(strs, strs[i].name) = {i}
         /\ (CHOOSE k \in Named(strs, strs[i].name) : \A j \in Named(strs, strs[i].name) : k <= j) = i
<1>1. Named(strs, strs[i].name) = {i}
  BY DEF Named, Configs
<1>2. i <= i
  BY DEF Configs
<1>3. (CHOOSE k \in {i} : \A j \in {i} : k <= j) = i
  BY <1>2
<1> QED BY <1>1, <1>3

LEMMA ReadIs ==
  ASSUME NEW strs \in Configs, NEW name, NEW default
  PROVE  \/ Named(strs, name) = {} /\ ReadString(strs, name, default) = default
         \/ \E i \in 1 .. Len(strs) : strs[i].name = name /\ Named(strs, name) = {i}
                                      /\ ReadString(strs, name, default) = strs[i].value
<1>1. CASE Named(strs, name) = {}
  BY <1>1 DEF ReadString
<1>2. CASE Named(strs, name) # {}
  <2>1. PICK i \in 1 .. Len(strs) : strs[i].name = name
    BY <1>2 DEF Named
  <2>2. Named(strs, name) = {i} /\ (CHOOSE k \in Named(strs, name) : \A j \in Named(strs, name) : k <= j) = i
    BY <2>1, NamedIs
  <2>3. ReadString(strs, name, default) = strs[i].value
    BY <1>2, <2>2, Zenon DEF ReadString
  <2> QED BY <2>1, <2>2, <2>3
<1> QED BY <1>1, <1>2

\* What is written is read, and all else as before.
LEMMA WrittenIs ==
  ASSUME NEW strs \in Configs, NEW line \in Lines
  PROVE  /\ Written(strs, line) \in Configs
         /\ Named(Written(strs, line), line.name) # {}
         /\ \A name : Named(strs, name) # {} => Named(Written(strs, line), name) # {}
         /\ \A default : ReadString(Written(strs, line), line.name, default) = line.value
         /\ \A name, default : name # line.name =>
                ReadString(Written(strs, line), name, default) = ReadString(strs, name, default)
<1> DEFINE new == Written(strs, line)
<1>1. strs \in Seq(Lines) /\ \A i, j \in 1 .. Len(strs) : strs[i].name = strs[j].name => i = j
  BY DEF Configs
<1>2. Line(line.name, line.value) = line
  BY DEF Line, Lines
<1>3. CASE Named(strs, line.name) = {}
  <2>1. new = Append(strs, line)
    BY <1>2, <1>3 DEF Written, WriteString
  <2> HIDE DEF new
  <2> DEFINE n == Len(strs) + 1
  <2>2. /\ new \in Seq(Lines) /\ Len(new) = n /\ n \in Nat /\ new[n] = line
        /\ \A i \in 1 .. Len(strs) : new[i] = strs[i] /\ i \in 1 .. n
        /\ \A i \in 1 .. n : i = n \/ i \in 1 .. Len(strs)
    BY <1>1, <2>1
  <2>3. \A i \in 1 .. Len(strs) : strs[i].name # line.name
    BY <1>3 DEF Named
  <2> HIDE DEF n
  <2>4. new \in Configs
    BY <1>1, <2>2, <2>3 DEF Configs
  <2>5. n \in 1 .. Len(new) /\ n \in Named(new, line.name)
    BY <2>2 DEF Named, n
  <2>6. \A name : Named(strs, name) \subseteq Named(new, name)
    BY <2>2 DEF Named
  <2>7. ASSUME NEW default PROVE ReadString(new, line.name, default) = line.value
    BY <2>2, <2>4, <2>5, ReadIs
  <2>8. ASSUME NEW name, NEW default, name # line.name
        PROVE  ReadString(new, name, default) = ReadString(strs, name, default)
    <3>1. Named(new, name) = Named(strs, name)
      BY <2>2, <2>8 DEF Named
    <3>2. CASE Named(strs, name) = {}
      BY <3>1, <3>2 DEF ReadString
    <3>3. CASE Named(strs, name) # {}
      <4>1. PICK i \in 1 .. Len(strs) : Named(strs, name) = {i} /\ ReadString(strs, name, default) = strs[i].value
        BY <3>3, ReadIs
      <4>2. PICK k \in 1 .. Len(new) : Named(new, name) = {k} /\ ReadString(new, name, default) = new[k].value
        BY <2>4, <3>1, <3>3, ReadIs
      <4>3. i = k
        BY <3>1, <4>1, <4>2
      <4> QED BY <2>2, <4>1, <4>2, <4>3
    <3> QED BY <3>2, <3>3
  <2> QED BY <2>4, <2>5, <2>6, <2>7, <2>8 DEF new
<1>4. CASE Named(strs, line.name) # {}
  <2>1. PICK i \in 1 .. Len(strs) : strs[i].name = line.name
    BY <1>4 DEF Named
  <2>2. Named(strs, line.name) = {i}
        /\ (CHOOSE k \in Named(strs, line.name) : \A j \in Named(strs, line.name) : k <= j) = i
    BY <2>1, NamedIs
  <2>3. new = [strs EXCEPT ![i].value = line.value]
    BY <1>4, <2>2, Zenon DEF Written, WriteString
  <2>4. [strs[i] EXCEPT !.value = line.value] = line
    <3>1. strs[i] \in [name : Names, value : Seq(Piece)]
      BY <1>1 DEF Lines
    <3> QED BY <2>1, <3>1 DEF Lines
  <2>5. new = [strs EXCEPT ![i] = line]
    BY <2>3, <2>4
  <2> HIDE DEF new
  <2>6. /\ new \in Seq(Lines) /\ Len(new) = Len(strs) /\ new[i] = line
        /\ \A j \in 1 .. Len(strs) : j # i => new[j] = strs[j]
    BY <1>1, <2>5
  <2>7. \A j \in 1 .. Len(strs) : new[j].name = strs[j].name
    BY <2>1, <2>6
  <2>8. new \in Configs
    BY <1>1, <2>6, <2>7 DEF Configs
  <2>9. \A name : Named(new, name) = Named(strs, name)
    BY <2>6, <2>7 DEF Named
  <2>10. ASSUME NEW default PROVE ReadString(new, line.name, default) = line.value
    <3>1. PICK k \in 1 .. Len(new) : Named(new, line.name) = {k} /\ ReadString(new, line.name, default) = new[k].value
      BY <1>4, <2>8, <2>9, ReadIs
    <3>2. k = i
      BY <2>2, <2>9, <3>1
    <3> QED BY <2>6, <3>1, <3>2
  <2>11. ASSUME NEW name, NEW default, name # line.name
         PROVE  ReadString(new, name, default) = ReadString(strs, name, default)
    <3>1. CASE Named(strs, name) = {}
      BY <2>9, <3>1 DEF ReadString
    <3>2. CASE Named(strs, name) # {}
      <4>1. PICK j \in 1 .. Len(strs) : Named(strs, name) = {j} /\ ReadString(strs, name, default) = strs[j].value
        BY <3>2, ReadIs
      <4>5. strs[j].name = name
        BY <4>1 DEF Named
      <4>2. PICK k \in 1 .. Len(new) : Named(new, name) = {k} /\ ReadString(new, name, default) = new[k].value
        BY <2>8, <2>9, <3>2, ReadIs
      <4>3. j = k /\ j # i
        BY <2>1, <2>9, <2>11, <4>5, <4>1, <4>2
      <4> QED BY <2>6, <4>1, <4>2, <4>3
    <3> QED BY <3>1, <3>2
  <2> QED BY <1>4, <2>8, <2>9, <2>10, <2>11 DEF new
<1> QED BY <1>3, <1>4

\* What a C_Config holds after each of the lines.
WritesGo(g, base, s, last) ==
    g[0] = base /\ g[Len(s)] = last /\ \A k \in 1 .. Len(s) : g[k] = Written(g[k - 1], s[k])

LEMMA WrittenInTurn ==
  ASSUME NEW A, NEW E, NEW base \in A, NEW s \in Seq(E), \A a \in A, e \in E : Written(a, e) \in A
  PROVE  \E g \in [0 .. Len(s) -> A] : WritesGo(g, base, s, FoldLeft(Written, base, s))
<1> DEFINE D == SUBSET (1 .. Len(s))
           Further(f, t) == IF t = {} THEN base ELSE Written(f[t \ {Max(t)}], s[Max(t)])
           Iter == CHOOSE iter : iter = [t \in D |-> Further(iter, t)]
           next == [p \in A \X E |-> Written(p[1], p[2])]
<1>1. FoldLeft(Written, base, s) = Iter[1 .. Len(s)]
  <2>1. DOMAIN s = 1 .. Len(s)
    OBVIOUS
  <2> HIDE DEF Written
  <2> QED BY <2>1 DEF FoldLeft, MapThenFoldSet
<1>2. next \in [A \X E -> A] /\ \A a \in A, e \in E : next[<<a, e>>] = Written(a, e)
  OBVIOUS
<1> HIDE DEF next
<1>3. PICK f \in [D -> A] : FoldsDown(f, base, next, s)
  BY <1>2, FoldExists
<1>4. ASSUME NEW t \in D, t # {} PROVE Max(t) \in 1 .. Len(s) /\ s[Max(t)] \in E /\ t \ {Max(t)} \in D
  <2>1. Len(s) \in Nat
    OBVIOUS
  <2>2. Max(t) \in t
    BY <1>4, <2>1, GreatestIs, Zenon
  <2> DEFINE m == Max(t)
  <2> HIDE DEF m
  <2>3. m \in 1 .. Len(s)
    BY <2>2 DEF m
  <2>4. s[m] \in E /\ t \ {m} \in D
    BY <2>3
  <2> QED BY <2>3, <2>4 DEF m
<1>5. \A t \in D : f[t] = Further(f, t)
  BY <1>2, <1>3, <1>4 DEF FoldsDown
<1>6. f = [t \in D |-> Further(f, t)]
  <2> HIDE DEF Further
  <2> QED BY <1>3, <1>5
<1>7. Iter = [t \in D |-> Further(Iter, t)]
  <2> HIDE DEF Further
  <2> QED BY <1>6, Zenon
<1> HIDE DEF Iter
<1>8. \A t \in D : Iter[t] = Further(Iter, t)
  <2> DEFINE h == [t \in D |-> Further(Iter, t)]
  <2>1. \A t \in D : h[t] = Further(Iter, t)
    <3> HIDE DEF Further
    <3> QED OBVIOUS
  <2> HIDE DEF h, Further
  <2>2. Iter = h
    BY <1>7, Zenon DEF h
  <2> QED BY <2>1, <2>2
<1>9. FallsTo(A, Iter, base, next, s)
  BY <1>2, <1>4, <1>8 DEF FallsTo
<1>10. PICK g \in [0 .. Len(s) -> A] : GoesUp(g, base, next, s, Iter[1 .. Len(s)])
  BY <1>2, <1>9, FoldGoes
<1>11. \A k \in 1 .. Len(s) : g[k] = Written(g[k - 1], s[k])
  <2> TAKE k \in 1 .. Len(s)
  <2>1. g[k - 1] \in A /\ s[k] \in E
    OBVIOUS
  <2> QED BY <1>2, <1>10, <2>1 DEF GoesUp
<1>12. g[0] = base /\ g[Len(s)] = Iter[1 .. Len(s)]
  BY <1>10 DEF GoesUp
<1> QED BY <1>1, <1>10, <1>11, <1>12 DEF WritesGo

NoLines == <<>>
LEMMA NoLinesAre == NoLines \in Configs /\ NoLines \in Seq(Lines) /\ Len(NoLines) = 0
<1>1. NoLines \in Seq(Lines) /\ Len(NoLines) = 0
  BY DEF NoLines
<1> QED BY <1>1 DEF Configs

\* The buffer of a line.
LEMMA CutIs ==
  ASSUME NEW value \in Seq(Piece)
  PROVE  Cut(value) \in Seq(Piece) /\ (Len(value) <= LineRoom => Cut(value) = value)
         /\ (Len(value) = 1 => Cut(value) = value)
<1>1. LineRoom \in Nat /\ LineRoom # 0
  BY SettingsAssumption
<1>2. Stub \in Piece
  BY Zenon DEF Piece
<1>3. LineRoom < Len(value) => SubSeq(value, 1, LineRoom) \in Seq(Piece)
  BY <1>1
<1> QED BY <1>1, <1>2, <1>3 DEF Cut

LEMMA TakenIs ==
  ASSUME NEW lines \in Seq(Lines)
  PROVE  /\ Taken(lines) \in Seq(Lines) /\ Len(Taken(lines)) = Len(lines)
         /\ \A i \in 1 .. Len(lines) :
               Taken(lines)[i].name = lines[i].name /\ Taken(lines)[i].value = Cut(lines[i].value)
<1>1. ASSUME NEW i \in 1 .. Len(lines)
      PROVE  Line(lines[i].name, Cut(lines[i].value)) \in Lines
  <2> DEFINE line == lines[i]
  <2>1. line \in Lines
    OBVIOUS
  <2> HIDE DEF line
  <2>2. line.name \in Names /\ line.value \in Seq(Piece) /\ (line.name \in Words => Len(line.value) = 1)
    BY <2>1 DEF Lines
  <2>3. Cut(line.value) \in Seq(Piece) /\ (Len(line.value) = 1 => Cut(line.value) = line.value)
    BY <2>2, CutIs
  <2>4. Line(line.name, Cut(line.value)) \in Lines
    <3> DEFINE v == Cut(line.value)
    <3>1. v \in Seq(Piece) /\ (line.name \in Words => Len(v) = 1)
      BY <2>2, <2>3
    <3> HIDE DEF v
    <3>2. Line(line.name, v) \in Lines
      BY <2>2, <3>1 DEF Line, Lines
    <3> QED BY <3>2 DEF v
  <2> QED BY <2>4 DEF line
<1>2. Taken(lines) = [i \in 1 .. Len(lines) |-> Line(lines[i].name, Cut(lines[i].value))]
  BY DEF Taken
<1>3. \A i \in 1 .. Len(lines) : /\ Line(lines[i].name, Cut(lines[i].value)).name = lines[i].name
                                 /\ Line(lines[i].name, Cut(lines[i].value)).value = Cut(lines[i].value)
  BY DEF Line
<1> HIDE DEF Line, Cut
<1>4. Taken(lines) \in Seq(Lines) /\ Len(Taken(lines)) = Len(lines)
  <2>1. Len(lines) \in Nat
    OBVIOUS
  <2> DEFINE f == [i \in 1 .. Len(lines) |-> Line(lines[i].name, Cut(lines[i].value))]
  <2>2. \A i \in 1 .. Len(lines) : f[i] \in Lines
    BY <1>1
  <2>3. f \in Seq(Lines) /\ Len(f) = Len(lines)
    BY <1>1, <2>1
  <2> QED BY <1>2, <2>3
<1> QED BY <1>2, <1>3, <1>4

LEMMA ConfigIs ==
  ASSUME NEW lines \in Seq(Lines)
  PROVE  Config(lines) \in Configs
<1> DEFINE s == Taken(lines)
<1>1. \A strs \in Configs, line \in Lines : Written(strs, line) \in Configs
  BY WrittenIs
<1>2. s \in Seq(Lines)
  BY TakenIs
<1> HIDE DEF s
<1>3. PICK g \in [0 .. Len(s) -> Configs] : WritesGo(g, NoLines, s, FoldLeft(Written, NoLines, s))
  BY <1>1, <1>2, NoLinesAre, WrittenInTurn
<1>4. Len(s) \in 0 .. Len(s)
  BY <1>2
<1>5. Config(lines) = FoldLeft(Written, NoLines, s)
  BY DEF Config, NoLines, s
<1> QED BY <1>3, <1>4, <1>5 DEF WritesGo

\* Lines of different names are held as they are.
LEMMA HeldAsTheyAre ==
  ASSUME NEW strs \in Configs
  PROVE  FoldLeft(Written, <<>>, strs) = strs
<1> DEFINE n == Len(strs)
<1>1. strs \in Seq(Lines) /\ n \in Nat /\ \A i, j \in 1 .. n : strs[i].name = strs[j].name => i = j
  BY DEF Configs
<1>2. \A s \in Configs, line \in Lines : Written(s, line) \in Configs
  BY WrittenIs
<1>3. PICK g \in [0 .. Len(strs) -> Configs] : WritesGo(g, NoLines, strs, FoldLeft(Written, NoLines, strs))
  BY <1>1, <1>2, NoLinesAre, WrittenInTurn
<1> DEFINE S == {k \in 0 .. n : g[k] = SubSeq(strs, 1, k)}
<1>4. 0 \in S
  <2>1. SubSeq(strs, 1, 0) = NoLines
    BY <1>1 DEF NoLines
  <2>2. g[0] = NoLines
    BY <1>3 DEF WritesGo
  <2>3. 0 \in 0 .. n
    BY <1>1
  <2> QED BY <2>1, <2>2, <2>3
<1>5. ASSUME NEW k \in 1 .. n, k - 1 \in S PROVE k \in S
  <2> DEFINE s == SubSeq(strs, 1, k - 1)
  <2>1. g[k - 1] = s /\ k \in 0 .. n /\ strs[k] \in Lines
    BY <1>1, <1>5
  <2>2. g[k] = Written(s, strs[k])
    BY <1>3, <2>1 DEF WritesGo
  <2>3. /\ s \in Seq(Lines) /\ Len(s) = k - 1 /\ \A i \in 1 .. k - 1 : s[i] = strs[i]
    BY <1>1
  <2> HIDE DEF s
  <2>4. \A i \in 1 .. Len(s) : s[i].name # strs[k].name
    BY <1>1, <2>3
  <2>5. Named(s, strs[k].name) = {}
    BY <2>4 DEF Named
  <2>6. Line(strs[k].name, strs[k].value) = strs[k]
    BY <2>1 DEF Line, Lines
  <2>7. g[k] = Append(s, strs[k])
    BY <2>2, <2>5, <2>6 DEF Written, WriteString
  <2>8. Append(s, strs[k]) = SubSeq(strs, 1, k)
    BY <1>1 DEF s
  <2> QED BY <2>1, <2>7, <2>8
<1>6. \A k \in 0 .. n : k \in S
  <2> HIDE DEF S, n
  <2> QED BY <1>1, <1>4, <1>5, InTurn
<1>7. g[n] = SubSeq(strs, 1, n)
  BY <1>1, <1>6
<1>8. SubSeq(strs, 1, n) = strs
  BY <1>1
<1>9. FoldLeft(Written, <<>>, strs) = FoldLeft(Written, NoLines, strs)
  BY DEF NoLines
<1> QED BY <1>3, <1>7, <1>8, <1>9 DEF WritesGo

\* A file that was written by the program reads as it is, but for long lines.
LEMMA ConfigTaken ==
  ASSUME NEW strs \in Configs
  PROVE  /\ Config(strs) \in Configs
         /\ \A name : Named(Config(strs), name) = Named(strs, name)
         /\ \A name, default : Named(strs, name) # {} =>
                ReadString(Config(strs), name, default) = Cut(ReadString(strs, name, default))
<1> DEFINE s == Taken(strs)
<1>1. strs \in Seq(Lines) /\ \A i, j \in 1 .. Len(strs) : strs[i].name = strs[j].name => i = j
  BY DEF Configs
<1>2. /\ s \in Seq(Lines) /\ Len(s) = Len(strs)
      /\ \A i \in 1 .. Len(strs) : s[i].name = strs[i].name /\ s[i].value = Cut(strs[i].value)
  BY <1>1, TakenIs
<1> HIDE DEF s
<1>3. s \in Configs
  BY <1>1, <1>2 DEF Configs
<1>4. Config(strs) = s
  <2>1. FoldLeft(Written, <<>>, s) = s
    BY <1>3, HeldAsTheyAre
  <2> QED BY <2>1 DEF Config, s
<1>5. \A name : Named(s, name) = Named(strs, name)
  BY <1>2 DEF Named
<1>6. ASSUME NEW name, NEW default, Named(strs, name) # {}
      PROVE  ReadString(s, name, default) = Cut(ReadString(strs, name, default))
  <2>1. PICK i \in 1 .. Len(strs) : Named(strs, name) = {i} /\ ReadString(strs, name, default) = strs[i].value
    BY <1>6, ReadIs
  <2>2. PICK k \in 1 .. Len(s) : Named(s, name) = {k} /\ ReadString(s, name, default) = s[k].value
    BY <1>3, <1>5, <1>6, ReadIs
  <2>3. i = k
    BY <1>5, <2>1, <2>2
  <2>4. s[k].value = Cut(strs[k].value)
    BY <1>2, <2>2
  <2> QED BY <2>1, <2>2, <2>3, <2>4
<1> QED BY <1>3, <1>4, <1>5, <1>6

\* Lines of different names, written into any others.
LEMMA AllWritten ==
  ASSUME NEW base \in Configs, NEW s \in Configs
  PROVE  /\ FoldLeft(Written, base, s) \in Configs
         /\ \A i \in 1 .. Len(s) : /\ Named(FoldLeft(Written, base, s), s[i].name) # {}
                                   /\ \A default : ReadString(FoldLeft(Written, base, s), s[i].name, default) = s[i].value
<1> DEFINE n == Len(s)
           Holds(strs, line) == Named(strs, line.name) # {} /\ \A default : ReadString(strs, line.name, default) = line.value
<1>1. s \in Seq(Lines) /\ n \in Nat /\ \A i, j \in 1 .. n : s[i].name = s[j].name => i = j
  BY DEF Configs
<1>2. \A strs \in Configs, line \in Lines : Written(strs, line) \in Configs
  BY WrittenIs
<1>3. PICK g \in [0 .. Len(s) -> Configs] : WritesGo(g, base, s, FoldLeft(Written, base, s))
  BY <1>1, <1>2, WrittenInTurn
<1>4. \A strs \in Configs, line, k \in Lines :
         /\ Holds(Written(strs, line), line)
         /\ k.name # line.name /\ Holds(strs, k) => Holds(Written(strs, line), k)
  <2> TAKE strs \in Configs, line, k \in Lines
  <2>1. Holds(Written(strs, line), line)
    BY WrittenIs
  <2>2. ASSUME k.name # line.name, Holds(strs, k) PROVE Holds(Written(strs, line), k)
    <3>1. Named(Written(strs, line), k.name) # {}
      BY <2>2, WrittenIs
    <3>2. ASSUME NEW default PROVE ReadString(Written(strs, line), k.name, default) = k.value
      <4>1. ReadString(Written(strs, line), k.name, default) = ReadString(strs, k.name, default)
        BY <2>2, WrittenIs
      <4> QED BY <2>2, <4>1
    <3> QED BY <3>1, <3>2
  <2> QED BY <2>1, <2>2
<1> HIDE DEF Holds
<1> DEFINE S == {k \in 0 .. n : \A i \in 1 .. k : Holds(g[k], s[i])}
<1>5. 0 \in S
  BY <1>1
<1>6. ASSUME NEW k \in 1 .. n, k - 1 \in S PROVE k \in S
  <2>1. g[k - 1] \in Configs /\ s[k] \in Lines /\ k \in 0 .. n
    BY <1>1, <1>6
  <2>2. g[k] = Written(g[k - 1], s[k])
    BY <1>3 DEF WritesGo
  <2>3. Holds(g[k], s[k])
    BY <1>4, <2>1, <2>2
  <2>4. ASSUME NEW i \in 1 .. k - 1 PROVE Holds(g[k], s[i])
    <3>1. i \in 1 .. n /\ i # k /\ s[i] \in Lines
      BY <1>1, <2>1
    <3>2. s[i].name # s[k].name
      BY <1>1, <3>1
    <3>3. Holds(g[k - 1], s[i])
      BY <1>6
    <3> QED BY <1>4, <2>1, <2>2, <3>1, <3>2, <3>3
  <2>5. \A i \in 1 .. k : i = k \/ i \in 1 .. k - 1
    BY <1>1
  <2> QED BY <2>1, <2>3, <2>4, <2>5
<1>7. \A k \in 0 .. n : k \in S
  <2> HIDE DEF S, n
  <2> QED BY <1>1, <1>5, <1>6, InTurn
<1>8. n \in S /\ g[n] \in Configs
  <2>1. n \in 0 .. n
    BY <1>1
  <2> HIDE DEF S
  <2> QED BY <1>7, <2>1
<1>9. g[n] = FoldLeft(Written, base, s)
  BY <1>3 DEF WritesGo
<1> QED BY <1>8, <1>9 DEF Holds

\* What is there of lines that were not all written.
LEMMA PrefixIs ==
  ASSUME NEW strs \in Configs, NEW n \in 0 .. Len(strs)
  PROVE  /\ SubSeq(strs, 1, n) \in Configs
         /\ \A name : Named(SubSeq(strs, 1, n), name) # {} =>
               Named(strs, name) # {}
               /\ \A default : ReadString(SubSeq(strs, 1, n), name, default) = ReadString(strs, name, default)
<1> DEFINE s == SubSeq(strs, 1, n)
<1>1. strs \in Seq(Lines) /\ \A i, j \in 1 .. Len(strs) : strs[i].name = strs[j].name => i = j
  BY DEF Configs
<1>2. /\ s \in Seq(Lines) /\ Len(s) = n /\ n \in Nat
      /\ \A i \in 1 .. n : s[i] = strs[i] /\ i \in 1 .. Len(strs)
  BY <1>1
<1> HIDE DEF s
<1>3. s \in Configs
  BY <1>1, <1>2 DEF Configs
<1>4. ASSUME NEW name, Named(s, name) # {}, NEW default
      PROVE  Named(strs, name) # {} /\ ReadString(s, name, default) = ReadString(strs, name, default)
  <2>1. PICK i \in 1 .. Len(s) : Named(s, name) = {i} /\ ReadString(s, name, default) = s[i].value
    BY <1>3, <1>4, ReadIs
  <2>6. s[i].name = name
    BY <2>1 DEF Named
  <2>2. i \in 1 .. Len(strs) /\ strs[i] = s[i]
    BY <1>2, <2>1
  <2>3. i \in Named(strs, name)
    BY <2>2, <2>6 DEF Named
  <2>4. PICK k \in 1 .. Len(strs) : Named(strs, name) = {k} /\ ReadString(strs, name, default) = strs[k].value
    BY <2>3, ReadIs
  <2>5. i = k
    BY <2>3, <2>4
  <2> QED BY <2>1, <2>2, <2>3, <2>4, <2>5
<1> QED BY <1>3, <1>4 DEF s

-----------------------------------------------------------------------------
(* The directories in one value *)

GluedUpTo(seqs, f, i) == IF i = 1 THEN seqs[i] ELSE f[i - 1] \o seqs[i]
Flattened(seqs) == CHOOSE f : f = [i \in 1 .. Len(seqs) |-> GluedUpTo(seqs, f, i)]

LEMMA FlattenIs ==
  ASSUME NEW P, NEW seqs \in Seq(Seq(P))
  PROVE  \A i \in 1 .. Len(seqs) : /\ Flattened(seqs)[i] = GluedUpTo(seqs, Flattened(seqs), i)
                                   /\ Flattened(seqs)[i] \in Seq(P)
<1> DEFINE n == Len(seqs)
           Good(k) == \E f \in [1 .. k -> Seq(P)] : \A i \in 1 .. k : f[i] = GluedUpTo(seqs, f, i)
           S == {k \in 0 .. n : Good(k)}
<1>1. n \in Nat /\ \A i \in 1 .. n : seqs[i] \in Seq(P)
  OBVIOUS
<1>2. 0 \in S
  <2>1. [i \in 1 .. 0 |-> <<>>] \in [1 .. 0 -> Seq(P)] /\ \A i \in 1 .. 0 : FALSE
    OBVIOUS
  <2>2. Good(0)
    BY <2>1
  <2>3. 0 \in 0 .. n
    BY <1>1
  <2> HIDE DEF Good
  <2> QED BY <2>2, <2>3
<1>3. ASSUME NEW k \in 1 .. n, k - 1 \in S PROVE k \in S
  <2>1. PICK f \in [1 .. k - 1 -> Seq(P)] : \A i \in 1 .. k - 1 : f[i] = GluedUpTo(seqs, f, i)
    BY <1>3
  <2> DEFINE g == [i \in 1 .. k |-> IF i = k THEN GluedUpTo(seqs, f, k) ELSE f[i]]
  <2>2. k \in Nat /\ seqs[k] \in Seq(P)
    BY <1>1
  <2>3. GluedUpTo(seqs, f, k) \in Seq(P)
    <3>1. CASE k = 1
      BY <2>2, <3>1 DEF GluedUpTo
    <3>2. CASE k # 1
      <4>1. f[k - 1] \in Seq(P)
        BY <2>2, <3>2
      <4>2. f[k - 1] \o seqs[k] \in Seq(P)
        BY <2>2, <4>1
      <4> QED BY <3>2, <4>2 DEF GluedUpTo
    <3> QED BY <3>1, <3>2
  <2>4. g \in [1 .. k -> Seq(P)]
    <3>1. \A i \in 1 .. k : i # k => i \in 1 .. k - 1
      BY <2>2
    <3> HIDE DEF GluedUpTo
    <3> QED BY <2>3, <3>1
  <2>5. \A i \in 1 .. k : g[i] = GluedUpTo(seqs, g, i)
    <3> TAKE i \in 1 .. k
    <3>1. i # 1 => g[i - 1] = f[i - 1]
      BY <2>2
    <3>2. CASE i = k
      BY <3>1, <3>2 DEF GluedUpTo
    <3>3. CASE i # k
      <4>1. i \in 1 .. k - 1
        BY <2>2, <3>3
      <4>2. g[i] = f[i] /\ f[i] = GluedUpTo(seqs, f, i)
        BY <2>1, <3>3, <4>1
      <4> HIDE DEF g
      <4> QED BY <3>1, <4>2 DEF GluedUpTo
    <3> QED BY <3>2, <3>3
  <2>6. Good(k)
    <3> HIDE DEF g
    <3> QED BY <2>4, <2>5
  <2>7. k \in 0 .. n
    BY <1>1
  <2> HIDE DEF Good
  <2> QED BY <2>6, <2>7
<1>4. \A k \in 0 .. n : k \in S
  <2> HIDE DEF S, n
  <2> QED BY <1>1, <1>2, <1>3, InTurn
<1>5. PICK f \in [1 .. n -> Seq(P)] : \A i \in 1 .. n : f[i] = GluedUpTo(seqs, f, i)
  <2>1. n \in 0 .. n
    BY <1>1
  <2>2. Good(n)
    <3> HIDE DEF Good
    <3> QED BY <1>4, <2>1
  <2> QED BY <2>2
<1>6. f = [i \in 1 .. n |-> GluedUpTo(seqs, f, i)]
  <2> HIDE DEF GluedUpTo
  <2> QED BY <1>5
<1> DEFINE flat == Flattened(seqs)
<1>7. flat = [i \in 1 .. n |-> GluedUpTo(seqs, flat, i)]
  <2> HIDE DEF GluedUpTo
  <2> QED BY <1>6, Zenon DEF Flattened
<1>8. \A i \in 1 .. n : flat[i] = GluedUpTo(seqs, flat, i)
  <2> DEFINE h == [i \in 1 .. n |-> GluedUpTo(seqs, flat, i)]
  <2>1. \A i \in 1 .. n : h[i] = GluedUpTo(seqs, flat, i)
    <3> HIDE DEF GluedUpTo
    <3> QED OBVIOUS
  <2> HIDE DEF h, GluedUpTo
  <2>2. flat = h
    BY <1>7, Zenon DEF h
  <2> QED BY <2>1, <2>2
<1> HIDE DEF flat
<1> DEFINE T == {k \in 0 .. n : k # 0 => flat[k] \in Seq(P)}
<1>9. 0 \in T
  BY <1>1
<1>10. ASSUME NEW k \in 1 .. n, k - 1 \in T PROVE k \in T
  <2>1. k \in 0 .. n /\ seqs[k] \in Seq(P) /\ flat[k] = GluedUpTo(seqs, flat, k)
    BY <1>1, <1>8
  <2>2. CASE k = 1
    BY <2>1, <2>2 DEF GluedUpTo
  <2>3. CASE k # 1
    <3>1. k - 1 # 0 /\ flat[k - 1] \in Seq(P)
      BY <1>10, <2>3
    <3>2. flat[k - 1] \o seqs[k] \in Seq(P)
      BY <2>1, <3>1
    <3> QED BY <2>1, <2>3, <3>2 DEF GluedUpTo
  <2> QED BY <2>2, <2>3
<1>11. \A k \in 0 .. n : k \in T
  <2> HIDE DEF T, n
  <2> QED BY <1>1, <1>9, <1>10, InTurn
<1>12. \A i \in 1 .. n : flat[i] \in Seq(P)
  <2> TAKE i \in 1 .. n
  <2>1. i \in 0 .. n /\ i # 0
    BY <1>1
  <2> QED BY <1>11, <2>1
<1> QED BY <1>8, <1>12 DEF flat

LEMMA GluedIs ==
  ASSUME NEW P, NEW dirs \in Seq(Seq(P))
  PROVE  /\ Glued(dirs) \in Seq(P)
         /\ (\A i \in 1 .. Len(dirs) : Len(dirs[i]) = 1) => Apart(Glued(dirs)) = dirs
<1> DEFINE n == Len(dirs)  flat == Flattened(dirs)
<1>1. n \in Nat /\ \A i \in 1 .. n : dirs[i] \in Seq(P)
  OBVIOUS
<1>2. Glued(dirs) = IF n = 0 THEN dirs ELSE flat[n]
  BY DEF Glued, FlattenSeq, Flattened, GluedUpTo
<1>3. \A i \in 1 .. n : flat[i] = GluedUpTo(dirs, flat, i) /\ flat[i] \in Seq(P)
  BY FlattenIs
<1> HIDE DEF flat
<1>4. CASE n = 0
  <2>1. dirs = <<>> /\ Glued(dirs) = dirs
    BY <1>2, <1>4
  <2>2. Apart(dirs) = <<>>
    <3> DEFINE s == [i \in 1 .. 0 |-> <<dirs[i]>>]
    <3>1. s \in Seq(Seq(Seq(P))) /\ Len(s) = 0
      OBVIOUS
    <3>2. s = <<>>
      <4> HIDE DEF s
      <4> QED BY <3>1
    <3>3. Apart(dirs) = s
      BY <1>4 DEF Apart
    <3> HIDE DEF s
    <3> QED BY <3>2, <3>3
  <2>3. <<>> \in Seq(P)
    OBVIOUS
  <2>4. Glued(dirs) \in Seq(P)
    BY <2>1, <2>3
  <2> HIDE DEF n
  <2> QED BY <2>1, <2>2, <2>4
<1>5. CASE n # 0
  <2>1. Glued(dirs) = flat[n] /\ n \in 1 .. n
    BY <1>1, <1>2, <1>5
  <2>2. ASSUME \A i \in 1 .. n : Len(dirs[i]) = 1 PROVE Apart(Glued(dirs)) = dirs
    <3> DEFINE T == {k \in 0 .. n : k # 0 => Len(flat[k]) = k /\ \A j \in 1 .. k : flat[k][j] = dirs[j][1]}
    <3>1. 0 \in T
      BY <1>1
    <3>2. ASSUME NEW k \in 1 .. n, k - 1 \in T PROVE k \in T
      <4>1. k \in 0 .. n /\ k \in Nat /\ dirs[k] \in Seq(P) /\ Len(dirs[k]) = 1 /\ flat[k] = GluedUpTo(dirs, flat, k)
        BY <1>1, <1>3, <2>2
      <4>2. CASE k = 1
        <5>1. flat[k] = dirs[1] /\ Len(flat[k]) = 1
          BY <4>1, <4>2 DEF GluedUpTo
        <5> QED BY <4>1, <4>2, <5>1
      <4>3. CASE k # 1
        <5>1. /\ k - 1 # 0 /\ k - 1 \in 1 .. n /\ Len(flat[k - 1]) = k - 1
              /\ \A j \in 1 .. k - 1 : flat[k - 1][j] = dirs[j][1]
          BY <3>2, <4>1, <4>3
        <5>2. flat[k - 1] \in Seq(P) /\ flat[k] = flat[k - 1] \o dirs[k]
          BY <1>3, <4>1, <4>3, <5>1 DEF GluedUpTo
        <5> DEFINE before == flat[k - 1]  appended == dirs[k]
        <5> HIDE DEF before, appended
        <5>6. before \in Seq(P) /\ appended \in Seq(P) /\ Len(before) = k - 1 /\ Len(appended) = 1 /\ flat[k] = before \o appended
          BY <4>1, <5>1, <5>2 DEF before, appended
        <5>7. Len(before \o appended) = k /\ \A j \in 1 .. k : (before \o appended)[j] = IF j <= k - 1 THEN before[j] ELSE appended[j - (k - 1)]
          <6>1. Len(before) + Len(appended) = k
            BY <4>1, <5>6
          <6>2. /\ Len(before \o appended) = Len(before) + Len(appended)
                /\ \A j \in 1 .. Len(before) + Len(appended) :
                       (before \o appended)[j] = IF j <= Len(before) THEN before[j] ELSE appended[j - Len(before)]
            BY <5>6, ConcatProperties, Zenon
          <6> DEFINE both == before \o appended
          <6> HIDE DEF both
          <6>3. both \in Seq(P) => Len(both) = k /\ \A j \in 1 .. k : both[j] = IF j <= k - 1 THEN before[j] ELSE appended[j - (k - 1)]
            BY <5>6, <6>1, <6>2, Zenon DEF both
          <6>4. both \in Seq(P)
            BY <5>6, ConcatProperties, Zenon DEF both
          <6> QED BY <6>3, <6>4 DEF both
        <5>3. Len(flat[k]) = k /\ \A j \in 1 .. k : flat[k][j] = IF j <= k - 1 THEN flat[k - 1][j] ELSE dirs[k][j - (k - 1)]
          BY <5>6, <5>7 DEF before, appended
        <5>4. \A j \in 1 .. k : flat[k][j] = dirs[j][1]
          <6> TAKE j \in 1 .. k
          <6>1. CASE j <= k - 1
            BY <5>1, <5>3, <6>1
          <6>2. CASE j = k
            BY <4>1, <5>3, <6>2
          <6> QED BY <4>1, <6>1, <6>2
        <5> QED BY <4>1, <5>3, <5>4
      <4> QED BY <4>2, <4>3
    <3>3. \A k \in 0 .. n : k \in T
      <4> HIDE DEF T, n
      <4> QED BY <1>1, <3>1, <3>2, InTurn
    <3>4. Len(flat[n]) = n /\ \A j \in 1 .. n : flat[n][j] = dirs[j][1]
      BY <1>1, <1>5, <3>3
    <3>5. \A j \in 1 .. n : dirs[j] = <<dirs[j][1]>>
      BY <1>1, <2>2
    <3>6. Apart(flat[n]) = [j \in 1 .. n |-> <<flat[n][j]>>]
      BY <3>4 DEF Apart
    <3>7. dirs = [j \in 1 .. n |-> dirs[j]]
      OBVIOUS
    <3> HIDE DEF n
    <3>8. [j \in 1 .. n |-> <<flat[n][j]>>] = [j \in 1 .. n |-> dirs[j]]
      BY <3>4, <3>5
    <3> QED BY <2>1, <3>6, <3>7, <3>8
  <2>3. Glued(dirs) \in Seq(P)
    BY <1>3, <2>1
  <2> QED BY <2>2, <2>3
<1> QED BY <1>4, <1>5

\* Settings as the core and the view have them.
IsSettings(c) ==
    /\ c = [name \in Range(Settings) |-> c[name]]
    /\ \A name \in Words : c[name] \in Piece
    /\ c["shared_dirs"] \in Seq(Seq(Piece))
\* What a C_Config says of settings.
Tells(strs, c, name) == Named(strs, name) # {} /\ \A default : ReadString(strs, name, default) = ValueOf(c, name)
TellsAll(strs, c) == \A name \in Range(Settings) : Tells(strs, c, name)
LoadedFrom(strs, nick) ==
    [name \in Range(Settings) |->
        IF name = "shared_dirs" THEN Apart(ReadString(strs, name, NoLines))
        ELSE IF name = "nickname" /\ ReadString(strs, name, <<Default[name]>>)[1] = NoName THEN nick
        ELSE ReadString(strs, name, <<Default[name]>>)[1]]
Fresh(nick) == [Default EXCEPT !.nickname = nick, !.throttlesend = "0", !.throttlerecv = "0"]
LoadedIn(there, lines, nick) == IF ~there THEN Fresh(nick) ELSE LoadedFrom(Config(lines), nick)

LEMMA LoadedSays == \A nick : Loaded(nick) = LoadedIn(exists, ini, nick)
BY Zenon DEF Loaded, LoadedIn, LoadedFrom, Fresh, NoLines

LEMMA WordsOfProgram == /\ NoName \in Piece /\ Stub \in Piece /\ "4001" \in Piece /\ "7" \in Piece /\ "6" \in Piece
                        /\ "0" \in Piece /\ "1" \in Piece /\ "2" \in Piece /\ "3" \in Piece /\ "128" \in Piece
BY Zenon DEF Piece

LEMMA DefaultIs ==
  /\ IsSettings(Default) /\ Default["nickname"] = NoName
  /\ Default["shared_dirs"] = NoLines /\ NoLines \in Seq(Seq(Piece)) /\ NoLines \in Seq(Piece)
<1> DEFINE N == {"nickname", "port", "network", "downloadflags", "throttleflag", "throttlesend", "throttlerecv", "shared_dirs"}
<1>1. Range(Settings) = N
  BY SettingsAre
<1>2. Default = [name \in N |-> Default[name]]
  BY DEF Default
<1>3. \A name \in Words : Default[name] \in Piece
  <2>1. /\ Default["nickname"] \in Piece /\ Default["port"] \in Piece /\ Default["network"] \in Piece
        /\ Default["downloadflags"] \in Piece /\ Default["throttleflag"] \in Piece
        /\ Default["throttlesend"] \in Piece /\ Default["throttlerecv"] \in Piece
    BY WordsOfProgram DEF Default
  <2> QED BY <2>1, SettingsAre
<1>4. NoLines \in Seq(Seq(Piece)) /\ NoLines \in Seq(Piece)
  <2>1. <<>> \in Seq(Seq(Piece)) /\ <<>> \in Seq(Piece)
    OBVIOUS
  <2> QED BY <2>1 DEF NoLines
<1>5. Default["shared_dirs"] = NoLines /\ Default["nickname"] = NoName
  BY DEF Default, NoLines
<1> QED BY <1>1, <1>2, <1>3, <1>4, <1>5 DEF IsSettings

\* A changed word, and changed directories.
LEMMA SettingsChange ==
  ASSUME NEW c, IsSettings(c)
  PROVE  /\ \A name \in Words, p \in Piece : IsSettings([c EXCEPT ![name] = p])
         /\ \A dirs \in Seq(Seq(Piece)) : IsSettings([c EXCEPT !["shared_dirs"] = dirs])
         /\ DOMAIN c = Range(Settings)
<1>1. /\ c = [name \in Range(Settings) |-> c[name]] /\ \A name \in Words : c[name] \in Piece
      /\ c["shared_dirs"] \in Seq(Seq(Piece))
  BY DEF IsSettings
<1>2. DOMAIN c = Range(Settings)
  BY <1>1
<1>3. Range(Settings) = Words \cup {"shared_dirs"} /\ "shared_dirs" \notin Words
  BY SettingsAre
<1>4. ASSUME NEW name \in Words, NEW p \in Piece PROVE IsSettings([c EXCEPT ![name] = p])
  <2> DEFINE d == [c EXCEPT ![name] = p]
  <2>1. d = [x \in Range(Settings) |-> d[x]] /\ (\A x \in Range(Settings) : d[x] = IF x = name THEN p ELSE c[x])
    BY <1>1, <1>2
  <2> HIDE DEF d
  <2>2. \A x \in Words : d[x] \in Piece
    BY <1>1, <1>3, <2>1
  <2>3. d["shared_dirs"] = c["shared_dirs"]
    BY <1>3, <2>1
  <2>4. IsSettings(d)
    BY <1>1, <2>1, <2>2, <2>3 DEF IsSettings
  <2> QED BY <2>4 DEF d
<1>5. ASSUME NEW dirs \in Seq(Seq(Piece)) PROVE IsSettings([c EXCEPT !["shared_dirs"] = dirs])
  <2> DEFINE d == [c EXCEPT !["shared_dirs"] = dirs]
  <2>1. d = [x \in Range(Settings) |-> d[x]]
        /\ (\A x \in Range(Settings) : d[x] = IF x = "shared_dirs" THEN dirs ELSE c[x])
    BY <1>1, <1>2
  <2> HIDE DEF d
  <2>2. \A x \in Words : d[x] \in Piece
    BY <1>1, <1>3, <2>1
  <2>3. d["shared_dirs"] = dirs
    BY <1>3, <2>1
  <2>4. IsSettings(d)
    BY <1>1, <2>1, <2>2, <2>3 DEF IsSettings
  <2> QED BY <2>4 DEF d
<1> QED BY <1>2, <1>4, <1>5

LEMMA ValueIs ==
  ASSUME NEW c, IsSettings(c), NEW name \in Range(Settings)
  PROVE  /\ ValueOf(c, name) \in Seq(Piece)
         /\ name \in Words => Len(ValueOf(c, name)) = 1 /\ ValueOf(c, name)[1] = c[name]
<1>1. CASE name = "shared_dirs"
  <2>1. Glued(c["shared_dirs"]) \in Seq(Piece)
    BY GluedIs DEF IsSettings
  <2> QED BY <1>1, <2>1, SettingsAre DEF ValueOf
<1>2. CASE name # "shared_dirs"
  <2>1. c[name] \in Piece
    BY <1>2, SettingsAre DEF IsSettings
  <2>2. ValueOf(c, name) = <<c[name]>>
    BY <1>2 DEF ValueOf
  <2>3. \A p \in Piece : <<p>> \in Seq(Piece) /\ Len(<<p>>) = 1 /\ <<p>>[1] = p
    OBVIOUS
  <2> QED BY <2>1, <2>2, <2>3
<1> QED BY <1>1, <1>2

LEMMA SavedIs ==
  ASSUME ini \in Seq(Lines), NEW c, IsSettings(c)
  PROVE  Saved(c) \in Configs /\ TellsAll(Saved(c), c) /\ Saved(c) # NoLines
<1> DEFINE s == [i \in 1 .. Len(Settings) |-> Line(Settings[i], ValueOf(c, Settings[i]))]
<1>1. Len(Settings) = 8 /\ DOMAIN Settings = 1 .. 8 /\ \A i \in 1 .. 8 : Settings[i] \in Range(Settings)
  BY SettingsAre DEF Range
<1>2. ASSUME NEW i \in 1 .. 8
      PROVE  /\ Line(Settings[i], ValueOf(c, Settings[i])) \in Lines
             /\ Line(Settings[i], ValueOf(c, Settings[i])).name = Settings[i]
             /\ Line(Settings[i], ValueOf(c, Settings[i])).value = ValueOf(c, Settings[i])
  <2> DEFINE name == Settings[i]  v == ValueOf(c, name)
  <2>1. name \in Range(Settings)
    BY <1>1
  <2>2. v \in Seq(Piece) /\ (name \in Words => Len(v) = 1)
    BY <2>1, ValueIs
  <2> HIDE DEF name, v
  <2>3. Line(name, v) \in Lines /\ Line(name, v).name = name /\ Line(name, v).value = v
    BY <2>1, <2>2 DEF Line, Lines, Names
  <2> QED BY <2>3 DEF name, v
<1>3. /\ s \in Seq(Lines) /\ Len(s) = 8 /\ \A i \in 1 .. 8 : s[i].name = Settings[i] /\ s[i].value = ValueOf(c, Settings[i])
  <2>1. s = [i \in 1 .. 8 |-> Line(Settings[i], ValueOf(c, Settings[i]))]
    BY <1>1
  <2> HIDE DEF s
  <2> QED BY <1>2, <2>1
<1>4. Saved(c) = FoldLeft(Written, Config(ini), s)
  BY DEF Saved
<1> HIDE DEF s
<1>5. s \in Configs
  <2>1. \A i, j \in 1 .. 8 : Settings[i] = Settings[j] => i = j
    BY SettingsAre
  <2>2. \A i, j \in 1 .. 8 : s[i].name = s[j].name => i = j
    BY <1>3, <2>1
  <2> QED BY <1>3, <2>2 DEF Configs
<1>6. Config(ini) \in Configs
  BY ConfigIs
<1>7. Saved(c) \in Configs
      /\ \A i \in 1 .. 8 : Tells(Saved(c), c, Settings[i])
  <2> DEFINE strs == FoldLeft(Written, Config(ini), s)
  <2>1. /\ strs \in Configs
        /\ \A i \in 1 .. 8 : Named(strs, s[i].name) # {} /\ \A default : ReadString(strs, s[i].name, default) = s[i].value
    <3>1. /\ strs \in Configs
          /\ \A i \in 1 .. Len(s) : Named(strs, s[i].name) # {} /\ \A default : ReadString(strs, s[i].name, default) = s[i].value
      BY <1>5, <1>6, AllWritten
    <3> HIDE DEF strs
    <3> QED BY <1>3, <3>1
  <2> HIDE DEF strs
  <2>2. \A i \in 1 .. 8 : Tells(strs, c, Settings[i])
    BY <1>3, <2>1 DEF Tells
  <2> QED BY <1>4, <2>1, <2>2 DEF strs
<1>8. \A name \in Range(Settings) : \E i \in 1 .. 8 : Settings[i] = name
  BY <1>1 DEF Range
<1>9. TellsAll(Saved(c), c)
  BY <1>7, <1>8 DEF TellsAll
<1>10. Saved(c) # NoLines
  <2>1. Named(Saved(c), Settings[1]) # {}
    <3>1. 1 \in 1 .. 8
      OBVIOUS
    <3> QED BY <1>7, <3>1 DEF Tells
  <2>2. Named(NoLines, Settings[1]) = {}
    BY NoLinesAre DEF Named
  <2> QED BY <2>1, <2>2
<1> QED BY <1>7, <1>9, <1>10

\* What is held of one setting is loaded, and the default of what is not held.
LEMMA HeldIs ==
  ASSUME NEW strs \in Configs, NEW c, IsSettings(c), Plain(c["shared_dirs"]), NEW name \in Range(Settings)
  PROVE  /\ Tells(strs, c, name) => LoadedFrom(Config(strs), c["nickname"])[name] = c[name]
         /\ Named(strs, name) = {} => LoadedFrom(Config(strs), c["nickname"])[name] \in {c[name], Default[name]}
<1> DEFINE r == LoadedFrom(Config(strs), c["nickname"])
           Reads(default) == ReadString(Config(strs), name, default)
<1>1. c["shared_dirs"] \in Seq(Seq(Piece))
  BY DEF IsSettings
<1>2. /\ Config(strs) \in Configs /\ Named(Config(strs), name) = Named(strs, name)
      /\ \A default : Named(strs, name) # {} => Reads(default) = Cut(ReadString(strs, name, default))
  BY ConfigTaken
<1>3. /\ name = "shared_dirs" => r[name] = Apart(Reads(NoLines))
      /\ name # "shared_dirs" =>
            r[name] = IF name = "nickname" /\ Reads(<<Default[name]>>)[1] = NoName THEN c["nickname"]
                      ELSE Reads(<<Default[name]>>)[1]
  BY DEF LoadedFrom
<1>4. Default["shared_dirs"] = NoLines /\ Default["nickname"] = NoName
  BY DefaultIs
<1> HIDE DEF r, Reads
<1>5. ASSUME Tells(strs, c, name) PROVE r[name] = c[name]
  <2> DEFINE v == ValueOf(c, name)
  <2>1. v \in Seq(Piece) /\ (name \in Words => Len(v) = 1 /\ v[1] = c[name])
    BY ValueIs
  <2>2. \A default : Reads(default) = Cut(v)
    BY <1>2, <1>5 DEF Tells
  <2>3. CASE name = "shared_dirs"
    <3> DEFINE dirs == c["shared_dirs"]
    <3>1. \A i \in 1 .. Len(dirs) : Len(dirs[i]) = 1
      BY <1>1 DEF Plain, Range
    <3>2. v = Glued(dirs)
      BY <2>3 DEF ValueOf
    <3>3. Apart(Glued(dirs)) = dirs /\ Glued(dirs) \in Seq(Piece)
      BY <1>1, <3>1, GluedIs
    <3>4. Len(Glued(dirs)) = Len(dirs)
      <4> DEFINE w == Glued(dirs)
      <4>1. Len(w) \in Nat
        BY <3>3
      <4> HIDE DEF w
      <4>2. Len(Apart(w)) = Len(w)
        BY <4>1 DEF Apart
      <4> QED BY <3>3, <4>2 DEF w
    <3>5. Len(v) <= LineRoom
      BY <3>2, <3>4 DEF Plain
    <3>6. Cut(v) = v
      BY <2>1, <3>5, CutIs
    <3> QED BY <1>3, <2>2, <2>3, <3>2, <3>3, <3>6
  <2>4. CASE name # "shared_dirs"
    <3>1. name \in Words
      BY <2>4, SettingsAre
    <3>2. Cut(v) = v
      BY <2>1, <3>1, CutIs
    <3>3. Reads(<<Default[name]>>)[1] = c[name]
      BY <2>1, <2>2, <3>1, <3>2
    <3> QED BY <1>3, <2>4, <3>3
  <2> QED BY <2>3, <2>4
<1>6. ASSUME Named(strs, name) = {} PROVE r[name] \in {c[name], Default[name]}
  <2>1. \A default : Reads(default) = default
    BY <1>2, <1>6, ReadIs DEF Reads
  <2>2. CASE name = "shared_dirs"
    <3>1. Apart(NoLines) = NoLines
      BY DEF Apart, NoLines
    <3> QED BY <1>3, <1>4, <2>1, <2>2, <3>1
  <2>3. CASE name # "shared_dirs"
    <3>1. <<Default[name]>>[1] = Default[name]
      OBVIOUS
    <3> QED BY <1>3, <2>1, <2>3, <3>1
  <2> QED BY <2>2, <2>3
<1> QED BY <1>5, <1>6 DEF r

LEMMA LoadedIs ==
  ASSUME NEW strs \in Configs, NEW nick \in Piece
  PROVE  /\ IsSettings(LoadedFrom(strs, nick))
         /\ LoadedFrom(strs, LoadedFrom(strs, nick)["nickname"]) = LoadedFrom(strs, nick)
<1> DEFINE r == LoadedFrom(strs, nick)
           Reads(name, default) == ReadString(strs, name, default)
<1>1. ASSUME NEW name, NEW default \in Seq(Piece), name \in Words => Len(default) = 1
      PROVE  Reads(name, default) \in Seq(Piece) /\ (name \in Words => Len(Reads(name, default)) = 1)
  <2>1. CASE Reads(name, default) = default
    BY <1>1, <2>1
  <2>2. CASE Reads(name, default) # default
    <3>1. PICK i \in 1 .. Len(strs) : strs[i].name = name /\ Reads(name, default) = strs[i].value
      BY <2>2, ReadIs
    <3>2. strs[i] \in Lines
      BY DEF Configs
    <3> HIDE DEF Reads
    <3> QED BY <3>1, <3>2 DEF Lines
  <2> QED BY <2>1, <2>2
<1>2. \A p \in Piece : <<p>> \in Seq(Piece) /\ Len(<<p>>) = 1
  OBVIOUS
<1>3. Default["nickname"] = NoName /\ NoLines \in Seq(Piece) /\ \A name \in Words : Default[name] \in Piece
  BY DefaultIs DEF IsSettings
<1>4. Range(Settings) = Words \cup {"shared_dirs"} /\ "shared_dirs" \notin Words /\ "nickname" \in Words
  BY SettingsAre
<1> HIDE DEF Reads
<1>5. \A name \in Words : Reads(name, <<Default[name]>>)[1] \in Piece
  <2> TAKE name \in Words
  <2> DEFINE v == Reads(name, <<Default[name]>>)
  <2>1. v \in Seq(Piece) /\ Len(v) = 1
    BY <1>1, <1>2, <1>3
  <2> HIDE DEF v
  <2>2. v[1] \in Piece
    BY <2>1
  <2> QED BY <2>2 DEF v
<1>6. Apart(Reads("shared_dirs", NoLines)) \in Seq(Seq(Piece))
  <2> DEFINE v == Reads("shared_dirs", NoLines)
  <2>1. v \in Seq(Piece)
    BY <1>1, <1>3, <1>4
  <2> HIDE DEF v
  <2>2. Apart(v) \in Seq(Seq(Piece))
    BY <2>1 DEF Apart
  <2> QED BY <2>2 DEF v
<1> DEFINE Made(m) == [name \in Range(Settings) |->
                         IF name = "shared_dirs" THEN Apart(Reads(name, NoLines))
                         ELSE IF name = "nickname" /\ Reads(name, <<Default[name]>>)[1] = NoName THEN m
                         ELSE Reads(name, <<Default[name]>>)[1]]
<1>7. \A m : LoadedFrom(strs, m) = Made(m)
  BY Zenon DEF LoadedFrom, Reads
<1>8. IsSettings(Made(nick))
  <2> DEFINE f == Made(nick)
  <2>1. f = [name \in Range(Settings) |-> f[name]]
    OBVIOUS
  <2>2. /\ f["shared_dirs"] = Apart(Reads("shared_dirs", NoLines))
        /\ \A name \in Words : f[name] = nick \/ f[name] = Reads(name, <<Default[name]>>)[1]
    BY <1>4
  <2> HIDE DEF f
  <2>3. \A name \in Words : f[name] \in Piece
    BY <1>5, <2>2
  <2>4. f["shared_dirs"] \in Seq(Seq(Piece))
    BY <1>6, <2>2
  <2>5. IsSettings(f)
    BY <2>1, <2>3, <2>4 DEF IsSettings
  <2> QED BY <2>5 DEF f
<1>9. Made(Made(nick)["nickname"]) = Made(nick)
  <2>1. Made(nick)["nickname"] = IF Reads("nickname", <<Default["nickname"]>>)[1] = NoName THEN nick
                                 ELSE Reads("nickname", <<Default["nickname"]>>)[1]
    BY <1>4
  <2> DEFINE m == Made(nick)["nickname"]
  <2>2. Reads("nickname", <<Default["nickname"]>>)[1] = NoName => m = nick
    BY <2>1
  <2> HIDE DEF m
  <2>3. \A name \in Range(Settings) : Made(m)[name] = Made(nick)[name]
    BY <2>2
  <2>4. Made(m) = Made(nick)
    BY <2>3
  <2> QED BY <2>4 DEF m
<1> HIDE DEF Made
<1> QED BY <1>7, <1>8, <1>9

-----------------------------------------------------------------------------
(* SettingsView: the three places agree *)

\* All but the network's name.
KeptSettings == Range(Settings) \ {"network"}
FoundAgain(there, lines, c) ==
    there /\ Plain(c["shared_dirs"]) => \A name \in KeptSettings : LoadedIn(there, lines, c["nickname"])[name] = c[name]
FoundInPart(there, lines, c) ==
    there /\ Plain(c["shared_dirs"]) =>
       \A name \in KeptSettings : LoadedIn(there, lines, c["nickname"])[name] \in {c[name], Default[name]}
Agrees(v, c, twice) ==
    /\ \A name \in {"nickname", "port", "downloadflags", "throttleflag"} : v[name] = c[name]
    /\ LimitsSend(c["throttleflag"]) => c["throttlesend"] \in {v["throttlesend"], "0"}
    /\ LimitsRecv(c["throttleflag"]) => c["throttlerecv"] \in {v["throttlerecv"], "0"}
    /\ ~twice => v["shared_dirs"] = c["shared_dirs"]
SettingsTyped ==
    /\ up \in BOOLEAN /\ exists \in BOOLEAN /\ doubled \in BOOLEAN /\ torn \in BOOLEAN
    /\ ini \in Seq(Lines) /\ flushing \in Configs
    /\ IsSettings(core) /\ IsSettings(view) /\ browser \in Seq(Seq(Piece))
\* While lines are being written they tell what the core has; before and after, the file does.
FileHas ==
    /\ flushing # NoLines => up /\ TellsAll(flushing, core)
    /\ up /\ flushing = NoLines => FoundAgain(exists, ini, core)
    /\ torn => ~up /\ FoundInPart(exists, ini, core)
SettingsInv == SettingsTyped /\ FileHas /\ (up => Agrees(view, core, doubled))

LEMMA WiderSeq ==
  ASSUME NEW S, NEW T, S \subseteq T
  PROVE  Seq(S) \subseteq Seq(T)
OBVIOUS

LEMMA StringsAre == STRING \subseteq Piece /\ STRING \subseteq Names
BY Zenon DEF Piece, Names

LEMMA WordsAre ==
  ASSUME NEW dir \in Folders
  PROVE  dir \in Seq(Piece)
<1>1. dir \in Seq(STRING)
  BY SettingsAssumption, Zenon
<1>2. Seq(STRING) \subseteq Seq(Piece)
  BY StringsAre, WiderSeq, Zenon
<1> QED BY <1>1, <1>2, Zenon

LEMMA LinesAre ==
  ASSUME NEW S, S \subseteq Piece, S \subseteq Names, NEW lines \in Seq([name : S, value : Seq(S)]),
         \A i \in 1 .. Len(lines) : lines[i].name \in Words => Len(lines[i].value) = 1
  PROVE  lines \in Seq(Lines)
<1>1. Seq(S) \subseteq Seq(Piece)
  BY WiderSeq
<1>2. ASSUME NEW i \in 1 .. Len(lines) PROVE lines[i] \in Lines
  <2> DEFINE line == lines[i]
  <2>1. line \in [name : S, value : Seq(S)]
    <3> DEFINE R == [name : S, value : Seq(S)]
    <3>1. lines \in Seq(R)
      OBVIOUS
    <3> HIDE DEF R
    <3>2. lines[i] \in R
      BY <3>1
    <3> QED BY <3>2 DEF R
  <2>2. line.name \in Words => Len(line.value) = 1
    OBVIOUS
  <2> HIDE DEF line
  <2>3. line \in [name : Names, value : Seq(Piece)]
    BY <1>1, <2>1
  <2>4. line \in Lines
    BY <2>2, <2>3 DEF Lines
  <2> QED BY <2>4 DEF line
<1> DEFINE R == [name : S, value : Seq(S)]
<1>3. lines \in Seq(R)
  OBVIOUS
<1> HIDE DEF R
<1> QED BY <1>2, <1>3

LEMMA FilesAre ==
  ASSUME NEW lines \in IniFiles
  PROVE  lines \in Seq(Lines)
<1>1. lines \in Seq([name : STRING, value : Seq(STRING)])
      /\ \A i \in 1 .. Len(lines) : lines[i].name \in Words => Len(lines[i].value) = 1
  BY SettingsAssumption, Zenon
<1> QED BY <1>1, StringsAre, LinesAre, Zenon

\* What is loaded, as the core and the view take it.
LEMMA LoadedAgrees ==
  ASSUME ini \in Seq(Lines), exists \in BOOLEAN, NEW nick \in Piece,
         NEW c, c = [Loaded(nick) EXCEPT !["network"] = NoName], NEW v, v = Shown(Loaded(nick))
  PROVE  IsSettings(c) /\ IsSettings(v) /\ Agrees(v, c, FALSE) /\ FoundAgain(exists, ini, c)
<1> DEFINE r == LoadedIn(exists, ini, nick)
<1>1. Loaded(nick) = r
  BY LoadedSays
<1>2. Config(ini) \in Configs
  BY ConfigIs
<1>3. "nickname" \in Words /\ "network" \in Words /\ "throttlesend" \in Words /\ "throttlerecv" \in Words
      /\ "shared_dirs" \notin Words /\ "shared_dirs" \in Range(Settings) /\ Words \subseteq Range(Settings)
      /\ "port" \in Words /\ "throttleflag" \in Words /\ "downloadflags" \in Words
  BY SettingsAre
<1>4. IsSettings(Fresh(nick))
  <2> DEFINE d1 == [Default EXCEPT !["nickname"] = nick]  d2 == [d1 EXCEPT !["throttlesend"] = "0"]
             d3 == [d2 EXCEPT !["throttlerecv"] = "0"]
  <2>1. IsSettings(Default) /\ "0" \in Piece
    BY DefaultIs, WordsOfProgram
  <2>2. IsSettings(d1)
    BY <1>3, <2>1, SettingsChange
  <2> HIDE DEF d1
  <2>3. IsSettings(d2)
    BY <1>3, <2>1, <2>2, SettingsChange
  <2> HIDE DEF d2
  <2>4. IsSettings(d3)
    BY <1>3, <2>1, <2>3, SettingsChange
  <2>5. Fresh(nick) = d3
    BY DEF Fresh, d1, d2
  <2> HIDE DEF d3
  <2> QED BY <2>4, <2>5
<1>5. IsSettings(r) /\ (exists => LoadedIn(exists, ini, r["nickname"]) = r)
  <2>1. CASE ~exists
    BY <1>4, <2>1 DEF LoadedIn
  <2>2. CASE exists
    <3>1. r = LoadedFrom(Config(ini), nick) /\ \A m : LoadedIn(exists, ini, m) = LoadedFrom(Config(ini), m)
      BY <2>2 DEF LoadedIn
    <3> HIDE DEF r
    <3> QED BY <1>2, <3>1, LoadedIs
  <2> QED BY <2>1, <2>2
<1> HIDE DEF r
<1>6. IsSettings(c) /\ \A name \in KeptSettings : c[name] = r[name]
  <2>1. c = [r EXCEPT !["network"] = NoName] /\ DOMAIN r = Range(Settings)
    BY <1>1, <1>5, SettingsChange
  <2>2. IsSettings(c)
    <3>1. \A name \in Words, p \in Piece : IsSettings([r EXCEPT ![name] = p])
      BY <1>5, SettingsChange
    <3>2. NoName \in Piece
      BY WordsOfProgram
    <3>3. IsSettings([r EXCEPT !["network"] = NoName])
      BY <1>3, <3>1, <3>2
    <3> QED BY <2>1, <3>3
  <2>3. \A name \in KeptSettings : c[name] = r[name]
    BY <2>1 DEF KeptSettings
  <2> QED BY <2>2, <2>3
<1>7. /\ IsSettings(v) /\ v["throttlesend"] = (IF r["throttlesend"] = "0" THEN "128" ELSE r["throttlesend"])
      /\ v["throttlerecv"] = (IF r["throttlerecv"] = "0" THEN "128" ELSE r["throttlerecv"])
      /\ \A name \in Range(Settings) : name \notin {"throttlesend", "throttlerecv"} => v[name] = r[name]
  <2> DEFINE p == IF r["throttlesend"] = "0" THEN "128" ELSE r["throttlesend"]
             q == IF r["throttlerecv"] = "0" THEN "128" ELSE r["throttlerecv"]
             v1 == [r EXCEPT !["throttlesend"] = p]
  <2>1. DOMAIN r = Range(Settings)
    BY <1>5, SettingsChange
  <2>2. r["throttlesend"] \in Piece /\ r["throttlerecv"] \in Piece
    BY <1>3, <1>5 DEF IsSettings
  <2>3. p \in Piece /\ q \in Piece
    BY <2>2, WordsOfProgram
  <2>4. v = [v1 EXCEPT !["throttlerecv"] = q]
    BY <1>1, <1>3, <2>1 DEF Shown
  <2>5. v1["throttlesend"] = p /\ DOMAIN v1 = Range(Settings)
        /\ \A name \in Range(Settings) : name # "throttlesend" => v1[name] = r[name]
    BY <1>3, <2>1
  <2> HIDE DEF p, q
  <2>6. IsSettings(v1)
    BY <1>3, <1>5, <2>3, SettingsChange
  <2> HIDE DEF v1
  <2>7. IsSettings(v)
    <3>1. \A name \in Words, x \in Piece : IsSettings([v1 EXCEPT ![name] = x])
      BY <2>6, SettingsChange
    <3>2. IsSettings([v1 EXCEPT !["throttlerecv"] = q])
      BY <1>3, <2>3, <3>1
    <3> QED BY <2>4, <3>2
  <2>8. v["throttlerecv"] = q /\ \A name \in Range(Settings) : name # "throttlerecv" => v[name] = v1[name]
    BY <1>3, <2>4, <2>5
  <2>9. v["throttlesend"] = p
    BY <1>3, <2>5, <2>8
  <2> QED BY <2>5, <2>7, <2>8, <2>9 DEF p, q
<1>8. Agrees(v, c, FALSE)
  <2>1. /\ c["nickname"] = r["nickname"] /\ c["port"] = r["port"] /\ c["downloadflags"] = r["downloadflags"]
        /\ c["throttleflag"] = r["throttleflag"] /\ c["throttlesend"] = r["throttlesend"]
        /\ c["throttlerecv"] = r["throttlerecv"] /\ c["shared_dirs"] = r["shared_dirs"]
    BY <1>3, <1>6 DEF KeptSettings
  <2>2. /\ v["nickname"] = r["nickname"] /\ v["port"] = r["port"] /\ v["downloadflags"] = r["downloadflags"]
        /\ v["throttleflag"] = r["throttleflag"] /\ v["shared_dirs"] = r["shared_dirs"]
    BY <1>3, <1>7
  <2> QED BY <1>7, <2>1, <2>2 DEF Agrees
<1>9. FoundAgain(exists, ini, c)
  <2>1. c["nickname"] = r["nickname"]
    BY <1>3, <1>6 DEF KeptSettings
  <2> QED BY <1>5, <1>6, <2>1 DEF FoundAgain
<1> QED BY <1>6, <1>7, <1>8, <1>9

\* Flush writes what the core has, or a part of it.
LEMMA FlushFinds ==
  ASSUME NEW strs \in Configs, NEW c, IsSettings(c), TellsAll(strs, c), NEW there \in BOOLEAN, there
  PROVE  /\ FoundAgain(there, strs, c)
         /\ \A n \in 0 .. Len(strs) : FoundInPart(there, SubSeq(strs, 1, n), c)
<1>1. \A lines, nick : LoadedIn(there, lines, nick) = LoadedFrom(Config(lines), nick)
  BY DEF LoadedIn
<1>2. FoundAgain(there, strs, c)
  <2> SUFFICES ASSUME Plain(c["shared_dirs"]), NEW name \in KeptSettings
               PROVE  LoadedFrom(Config(strs), c["nickname"])[name] = c[name]
    BY <1>1 DEF FoundAgain
  <2>1. name \in Range(Settings) /\ Tells(strs, c, name)
    BY DEF KeptSettings, TellsAll
  <2> QED BY <2>1, HeldIs
<1>3. ASSUME NEW n \in 0 .. Len(strs) PROVE FoundInPart(there, SubSeq(strs, 1, n), c)
  <2> DEFINE s == SubSeq(strs, 1, n)
  <2>1. /\ s \in Configs
        /\ \A name : Named(s, name) # {} => \A default : ReadString(s, name, default) = ReadString(strs, name, default)
    BY PrefixIs
  <2> HIDE DEF s
  <2>2. ASSUME Plain(c["shared_dirs"]), NEW name \in KeptSettings
        PROVE  LoadedFrom(Config(s), c["nickname"])[name] \in {c[name], Default[name]}
    <3>1. name \in Range(Settings) /\ Tells(strs, c, name)
      BY DEF KeptSettings, TellsAll
    <3>2. Named(s, name) # {} => Tells(s, c, name)
      BY <2>1, <3>1 DEF Tells
    <3> QED BY <2>1, <2>2, <3>1, <3>2, HeldIs
  <2>3. FoundInPart(there, s, c)
    BY <1>1, <2>2 DEF FoundInPart
  <2> QED BY <2>3 DEF s
<1> QED BY <1>2, <1>3

LEMMA SettingsStart == SettingsInit => SettingsInv
<1> SUFFICES ASSUME SettingsInit PROVE SettingsInv
  OBVIOUS
<1>1. ini \in Seq(Lines)
  BY FilesAre DEF SettingsInit
<1>2. IsSettings(core) /\ IsSettings(view)
  BY DefaultIs DEF SettingsInit
<1>3. flushing = NoLines /\ flushing \in Configs
  BY NoLinesAre DEF SettingsInit, NoLines
<1>4. browser \in Seq(Seq(Piece))
  BY DEF SettingsInit
<1> QED BY <1>1, <1>2, <1>3, <1>4 DEF SettingsInit, SettingsInv, SettingsTyped, FileHas

\* A handler that changes settings and saves them, one that changes neither, and one that
\* changes a row alone.
LEMMA SaveKeeps ==
  ASSUME SettingsInv, up, up' = up, torn' = torn, doubled' \in BOOLEAN, browser' \in Seq(Seq(Piece)),
         IsSettings(core'), IsSettings(view'), Agrees(view', core', doubled'), Save(core')
  PROVE  SettingsInv'
<1>1. exists' = TRUE /\ ini' = <<>> /\ flushing' = Saved(core')
  BY DEF Save
<1>2. ini \in Seq(Lines) /\ torn \in BOOLEAN /\ ~torn
  BY DEF SettingsInv, SettingsTyped, FileHas
<1> DEFINE c == core'
<1>3. Saved(c) \in Configs /\ TellsAll(Saved(c), c) /\ Saved(c) # NoLines
  <2> HIDE DEF c
  <2>1. IsSettings(c)
    BY DEF c
  <2> QED BY <1>2, <2>1, SavedIs
<1>4. ini' \in Seq(Lines)
  <2>1. <<>> \in Seq(Lines)
    OBVIOUS
  <2> QED BY <1>1, <2>1
<1>5. SettingsTyped'
  BY <1>1, <1>2, <1>3, <1>4 DEF SettingsTyped
<1>6. FileHas'
  BY <1>1, <1>2, <1>3 DEF FileHas
<1> QED BY <1>5, <1>6 DEF SettingsInv

LEMMA KeepKeeps ==
  ASSUME SettingsInv, up, up' = up, torn' = torn, doubled' \in BOOLEAN, browser' \in Seq(Seq(Piece)),
         core' = core, UNCHANGED fileVars, IsSettings(view'), Agrees(view', core', doubled')
  PROVE  SettingsInv'
<1>1. exists' = exists /\ ini' = ini /\ flushing' = flushing
  BY DEF fileVars
<1>2. SettingsTyped'
  BY <1>1 DEF SettingsInv, SettingsTyped
<1>3. FileHas'
  BY <1>1 DEF SettingsInv, FileHas
<1> QED BY <1>2, <1>3 DEF SettingsInv

LEMMA LimitsAre ==
  \A a, b \in BOOLEAN : Limits(a, b) \in Piece /\ LimitsSend(Limits(a, b)) = a /\ LimitsRecv(Limits(a, b)) = b
BY WordsOfProgram DEF Limits, LimitsSend, LimitsRecv

LEMMA SettingsStep == SettingsInv /\ [SettingsNext]_settingsVars => SettingsInv'
<1> SUFFICES ASSUME SettingsInv, [SettingsNext]_settingsVars PROVE SettingsInv'
  OBVIOUS
<1>1. /\ up \in BOOLEAN /\ exists \in BOOLEAN /\ doubled \in BOOLEAN /\ torn \in BOOLEAN
      /\ ini \in Seq(Lines) /\ flushing \in Configs
      /\ IsSettings(core) /\ IsSettings(view) /\ browser \in Seq(Seq(Piece))
      /\ up => Agrees(view, core, doubled)
  BY DEF SettingsInv, SettingsTyped
<1>2. /\ flushing # NoLines => up /\ TellsAll(flushing, core)
      /\ up /\ flushing = NoLines => FoundAgain(exists, ini, core)
      /\ torn => ~up /\ FoundInPart(exists, ini, core)
  BY DEF SettingsInv, FileHas
<1>3. /\ core["shared_dirs"] \in Seq(Seq(Piece)) /\ view["shared_dirs"] \in Seq(Seq(Piece))
      /\ (\A name \in Words : core[name] \in Piece /\ view[name] \in Piece)
      /\ DOMAIN core = Range(Settings) /\ DOMAIN view = Range(Settings)
  BY <1>1, SettingsChange DEF IsSettings
<1>4. /\ "nickname" \in Words /\ "network" \in Words /\ "throttlesend" \in Words /\ "throttlerecv" \in Words
      /\ "shared_dirs" \notin Words /\ "shared_dirs" \in Range(Settings) /\ Words \subseteq Range(Settings)
      /\ "port" \in Words /\ "throttleflag" \in Words /\ "downloadflags" \in Words
  BY SettingsAre
<1>5. <<>> \in Seq(Seq(Piece))
  OBVIOUS
<1>6. CASE UNCHANGED settingsVars
  <2>1. UNCHANGED <<up, exists, ini, flushing, core, view, browser, doubled, torn>>
    BY <1>6 DEF settingsVars, fileVars
  <2>2. SettingsTyped'
    BY <1>1, <2>1 DEF SettingsTyped
  <2>3. FileHas' /\ (up' => Agrees(view', core', doubled'))
    BY <1>1, <1>2, <2>1 DEF FileHas
  <2> QED BY <2>2, <2>3 DEF SettingsInv
<1>7. CASE Start
  <2>1. PICK nick : nick \in Nicknames /\ core' = [Loaded(nick) EXCEPT !["network"] = NoName] /\ view' = Shown(Loaded(nick))
    BY <1>7 DEF Start
  <2>2. nick \in Piece
    BY <2>1, SettingsAssumption DEF Piece
  <2> DEFINE c == core'  v == view'
  <2>3. c = [Loaded(nick) EXCEPT !["network"] = NoName] /\ v = Shown(Loaded(nick))
    BY <2>1
  <2> HIDE DEF c, v
  <2>4. IsSettings(c) /\ IsSettings(v) /\ Agrees(v, c, FALSE) /\ FoundAgain(exists, ini, c)
    BY <1>1, <2>2, <2>3, LoadedAgrees
  <2>5. /\ ~up /\ up' = TRUE /\ doubled' = FALSE /\ torn' = FALSE
        /\ exists' = exists /\ ini' = ini /\ flushing' = flushing /\ browser' = browser
    BY <1>7 DEF Start, fileVars
  <2>6. SettingsTyped'
    BY <1>1, <2>4, <2>5 DEF SettingsTyped, c, v
  <2>7. FileHas'
    BY <1>2, <2>4, <2>5 DEF FileHas, c
  <2>8. Agrees(view', core', doubled')
    BY <2>4, <2>5 DEF c, v
  <2> QED BY <2>6, <2>7, <2>8 DEF SettingsInv
<1>8. CASE End
  <2>1. /\ up' = FALSE /\ up /\ flushing = NoLines
        /\ UNCHANGED <<exists, ini, flushing, core, view, browser, doubled, torn>>
    BY <1>8 DEF End, AtSettings, Idle, fileVars, NoLines
  <2>2. SettingsTyped'
    BY <1>1, <2>1 DEF SettingsTyped
  <2>3. FileHas'
    BY <1>2, <2>1 DEF FileHas
  <2> QED BY <2>1, <2>2, <2>3 DEF SettingsInv
<1>9. CASE Flush
  <2>1. /\ flushing # NoLines /\ ini' = flushing /\ flushing' = NoLines
        /\ UNCHANGED <<up, exists, core, view, browser, doubled, torn>>
    BY <1>9 DEF Flush, NoLines
  <2>2. up /\ TellsAll(flushing, core)
    BY <1>2, <2>1
  <2>3. FoundAgain(exists, flushing, core)
    <3>1. CASE exists
      BY <1>1, <2>2, <3>1, FlushFinds
    <3>2. CASE ~exists
      BY <3>2 DEF FoundAgain
    <3> QED BY <1>1, <3>1, <3>2
  <2>4. ini' \in Seq(Lines) /\ flushing' \in Configs
    BY <1>1, <2>1, NoLinesAre DEF Configs
  <2>5. SettingsTyped'
    BY <1>1, <2>1, <2>4 DEF SettingsTyped
  <2>6. FileHas'
    BY <1>2, <2>1, <2>2, <2>3 DEF FileHas
  <2>7. up' => Agrees(view', core', doubled')
    BY <1>1, <2>1
  <2> QED BY <2>5, <2>6, <2>7 DEF SettingsInv
<1>10. CASE CrashInFlush
  <2>1. PICK n \in 0 .. Len(flushing) - 1 : ini' = SubSeq(flushing, 1, n)
    BY <1>10 DEF CrashInFlush
  <2>2. /\ flushing' = NoLines /\ up' = FALSE /\ torn' = TRUE
        /\ UNCHANGED <<exists, core, view, browser, doubled>>
    BY <1>10 DEF CrashInFlush, NoLines
  <2>3. flushing \in Seq(Lines) /\ n \in 0 .. Len(flushing) /\ flushing # NoLines
    <3>1. flushing \in Seq(Lines)
      BY <1>1 DEF Configs
    <3> QED BY <2>1, <3>1, NoLinesAre
  <2>4. TellsAll(flushing, core)
    BY <1>2, <2>3
  <2>5. FoundInPart(exists, SubSeq(flushing, 1, n), core)
    <3>1. CASE exists
      BY <1>1, <2>3, <2>4, <3>1, FlushFinds
    <3>2. CASE ~exists
      BY <3>2 DEF FoundInPart
    <3> QED BY <1>1, <3>1, <3>2
  <2>6. ini' \in Seq(Lines) /\ flushing' \in Configs
    <3>1. SubSeq(flushing, 1, n) \in Configs
      BY <1>1, <2>3, PrefixIs
    <3> QED BY <2>1, <2>2, <3>1, NoLinesAre DEF Configs
  <2>7. SettingsTyped'
    BY <1>1, <2>2, <2>6 DEF SettingsTyped
  <2>8. FileHas'
    BY <2>1, <2>2, <2>5 DEF FileHas
  <2> QED BY <2>2, <2>7, <2>8 DEF SettingsInv
<1>11. CASE SaveConfig
  <2>1. up /\ Save(core) /\ UNCHANGED <<up, core, view, browser, doubled, torn>>
    BY <1>11 DEF SaveConfig, AtSettings, Idle
  <2>2. Save(core')
    BY <2>1 DEF Save, Saved
  <2> QED BY <1>1, <2>1, <2>2, SaveKeeps
<1>12. CASE ToggleUploadLimit
  <2> DEFINE f == core["throttleflag"]  newVal == ~LimitsSend(f)  g == Limits(newVal, LimitsRecv(f))
             x == IF newVal THEN view["throttlesend"] ELSE "0"
             c == core'  v == view'
  <2>1. up /\ view["throttleflag"] = f
    BY <1>1, <1>12 DEF ToggleUploadLimit, AtSettings, Idle, Agrees
  <2>2. /\ v = [view EXCEPT !["throttleflag"] = g]
        /\ c = [core EXCEPT !["throttleflag"] = g, !["throttlesend"] = x]
        /\ Save(core') /\ UNCHANGED <<up, browser, doubled, torn>>
    BY <1>3, <1>4, <1>12, <2>1 DEF ToggleUploadLimit
  <2>3. newVal \in BOOLEAN /\ LimitsRecv(f) \in BOOLEAN
    BY DEF LimitsSend, LimitsRecv
  <2> HIDE DEF newVal, c, v, f
  <2>4. g \in Piece /\ LimitsSend(g) = newVal /\ LimitsRecv(g) = LimitsRecv(f)
    BY <2>3, LimitsAre
  <2>5. x \in Piece /\ (newVal => x = view["throttlesend"])
    BY <1>3, <1>4, WordsOfProgram
  <2> HIDE DEF g, x
  <2>6. IsSettings(v)
    <3>1. \A name \in Words, p \in Piece : IsSettings([view EXCEPT ![name] = p])
      BY <1>1, SettingsChange
    <3> QED BY <1>4, <2>2, <2>4, <3>1
  <2>7. /\ IsSettings(c) /\ c["throttleflag"] = g /\ c["throttlesend"] = x
        /\ \A name \in Range(Settings) : name # "throttleflag" /\ name # "throttlesend" => c[name] = core[name]
    <3> DEFINE d == [core EXCEPT !["throttleflag"] = g]
    <3>1. \A name \in Words, p \in Piece : IsSettings([core EXCEPT ![name] = p])
      BY <1>1, SettingsChange
    <3>2. IsSettings(d)
      BY <1>4, <2>4, <3>1
    <3>3. /\ DOMAIN d = Range(Settings) /\ d["throttleflag"] = g
          /\ \A name \in Range(Settings) : name # "throttleflag" => d[name] = core[name]
      BY <1>3, <1>4
    <3>4. c = [d EXCEPT !["throttlesend"] = x]
      BY <2>2
    <3> HIDE DEF d
    <3>5. \A name \in Words, p \in Piece : IsSettings([d EXCEPT ![name] = p])
      BY <3>2, SettingsChange
    <3>6. IsSettings([d EXCEPT !["throttlesend"] = x])
      BY <1>4, <2>5, <3>5
    <3>7. c["throttlesend"] = x /\ \A name \in Range(Settings) : name # "throttlesend" => c[name] = d[name]
      BY <1>4, <3>3, <3>4
    <3>8. "throttleflag" # "throttlesend"
      OBVIOUS
    <3> QED BY <1>4, <3>3, <3>4, <3>6, <3>7, <3>8
  <2>8. v["throttleflag"] = g /\ \A name \in Range(Settings) : name # "throttleflag" => v[name] = view[name]
    BY <1>3, <1>4, <2>2
  <2>9. Agrees(view, core, doubled)
    BY <1>1, <2>1
  <2>10. Agrees(v, c, doubled)
    <3>1. /\ c["nickname"] = core["nickname"] /\ c["port"] = core["port"] /\ c["downloadflags"] = core["downloadflags"]
          /\ c["throttlerecv"] = core["throttlerecv"] /\ c["shared_dirs"] = core["shared_dirs"]
      BY <1>4, <2>7
    <3>2. /\ v["nickname"] = view["nickname"] /\ v["port"] = view["port"] /\ v["downloadflags"] = view["downloadflags"]
          /\ v["throttlerecv"] = view["throttlerecv"] /\ v["throttlesend"] = view["throttlesend"]
          /\ v["shared_dirs"] = view["shared_dirs"]
      BY <1>4, <2>8
    <3>3. LimitsSend(g) => x \in {v["throttlesend"], "0"}
      BY <2>4, <2>5, <3>2
    <3>4. LimitsRecv(g) => core["throttlerecv"] \in {view["throttlerecv"], "0"}
      BY <2>4, <2>9 DEF Agrees, f
    <3> QED BY <2>7, <2>8, <2>9, <3>1, <3>2, <3>3, <3>4 DEF Agrees
  <2>11. IsSettings(core') /\ IsSettings(view') /\ Agrees(view', core', doubled')
    BY <2>2, <2>6, <2>7, <2>10 DEF c, v
  <2> QED BY <1>1, <2>1, <2>2, <2>11, SaveKeeps
<1>13. CASE ToggleDownloadLimit
  <2> DEFINE f == core["throttleflag"]  newVal == ~LimitsRecv(f)  g == Limits(LimitsSend(f), newVal)
             x == IF newVal THEN view["throttlerecv"] ELSE "0"
             c == core'  v == view'
  <2>1. up /\ view["throttleflag"] = f
    BY <1>1, <1>13 DEF ToggleDownloadLimit, AtSettings, Idle, Agrees
  <2>2. /\ v = [view EXCEPT !["throttleflag"] = g]
        /\ c = [core EXCEPT !["throttleflag"] = g, !["throttlerecv"] = x]
        /\ Save(core') /\ UNCHANGED <<up, browser, doubled, torn>>
    BY <1>3, <1>4, <1>13, <2>1 DEF ToggleDownloadLimit
  <2>3. newVal \in BOOLEAN /\ LimitsSend(f) \in BOOLEAN
    BY DEF LimitsSend, LimitsRecv
  <2> HIDE DEF newVal, c, v, f
  <2>4. g \in Piece /\ LimitsSend(g) = LimitsSend(f) /\ LimitsRecv(g) = newVal
    BY <2>3, LimitsAre
  <2>5. x \in Piece /\ (newVal => x = view["throttlerecv"])
    BY <1>3, <1>4, WordsOfProgram
  <2> HIDE DEF g, x
  <2>6. IsSettings(v)
    <3>1. \A name \in Words, p \in Piece : IsSettings([view EXCEPT ![name] = p])
      BY <1>1, SettingsChange
    <3> QED BY <1>4, <2>2, <2>4, <3>1
  <2>7. /\ IsSettings(c) /\ c["throttleflag"] = g /\ c["throttlerecv"] = x
        /\ \A name \in Range(Settings) : name # "throttleflag" /\ name # "throttlerecv" => c[name] = core[name]
    <3> DEFINE d == [core EXCEPT !["throttleflag"] = g]
    <3>1. \A name \in Words, p \in Piece : IsSettings([core EXCEPT ![name] = p])
      BY <1>1, SettingsChange
    <3>2. IsSettings(d)
      BY <1>4, <2>4, <3>1
    <3>3. /\ DOMAIN d = Range(Settings) /\ d["throttleflag"] = g
          /\ \A name \in Range(Settings) : name # "throttleflag" => d[name] = core[name]
      BY <1>3, <1>4
    <3>4. c = [d EXCEPT !["throttlerecv"] = x]
      BY <2>2
    <3> HIDE DEF d
    <3>5. \A name \in Words, p \in Piece : IsSettings([d EXCEPT ![name] = p])
      BY <3>2, SettingsChange
    <3>6. IsSettings([d EXCEPT !["throttlerecv"] = x])
      BY <1>4, <2>5, <3>5
    <3>7. c["throttlerecv"] = x /\ \A name \in Range(Settings) : name # "throttlerecv" => c[name] = d[name]
      BY <1>4, <3>3, <3>4
    <3>8. "throttleflag" # "throttlerecv"
      OBVIOUS
    <3> QED BY <1>4, <3>3, <3>4, <3>6, <3>7, <3>8
  <2>8. v["throttleflag"] = g /\ \A name \in Range(Settings) : name # "throttleflag" => v[name] = view[name]
    BY <1>3, <1>4, <2>2
  <2>9. Agrees(view, core, doubled)
    BY <1>1, <2>1
  <2>10. Agrees(v, c, doubled)
    <3>1. /\ c["nickname"] = core["nickname"] /\ c["port"] = core["port"] /\ c["downloadflags"] = core["downloadflags"]
          /\ c["throttlesend"] = core["throttlesend"] /\ c["shared_dirs"] = core["shared_dirs"]
      BY <1>4, <2>7
    <3>2. /\ v["nickname"] = view["nickname"] /\ v["port"] = view["port"] /\ v["downloadflags"] = view["downloadflags"]
          /\ v["throttlerecv"] = view["throttlerecv"] /\ v["throttlesend"] = view["throttlesend"]
          /\ v["shared_dirs"] = view["shared_dirs"]
      BY <1>4, <2>8
    <3>3. LimitsRecv(g) => x \in {v["throttlerecv"], "0"}
      BY <2>4, <2>5, <3>2
    <3>4. LimitsSend(g) => core["throttlesend"] \in {view["throttlesend"], "0"}
      BY <2>4, <2>9 DEF Agrees, f
    <3> QED BY <2>7, <2>8, <2>9, <3>1, <3>2, <3>3, <3>4 DEF Agrees
  <2>11. IsSettings(core') /\ IsSettings(view') /\ Agrees(view', core', doubled')
    BY <2>2, <2>6, <2>7, <2>10 DEF c, v
  <2> QED BY <1>1, <2>1, <2>2, <2>11, SaveKeeps
<1>14. CASE ToggleAcceptIncoming
  <2> DEFINE g == IF Accepts(view["downloadflags"]) THEN "6" ELSE "7"
             c == core'  v == view'
  <2>1. up /\ v = [view EXCEPT !["downloadflags"] = g] /\ c = [core EXCEPT !["downloadflags"] = g]
        /\ Save(core') /\ UNCHANGED <<up, browser, doubled, torn>>
    BY <1>14 DEF ToggleAcceptIncoming, AtSettings, Idle
  <2>2. g \in Piece
    BY WordsOfProgram
  <2> HIDE DEF g, c, v
  <2>3. IsSettings(v) /\ IsSettings(c)
    <3>1. \A name \in Words, p \in Piece : IsSettings([view EXCEPT ![name] = p]) /\ IsSettings([core EXCEPT ![name] = p])
      BY <1>1, SettingsChange
    <3> QED BY <1>4, <2>1, <2>2, <3>1
  <2>4. /\ v["downloadflags"] = g /\ c["downloadflags"] = g
        /\ \A name \in Range(Settings) : name # "downloadflags" => v[name] = view[name] /\ c[name] = core[name]
    BY <1>3, <1>4, <2>1
  <2>5. Agrees(view, core, doubled)
    BY <1>1, <2>1
  <2>6. Agrees(v, c, doubled)
    <3>1. /\ c["nickname"] = core["nickname"] /\ c["port"] = core["port"] /\ c["throttleflag"] = core["throttleflag"]
          /\ c["throttlesend"] = core["throttlesend"] /\ c["throttlerecv"] = core["throttlerecv"]
          /\ c["shared_dirs"] = core["shared_dirs"]
          /\ v["nickname"] = view["nickname"] /\ v["port"] = view["port"] /\ v["throttleflag"] = view["throttleflag"]
          /\ v["throttlerecv"] = view["throttlerecv"] /\ v["throttlesend"] = view["throttlesend"]
          /\ v["shared_dirs"] = view["shared_dirs"]
      BY <1>4, <2>4
    <3> QED BY <2>4, <2>5, <3>1 DEF Agrees
  <2>7. IsSettings(core') /\ IsSettings(view') /\ Agrees(view', core', doubled')
    BY <2>1, <2>3, <2>6 DEF c, v
  <2> QED BY <1>1, <2>1, <2>7, SaveKeeps
<1>15. CASE OpenBrowser \/ Browsed \/ CloseBrowser
  <2>1. up /\ UNCHANGED <<up, fileVars, core, view, doubled, torn>>
    BY <1>15 DEF OpenBrowser, Browsed, CloseBrowser, AtSettings, Idle
  <2>2. browser' \in Seq(Seq(Piece))
    <3>1. CASE CloseBrowser
      BY <1>5, <3>1 DEF CloseBrowser
    <3>2. CASE OpenBrowser \/ Browsed
      <4>1. PICK dir \in Folders : browser' = <<dir>>
        BY <3>2 DEF OpenBrowser, Browsed
      <4>2. dir \in Seq(Piece)
        BY WordsAre
      <4> QED BY <4>1, <4>2
    <3> QED BY <1>15, <3>1, <3>2
  <2> QED BY <1>1, <2>1, <2>2, KeepKeeps
<1>16. CASE ShareFolder
  <2> DEFINE dir == browser[1]  c == core'  v == view'
  <2>1. up /\ dir \in Seq(Piece)
    BY <1>1, <1>16 DEF ShareFolder, Idle
  <2>2. v = [view EXCEPT !["shared_dirs"] = Append(@, dir)] /\ browser' = <<>> /\ UNCHANGED <<up, torn>>
    BY <1>16 DEF ShareFolder
  <2>3. \/ doubled' = TRUE /\ core' = core /\ UNCHANGED fileVars
        \/ c = [core EXCEPT !["shared_dirs"] = Append(@, dir)] /\ Save(core') /\ doubled' = doubled
    BY <1>16 DEF ShareFolder
  <2> HIDE DEF dir, c, v
  <2>4. Append(view["shared_dirs"], dir) \in Seq(Seq(Piece)) /\ Append(core["shared_dirs"], dir) \in Seq(Seq(Piece))
    BY <1>3, <2>1
  <2>5. /\ \A dirs \in Seq(Seq(Piece)) : IsSettings([view EXCEPT !["shared_dirs"] = dirs])
        /\ \A dirs \in Seq(Seq(Piece)) : IsSettings([core EXCEPT !["shared_dirs"] = dirs])
    BY <1>1, SettingsChange
  <2>6. IsSettings(v)
    BY <2>2, <2>4, <2>5
  <2>7. /\ v["shared_dirs"] = Append(view["shared_dirs"], dir)
        /\ \A name \in Words : v[name] = view[name]
    BY <1>3, <1>4, <2>2
  <2>8. Agrees(view, core, doubled)
    BY <1>1, <2>1
  <2>9. browser' \in Seq(Seq(Piece))
    BY <1>5, <2>2
  <2>10. CASE doubled' = TRUE /\ core' = core /\ UNCHANGED fileVars
    <3>1. Agrees(v, core, TRUE)
      BY <1>4, <2>7, <2>8 DEF Agrees
    <3>2. IsSettings(view') /\ Agrees(view', core', doubled') /\ doubled' \in BOOLEAN
      BY <2>6, <2>10, <3>1 DEF v
    <3> QED BY <2>1, <2>2, <2>9, <2>10, <3>2, KeepKeeps
  <2>11. CASE c = [core EXCEPT !["shared_dirs"] = Append(@, dir)] /\ Save(core') /\ doubled' = doubled
    <3>1. IsSettings(c)
      BY <2>4, <2>5, <2>11
    <3>2. c["shared_dirs"] = Append(core["shared_dirs"], dir) /\ \A name \in Words : c[name] = core[name]
      BY <1>3, <1>4, <2>11
    <3>3. Agrees(v, c, doubled)
      BY <1>4, <2>7, <2>8, <3>2 DEF Agrees
    <3>4. IsSettings(core') /\ IsSettings(view') /\ Agrees(view', core', doubled') /\ doubled' \in BOOLEAN
      BY <1>1, <2>6, <2>11, <3>1, <3>3 DEF c, v
    <3> QED BY <2>1, <2>2, <2>9, <2>11, <3>4, SaveKeeps
  <2> QED BY <2>3, <2>10, <2>11
<1>17. CASE RemoveFolder
  <2> DEFINE c == core'  v == view'
  <2>1. up /\ UNCHANGED <<up, browser, doubled, torn>>
    BY <1>17 DEF RemoveFolder, AtSettings, Idle
  <2>2. PICK i \in 1 .. Len(view["shared_dirs"]) :
           /\ v = [view EXCEPT !["shared_dirs"] = RemoveAt(@, i)]
           /\ IF i > Len(core["shared_dirs"]) THEN UNCHANGED <<core, fileVars>>
              ELSE c = [core EXCEPT !["shared_dirs"] = RemoveAt(@, i)] /\ Save(core')
    BY <1>17, Zenon DEF RemoveFolder
  <2> HIDE DEF c, v
  <2> DEFINE here == i <= Len(core["shared_dirs"])
  <2>3. Len(core["shared_dirs"]) \in Nat /\ i \in Nat /\ here = ~(i > Len(core["shared_dirs"])) /\ (here => i \in 1 .. Len(core["shared_dirs"]))
    BY <1>3
  <2>4. RemoveAt(view["shared_dirs"], i) \in Seq(Seq(Piece)) /\ (here => RemoveAt(core["shared_dirs"], i) \in Seq(Seq(Piece)))
    BY <1>3, <2>3, RemovedIs
  <2>5. /\ \A dirs \in Seq(Seq(Piece)) : IsSettings([view EXCEPT !["shared_dirs"] = dirs])
        /\ \A dirs \in Seq(Seq(Piece)) : IsSettings([core EXCEPT !["shared_dirs"] = dirs])
    BY <1>1, SettingsChange
  <2>6. IsSettings(v)
    BY <2>2, <2>4, <2>5
  <2>7. v["shared_dirs"] = RemoveAt(view["shared_dirs"], i) /\ \A name \in Words : v[name] = view[name]
    BY <1>3, <1>4, <2>2
  <2>8. Agrees(view, core, doubled)
    BY <1>1, <2>1
  <2>9. CASE ~here
    <3>1. core' = core /\ UNCHANGED fileVars
      BY <2>2, <2>3, <2>9
    <3>2. ~doubled => view["shared_dirs"] = core["shared_dirs"]
      BY <2>8 DEF Agrees
    <3>3. doubled
      BY <1>3, <2>3, <2>9, <3>2
    <3>4. Agrees(v, core, doubled)
      BY <1>4, <2>7, <2>8, <3>3 DEF Agrees
    <3>5. IsSettings(view') /\ Agrees(view', core', doubled') /\ doubled' \in BOOLEAN
      BY <1>1, <2>1, <2>6, <3>1, <3>4 DEF v
    <3> QED BY <1>1, <2>1, <3>1, <3>5, KeepKeeps
  <2>10. CASE here
    <3>1. c = [core EXCEPT !["shared_dirs"] = RemoveAt(@, i)] /\ Save(core')
      BY <2>2, <2>3, <2>10
    <3>2. IsSettings(c)
      BY <2>4, <2>5, <2>10, <3>1
    <3>3. c["shared_dirs"] = RemoveAt(core["shared_dirs"], i) /\ \A name \in Words : c[name] = core[name]
      BY <1>3, <1>4, <3>1
    <3>4. Agrees(v, c, doubled)
      BY <1>4, <2>7, <2>8, <3>3 DEF Agrees
    <3>5. IsSettings(core') /\ IsSettings(view') /\ Agrees(view', core', doubled')
      BY <2>1, <2>6, <3>2, <3>4 DEF c, v
    <3> QED BY <1>1, <2>1, <3>1, <3>5, SaveKeeps
  <2> QED BY <2>9, <2>10
<1> QED BY <1>6, <1>7, <1>8, <1>9, <1>10, <1>11, <1>12, <1>13, <1>14, <1>15, <1>16, <1>17 DEF SettingsNext

LEMMA SettingsInvKeeps == SettingsInv => SettingsKept
<1> SUFFICES ASSUME SettingsInv PROVE SettingsKept
  OBVIOUS
<1>1. /\ up => Agrees(view, core, doubled)
      /\ up /\ flushing = NoLines => FoundAgain(exists, ini, core)
      /\ torn => ~up /\ FoundInPart(exists, ini, core)
  BY DEF SettingsInv, FileHas
<1>2. Loaded(core["nickname"]) = LoadedIn(exists, ini, core["nickname"])
  BY LoadedSays
<1>3. up => /\ \A name \in {"nickname", "port", "downloadflags", "throttleflag"} : view[name] = core[name]
            /\ LimitsSend(core["throttleflag"]) => core["throttlesend"] \in {view["throttlesend"], "0"}
            /\ LimitsRecv(core["throttleflag"]) => core["throttlerecv"] \in {view["throttlerecv"], "0"}
            /\ ~doubled => view["shared_dirs"] = core["shared_dirs"]
  BY <1>1 DEF Agrees
<1>4. ASSUME up \/ torn, exists, flushing = NoLines, Plain(core["shared_dirs"]), NEW name \in KeptSettings
      PROVE  \/ Loaded(core["nickname"])[name] = core[name]
             \/ torn /\ Loaded(core["nickname"])[name] = Default[name]
  <2>1. CASE torn
    BY <1>1, <1>2, <1>4, <2>1 DEF FoundInPart
  <2>2. CASE ~torn
    BY <1>1, <1>2, <1>4, <2>2 DEF FoundAgain
  <2> QED BY <2>1, <2>2
<1>5. flushing = <<>> <=> flushing = NoLines
  BY DEF NoLines
<1>6. KeptSettings = Range(Settings) \ {"network"}
  BY DEF KeptSettings
<1> HIDE DEF KeptSettings
<1> QED BY <1>3, <1>4, <1>5, <1>6, Zenon DEF SettingsKept

\* The view, the core and the file of the terminal program agree on what is set, but for the
\* network's name: what is shown is what is done, the next start finds it, and an end within
\* the writing of the file leaves of each setting what was set or the default (app.cpp:1284-1298,
\* 1613-1645, waste_core.cpp:1775-1810, 2489-2605, config.cpp:23-87).
THEOREM SettingsAreKept == SettingsSpec => []SettingsKept
<1>1. SettingsInit => SettingsInv
  BY SettingsStart
<1>2. SettingsInv /\ [SettingsNext]_settingsVars => SettingsInv'
  BY SettingsStep
<1>3. SettingsInv => SettingsKept
  BY SettingsInvKeeps
<1> QED BY <1>1, <1>2, <1>3, PTL DEF SettingsSpec

-----------------------------------------------------------------------------
(* TransferView: the rows of the transfers *)

Directions == {"Upload", "Download"}
TransferRecs == [id : TransferIds, no : Nat, done : Nat]
TransferRowRecs == [id : TransferIds, no : Nat, done : Nat, dir : Directions, status : {"Active", "Paused"}]
Announcements == [task : {"added"}, row : TransferRowRecs]
ProgressTasks == [task : {"progress"}, row : TransferRowRecs, done : Nat]
TransferTasks == Announcements \cup ProgressTasks

TransfersTyped ==
    /\ sends \in Seq(TransferRecs) /\ recvs \in Seq(TransferRecs)
    /\ starting \in Seq(TransferRecs) /\ Len(starting) <= 1
    /\ transferRows \in Seq(TransferRowRecs) /\ transferTasks \in Seq(TransferTasks)
    /\ selectedTransfer \in Nat \ {0} /\ started \in Nat /\ removedRows \in Nat /\ reused \in BOOLEAN

\* Where the elements of a set stand in a list.
Hits(s, E) == {i \in 1 .. Len(s) : s[i] \in E}

RowsCounted ==
    /\ Len(transferRows) + Cardinality(Hits(transferTasks, Announcements)) + Len(starting) + removedRows = started
    /\ selectedTransfer = 1 \/ selectedTransfer <= Len(transferRows)

\* The transfers the program knows, by id and number.
Titles(s) == {<<s[i].id, s[i].no>> : i \in 1 .. Len(s)}
TaskTitles(q) == {<<q[i].row.id, q[i].row.no>> : i \in 1 .. Len(q)}
Known == Titles(sends) \cup Titles(recvs) \cup Titles(starting) \cup Titles(transferRows) \cup TaskTitles(transferTasks)
Coherent(K) == \A x, y \in K : x[1] = y[1] <=> x[2] = y[2]

\* A number is that of one transfer, which is announced once.
Distinct(s) == \A i, j \in 1 .. Len(s) : s[i].no = s[j].no => i = j
Unlike(s, r) == \A i \in 1 .. Len(s), j \in 1 .. Len(r) : s[i].no # r[j].no
NotAnnounced(s, q) == \A i \in 1 .. Len(s), j \in 1 .. Len(q) : q[j].task = "added" => s[i].no # q[j].row.no
AnnouncedOnce(q) ==
    \A i, j \in 1 .. Len(q) : q[i].task = "added" /\ q[j].task = "added" /\ q[i].row.no = q[j].row.no => i = j
NumbersApart ==
    /\ Distinct(sends) /\ Unlike(sends, recvs) /\ Unlike(sends, starting)
    /\ Distinct(transferRows) /\ AnnouncedOnce(transferTasks) /\ NotAnnounced(transferRows, transferTasks)
    /\ NotAnnounced(starting, transferTasks) /\ Unlike(starting, transferRows)
TransfersNumbered == (\A x \in Known : x[2] \in 0 .. started) /\ NumbersApart

\* What was last told of an upload is how far it is; if its row has been told all, it shows it.
Says(t) == IF t.task = "added" THEN t.row.done ELSE t.done
About(q, n) == {p \in 1 .. Len(q) : q[p].row.no = n}
ToldLast(q, n, done) == \A p \in About(q, n) : (\A r \in About(q, n) : r <= p) => Says(q[p]) = done
RowSays(shown, q, n, done) == About(q, n) = {} => \A k \in 1 .. Len(shown) : shown[k].no = n => shown[k].done = done
Told(s, shown, q) ==
    \A i \in 1 .. Len(s) : ToldLast(q, s[i].no, s[i].done) /\ RowSays(shown, q, s[i].no, s[i].done)

TransfersInv ==
    /\ TransfersTyped /\ RowsCounted /\ TransfersNumbered
    /\ ~reused => Coherent(Known) /\ Told(sends, transferRows, transferTasks)
LEMMA HitsAre ==
  ASSUME NEW S, NEW s \in Seq(S), NEW E
  PROVE  IsFiniteSet(Hits(s, E)) /\ Cardinality(Hits(s, E)) \in Nat
<1>1. Len(s) \in Nat /\ Hits(s, E) \subseteq 1 .. Len(s)
  BY DEF Hits
<1>2. IsFiniteSet(1 .. Len(s))
  BY <1>1, FS_Interval
<1>3. IsFiniteSet(Hits(s, E))
  BY <1>1, <1>2, FS_Subset
<1> QED BY <1>3, FS_CardinalityType

LEMMA HitsOfOneMore ==
  ASSUME NEW S, NEW s \in Seq(S), NEW e \in S, NEW E
  PROVE  Cardinality(Hits(Append(s, e), E)) = Cardinality(Hits(s, E)) + OneIf(e \in E)
<1> DEFINE n == Len(s) + 1  longer == Append(s, e)
<1>1. /\ n \in Nat /\ Len(longer) = n /\ longer[n] = e /\ n \notin 1 .. Len(s)
      /\ \A i \in 1 .. Len(s) : longer[i] = s[i]
      /\ \A i \in 1 .. n : i = n \/ i \in 1 .. Len(s)
  OBVIOUS
<1>2. IsFiniteSet(Hits(s, E)) /\ Cardinality(Hits(s, E)) \in Nat /\ n \notin Hits(s, E)
  BY <1>1, HitsAre DEF Hits
<1>3. \A i \in 1 .. Len(s) : i \in 1 .. n
  BY <1>1
<1>4. n \in 1 .. n
  BY <1>1
<1> HIDE DEF longer, n
<1>5. CASE e \in E
  <2>1. Hits(longer, E) = Hits(s, E) \cup {n}
    BY <1>1, <1>3, <1>4, <1>5 DEF Hits
  <2>2. Cardinality(Hits(longer, E)) = Cardinality(Hits(s, E)) + 1
    BY <1>2, <2>1, FS_AddElement
  <2> QED BY <1>2, <1>5, <2>2 DEF OneIf, longer
<1>6. CASE e \notin E
  <2>1. Hits(longer, E) = Hits(s, E)
    BY <1>1, <1>3, <1>6 DEF Hits
  <2> QED BY <1>2, <1>6, <2>1 DEF OneIf, longer
<1> QED BY <1>5, <1>6

LEMMA HitsOfTail ==
  ASSUME NEW S, NEW s \in Seq(S), s # <<>>, NEW E
  PROVE  Cardinality(Hits(Tail(s), E)) = Cardinality(Hits(s, E)) - OneIf(s[1] \in E)
<1> DEFINE n == Len(s)  rest == Tail(s)
           C == Hits(rest, E)  D == Hits(s, E) \ {1}
           g == [i \in C |-> i + 1]
<1>1. n \in Nat /\ n # 0 /\ rest \in Seq(S) /\ Len(rest) = n - 1 /\ \A i \in 1 .. n - 1 : rest[i] = s[i + 1] /\ i + 1 \in 1 .. n /\ i + 1 # 1
  OBVIOUS
<1>2. \A j \in 1 .. n : j # 1 => j - 1 \in 1 .. n - 1 /\ (j - 1) + 1 = j
  BY <1>1
<1>3. C \subseteq 1 .. n - 1 /\ \A i \in 1 .. n - 1 : i \in C <=> i + 1 \in D
  BY <1>1 DEF Hits
<1>4. D \subseteq 1 .. n /\ \A j \in D : j # 1
  BY DEF Hits
<1>5. IsFiniteSet(C) /\ Cardinality(C) \in Nat
  BY <1>1, HitsAre
<1> HIDE DEF rest, n, C, D
<1>6. g \in Bijection(C, D)
  <2>1. g \in [C -> D]
    BY <1>3
  <2>2. \A a, b \in C : g[a] = g[b] => a = b
    BY <1>1, <1>3
  <2>3. \A t \in D : \E a \in C : g[a] = t
    <3> TAKE t \in D
    <3>1. t - 1 \in 1 .. n - 1 /\ (t - 1) + 1 = t
      BY <1>2, <1>4
    <3>2. t - 1 \in C
      BY <1>3, <3>1
    <3> QED BY <3>1, <3>2
  <2> QED BY <2>1, <2>2, <2>3 DEF Bijection, Injection, IsInjective, Surjection
<1>7. Cardinality(D) = Cardinality(C)
  <2>1. ExistsBijection(C, D)
    BY <1>6 DEF ExistsBijection
  <2> QED BY <1>5, <2>1, FS_Bijection
<1>8. IsFiniteSet(Hits(s, E)) /\ Cardinality(Hits(s, E)) \in Nat
  BY HitsAre
<1>9. Cardinality(D) = IF 1 \in Hits(s, E) THEN Cardinality(Hits(s, E)) - 1 ELSE Cardinality(Hits(s, E))
  BY <1>8, FS_RemoveElement DEF D
<1>10. 1 \in Hits(s, E) <=> s[1] \in E
  BY <1>1 DEF Hits, n
<1>11. Cardinality(C) = Cardinality(Hits(s, E)) - OneIf(s[1] \in E)
  BY <1>7, <1>8, <1>9, <1>10 DEF OneIf
<1> QED BY <1>11 DEF C, rest

LEMMA ConcatIs ==
  ASSUME NEW S, NEW s \in Seq(S), NEW r \in Seq(S)
  PROVE  /\ s \o r \in Seq(S) /\ Len(s \o r) = Len(s) + Len(r)
         /\ \A i \in 1 .. Len(s) : (s \o r)[i] = s[i]
         /\ \A i \in 1 .. Len(r) : (s \o r)[Len(s) + i] = r[i]
         /\ \A i \in 1 .. Len(s \o r) : i \in 1 .. Len(s) \/ (i - Len(s) \in 1 .. Len(r) /\ i = Len(s) + (i - Len(s)))
<1> DEFINE both == s \o r  n == Len(s)  m == Len(r)
<1>1. n \in Nat /\ m \in Nat
  OBVIOUS
<1>2. /\ both \in Seq(S) /\ Len(both) = n + m
      /\ \A i \in 1 .. n + m : both[i] = IF i <= n THEN s[i] ELSE r[i - n]
  BY ConcatProperties, Zenon
<1> HIDE DEF both, n, m
<1>3. \A i \in 1 .. n : i \in 1 .. n + m /\ i <= n
  BY <1>1
<1>4. \A i \in 1 .. m : n + i \in 1 .. n + m /\ ~(n + i <= n) /\ (n + i) - n = i
  BY <1>1
<1>5. \A i \in 1 .. n + m : i \in 1 .. n \/ (i - n \in 1 .. m /\ i = n + (i - n))
  BY <1>1
<1>6. /\ both \in Seq(S) /\ Len(both) = n + m
      /\ \A i \in 1 .. n : both[i] = s[i]
      /\ \A i \in 1 .. m : both[n + i] = r[i]
      /\ \A i \in 1 .. Len(both) : i \in 1 .. n \/ (i - n \in 1 .. m /\ i = n + (i - n))
  BY <1>2, <1>3, <1>4, <1>5
<1> QED BY <1>6 DEF both, n, m

LEMMA HitsOfBoth ==
  ASSUME NEW S, NEW s \in Seq(S), NEW r \in Seq(S), NEW E, \A i \in 1 .. Len(r) : r[i] \notin E
  PROVE  Hits(s \o r, E) = Hits(s, E)
<1> DEFINE both == s \o r
<1>1. /\ Len(both) = Len(s) + Len(r)
      /\ \A i \in 1 .. Len(s) : both[i] = s[i]
      /\ \A i \in 1 .. Len(r) : both[Len(s) + i] = r[i]
      /\ \A i \in 1 .. Len(both) : i \in 1 .. Len(s) \/ (i - Len(s) \in 1 .. Len(r) /\ i = Len(s) + (i - Len(s)))
  BY ConcatIs
<1>2. Len(s) \in Nat /\ Len(r) \in Nat
  OBVIOUS
<1> HIDE DEF both
<1>3. \A i \in 1 .. Len(s) : i \in 1 .. Len(both)
  BY <1>1, <1>2
<1>4. \A i \in 1 .. Len(both) : i \notin 1 .. Len(s) => both[i] \notin E
  <2> TAKE i \in 1 .. Len(both)
  <2> HAVE i \notin 1 .. Len(s)
  <2> DEFINE k == i - Len(s)
  <2>1. k \in 1 .. Len(r) /\ i = Len(s) + k
    BY <1>1
  <2> HIDE DEF k
  <2> QED BY <1>1, <2>1
<1>5. Hits(both, E) = Hits(s, E)
  BY <1>1, <1>3, <1>4 DEF Hits
<1> QED BY <1>5 DEF both
\* What goes on is as far as the pass took it.
GoesOn(list, outcome, kept) ==
    \E f \in [1 .. Len(kept) -> 1 .. Len(list)] : \A j, k \in 1 .. Len(kept) :
        kept[k] = After(list, outcome)[f[k]] /\ outcome[f[k]] = "on" /\ (f[j] = f[k] => j = k)
AllTold(list, outcome, q) ==
    /\ \A j \in 1 .. Len(q) : \E i \in 1 .. Len(list) : q[j] = ProgressTask(After(list, outcome)[i])
    /\ \A i \in 1 .. Len(list) : outcome[i] # "failed" =>
           \E j \in 1 .. Len(q) : q[j] = ProgressTask(After(list, outcome)[i])

LEMMA ProgressTasksAre ==
  ASSUME NEW t \in TransferRecs
  PROVE  /\ ProgressTask(t) \in ProgressTasks /\ ProgressTask(t).task = "progress" /\ Says(ProgressTask(t)) = t.done
         /\ ProgressTask(t).row.no = t.no /\ ProgressTask(t).row.id = t.id
<1>1. t.id \in TransferIds /\ t.no \in Nat /\ t.done \in Nat
  BY DEF TransferRecs
<1>2. Row(t, "Upload") \in TransferRowRecs /\ Row(t, "Upload").id = t.id /\ Row(t, "Upload").no = t.no
  BY <1>1 DEF Row, TransferRowRecs, Directions
<1> DEFINE r == Row(t, "Upload")
<1> HIDE DEF r
<1>3. ProgressTask(t) = [task |-> "progress", row |-> r, done |-> t.done]
  BY DEF ProgressTask, r
<1>4. r \in TransferRowRecs /\ r.id = t.id /\ r.no = t.no
  BY <1>2 DEF r
<1> QED BY <1>1, <1>3, <1>4 DEF ProgressTasks, Says

LEMMA AnnouncementsAre ==
  ASSUME NEW t \in TransferRecs, NEW dir \in Directions
  PROVE  /\ AddedTask(Row(t, dir)) \in Announcements /\ AddedTask(Row(t, dir)).task = "added"
         /\ Says(AddedTask(Row(t, dir))) = 0
         /\ AddedTask(Row(t, dir)).row.no = t.no /\ AddedTask(Row(t, dir)).row.id = t.id
<1>1. t.id \in TransferIds /\ t.no \in Nat
  BY DEF TransferRecs
<1> DEFINE r == Row(t, dir)
<1>2. r \in TransferRowRecs /\ r.id = t.id /\ r.no = t.no /\ r.done = 0
  BY <1>1 DEF Row, TransferRowRecs
<1> HIDE DEF r
<1>3. AddedTask(r) = [task |-> "added", row |-> r]
  BY DEF AddedTask
<1>4. /\ AddedTask(r) \in Announcements /\ AddedTask(r).task = "added" /\ Says(AddedTask(r)) = 0
      /\ AddedTask(r).row.no = t.no /\ AddedTask(r).row.id = t.id
  BY <1>2, <1>3 DEF Announcements, Says
<1> QED BY <1>4 DEF r

LEMMA AfterIs ==
  ASSUME NEW list \in Seq(TransferRecs), NEW outcome
  PROVE  /\ After(list, outcome) \in Seq(TransferRecs) /\ Len(After(list, outcome)) = Len(list)
         /\ \A i \in 1 .. Len(list) : After(list, outcome)[i].id = list[i].id /\ After(list, outcome)[i].no = list[i].no
<1> DEFINE new == After(list, outcome)
           progress(i) == IF outcome[i] = "completed" THEN Size
                          ELSE IF outcome[i] = "on" /\ list[i].done < Size THEN list[i].done + 1 ELSE list[i].done
<1>1. new = [i \in 1 .. Len(list) |-> [list[i] EXCEPT !.done = progress(i)]]
  BY DEF After
<1>2. ASSUME NEW i \in 1 .. Len(list)
      PROVE  /\ [list[i] EXCEPT !.done = progress(i)] \in TransferRecs
             /\ [list[i] EXCEPT !.done = progress(i)].id = list[i].id
             /\ [list[i] EXCEPT !.done = progress(i)].no = list[i].no
  <2>1. list[i] \in TransferRecs
    OBVIOUS
  <2>2. list[i].done \in Nat
    BY <2>1 DEF TransferRecs
  <2>3. progress(i) \in Nat
    BY <2>2, TransferAssumption
  <2> HIDE DEF progress
  <2> QED BY <2>1, <2>3 DEF TransferRecs
<1>3. Len(list) \in Nat
  OBVIOUS
<1> DEFINE one(i) == [list[i] EXCEPT !.done = progress(i)]
<1>6. new = [i \in 1 .. Len(list) |-> one(i)] /\ \A i \in 1 .. Len(list) : one(i) \in TransferRecs
  BY <1>1, <1>2
<1> HIDE DEF progress, new, one
<1>4. \A i \in 1 .. Len(list) : new[i] = [list[i] EXCEPT !.done = progress(i)]
  BY <1>6 DEF one
<1>5. new \in Seq(TransferRecs) /\ Len(new) = Len(list)
  BY <1>3, <1>6
<1> QED BY <1>2, <1>4, <1>5 DEF new

LEMMA PassedOn ==
  ASSUME NEW list \in Seq(TransferRecs), NEW outcome
  PROVE  Kept(list, outcome) \in Seq(TransferRecs) /\ GoesOn(list, outcome, Kept(list, outcome))
<1> DEFINE new == After(list, outcome)  on == {i \in 1 .. Len(list) : outcome[i] = "on"}  kept == Kept(list, outcome)
<1>1. new \in Seq(TransferRecs) /\ Len(new) = Len(list)
  BY AfterIs
<1>2. kept = Picked(new, on)
  BY DEF Kept
<1> HIDE DEF new, kept
<1>3. kept \in Seq(TransferRecs) /\ PickedUpTo(new, on, Len(new), kept)
  BY <1>1, <1>2, PickedIs
<1>4. PICK f \in [1 .. Len(kept) -> 1 .. Len(new)] : \A j, k \in 1 .. Len(kept) :
         kept[k] = new[f[k]] /\ f[k] \in on /\ (f[j] = f[k] => j = k)
  BY <1>3 DEF PickedUpTo
<1>5. f \in [1 .. Len(kept) -> 1 .. Len(list)]
  BY <1>1
<1>6. GoesOn(list, outcome, kept)
  BY <1>4, <1>5 DEF GoesOn, new
<1> QED BY <1>3, <1>6 DEF kept

LEMMA ReportsAre ==
  ASSUME NEW list \in Seq(TransferRecs), NEW outcome
  PROVE  Reports(list, outcome) \in Seq(ProgressTasks) /\ AllTold(list, outcome, Reports(list, outcome))
<1> DEFINE new == After(list, outcome)  of == {i \in 1 .. Len(list) : outcome[i] # "failed"}
           all == [i \in 1 .. Len(list) |-> ProgressTask(new[i])]
           q == Reports(list, outcome)
<1>1. new \in Seq(TransferRecs) /\ Len(new) = Len(list) /\ Len(list) \in Nat
  BY AfterIs
<1>2. q = Picked(all, of)
  BY DEF Reports
<1> HIDE DEF new, q
<1>3. \A i \in 1 .. Len(list) : ProgressTask(new[i]) \in ProgressTasks
  <2> TAKE i \in 1 .. Len(list)
  <2>1. new[i] \in TransferRecs
    BY <1>1
  <2> QED BY <2>1, ProgressTasksAre
<1>4. /\ all \in Seq(ProgressTasks) /\ Len(all) = Len(list)
      /\ \A i \in 1 .. Len(list) : all[i] = ProgressTask(new[i])
  BY <1>1, <1>3
<1> HIDE DEF all
<1>5. q \in Seq(ProgressTasks) /\ PickedUpTo(all, of, Len(all), q)
  BY <1>2, <1>4, PickedIs
<1>6. ASSUME NEW j \in 1 .. Len(q) PROVE \E i \in 1 .. Len(list) : q[j] = ProgressTask(new[i])
  <2>1. PICK f \in [1 .. Len(q) -> 1 .. Len(all)] : \A i, k \in 1 .. Len(q) :
           q[k] = all[f[k]] /\ f[k] \in of /\ (f[i] = f[k] => i = k)
    BY <1>5 DEF PickedUpTo
  <2>2. f[j] \in 1 .. Len(list) /\ q[j] = all[f[j]]
    BY <1>4, <2>1
  <2> QED BY <1>4, <2>2
<1>7. ASSUME NEW i \in 1 .. Len(list), outcome[i] # "failed"
      PROVE  \E j \in 1 .. Len(q) : q[j] = ProgressTask(new[i])
  <2>1. i \in 1 .. Len(all) /\ i \in of
    BY <1>4, <1>7
  <2>2. \E j \in 1 .. Len(q) : q[j] = all[i]
    BY <1>5, <2>1 DEF PickedUpTo
  <2> QED BY <1>4, <2>2
<1>8. AllTold(list, outcome, q)
  BY <1>6, <1>7 DEF AllTold, new
<1> QED BY <1>5, <1>8 DEF q

\* After a pass what was last told of an upload is how far it is.
LEMMA ToldByPass ==
  ASSUME NEW s \in Seq(TransferRecs), NEW r \in Seq(TransferRecs), Distinct(s), Unlike(s, r),
         NEW q \in Seq(TransferTasks), NEW so, NEW ro, NEW shown
  PROVE  Told(Kept(s, so), shown, q \o Reports(s, so) \o Reports(r, ro))
<1> DEFINE kept == Kept(s, so)  a == Reports(s, so)  b == Reports(r, ro)
           first == q \o a  all == first \o b
           news == After(s, so)  newr == After(r, ro)
<1>1. kept \in Seq(TransferRecs) /\ GoesOn(s, so, kept)
  BY PassedOn
<1>2. a \in Seq(ProgressTasks) /\ AllTold(s, so, a) /\ b \in Seq(ProgressTasks) /\ AllTold(r, ro, b)
  BY ReportsAre
<1>3. a \in Seq(TransferTasks) /\ b \in Seq(TransferTasks)
  BY <1>2 DEF TransferTasks
<1>4. /\ news \in Seq(TransferRecs) /\ Len(news) = Len(s) /\ \A i \in 1 .. Len(s) : news[i].no = s[i].no
      /\ newr \in Seq(TransferRecs) /\ Len(newr) = Len(r) /\ \A i \in 1 .. Len(r) : newr[i].no = r[i].no
  BY AfterIs
<1> HIDE DEF kept, a, b
<1>5. PICK f \in [1 .. Len(kept) -> 1 .. Len(s)] : \A j, k \in 1 .. Len(kept) :
         kept[k] = news[f[k]] /\ so[f[k]] = "on" /\ (f[j] = f[k] => j = k)
  BY <1>1 DEF GoesOn
<1> HIDE DEF news, newr
<1>6. /\ first \in Seq(TransferTasks) /\ Len(first) = Len(q) + Len(a)
      /\ \A i \in 1 .. Len(q) : first[i] = q[i]
      /\ \A i \in 1 .. Len(a) : first[Len(q) + i] = a[i]
      /\ \A i \in 1 .. Len(first) : i \in 1 .. Len(q) \/ (i - Len(q) \in 1 .. Len(a) /\ i = Len(q) + (i - Len(q)))
  BY <1>3, ConcatIs
<1> HIDE DEF first
<1>7. /\ all \in Seq(TransferTasks) /\ Len(all) = Len(first) + Len(b)
      /\ \A i \in 1 .. Len(first) : all[i] = first[i]
      /\ \A i \in 1 .. Len(b) : all[Len(first) + i] = b[i]
      /\ \A i \in 1 .. Len(all) : i \in 1 .. Len(first) \/ (i - Len(first) \in 1 .. Len(b) /\ i = Len(first) + (i - Len(first)))
  BY <1>3, <1>6, ConcatIs
<1> HIDE DEF all
<1>8. Len(q) \in Nat /\ Len(a) \in Nat /\ Len(b) \in Nat
  BY <1>3
<1>9. ASSUME NEW k \in 1 .. Len(kept)
      PROVE  ToldLast(all, kept[k].no, kept[k].done) /\ RowSays(shown, all, kept[k].no, kept[k].done)
  <2> DEFINE i == f[k]  t == news[i]
  <2>1. i \in 1 .. Len(s) /\ kept[k] = t /\ so[i] = "on"
    BY <1>5
  <2>2. t \in TransferRecs /\ t.no = s[i].no
    BY <1>4, <2>1
  <2> HIDE DEF i, t
  <2>3. PICK j \in 1 .. Len(a) : a[j] = ProgressTask(news[i])
    BY <1>2, <2>1 DEF AllTold, news
  <2>4. a[j].row.no = t.no
    BY <2>2, <2>3, ProgressTasksAre DEF t
  <2> DEFINE p == Len(q) + j
  <2>5. p \in 1 .. Len(first) /\ p \in 1 .. Len(all) /\ p > Len(q) /\ p \in Nat
    BY <1>6, <1>7, <1>8
  <2>6. all[p].row.no = t.no
    <3>1. first[p] = a[j]
      BY <1>6
    <3>2. all[p] = first[p]
      BY <1>7, <2>5
    <3> QED BY <2>4, <3>1, <3>2
  <2> HIDE DEF p
  <2>7. p \in About(all, t.no)
    BY <2>5, <2>6 DEF About
  <2>8. ASSUME NEW x \in About(all, t.no), \A y \in About(all, t.no) : y <= x PROVE Says(all[x]) = t.done
    <3>1. x \in 1 .. Len(all) /\ all[x].row.no = t.no /\ p <= x
      BY <2>7, <2>8 DEF About
    <3>2. CASE x \in 1 .. Len(first)
      <4> DEFINE z == x - Len(q)
      <4>1. z \in 1 .. Len(a) /\ x = Len(q) + z
        <5>1. x \notin 1 .. Len(q)
          BY <1>8, <2>5, <3>1
        <5> QED BY <1>6, <3>2, <5>1
      <4> HIDE DEF z
      <4>2. all[x] = a[z]
        BY <1>6, <1>7, <3>2, <4>1
      <4>3. PICK o \in 1 .. Len(s) : a[z] = ProgressTask(news[o])
        BY <1>2, <4>1 DEF AllTold, news
      <4>4. news[o] \in TransferRecs /\ news[o].no = s[o].no
        <5>1. o \in 1 .. Len(news)
          BY <1>4
        <5>2. news[o] \in TransferRecs
          BY <1>4, <5>1
        <5> QED BY <1>4, <5>2
      <4>5. a[z].row.no = news[o].no /\ Says(a[z]) = news[o].done
        BY <4>3, <4>4, ProgressTasksAre
      <4>6. s[o].no = s[i].no
        BY <2>2, <3>1, <4>2, <4>4, <4>5
      <4>7. o = i
        BY <2>1, <4>6 DEF Distinct
      <4> QED BY <4>2, <4>5, <4>7 DEF t
    <3>3. CASE x \notin 1 .. Len(first)
      <4> DEFINE z == x - Len(first)
      <4>1. z \in 1 .. Len(b) /\ x = Len(first) + z
        BY <1>7, <3>1, <3>3
      <4> HIDE DEF z
      <4>2. all[x] = b[z]
        BY <1>7, <4>1
      <4>3. PICK o \in 1 .. Len(r) : b[z] = ProgressTask(newr[o])
        BY <1>2, <4>1 DEF AllTold, newr
      <4>4. newr[o] \in TransferRecs /\ newr[o].no = r[o].no
        BY <1>4
      <4>5. b[z].row.no = newr[o].no
        BY <4>3, <4>4, ProgressTasksAre
      <4>6. s[i].no = r[o].no
        BY <2>2, <3>1, <4>2, <4>4, <4>5
      <4> QED BY <2>1, <4>6 DEF Unlike
    <3> QED BY <3>2, <3>3
  <2>9. ToldLast(all, t.no, t.done)
    BY <2>8 DEF ToldLast
  <2>10. RowSays(shown, all, t.no, t.done)
    BY <2>7 DEF RowSays
  <2> QED BY <2>1, <2>9, <2>10
<1>10. Told(kept, shown, all)
  BY <1>9 DEF Told
<1> QED BY <1>10 DEF kept, all, first, a, b
LEMMA OneMore ==
  ASSUME NEW S, NEW s \in Seq(S), NEW e \in S
  PROVE  /\ Append(s, e) \in Seq(S) /\ Len(Append(s, e)) = Len(s) + 1 /\ Append(s, e)[Len(s) + 1] = e
         /\ \A i \in 1 .. Len(s) : Append(s, e)[i] = s[i] /\ i \in 1 .. Len(s) + 1 /\ i <= Len(s) /\ i # Len(s) + 1
         /\ \A i \in 1 .. Len(s) + 1 : i = Len(s) + 1 \/ i \in 1 .. Len(s)
         /\ Len(s) + 1 \in 1 .. Len(s) + 1 /\ Len(s) + 1 \in Nat
<1>1. Len(s) \in Nat
  OBVIOUS
<1>2. Append(s, e) \in Seq(S) /\ Len(Append(s, e)) = Len(s) + 1 /\ Append(s, e)[Len(s) + 1] = e
  OBVIOUS
<1>3. \A i \in 1 .. Len(s) : Append(s, e)[i] = s[i]
  OBVIOUS
<1>4. /\ \A i \in 1 .. Len(s) : i \in 1 .. Len(s) + 1 /\ i <= Len(s) /\ i # Len(s) + 1
      /\ \A i \in 1 .. Len(s) + 1 : i = Len(s) + 1 \/ i \in 1 .. Len(s)
      /\ Len(s) + 1 \in 1 .. Len(s) + 1 /\ Len(s) + 1 \in Nat
  BY <1>1
<1> QED BY <1>2, <1>3, <1>4

LEMMA OneLess ==
  ASSUME NEW S, NEW s \in Seq(S), s # <<>>
  PROVE  /\ Tail(s) \in Seq(S) /\ s[1] \in S /\ 1 \in 1 .. Len(s) /\ Len(s) \in Nat
         /\ \A i \in 1 .. Len(Tail(s)) : Tail(s)[i] = s[i + 1] /\ i + 1 \in 1 .. Len(s) /\ i + 1 # 1 /\ i \in Nat
         /\ \A i \in 1 .. Len(s) : i = 1 \/ (i - 1 \in 1 .. Len(Tail(s)) /\ (i - 1) + 1 = i)
<1>1. Len(s) \in Nat /\ Len(s) # 0 /\ Tail(s) \in Seq(S) /\ Len(Tail(s)) = Len(s) - 1
      /\ \A i \in 1 .. Len(s) - 1 : Tail(s)[i] = s[i + 1]
  OBVIOUS
<1> DEFINE n == Len(s)  m == Len(Tail(s))
<1> HIDE DEF n, m
<1>2. n \in Nat /\ n # 0 /\ m = n - 1
  BY <1>1 DEF n, m
<1>3. 1 \in 1 .. n /\ (\A i \in 1 .. m : i + 1 \in 1 .. n /\ i + 1 # 1 /\ i \in Nat /\ i \in 1 .. n - 1)
      /\ \A i \in 1 .. n : i = 1 \/ (i - 1 \in 1 .. m /\ (i - 1) + 1 = i)
  BY <1>2
<1>4. s[1] \in S
  BY <1>3 DEF n
<1> QED BY <1>1, <1>3, <1>4 DEF n, m

LEMMA TaskKinds ==
  ASSUME NEW t \in TransferTasks
  PROVE  /\ t.row \in TransferRowRecs /\ t.row.no \in Nat /\ t.row.id \in TransferIds
         /\ t.task \in {"added", "progress"} /\ (t.task = "progress" => t.done \in Nat)
         /\ t \in Announcements <=> t.task = "added"
<1>1. CASE t \in Announcements
  <2>1. t.task = "added" /\ t.row \in TransferRowRecs
    BY <1>1 DEF Announcements
  <2>2. t.row.no \in Nat /\ t.row.id \in TransferIds
    BY <2>1 DEF TransferRowRecs
  <2> QED BY <1>1, <2>1, <2>2
<1>2. CASE t \in ProgressTasks
  <2>1. t.task = "progress" /\ t.row \in TransferRowRecs /\ t.done \in Nat
    BY <1>2 DEF ProgressTasks
  <2>2. t.row.no \in Nat /\ t.row.id \in TransferIds
    BY <2>1 DEF TransferRowRecs
  <2>3. t \notin Announcements
    BY <2>1 DEF Announcements
  <2> QED BY <2>1, <2>2, <2>3
<1> QED BY <1>1, <1>2 DEF TransferTasks

-----------------------------------------------------------------------------
(* TransferView: numbers *)

\* The list has some of the transfers of the other one, each once.
FewerOf(r, s) ==
    \E g \in [1 .. Len(r) -> 1 .. Len(s)] : \A j, k \in 1 .. Len(r) :
        r[k].id = s[g[k]].id /\ r[k].no = s[g[k]].no /\ (g[j] = g[k] => j = k)

LEMMA FewerAre ==
  ASSUME NEW r, NEW s, FewerOf(r, s)
  PROVE  /\ Titles(r) \subseteq Titles(s) /\ (Distinct(s) => Distinct(r))
         /\ \A t : (Unlike(t, s) => Unlike(t, r)) /\ (Unlike(s, t) => Unlike(r, t))
         /\ \A q : NotAnnounced(s, q) => NotAnnounced(r, q)
<1>1. PICK g \in [1 .. Len(r) -> 1 .. Len(s)] : \A j, k \in 1 .. Len(r) :
         r[k].id = s[g[k]].id /\ r[k].no = s[g[k]].no /\ (g[j] = g[k] => j = k)
  BY DEF FewerOf
<1>2. \A k \in 1 .. Len(r) : g[k] \in 1 .. Len(s)
  OBVIOUS
<1>3. Titles(r) \subseteq Titles(s)
  BY <1>1, <1>2 DEF Titles
<1>4. Distinct(s) => Distinct(r)
  BY <1>1, <1>2 DEF Distinct
<1>5. \A t : (Unlike(t, s) => Unlike(t, r)) /\ (Unlike(s, t) => Unlike(r, t))
  <2>1. \A k \in 1 .. Len(r) : g[k] \in 1 .. Len(s) /\ r[k].no = s[g[k]].no
    BY <1>1, <1>2
  <2> TAKE t
  <2>2. Unlike(t, s) => Unlike(t, r)
    BY <2>1 DEF Unlike
  <2>3. Unlike(s, t) => Unlike(r, t)
    BY <2>1 DEF Unlike
  <2> QED BY <2>2, <2>3
<1>6. \A q : NotAnnounced(s, q) => NotAnnounced(r, q)
  BY <1>1, <1>2 DEF NotAnnounced
<1> QED BY <1>3, <1>4, <1>5, <1>6

LEMMA KeptAreFewer ==
  ASSUME NEW list \in Seq(TransferRecs), NEW outcome
  PROVE  FewerOf(Kept(list, outcome), list)
<1> DEFINE kept == Kept(list, outcome)  new == After(list, outcome)
<1>1. GoesOn(list, outcome, kept)
  BY PassedOn
<1> HIDE DEF kept
<1>2. PICK f \in [1 .. Len(kept) -> 1 .. Len(list)] : \A j, k \in 1 .. Len(kept) :
         kept[k] = new[f[k]] /\ outcome[f[k]] = "on" /\ (f[j] = f[k] => j = k)
  BY <1>1 DEF GoesOn
<1>3. \A i \in 1 .. Len(list) : new[i].id = list[i].id /\ new[i].no = list[i].no
  BY AfterIs
<1> HIDE DEF new
<1>4. FewerOf(kept, list)
  <2>1. \A k \in 1 .. Len(kept) : f[k] \in 1 .. Len(list)
    OBVIOUS
  <2>2. \A j, k \in 1 .. Len(kept) :
           kept[k].id = list[f[k]].id /\ kept[k].no = list[f[k]].no /\ (f[j] = f[k] => j = k)
    BY <1>2, <1>3, <2>1
  <2> QED BY <2>2 DEF FewerOf
<1> QED BY <1>4 DEF kept

LEMMA RemovedAreFewer ==
  ASSUME NEW S, NEW s \in Seq(S), NEW i \in 1 .. Len(s)
  PROVE  /\ FewerOf(RemoveAt(s, i), s)
         /\ \A k \in 1 .. Len(RemoveAt(s, i)) : \E j \in 1 .. Len(s) : RemoveAt(s, i)[k] = s[j]
<1> DEFINE r == RemoveAt(s, i)
           g == [k \in 1 .. Len(r) |-> IF k < i THEN k ELSE k + 1]
<1>1. Len(r) = Len(s) - 1 /\ (\A j \in 1 .. i - 1 : r[j] = s[j]) /\ (\A j \in i .. Len(s) - 1 : r[j] = s[j + 1])
  BY RemovedIs
<1>2. Len(s) \in Nat
  OBVIOUS
<1> HIDE DEF r
<1>3. \A k \in 1 .. Len(r) : g[k] \in 1 .. Len(s) /\ (k < i => k \in 1 .. i - 1) /\ (~(k < i) => k \in i .. Len(s) - 1)
  BY <1>1, <1>2
<1>4. \A j, k \in 1 .. Len(r) : r[k] = s[g[k]] /\ (g[j] = g[k] => j = k)
  <2>1. \A k \in 1 .. Len(r) : r[k] = s[g[k]]
    BY <1>1, <1>3
  <2>2. \A j, k \in 1 .. Len(r) : g[j] = g[k] => j = k
    BY <1>1, <1>2
  <2> QED BY <2>1, <2>2
<1>5. g \in [1 .. Len(r) -> 1 .. Len(s)]
  BY <1>3
<1> HIDE DEF g
<1>6. FewerOf(r, s)
  BY <1>4, <1>5 DEF FewerOf
<1>7. \A k \in 1 .. Len(r) : \E j \in 1 .. Len(s) : r[k] = s[j]
  BY <1>4, <1>5
<1> QED BY <1>6, <1>7 DEF r

LEMMA AlikeAreFewer ==
  ASSUME NEW r, NEW s, Len(r) = Len(s), \A k \in 1 .. Len(s) : r[k].id = s[k].id /\ r[k].no = s[k].no
  PROVE  FewerOf(r, s)
<1> DEFINE g == [k \in 1 .. Len(r) |-> k]
<1>1. g \in [1 .. Len(r) -> 1 .. Len(s)] /\ \A k \in 1 .. Len(r) : g[k] = k
  OBVIOUS
<1> HIDE DEF g
<1> QED BY <1>1 DEF FewerOf

LEMMA OneMoreNumbered ==
  ASSUME NEW S, NEW s \in Seq(S), NEW e \in S
  PROVE  /\ Titles(Append(s, e)) \subseteq Titles(s) \cup {<<e.id, e.no>>}
         /\ Distinct(s) /\ (\A i \in 1 .. Len(s) : s[i].no # e.no) => Distinct(Append(s, e))
         /\ \A r : Unlike(s, r) /\ (\A i \in 1 .. Len(r) : r[i].no # e.no) => Unlike(Append(s, e), r)
         /\ \A r : Unlike(r, s) /\ (\A i \in 1 .. Len(r) : r[i].no # e.no) => Unlike(r, Append(s, e))
         /\ \A q : NotAnnounced(s, q) /\ (\A j \in 1 .. Len(q) : q[j].task = "added" => q[j].row.no # e.no)
                      => NotAnnounced(Append(s, e), q)
<1> DEFINE t == Append(s, e)  n == Len(s) + 1
<1>1. /\ Len(t) = n /\ t[n] = e /\ (\A i \in 1 .. Len(s) : t[i] = s[i])
      /\ (\A i \in 1 .. n : i = n \/ i \in 1 .. Len(s))
  BY OneMore
<1> HIDE DEF t, n
<1>2. Titles(t) \subseteq Titles(s) \cup {<<e.id, e.no>>}
  BY <1>1 DEF Titles
<1>3. Distinct(s) /\ (\A i \in 1 .. Len(s) : s[i].no # e.no) => Distinct(t)
  BY <1>1 DEF Distinct
<1>4. \A r : Unlike(s, r) /\ (\A i \in 1 .. Len(r) : r[i].no # e.no) => Unlike(t, r)
  BY <1>1 DEF Unlike
<1>5. \A r : Unlike(r, s) /\ (\A i \in 1 .. Len(r) : r[i].no # e.no) => Unlike(r, t)
  BY <1>1 DEF Unlike
<1>6. \A q : NotAnnounced(s, q) /\ (\A j \in 1 .. Len(q) : q[j].task = "added" => q[j].row.no # e.no)
                => NotAnnounced(t, q)
  BY <1>1 DEF NotAnnounced
<1> QED BY <1>2, <1>3, <1>4, <1>5, <1>6 DEF t

LEMMA OneMoreTask ==
  ASSUME NEW q \in Seq(TransferTasks), NEW a \in TransferTasks
  PROVE  /\ TaskTitles(Append(q, a)) \subseteq TaskTitles(q) \cup {<<a.row.id, a.row.no>>}
         /\ AnnouncedOnce(q) /\ (\A j \in 1 .. Len(q) : q[j].task = "added" => q[j].row.no # a.row.no)
               => AnnouncedOnce(Append(q, a))
         /\ \A s : NotAnnounced(s, q) /\ (\A i \in 1 .. Len(s) : s[i].no # a.row.no) => NotAnnounced(s, Append(q, a))
<1> DEFINE t == Append(q, a)  n == Len(q) + 1
<1>1. /\ Len(t) = n /\ t[n] = a /\ (\A i \in 1 .. Len(q) : t[i] = q[i])
      /\ (\A i \in 1 .. n : i = n \/ i \in 1 .. Len(q))
  BY OneMore
<1> HIDE DEF t, n
<1>2. TaskTitles(t) \subseteq TaskTitles(q) \cup {<<a.row.id, a.row.no>>}
  BY <1>1 DEF TaskTitles
<1>3. AnnouncedOnce(q) /\ (\A j \in 1 .. Len(q) : q[j].task = "added" => q[j].row.no # a.row.no) => AnnouncedOnce(t)
  BY <1>1 DEF AnnouncedOnce
<1>4. \A s : NotAnnounced(s, q) /\ (\A i \in 1 .. Len(s) : s[i].no # a.row.no) => NotAnnounced(s, t)
  BY <1>1 DEF NotAnnounced
<1> QED BY <1>2, <1>3, <1>4 DEF t

LEMMA OneTaskLess ==
  ASSUME NEW q \in Seq(TransferTasks), q # <<>>
  PROVE  /\ TaskTitles(Tail(q)) \subseteq TaskTitles(q) /\ <<q[1].row.id, q[1].row.no>> \in TaskTitles(q)
         /\ AnnouncedOnce(q) => AnnouncedOnce(Tail(q))
         /\ AnnouncedOnce(q) /\ q[1].task = "added" =>
               \A j \in 1 .. Len(Tail(q)) : Tail(q)[j].task = "added" => Tail(q)[j].row.no # q[1].row.no
         /\ \A s : NotAnnounced(s, q) => NotAnnounced(s, Tail(q))
         /\ \A s : NotAnnounced(s, q) /\ q[1].task = "added" => \A i \in 1 .. Len(s) : s[i].no # q[1].row.no
<1> DEFINE t == Tail(q)
<1>1. /\ 1 \in 1 .. Len(q)
      /\ \A i \in 1 .. Len(t) : t[i] = q[i + 1] /\ i + 1 \in 1 .. Len(q) /\ i + 1 # 1 /\ i \in Nat
  BY OneLess
<1> HIDE DEF t
<1>2. TaskTitles(t) \subseteq TaskTitles(q) /\ <<q[1].row.id, q[1].row.no>> \in TaskTitles(q)
  BY <1>1 DEF TaskTitles
<1>3. AnnouncedOnce(q) => AnnouncedOnce(t)
  <2> SUFFICES ASSUME AnnouncedOnce(q), NEW i \in 1 .. Len(t), NEW j \in 1 .. Len(t),
                      t[i].task = "added", t[j].task = "added", t[i].row.no = t[j].row.no
               PROVE  i = j
    BY DEF AnnouncedOnce
  <2>1. i + 1 = j + 1
    BY <1>1 DEF AnnouncedOnce
  <2> QED BY <1>1, <2>1
<1>4. AnnouncedOnce(q) /\ q[1].task = "added" =>
         \A j \in 1 .. Len(t) : t[j].task = "added" => t[j].row.no # q[1].row.no
  BY <1>1 DEF AnnouncedOnce
<1>5. /\ \A s : NotAnnounced(s, q) => NotAnnounced(s, t)
      /\ \A s : NotAnnounced(s, q) /\ q[1].task = "added" => \A i \in 1 .. Len(s) : s[i].no # q[1].row.no
  BY <1>1 DEF NotAnnounced
<1> QED BY <1>2, <1>3, <1>4, <1>5 DEF t

LEMMA MoreProgress ==
  ASSUME NEW q \in Seq(TransferTasks), NEW list \in Seq(TransferRecs), NEW outcome
  PROVE  /\ q \o Reports(list, outcome) \in Seq(TransferTasks)
         /\ TaskTitles(q \o Reports(list, outcome)) \subseteq TaskTitles(q) \cup Titles(list)
         /\ AnnouncedOnce(q) => AnnouncedOnce(q \o Reports(list, outcome))
         /\ \A s : NotAnnounced(s, q) => NotAnnounced(s, q \o Reports(list, outcome))
         /\ Hits(q \o Reports(list, outcome), Announcements) = Hits(q, Announcements)
<1> DEFINE r == Reports(list, outcome)  all == q \o r  new == After(list, outcome)
<1>1. r \in Seq(ProgressTasks) /\ \A j \in 1 .. Len(r) : \E i \in 1 .. Len(list) : r[j] = ProgressTask(new[i])
  BY ReportsAre DEF AllTold
<1>2. /\ new \in Seq(TransferRecs) /\ Len(new) = Len(list)
      /\ \A i \in 1 .. Len(list) : new[i].id = list[i].id /\ new[i].no = list[i].no
  BY AfterIs
<1> HIDE DEF r, new
<1>3. \A j \in 1 .. Len(r) : r[j].task = "progress" /\ \E i \in 1 .. Len(list) : r[j].row.id = list[i].id /\ r[j].row.no = list[i].no
  <2> TAKE j \in 1 .. Len(r)
  <2>1. PICK i \in 1 .. Len(list) : r[j] = ProgressTask(new[i])
    BY <1>1
  <2>2. i \in 1 .. Len(new)
    BY <1>2
  <2>3. new[i] \in TransferRecs
    BY <1>2, <2>2
  <2>4. r[j].task = "progress" /\ r[j].row.no = new[i].no /\ r[j].row.id = new[i].id
    BY <2>1, <2>3, ProgressTasksAre
  <2> QED BY <1>2, <2>4
<1>4. r \in Seq(TransferTasks)
  BY <1>1 DEF TransferTasks
<1>5. /\ all \in Seq(TransferTasks)
      /\ \A i \in 1 .. Len(q) : all[i] = q[i]
      /\ \A i \in 1 .. Len(r) : all[Len(q) + i] = r[i]
      /\ \A i \in 1 .. Len(all) : i \in 1 .. Len(q) \/ (i - Len(q) \in 1 .. Len(r) /\ i = Len(q) + (i - Len(q)))
  BY <1>4, ConcatIs
<1> HIDE DEF all
<1>6. \A i \in 1 .. Len(all) : i \in 1 .. Len(q) \/ \E j \in 1 .. Len(r) : all[i] = r[j]
  <2> TAKE i \in 1 .. Len(all)
  <2> SUFFICES ASSUME i \notin 1 .. Len(q) PROVE \E j \in 1 .. Len(r) : all[i] = r[j]
    OBVIOUS
  <2> DEFINE j == i - Len(q)
  <2>1. j \in 1 .. Len(r) /\ i = Len(q) + j
    BY <1>5
  <2> HIDE DEF j
  <2>2. all[i] = r[j]
    BY <1>5, <2>1
  <2> QED BY <2>1, <2>2
<1>7. TaskTitles(all) \subseteq TaskTitles(q) \cup Titles(list)
  <2> SUFFICES ASSUME NEW i \in 1 .. Len(all)
               PROVE  <<all[i].row.id, all[i].row.no>> \in TaskTitles(q) \cup Titles(list)
    BY DEF TaskTitles
  <2>1. CASE i \in 1 .. Len(q)
    BY <1>5, <2>1 DEF TaskTitles
  <2>2. CASE i \notin 1 .. Len(q)
    <3>1. PICK j \in 1 .. Len(r) : all[i] = r[j]
      BY <1>6, <2>2
    <3>2. PICK k \in 1 .. Len(list) : r[j].row.id = list[k].id /\ r[j].row.no = list[k].no
      BY <1>3
    <3> QED BY <3>1, <3>2 DEF Titles
  <2> QED BY <2>1, <2>2
<1>8. \A i \in 1 .. Len(all) : all[i].task = "added" => i \in 1 .. Len(q) /\ all[i] = q[i]
  <2>1. "added" # "progress"
    OBVIOUS
  <2> QED BY <1>3, <1>5, <1>6, <2>1
<1>9. AnnouncedOnce(q) => AnnouncedOnce(all)
  BY <1>8 DEF AnnouncedOnce
<1>10. \A s : NotAnnounced(s, q) => NotAnnounced(s, all)
  BY <1>8 DEF NotAnnounced
<1>11. Hits(all, Announcements) = Hits(q, Announcements)
  <2>1. \A i \in 1 .. Len(r) : r[i] \notin Announcements
    <3> TAKE i \in 1 .. Len(r)
    <3>1. r[i] \in TransferTasks /\ r[i].task = "progress"
      BY <1>3, <1>4
    <3> QED BY <3>1, TaskKinds
  <2> QED BY <1>4, <2>1, HitsOfBoth DEF all
<1> QED BY <1>5, <1>7, <1>9, <1>10, <1>11 DEF all, r
-----------------------------------------------------------------------------
(* TransferView: what was told *)

LEMMA ToldByAnother ==
  ASSUME NEW q \in Seq(TransferTasks), NEW a \in TransferTasks, NEW s, NEW shown, Told(s, shown, q),
         \A i \in 1 .. Len(s) : s[i].no # a.row.no
  PROVE  Told(s, shown, Append(q, a))
<1> DEFINE t == Append(q, a)
<1>1. /\ Len(t) = Len(q) + 1 /\ t[Len(q) + 1] = a /\ (\A i \in 1 .. Len(q) : t[i] = q[i] /\ i \in 1 .. Len(q) + 1)
      /\ (\A i \in 1 .. Len(q) + 1 : i = Len(q) + 1 \/ i \in 1 .. Len(q))
  BY OneMore
<1> HIDE DEF t
<1>2. ASSUME NEW i \in 1 .. Len(s)
      PROVE  ToldLast(t, s[i].no, s[i].done) /\ RowSays(shown, t, s[i].no, s[i].done)
  <2>1. About(t, s[i].no) = About(q, s[i].no)
    BY <1>1 DEF About
  <2>2. \A p \in About(q, s[i].no) : t[p] = q[p]
    BY <1>1 DEF About
  <2>3. ToldLast(q, s[i].no, s[i].done) /\ RowSays(shown, q, s[i].no, s[i].done)
    BY DEF Told
  <2> QED BY <2>1, <2>2, <2>3 DEF ToldLast, RowSays
<1> QED BY <1>2 DEF Told, t

LEMMA ToldAtStart ==
  ASSUME NEW q \in Seq(TransferTasks), NEW a \in TransferTasks, NEW s \in Seq(TransferRecs), NEW e \in TransferRecs,
         NEW shown, Told(s, shown, q), \A i \in 1 .. Len(s) : s[i].no # e.no,
         a.row.no = e.no, Says(a) = e.done
  PROVE  Told(Append(s, e), shown, Append(q, a))
<1> DEFINE t == Append(q, a)  n == Len(q) + 1  longer == Append(s, e)
<1>1. /\ Len(t) = n /\ t[n] = a /\ n \in 1 .. n /\ n \in Nat
      /\ (\A i \in 1 .. n : i = n \/ i \in 1 .. Len(q)) /\ (\A i \in 1 .. Len(q) : i <= Len(q)) /\ Len(q) \in Nat
  BY OneMore
<1>2. Told(s, shown, t)
  BY ToldByAnother
<1>3. /\ Len(longer) = Len(s) + 1 /\ longer[Len(s) + 1] = e /\ (\A i \in 1 .. Len(s) : longer[i] = s[i])
      /\ (\A i \in 1 .. Len(s) + 1 : i = Len(s) + 1 \/ i \in 1 .. Len(s))
  BY OneMore
<1>4. \A i \in 1 .. Len(q) : ~(n <= i)
  BY <1>1
<1> HIDE DEF t, n, longer
<1>5. n \in About(t, e.no)
  BY <1>1 DEF About
<1>6. ToldLast(t, e.no, e.done) /\ RowSays(shown, t, e.no, e.done)
  <2>1. ASSUME NEW p \in About(t, e.no), \A r \in About(t, e.no) : r <= p PROVE Says(t[p]) = e.done
    <3>1. p \in 1 .. n /\ n <= p
      BY <1>1, <1>5, <2>1 DEF About
    <3>2. p = n
      BY <1>1, <1>4, <3>1
    <3> QED BY <1>1, <3>2
  <2> QED BY <1>5, <2>1 DEF ToldLast, RowSays
<1>7. ASSUME NEW i \in 1 .. Len(longer)
      PROVE  ToldLast(t, longer[i].no, longer[i].done) /\ RowSays(shown, t, longer[i].no, longer[i].done)
  <2>1. CASE i \in 1 .. Len(s)
    BY <1>2, <1>3, <2>1 DEF Told
  <2>2. CASE i = Len(s) + 1
    BY <1>3, <1>6, <2>2
  <2> QED BY <1>3, <2>1, <2>2
<1> QED BY <1>7 DEF Told, t, longer

LEMMA ToldNext ==
  ASSUME NEW q \in Seq(TransferTasks), q # <<>>, NEW shown, NEW n, NEW d, ToldLast(q, n, d), RowSays(shown, q, n, d)
  PROVE  /\ ToldLast(Tail(q), n, d)
         /\ About(Tail(q), n) = {} /\ q[1].row.no = n => Says(q[1]) = d
         /\ About(Tail(q), n) = {} /\ q[1].row.no # n => \A k \in 1 .. Len(shown) : shown[k].no = n => shown[k].done = d
<1> DEFINE t == Tail(q)
<1>1. /\ 1 \in 1 .. Len(q)
      /\ \A i \in 1 .. Len(t) : t[i] = q[i + 1] /\ i + 1 \in 1 .. Len(q) /\ i + 1 # 1 /\ i \in Nat
      /\ \A i \in 1 .. Len(q) : i = 1 \/ (i - 1 \in 1 .. Len(t) /\ (i - 1) + 1 = i)
  BY OneLess
<1> HIDE DEF t
<1>2. \A i \in 1 .. Len(q) : i \in About(q, n) /\ i # 1 => i - 1 \in About(t, n)
  BY <1>1 DEF About
<1>3. \A i \in About(t, n) : i + 1 \in About(q, n) /\ t[i] = q[i + 1] /\ i \in Nat
  BY <1>1 DEF About
<1>4. ASSUME NEW p \in About(t, n), \A r \in About(t, n) : r <= p PROVE Says(t[p]) = d
  <2>1. ASSUME NEW r \in About(q, n) PROVE r <= p + 1
    <3>1. r \in 1 .. Len(q) /\ p \in Nat
      BY <1>3 DEF About
    <3>2. CASE r = 1
      BY <3>1, <3>2
    <3>3. CASE r # 1
      <4>1. r - 1 <= p
        BY <1>2, <1>4, <3>1, <3>3
      <4> QED BY <3>1, <4>1
    <3> QED BY <3>2, <3>3
  <2>2. p + 1 \in About(q, n) /\ t[p] = q[p + 1]
    BY <1>3
  <2> QED BY <2>1, <2>2 DEF ToldLast
<1>5. ToldLast(t, n, d)
  BY <1>4 DEF ToldLast
<1>6. About(t, n) = {} => \A r \in About(q, n) : r = 1
  BY <1>2 DEF About
<1>7. ASSUME About(t, n) = {}, q[1].row.no = n PROVE Says(q[1]) = d
  <2>1. 1 \in About(q, n)
    BY <1>1, <1>7 DEF About
  <2>2. \A r \in About(q, n) : r <= 1
    BY <1>6, <1>7
  <2> QED BY <2>1, <2>2 DEF ToldLast
<1>8. ASSUME About(t, n) = {}, q[1].row.no # n
      PROVE  \A k \in 1 .. Len(shown) : shown[k].no = n => shown[k].done = d
  <2>1. 1 \notin About(q, n)
    BY <1>8 DEF About
  <2>2. About(q, n) = {}
    BY <1>6, <1>8, <2>1
  <2> QED BY <2>2 DEF RowSays
<1> QED BY <1>5, <1>7, <1>8 DEF t

LEMMA ToldByRow ==
  ASSUME NEW q \in Seq(TransferTasks), q # <<>>, q[1].task = "added", NEW shown \in Seq(TransferRowRecs),
         NotAnnounced(shown, q), NEW s, Told(s, shown, q)
  PROVE  Told(s, Append(shown, q[1].row), Tail(q))
<1> DEFINE row == q[1].row  longer == Append(shown, row)  t == Tail(q)
<1>1. q[1] \in TransferTasks /\ 1 \in 1 .. Len(q)
  BY OneLess
<1>2. row \in TransferRowRecs
  BY <1>1, TaskKinds
<1>3. Says(q[1]) = row.done
  BY DEF Says
<1> HIDE DEF row
<1>4. /\ Len(longer) = Len(shown) + 1 /\ longer[Len(shown) + 1] = row /\ (\A i \in 1 .. Len(shown) : longer[i] = shown[i])
      /\ (\A i \in 1 .. Len(shown) + 1 : i = Len(shown) + 1 \/ i \in 1 .. Len(shown))
  BY <1>2, OneMore
<1>5. \A i \in 1 .. Len(shown) : shown[i].no # row.no
  BY <1>1 DEF NotAnnounced, row
<1> HIDE DEF longer, t
<1>6. ASSUME NEW i \in 1 .. Len(s)
      PROVE  ToldLast(t, s[i].no, s[i].done) /\ RowSays(longer, t, s[i].no, s[i].done)
  <2> DEFINE n == s[i].no  d == s[i].done
  <2>1. ToldLast(q, n, d) /\ RowSays(shown, q, n, d)
    BY DEF Told
  <2> HIDE DEF n, d
  <2>2. /\ ToldLast(t, n, d)
        /\ About(t, n) = {} /\ row.no = n => row.done = d
        /\ About(t, n) = {} /\ row.no # n => \A k \in 1 .. Len(shown) : shown[k].no = n => shown[k].done = d
    BY <1>3, <2>1, ToldNext DEF t, row
  <2>3. ASSUME About(t, n) = {}, NEW k \in 1 .. Len(longer), longer[k].no = n PROVE longer[k].done = d
    <3>1. CASE k = Len(shown) + 1
      BY <1>4, <2>2, <2>3, <3>1
    <3>2. CASE k \in 1 .. Len(shown)
      <4>1. row.no # n
        BY <1>4, <1>5, <2>3, <3>2
      <4> QED BY <1>4, <2>2, <2>3, <3>2, <4>1
    <3> QED BY <1>4, <3>1, <3>2
  <2>4. RowSays(longer, t, n, d)
    BY <2>3 DEF RowSays
  <2> QED BY <2>2, <2>4 DEF n, d
<1> QED BY <1>6 DEF Told, longer, t, row

LEMMA ToldByProgress ==
  ASSUME NEW q \in Seq(TransferTasks), q # <<>>, q[1].task = "progress", NEW shown, NEW new,
         Len(new) = Len(shown), \A k \in 1 .. Len(shown) : new[k].no = shown[k].no,
         \A k \in 1 .. Len(shown) : new[k].done = IF shown[k].no = q[1].row.no THEN q[1].done ELSE shown[k].done,
         NEW s, Told(s, shown, q)
  PROVE  Told(s, new, Tail(q))
<1> DEFINE t == Tail(q)
<1>1. Says(q[1]) = q[1].done
  BY DEF Says
<1> HIDE DEF t
<1>2. ASSUME NEW i \in 1 .. Len(s)
      PROVE  ToldLast(t, s[i].no, s[i].done) /\ RowSays(new, t, s[i].no, s[i].done)
  <2> DEFINE n == s[i].no  d == s[i].done
  <2>1. ToldLast(q, n, d) /\ RowSays(shown, q, n, d)
    BY DEF Told
  <2> HIDE DEF n, d
  <2>2. /\ ToldLast(t, n, d)
        /\ About(t, n) = {} /\ q[1].row.no = n => q[1].done = d
        /\ About(t, n) = {} /\ q[1].row.no # n => \A k \in 1 .. Len(shown) : shown[k].no = n => shown[k].done = d
    BY <1>1, <2>1, ToldNext DEF t
  <2>3. RowSays(new, t, n, d)
    <3> SUFFICES ASSUME About(t, n) = {}, NEW k \in 1 .. Len(new), new[k].no = n PROVE new[k].done = d
      BY DEF RowSays
    <3>1. shown[k].no = n /\ k \in 1 .. Len(shown)
      OBVIOUS
    <3> QED BY <2>2, <3>1
  <2> QED BY <2>2, <2>3 DEF n, d
<1> QED BY <1>2 DEF Told, t

LEMMA ToldWhatever ==
  ASSUME NEW q, NEW shown, NEW new, NEW s, Told(s, shown, q),
         \A k \in 1 .. Len(new) : \E j \in 1 .. Len(shown) : new[k].no = shown[j].no /\ new[k].done = shown[j].done
  PROVE  Told(s, new, q)
<1>1. \A n, d : RowSays(shown, q, n, d) => RowSays(new, q, n, d)
  BY DEF RowSays
<1> QED BY <1>1 DEF Told

LEMMA RowOfIs ==
  ASSUME transferRows \in Seq(TransferRowRecs), NEW id
  PROVE  /\ \A k \in RowOf(id) : k \in 1 .. Len(transferRows) /\ transferRows[k].id = id
         /\ (\E k \in 1 .. Len(transferRows) : transferRows[k].id = id) => RowOf(id) # {}
<1> DEFINE of == {i \in 1 .. Len(transferRows) : transferRows[i].id = id}
<1>1. RowOf(id) = IF of = {} THEN {} ELSE {Min(of)}
  BY DEF RowOf
<1>2. of \in SUBSET Nat
  OBVIOUS
<1>3. of # {} => Min(of) \in of
  BY <1>2, MinIs
<1> QED BY <1>1, <1>3
LEMMA NumbersBelow ==
  ASSUME TransfersTyped, TransfersNumbered
  PROVE  /\ \A i \in 1 .. Len(sends) : sends[i].no # started + 1
         /\ \A i \in 1 .. Len(recvs) : recvs[i].no # started + 1
         /\ \A i \in 1 .. Len(starting) : starting[i].no # started + 1
         /\ \A i \in 1 .. Len(transferRows) : transferRows[i].no # started + 1
         /\ \A i \in 1 .. Len(transferTasks) : transferTasks[i].row.no # started + 1
<1>1. started \in Nat /\ \A x \in Known : x[2] # started + 1
  <2>1. started \in Nat /\ \A x \in Known : x[2] \in 0 .. started
    BY DEF TransfersTyped, TransfersNumbered
  <2>2. started + 1 \notin 0 .. started
    BY <2>1
  <2> QED BY <2>1, <2>2
<1>2. \A i \in 1 .. Len(sends) : <<sends[i].id, sends[i].no>> \in Known
  BY DEF Known, Titles
<1>3. \A i \in 1 .. Len(recvs) : <<recvs[i].id, recvs[i].no>> \in Known
  BY DEF Known, Titles
<1>4. \A i \in 1 .. Len(starting) : <<starting[i].id, starting[i].no>> \in Known
  BY DEF Known, Titles
<1>5. \A i \in 1 .. Len(transferRows) : <<transferRows[i].id, transferRows[i].no>> \in Known
  BY DEF Known, Titles
<1>6. \A i \in 1 .. Len(transferTasks) : <<transferTasks[i].row.id, transferTasks[i].row.no>> \in Known
  BY DEF Known, TaskTitles
<1>7. \A a, b : <<a, b>>[2] = b
  OBVIOUS
<1> HIDE DEF Known
<1> QED BY <1>1, <1>2, <1>3, <1>4, <1>5, <1>6, <1>7

LEMMA IdIsNew ==
  ASSUME NEW id, NewTransfer(id), TransfersTyped, ~reused'
  PROVE  ~reused /\ \A x \in Known : x[1] # id
<1>1. /\ ~reused /\ id \notin Ids(sends) /\ id \notin Ids(recvs) /\ id \notin Ids(starting) /\ id \notin Ids(transferRows)
      /\ \A i \in 1 .. Len(transferTasks) : transferTasks[i].row.id # id
  BY Zenon DEF NewTransfer, InUse
<1>2. \A x \in Titles(sends) : x[1] # id
  BY <1>1 DEF Titles, Ids
<1>3. \A x \in Titles(recvs) : x[1] # id
  BY <1>1 DEF Titles, Ids
<1>4. \A x \in Titles(starting) : x[1] # id
  BY <1>1 DEF Titles, Ids
<1>5. \A x \in Titles(transferRows) : x[1] # id
  BY <1>1 DEF Titles, Ids
<1>6. \A x \in TaskTitles(transferTasks) : x[1] # id
  BY <1>1 DEF TaskTitles
<1> QED BY <1>1, <1>2, <1>3, <1>4, <1>5, <1>6 DEF Known

\* What a step does with the transfers known: it adds at most one, with the next number and,
\* as long as no id is given again, an id of its own.
LEMMA KnownStep ==
  ASSUME TransfersInv, started' \in Nat,
         \/ Known' \subseteq Known /\ started' = started /\ reused' = reused
         \/ \E id \in TransferIds : /\ Known' \subseteq Known \cup {<<id, started + 1>>}
                                    /\ started' = started + 1
                                    /\ ~reused' => ~reused /\ \A x \in Known : x[1] # id
  PROVE  (\A x \in Known' : x[2] \in 0 .. started') /\ (~reused' => Coherent(Known'))
<1>1. started \in Nat /\ (\A x \in Known : x[2] \in 0 .. started) /\ (~reused => Coherent(Known))
  BY DEF TransfersInv, TransfersTyped, TransfersNumbered
<1> DEFINE K == Known  L == Known'
<1>2. (\A x \in K : x[2] \in 0 .. started) /\ (~reused => Coherent(K))
  BY <1>1
<1>3. CASE L \subseteq K /\ started' = started /\ reused' = reused
  <2>1. \A x \in L : x \in K
    BY <1>3
  <2> HIDE DEF K, L
  <2>2. (\A x \in L : x[2] \in 0 .. started') /\ (~reused' => Coherent(L))
    BY <1>2, <1>3, <2>1 DEF Coherent
  <2> QED BY <2>2 DEF L
<1>4. CASE \E id \in TransferIds : /\ L \subseteq K \cup {<<id, started + 1>>}
                                   /\ started' = started + 1
                                   /\ ~reused' => ~reused /\ \A x \in K : x[1] # id
  <2> HIDE DEF K, L
  <2>1. PICK id \in TransferIds : /\ L \subseteq K \cup {<<id, started + 1>>}
                                  /\ started' = started + 1
                                  /\ ~reused' => ~reused /\ \A x \in K : x[1] # id
    BY <1>4
  <2> DEFINE new == <<id, started + 1>>
  <2>2. new[1] = id /\ new[2] = started + 1
    OBVIOUS
  <2>3. \A x \in L : x \in K \/ x = new
    BY <2>1
  <2> HIDE DEF new
  <2>4. \A x \in K : x[2] \in 0 .. started' /\ x[2] # started + 1
    <3> TAKE x \in K
    <3>1. x[2] \in 0 .. started
      BY <1>2
    <3> QED BY <1>1, <2>1, <3>1
  <2>5. \A x \in L : x[2] \in 0 .. started'
    BY <1>1, <2>1, <2>2, <2>3, <2>4
  <2>6. ASSUME ~reused' PROVE Coherent(L)
    <3>1. (\A x, y \in K : x[1] = y[1] <=> x[2] = y[2]) /\ \A x \in K : x[1] # id
      BY <1>2, <2>1, <2>6 DEF Coherent
    <3>2. ASSUME NEW x \in L, NEW y \in L PROVE x[1] = y[1] <=> x[2] = y[2]
      BY <2>2, <2>3, <2>4, <3>1
    <3> QED BY <3>2 DEF Coherent
  <2> QED BY <2>5, <2>6 DEF L
<1> QED BY <1>3, <1>4

LEMMA TransfersStart == TransfersInit => TransfersInv
<1> SUFFICES ASSUME TransfersInit PROVE TransfersInv
  OBVIOUS
<1>1. /\ sends = <<>> /\ recvs = <<>> /\ starting = <<>> /\ transferRows = <<>> /\ selectedTransfer = 1
      /\ started = 0 /\ removedRows = 0 /\ reused = FALSE /\ transferTasks = <<>>
  BY DEF TransfersInit
<1>2. <<>> \in Seq(TransferRecs) /\ <<>> \in Seq(TransferRowRecs) /\ <<>> \in Seq(TransferTasks)
  <2>1. \A S : <<>> \in Seq(S)
    OBVIOUS
  <2> QED BY <2>1
<1>3. TransfersTyped
  <2>1. 1 \in Nat \ {0} /\ 0 \in Nat /\ Len(<<>>) = 0 /\ 0 <= 1
    OBVIOUS
  <2> QED BY <1>1, <1>2, <2>1 DEF TransfersTyped
<1>4. RowsCounted
  <2>1. Hits(transferTasks, Announcements) = {}
    BY <1>1 DEF Hits
  <2>2. Cardinality(Hits(transferTasks, Announcements)) = 0
    BY <2>1, FS_EmptySet
  <2> QED BY <1>1, <2>2 DEF RowsCounted
<1>5. Known = {}
  BY <1>1 DEF Known, Titles, TaskTitles
<1>6. /\ Distinct(sends) /\ Unlike(sends, recvs) /\ Unlike(sends, starting) /\ Unlike(starting, transferRows)
      /\ Distinct(transferRows) /\ AnnouncedOnce(transferTasks) /\ NotAnnounced(transferRows, transferTasks)
      /\ NotAnnounced(starting, transferTasks)
  BY <1>1 DEF Distinct, Unlike, AnnouncedOnce, NotAnnounced
<1>7. Told(sends, transferRows, transferTasks)
  BY <1>1 DEF Told
<1> QED BY <1>3, <1>4, <1>5, <1>6, <1>7 DEF TransfersInv, TransfersNumbered, NumbersApart, Coherent

LEMMA OneMoreStarted ==
  ASSUME NEW inView \in Nat, NEW told, NEW open, NEW gone \in Nat, NEW count,
         told \in Nat, open \in Nat, inView + told + open + gone = count
  PROVE  inView + (told + 1) + open + gone = count + 1 /\ inView + told + (open + 1) + gone = count + 1
OBVIOUS

LEMMA OneMoreRemoved ==
  ASSUME NEW inView \in Nat, NEW told, NEW open, NEW gone \in Nat, NEW count,
         told \in Nat, open \in Nat, inView + told + open + gone = count
  PROVE  (inView - 1) + told + open + (gone + 1) = count
OBVIOUS
LEMMA TransfersStep == TransfersInv /\ [TransfersNext]_transferVars => TransfersInv'
<1> SUFFICES ASSUME TransfersInv, [TransfersNext]_transferVars PROVE TransfersInv'
  OBVIOUS
<1> DEFINE Announced(q) == Cardinality(Hits(q, Announcements))
<1>1. /\ sends \in Seq(TransferRecs) /\ recvs \in Seq(TransferRecs) /\ starting \in Seq(TransferRecs) /\ Len(starting) <= 1
      /\ transferRows \in Seq(TransferRowRecs) /\ transferTasks \in Seq(TransferTasks)
      /\ selectedTransfer \in Nat \ {0} /\ started \in Nat /\ removedRows \in Nat /\ reused \in BOOLEAN
  BY DEF TransfersInv, TransfersTyped
<1>2. /\ Len(transferRows) + Announced(transferTasks) + Len(starting) + removedRows = started
      /\ selectedTransfer = 1 \/ selectedTransfer <= Len(transferRows)
      /\ Announced(transferTasks) \in Nat /\ Len(transferRows) \in Nat
  BY <1>1, HitsAre DEF TransfersInv, RowsCounted
<1>3. /\ Distinct(sends) /\ Unlike(sends, recvs) /\ Unlike(sends, starting)
      /\ Distinct(transferRows) /\ AnnouncedOnce(transferTasks) /\ NotAnnounced(transferRows, transferTasks)
      /\ NotAnnounced(starting, transferTasks) /\ Unlike(starting, transferRows)
  BY DEF TransfersInv, TransfersNumbered, NumbersApart
<1>4. ~reused => Coherent(Known) /\ Told(sends, transferRows, transferTasks)
  BY DEF TransfersInv
<1>5. /\ \A i \in 1 .. Len(sends) : sends[i].no # started + 1
      /\ \A i \in 1 .. Len(recvs) : recvs[i].no # started + 1
      /\ \A i \in 1 .. Len(starting) : starting[i].no # started + 1
      /\ \A i \in 1 .. Len(transferRows) : transferRows[i].no # started + 1
      /\ \A i \in 1 .. Len(transferTasks) : transferTasks[i].row.no # started + 1
  BY NumbersBelow DEF TransfersInv
<1> HIDE DEF Announced
<1>6. SUFFICES /\ TransfersTyped' /\ RowsCounted' /\ NumbersApart'
               /\ \/ Known' \subseteq Known /\ started' = started /\ reused' = reused
                  \/ \E id \in TransferIds : /\ Known' \subseteq Known \cup {<<id, started + 1>>}
                                             /\ started' = started + 1
                                             /\ ~reused' => ~reused /\ \A x \in Known : x[1] # id
               /\ ~reused' => Told(sends, transferRows, transferTasks)'
  <2>1. started' \in Nat
    BY <1>6 DEF TransfersTyped
  <2>2. (\A x \in Known' : x[2] \in 0 .. started') /\ (~reused' => Coherent(Known'))
    BY <1>6, <2>1, KnownStep
  <2> QED BY <1>6, <2>2 DEF TransfersInv, TransfersNumbered
<1>7. ASSUME NEW id \in TransferIds
      PROVE  LET e == Transfer(id, started + 1) IN e \in TransferRecs /\ e.id = id /\ e.no = started + 1 /\ e.done = 0
  BY <1>1 DEF Transfer, TransferRecs
<1>8. ASSUME NEW id, NewTransfer(id)
      PROVE  started' = started + 1 /\ reused' \in BOOLEAN /\ (~reused' => ~reused /\ \A x \in Known : x[1] # id)
  <2>1. ~reused' => ~reused /\ \A x \in Known : x[1] # id
    BY <1>8, IdIsNew DEF TransfersInv
  <2>2. started' = started + 1 /\ reused' \in BOOLEAN
    BY <1>1, <1>8 DEF NewTransfer
  <2> QED BY <2>1, <2>2
<1>9. CASE UNCHANGED transferVars
  <2>1. TransfersTyped' /\ RowsCounted' /\ NumbersApart' /\ Known' = Known /\ started' = started /\ reused' = reused
    BY <1>9 DEF transferVars, TransfersInv, TransfersTyped, RowsCounted, TransfersNumbered, NumbersApart, Known
  <2> QED BY <1>4, <1>9, <2>1 DEF transferVars
<1>10. CASE StartUpload
  <2>1. PICK id \in TransferIds :
           /\ NewTransfer(id)
           /\ sends' = Append(sends, Transfer(id, started + 1))
           /\ transferTasks' = Append(transferTasks, AddedTask(Row(Transfer(id, started + 1), "Upload")))
    BY <1>10 DEF StartUpload
  <2>2. UNCHANGED <<recvs, starting, transferRows, selectedTransfer, removedRows>>
    BY <1>10 DEF StartUpload
  <2> DEFINE e == Transfer(id, started + 1)  a == AddedTask(Row(e, "Upload"))
  <2>3. e \in TransferRecs /\ e.id = id /\ e.no = started + 1 /\ e.done = 0
    BY <1>7
  <2>4. a \in Announcements /\ Says(a) = 0 /\ a.row.no = e.no /\ a.row.id = e.id
    <3>1. "Upload" \in Directions
      BY DEF Directions
    <3> HIDE DEF e
    <3> QED BY <2>3, <3>1, AnnouncementsAre
  <2>5. sends' = Append(sends, e) /\ transferTasks' = Append(transferTasks, a)
    BY <2>1
  <2> HIDE DEF e, a
  <2>6. a \in TransferTasks
    BY <2>4 DEF TransferTasks
  <2>7. started' = started + 1 /\ reused' \in BOOLEAN /\ (~reused' => ~reused /\ \A x \in Known : x[1] # id)
    BY <1>8, <2>1
  <2>8. sends' \in Seq(TransferRecs) /\ transferTasks' \in Seq(TransferTasks)
    BY <1>1, <2>3, <2>5, <2>6, OneMore
  <2>9. TransfersTyped'
    BY <1>1, <2>2, <2>7, <2>8 DEF TransfersTyped
  <2>10. RowsCounted'
    <3>1. Announced(transferTasks') = Announced(transferTasks) + OneIf(a \in Announcements)
      BY <1>1, <2>5, <2>6, HitsOfOneMore DEF Announced
    <3>2. Announced(transferTasks') = Announced(transferTasks) + 1
      BY <2>4, <3>1 DEF OneIf
    <3>3. Len(transferRows') + Announced(transferTasks') + Len(starting') + removedRows' = started'
      <4>1. Len(transferRows') = Len(transferRows) /\ Len(starting') = Len(starting) /\ removedRows' = removedRows
        BY <2>2
      <4> QED BY <1>1, <1>2, <2>7, <3>2, <4>1, OneMoreStarted
    <3> QED BY <1>2, <2>2, <3>3 DEF RowsCounted, Announced
  <2>11. Known' \subseteq Known \cup {<<id, started + 1>>}
    <3>1. Titles(sends') \subseteq Titles(sends) \cup {<<e.id, e.no>>}
      BY <1>1, <2>3, <2>5, OneMoreNumbered
    <3>2. TaskTitles(transferTasks') \subseteq TaskTitles(transferTasks) \cup {<<a.row.id, a.row.no>>}
      BY <1>1, <2>5, <2>6, OneMoreTask
    <3> QED BY <2>2, <2>3, <2>4, <3>1, <3>2 DEF Known
  <2>12. NumbersApart'
    <3>1. Distinct(sends') /\ Unlike(sends', recvs) /\ Unlike(sends', starting)
      BY <1>1, <1>3, <1>5, <2>3, <2>5, OneMoreNumbered
    <3>2. AnnouncedOnce(transferTasks') /\ NotAnnounced(transferRows, transferTasks') /\ NotAnnounced(starting, transferTasks')
      BY <1>1, <1>3, <1>5, <2>3, <2>4, <2>5, <2>6, OneMoreTask
    <3> QED BY <1>3, <2>2, <3>1, <3>2 DEF NumbersApart
  <2>13. ~reused' => Told(sends, transferRows, transferTasks)'
    <3> SUFFICES ASSUME ~reused' PROVE Told(sends', transferRows', transferTasks')
      OBVIOUS
    <3>1. Told(Append(sends, e), transferRows, Append(transferTasks, a))
      BY <1>1, <1>4, <1>5, <2>3, <2>4, <2>6, <2>7, ToldAtStart
    <3> QED BY <2>2, <2>5, <3>1
  <2> QED BY <2>7, <2>9, <2>10, <2>11, <2>12, <2>13
<1>11. CASE StartDownload
  <2>1. PICK id \in TransferIds :
           /\ NewTransfer(id)
           /\ recvs' = Append(recvs, Transfer(id, started + 1))
           /\ starting' = <<Transfer(id, started + 1)>>
    BY <1>11 DEF StartDownload
  <2>2. UNCHANGED <<sends, transferRows, selectedTransfer, removedRows, transferTasks>> /\ starting = <<>>
    BY <1>11 DEF StartDownload
  <2> DEFINE e == Transfer(id, started + 1)
  <2>3. e \in TransferRecs /\ e.id = id /\ e.no = started + 1
    BY <1>7
  <2>4. recvs' = Append(recvs, e) /\ starting' = <<e>>
    BY <2>1
  <2> HIDE DEF e
  <2>5. started' = started + 1 /\ reused' \in BOOLEAN /\ (~reused' => ~reused /\ \A x \in Known : x[1] # id)
    BY <1>8, <2>1
  <2>6. recvs' \in Seq(TransferRecs)
    BY <1>1, <2>3, <2>4, OneMore
  <2>7. starting' \in Seq(TransferRecs) /\ Len(starting') = 1 /\ starting'[1] = e /\ \A i \in 1 .. Len(starting') : i = 1
    BY <2>3, <2>4
  <2>8. TransfersTyped'
    BY <1>1, <2>2, <2>5, <2>6, <2>7 DEF TransfersTyped
  <2>9. RowsCounted'
    <3>1. Len(starting) = 0
      BY <2>2
    <3>2. Len(transferRows') + Announced(transferTasks') + Len(starting') + removedRows' = started'
      <4>1. Len(transferRows') = Len(transferRows) /\ Announced(transferTasks') = Announced(transferTasks) /\ removedRows' = removedRows
        BY <2>2
      <4>2. Len(starting') = 1
        BY <2>7
      <4> QED BY <1>1, <1>2, <2>5, <3>1, <4>1, <4>2, OneMoreStarted
    <3> QED BY <1>2, <2>2, <3>2 DEF RowsCounted, Announced
  <2>10. Known' \subseteq Known \cup {<<id, started + 1>>}
    <3>1. Titles(recvs') \subseteq Titles(recvs) \cup {<<e.id, e.no>>}
      BY <1>1, <2>3, <2>4, OneMoreNumbered
    <3>2. Titles(starting') \subseteq {<<e.id, e.no>>}
      BY <2>7 DEF Titles
    <3> QED BY <2>2, <2>3, <3>1, <3>2 DEF Known
  <2>11. NumbersApart'
    <3>1. Unlike(sends, recvs')
      BY <1>1, <1>3, <1>5, <2>3, <2>4, OneMoreNumbered
    <3>2. Unlike(sends, starting') /\ Unlike(starting', transferRows)
      BY <1>5, <2>3, <2>7 DEF Unlike
    <3>3. NotAnnounced(starting', transferTasks)
      BY <1>5, <2>3, <2>7 DEF NotAnnounced
    <3> QED BY <1>3, <2>2, <3>1, <3>2, <3>3 DEF NumbersApart
  <2>12. ~reused' => Told(sends, transferRows, transferTasks)'
    BY <1>4, <2>2, <2>5
  <2> QED BY <2>5, <2>8, <2>9, <2>10, <2>11, <2>12
<1>12. CASE AnnounceDownload
  <2> DEFINE e == starting[1]  a == AddedTask(Row(e, "Download"))
  <2>1. /\ starting # <<>> /\ transferTasks' = Append(transferTasks, a) /\ starting' = <<>>
        /\ UNCHANGED <<sends, recvs, transferRows, selectedTransfer, started, removedRows, reused>>
    BY <1>12 DEF AnnounceDownload
  <2>2. e \in TransferRecs /\ Len(starting) = 1 /\ 1 \in 1 .. Len(starting)
    <3>1. Len(starting) \in Nat /\ Len(starting) # 0 /\ Len(starting) <= 1
      BY <1>1, <2>1
    <3>2. Len(starting) = 1
      BY <3>1
    <3>3. 1 \in 1 .. Len(starting)
      BY <3>2
    <3>4. starting[1] \in TransferRecs
      BY <1>1, <3>3
    <3> QED BY <3>2, <3>3, <3>4
  <2>3. a \in Announcements /\ Says(a) = 0 /\ a.row.no = e.no /\ a.row.id = e.id
    <3>1. "Download" \in Directions
      BY DEF Directions
    <3> HIDE DEF e
    <3> QED BY <2>2, <3>1, AnnouncementsAre
  <2> HIDE DEF a
  <2>4. a \in TransferTasks
    BY <2>3 DEF TransferTasks
  <2>5. transferTasks' \in Seq(TransferTasks)
    BY <1>1, <2>1, <2>4, OneMore
  <2>6. starting' \in Seq(TransferRecs) /\ Len(starting') = 0
    BY <2>1
  <2>7. TransfersTyped'
    BY <1>1, <2>1, <2>5, <2>6 DEF TransfersTyped
  <2>8. RowsCounted'
    <3>1. Announced(transferTasks') = Announced(transferTasks) + OneIf(a \in Announcements)
      BY <1>1, <2>1, <2>4, HitsOfOneMore DEF Announced
    <3>2. Announced(transferTasks') = Announced(transferTasks) + 1
      BY <2>3, <3>1 DEF OneIf
    <3>3. Len(transferRows') + Announced(transferTasks') + Len(starting') + removedRows' = started'
      BY <1>1, <1>2, <2>1, <2>2, <2>6, <3>2
    <3> QED BY <1>2, <2>1, <3>3 DEF RowsCounted, Announced
  <2>9. Known' \subseteq Known
    <3>1. TaskTitles(transferTasks') \subseteq TaskTitles(transferTasks) \cup {<<a.row.id, a.row.no>>}
      BY <1>1, <2>1, <2>4, OneMoreTask
    <3>2. Titles(starting') = {}
      BY <2>6 DEF Titles
    <3>3. <<a.row.id, a.row.no>> \in Titles(starting)
      BY <2>2, <2>3 DEF Titles
    <3> QED BY <2>1, <3>1, <3>2, <3>3 DEF Known
  <2>10. NumbersApart'
    <3>1. \A j \in 1 .. Len(transferTasks) : transferTasks[j].task = "added" => transferTasks[j].row.no # a.row.no
      BY <1>3, <2>2, <2>3 DEF NotAnnounced
    <3>2. \A i \in 1 .. Len(transferRows) : transferRows[i].no # a.row.no
      BY <1>3, <2>2, <2>3 DEF Unlike
    <3>3. AnnouncedOnce(transferTasks') /\ NotAnnounced(transferRows, transferTasks')
      BY <1>1, <1>3, <2>1, <2>4, <3>1, <3>2, OneMoreTask
    <3>4. Unlike(sends, starting') /\ Unlike(starting', transferRows) /\ NotAnnounced(starting', transferTasks')
      BY <2>6 DEF Unlike, NotAnnounced
    <3> QED BY <1>3, <2>1, <3>3, <3>4 DEF NumbersApart
  <2>11. ~reused' => Told(sends, transferRows, transferTasks)'
    <3> SUFFICES ASSUME ~reused PROVE Told(sends, transferRows, transferTasks')
      BY <2>1
    <3>1. \A i \in 1 .. Len(sends) : sends[i].no # a.row.no
      BY <1>3, <2>2, <2>3 DEF Unlike
    <3> QED BY <1>1, <1>4, <2>1, <2>4, <3>1, ToldByAnother
  <2> QED BY <2>1, <2>7, <2>8, <2>9, <2>10, <2>11
<1>13. CASE ProcessTransfers
  <2>1. PICK so \in [1 .. Len(sends) -> {"on", "completed", "failed"}] : \E ro \in [1 .. Len(recvs) -> {"on", "completed", "failed"}] :
           /\ sends' = Kept(sends, so) /\ recvs' = Kept(recvs, ro)
           /\ transferTasks' = transferTasks \o Reports(sends, so) \o Reports(recvs, ro)
    BY <1>13 DEF ProcessTransfers
  <2>2. PICK ro \in [1 .. Len(recvs) -> {"on", "completed", "failed"}] :
           /\ sends' = Kept(sends, so) /\ recvs' = Kept(recvs, ro)
           /\ transferTasks' = transferTasks \o Reports(sends, so) \o Reports(recvs, ro)
    BY <2>1
  <2>3. UNCHANGED <<starting, transferRows, selectedTransfer, started, removedRows, reused>>
    BY <1>13 DEF ProcessTransfers
  <2> DEFINE first == transferTasks \o Reports(sends, so)  all == first \o Reports(recvs, ro)
  <2>4. /\ first \in Seq(TransferTasks)
        /\ TaskTitles(first) \subseteq TaskTitles(transferTasks) \cup Titles(sends)
        /\ AnnouncedOnce(first) /\ NotAnnounced(transferRows, first) /\ NotAnnounced(starting, first)
        /\ Hits(first, Announcements) = Hits(transferTasks, Announcements)
    BY <1>1, <1>3, MoreProgress
  <2>5. transferTasks' = all
    BY <2>2
  <2> HIDE DEF first
  <2>6. /\ all \in Seq(TransferTasks)
        /\ TaskTitles(all) \subseteq TaskTitles(first) \cup Titles(recvs)
        /\ AnnouncedOnce(all) /\ NotAnnounced(transferRows, all) /\ NotAnnounced(starting, all)
        /\ Hits(all, Announcements) = Hits(first, Announcements)
    BY <1>1, <2>4, MoreProgress
  <2>7. Told(Kept(sends, so), transferRows, all)
    BY <1>1, <1>3, ToldByPass DEF first
  <2> HIDE DEF all
  <2>8. sends' \in Seq(TransferRecs) /\ recvs' \in Seq(TransferRecs)
    BY <1>1, <2>2, PassedOn
  <2>9. FewerOf(sends', sends) /\ FewerOf(recvs', recvs)
    BY <1>1, <2>2, KeptAreFewer
  <2>10. TransfersTyped'
    BY <1>1, <2>3, <2>5, <2>6, <2>8 DEF TransfersTyped
  <2>11. RowsCounted'
    <3>1. Announced(transferTasks') = Announced(transferTasks)
      BY <2>4, <2>5, <2>6 DEF Announced
    <3> QED BY <1>2, <2>3, <3>1 DEF RowsCounted, Announced
  <2>12. Known' \subseteq Known
    <3>1. Titles(sends') \subseteq Titles(sends) /\ Titles(recvs') \subseteq Titles(recvs)
      BY <2>9, FewerAre
    <3> QED BY <2>3, <2>4, <2>5, <2>6, <3>1 DEF Known
  <2>13. NumbersApart'
    <3>1. Distinct(sends') /\ Unlike(sends', starting) /\ Unlike(sends', recvs)
      BY <1>3, <2>9, FewerAre
    <3>2. Unlike(sends', recvs')
      BY <2>9, <3>1, FewerAre
    <3> QED BY <1>3, <2>3, <2>5, <2>6, <3>1, <3>2 DEF NumbersApart
  <2>14. Told(sends', transferRows', transferTasks')
    BY <2>2, <2>3, <2>5, <2>7
  <2> QED BY <2>3, <2>10, <2>11, <2>12, <2>13, <2>14
<1>14. ASSUME transferTasks # <<>>
       PROVE  /\ Tail(transferTasks) \in Seq(TransferTasks) /\ transferTasks[1] \in TransferTasks
              /\ Announced(Tail(transferTasks)) =
                     Announced(transferTasks) - OneIf(transferTasks[1].task = "added")
              /\ Announced(Tail(transferTasks)) \in Nat
              /\ AnnouncedOnce(Tail(transferTasks)) /\ NotAnnounced(starting, Tail(transferTasks))
              /\ NotAnnounced(transferRows, Tail(transferTasks))
              /\ TaskTitles(Tail(transferTasks)) \subseteq TaskTitles(transferTasks)
              /\ <<transferTasks[1].row.id, transferTasks[1].row.no>> \in TaskTitles(transferTasks)
  <2>1. Tail(transferTasks) \in Seq(TransferTasks) /\ transferTasks[1] \in TransferTasks
    BY <1>1, <1>14, OneLess
  <2>2. transferTasks[1] \in Announcements <=> transferTasks[1].task = "added"
    BY <2>1, TaskKinds
  <2>3. Announced(Tail(transferTasks)) = Announced(transferTasks) - OneIf(transferTasks[1].task = "added")
    BY <1>1, <1>14, <2>2, HitsOfTail DEF Announced, OneIf
  <2>4. Announced(Tail(transferTasks)) \in Nat
    BY <2>1, HitsAre DEF Announced
  <2> QED BY <1>1, <1>3, <1>14, <2>1, <2>3, <2>4, OneTaskLess
<1>15. CASE ShowTransfer
  <2> DEFINE row == transferTasks[1].row
  <2>1. /\ transferTasks # <<>> /\ transferTasks[1].task = "added"
        /\ transferRows' = Append(transferRows, row) /\ transferTasks' = Tail(transferTasks)
        /\ UNCHANGED <<sends, recvs, starting, selectedTransfer, started, removedRows, reused>>
    BY <1>15 DEF ShowTransfer
  <2>2. row \in TransferRowRecs
    BY <1>14, <2>1, TaskKinds
  <2>3. /\ \A i \in 1 .. Len(transferRows) : transferRows[i].no # row.no
        /\ \A i \in 1 .. Len(starting) : starting[i].no # row.no
        /\ \A j \in 1 .. Len(transferTasks') : transferTasks'[j].task = "added" => transferTasks'[j].row.no # row.no
    BY <1>1, <1>3, <2>1, OneTaskLess
  <2>4. <<row.id, row.no>> \in TaskTitles(transferTasks)
    BY <1>14, <2>1
  <2>5. ~reused => Told(sends, Append(transferRows, row), Tail(transferTasks))
    BY <1>1, <1>3, <1>4, <2>1, ToldByRow
  <2>6. OneIf(transferTasks[1].task = "added") = 1
    BY <2>1 DEF OneIf
  <2> HIDE DEF row
  <2>7. transferRows' \in Seq(TransferRowRecs) /\ Len(transferRows') = Len(transferRows) + 1
    BY <1>1, <2>1, <2>2, OneMore
  <2>8. TransfersTyped'
    BY <1>1, <1>14, <2>1, <2>7 DEF TransfersTyped
  <2>9. RowsCounted'
    <3>1. Announced(transferTasks') = Announced(transferTasks) - 1
      BY <1>14, <2>1, <2>6
    <3>2. Len(transferRows') + Announced(transferTasks') + Len(starting') + removedRows' = started'
      BY <1>1, <1>2, <2>1, <2>7, <3>1
    <3>3. selectedTransfer' = 1 \/ selectedTransfer' <= Len(transferRows')
      BY <1>1, <1>2, <2>1, <2>7
    <3> QED BY <3>2, <3>3 DEF RowsCounted, Announced
  <2>10. Known' \subseteq Known
    <3>1. Titles(transferRows') \subseteq Titles(transferRows) \cup {<<row.id, row.no>>}
      BY <1>1, <2>1, <2>2, OneMoreNumbered
    <3>2. TaskTitles(transferTasks') \subseteq TaskTitles(transferTasks)
      BY <1>14, <2>1
    <3> QED BY <2>1, <2>4, <3>1, <3>2 DEF Known
  <2>11. NumbersApart'
    <3>1. AnnouncedOnce(transferTasks') /\ NotAnnounced(starting, transferTasks') /\ NotAnnounced(transferRows, transferTasks')
      BY <1>14, <2>1
    <3>2. Distinct(transferRows') /\ Unlike(starting, transferRows') /\ NotAnnounced(transferRows', transferTasks')
      BY <1>1, <1>3, <2>1, <2>2, <2>3, <3>1, OneMoreNumbered
    <3> QED BY <1>3, <2>1, <3>1, <3>2 DEF NumbersApart
  <2>12. ~reused' => Told(sends', transferRows', transferTasks')
    BY <2>1, <2>5
  <2> QED BY <2>1, <2>8, <2>9, <2>10, <2>11, <2>12
<1>16. CASE ShowProgress
  <2> DEFINE t == transferTasks[1]
  <2>1. /\ transferTasks # <<>> /\ t.task = "progress"
        /\ transferRows' = [i \in 1 .. Len(transferRows) |->
                               IF i \in RowOf(t.row.id) THEN [transferRows[i] EXCEPT !.done = t.done] ELSE transferRows[i]]
        /\ transferTasks' = Tail(transferTasks)
        /\ UNCHANGED <<sends, recvs, starting, selectedTransfer, started, removedRows, reused>>
    BY <1>16 DEF ShowProgress
  <2>2. t \in TransferTasks /\ t.done \in Nat /\ t.row.id \in TransferIds /\ t.row.no \in Nat
    <3>1. t \in TransferTasks
      BY <1>14, <2>1
    <3> HIDE DEF t
    <3> QED BY <2>1, <3>1, TaskKinds
  <2>3. <<t.row.id, t.row.no>> \in TaskTitles(transferTasks)
    BY <1>14, <2>1
  <2>4. OneIf(t.task = "added") = 0
    BY <2>1 DEF OneIf
  <2>5. Announced(transferTasks') = Announced(transferTasks)
    BY <1>2, <1>14, <2>1, <2>4
  <2> DEFINE of == RowOf(t.row.id)
             one(i) == IF i \in of THEN [transferRows[i] EXCEPT !.done = t.done] ELSE transferRows[i]
  <2>6. transferRows' = [i \in 1 .. Len(transferRows) |-> one(i)]
    BY <2>1
  <2>7. /\ \A k \in of : k \in 1 .. Len(transferRows) /\ transferRows[k].id = t.row.id
        /\ (\E k \in 1 .. Len(transferRows) : transferRows[k].id = t.row.id) => of # {}
    BY <1>1, RowOfIs
  <2> HIDE DEF of
  <2>8. ASSUME NEW i \in 1 .. Len(transferRows)
        PROVE  /\ one(i) \in TransferRowRecs /\ one(i).id = transferRows[i].id /\ one(i).no = transferRows[i].no
               /\ one(i).done = IF i \in of THEN t.done ELSE transferRows[i].done
    <3>1. transferRows[i] \in TransferRowRecs
      BY <1>1
    <3> HIDE DEF t
    <3> QED BY <2>2, <3>1 DEF TransferRowRecs
  <2> HIDE DEF one
  <2>9. /\ transferRows' \in Seq(TransferRowRecs) /\ Len(transferRows') = Len(transferRows)
        /\ \A i \in 1 .. Len(transferRows) : transferRows'[i] = one(i)
    BY <1>2, <2>6, <2>8
  <2>10. \A i \in 1 .. Len(transferRows) :
            /\ transferRows'[i].id = transferRows[i].id /\ transferRows'[i].no = transferRows[i].no
            /\ transferRows'[i].done = IF i \in of THEN t.done ELSE transferRows[i].done
    BY <2>8, <2>9
  <2>11. FewerOf(transferRows', transferRows)
    BY <2>9, <2>10, AlikeAreFewer
  <2>12. TransfersTyped'
    BY <1>1, <1>14, <2>1, <2>9 DEF TransfersTyped
  <2>13. RowsCounted'
    BY <1>2, <2>1, <2>5, <2>9 DEF RowsCounted, Announced
  <2>14. Known' \subseteq Known
    <3>1. Titles(transferRows') \subseteq Titles(transferRows) /\ TaskTitles(transferTasks') \subseteq TaskTitles(transferTasks)
      BY <1>14, <2>1, <2>11, FewerAre
    <3> QED BY <2>1, <3>1 DEF Known
  <2>15. NumbersApart'
    <3>1. AnnouncedOnce(transferTasks') /\ NotAnnounced(starting, transferTasks') /\ NotAnnounced(transferRows, transferTasks')
      BY <1>14, <2>1
    <3>2. Distinct(transferRows') /\ Unlike(starting, transferRows') /\ NotAnnounced(transferRows', transferTasks')
      BY <1>3, <2>11, <3>1, FewerAre
    <3> QED BY <1>3, <2>1, <3>1, <3>2 DEF NumbersApart
  <2>16. ASSUME ~reused PROVE Told(sends, transferRows', transferTasks')
    <3>1. \A x, y \in Known : x[1] = y[1] <=> x[2] = y[2]
      BY <1>4, <2>16 DEF Coherent
    <3>2. \A k \in 1 .. Len(transferRows) : <<transferRows[k].id, transferRows[k].no>> \in Known
      BY DEF Known, Titles
    <3>3. <<t.row.id, t.row.no>> \in Known
      BY <2>3 DEF Known
    <3>4. \A k \in 1 .. Len(transferRows) : transferRows[k].id = t.row.id <=> transferRows[k].no = t.row.no
      <4> HIDE DEF Known
      <4> TAKE k \in 1 .. Len(transferRows)
      <4>1. <<transferRows[k].id, transferRows[k].no>>[1] = <<t.row.id, t.row.no>>[1]
            <=> <<transferRows[k].id, transferRows[k].no>>[2] = <<t.row.id, t.row.no>>[2]
        BY <3>1, <3>2, <3>3, Zenon
      <4> QED BY <4>1
    <3>5. \A k \in 1 .. Len(transferRows) : k \in of <=> transferRows[k].no = t.row.no
      <4> TAKE k \in 1 .. Len(transferRows)
      <4>1. k \in of => transferRows[k].no = t.row.no
        BY <2>7, <3>4
      <4>2. ASSUME transferRows[k].no = t.row.no PROVE k \in of
        <5>1. transferRows[k].id = t.row.id
          BY <3>4, <4>2
        <5>2. PICK j \in of : j \in 1 .. Len(transferRows) /\ transferRows[j].id = t.row.id
          BY <2>7, <5>1
        <5>3. transferRows[j].no = transferRows[k].no
          BY <3>4, <4>2, <5>2
        <5>4. j = k
          BY <1>3, <5>2, <5>3 DEF Distinct
        <5> QED BY <5>2, <5>4
      <4> QED BY <4>1, <4>2
    <3>6. \A k \in 1 .. Len(transferRows) :
             transferRows'[k].done = IF transferRows[k].no = t.row.no THEN t.done ELSE transferRows[k].done
      BY <2>10, <3>5
    <3>7. \A k \in 1 .. Len(transferRows) : transferRows'[k].no = transferRows[k].no
      BY <2>10
    <3> DEFINE new == transferRows'
    <3>8. Len(new) = Len(transferRows)
      BY <2>9
    <3> HIDE DEF new
    <3>9. Told(sends, new, Tail(transferTasks))
      BY <1>1, <1>4, <2>1, <2>16, <3>6, <3>7, <3>8, ToldByProgress DEF new
    <3> QED BY <2>1, <3>9 DEF new
  <2> QED BY <2>1, <2>12, <2>13, <2>14, <2>15, <2>16
<1>17. CASE PauseOrResumeRow
  <2> DEFINE n == selectedTransfer
             status == IF transferRows[n].status = "Active" THEN "Paused" ELSE "Active"
             row == [transferRows[n] EXCEPT !.status = status]
  <2>1. /\ n \in 1 .. Len(transferRows) /\ transferRows' = [transferRows EXCEPT ![n] = row]
        /\ UNCHANGED <<sends, recvs, starting, selectedTransfer, started, removedRows, reused, transferTasks>>
    BY <1>17 DEF PauseOrResumeRow, Selected
  <2>2. /\ row \in TransferRowRecs /\ row.id = transferRows[n].id /\ row.no = transferRows[n].no
        /\ row.done = transferRows[n].done
    <3>1. transferRows[n] \in TransferRowRecs
      BY <1>1, <2>1
    <3> QED BY <3>1 DEF TransferRowRecs
  <2> HIDE DEF row
  <2>3. /\ transferRows' \in Seq(TransferRowRecs) /\ Len(transferRows') = Len(transferRows)
        /\ \A i \in 1 .. Len(transferRows) : transferRows'[i] = IF i = n THEN row ELSE transferRows[i]
    BY <1>1, <2>1, <2>2
  <2>4. \A i \in 1 .. Len(transferRows) :
            /\ transferRows'[i].id = transferRows[i].id /\ transferRows'[i].no = transferRows[i].no
            /\ transferRows'[i].done = transferRows[i].done
    BY <2>2, <2>3
  <2>5. FewerOf(transferRows', transferRows)
    BY <2>3, <2>4, AlikeAreFewer
  <2>6. TransfersTyped'
    BY <1>1, <2>1, <2>3 DEF TransfersTyped
  <2>7. RowsCounted'
    BY <1>2, <2>1, <2>3 DEF RowsCounted, Announced
  <2>8. Known' \subseteq Known
    <3>1. Titles(transferRows') \subseteq Titles(transferRows)
      BY <2>5, FewerAre
    <3> QED BY <2>1, <3>1 DEF Known
  <2>9. NumbersApart'
    <3>1. Distinct(transferRows') /\ Unlike(starting, transferRows') /\ NotAnnounced(transferRows', transferTasks)
      BY <1>3, <2>5, FewerAre
    <3> QED BY <1>3, <2>1, <3>1 DEF NumbersApart
  <2>10. ASSUME ~reused PROVE Told(sends, transferRows', transferTasks)
    <3>1. \A k \in 1 .. Len(transferRows') : \E j \in 1 .. Len(transferRows) :
             transferRows'[k].no = transferRows[j].no /\ transferRows'[k].done = transferRows[j].done
      BY <2>3, <2>4
    <3> QED BY <1>4, <2>10, <3>1, ToldWhatever
  <2> QED BY <2>1, <2>6, <2>7, <2>8, <2>9, <2>10
<1>18. CASE RemoveRow
  <2> DEFINE n == selectedTransfer
  <2>1. /\ n \in 1 .. Len(transferRows) /\ transferRows' = RemoveAt(transferRows, n) /\ removedRows' = removedRows + 1
        /\ selectedTransfer' = IF n = Len(transferRows) /\ n > 1 THEN n - 1 ELSE n
        /\ UNCHANGED <<sends, recvs, starting, started, reused, transferTasks>>
    BY <1>18 DEF RemoveRow, Selected
  <2>2. transferRows' \in Seq(TransferRowRecs) /\ Len(transferRows') = Len(transferRows) - 1
    BY <1>1, <2>1, RemovedIs
  <2>3. /\ FewerOf(transferRows', transferRows)
        /\ \A k \in 1 .. Len(transferRows') : \E j \in 1 .. Len(transferRows) : transferRows'[k] = transferRows[j]
    <3> HIDE DEF n
    <3>1. transferRows \in Seq(TransferRowRecs) /\ n \in 1 .. Len(transferRows)
      BY <1>1, <2>1
    <3>2. /\ FewerOf(RemoveAt(transferRows, n), transferRows)
          /\ \A k \in 1 .. Len(RemoveAt(transferRows, n)) :
               \E j \in 1 .. Len(transferRows) : RemoveAt(transferRows, n)[k] = transferRows[j]
      BY <3>1, RemovedAreFewer
    <3> QED BY <2>1, <3>2
  <2>4. selectedTransfer' \in Nat \ {0} /\ (selectedTransfer' = 1 \/ selectedTransfer' <= Len(transferRows'))
    BY <1>1, <1>2, <2>1, <2>2
  <2>5. TransfersTyped'
    BY <1>1, <2>1, <2>2, <2>4 DEF TransfersTyped
  <2>6. RowsCounted'
    <3>1. Len(transferRows') + Announced(transferTasks') + Len(starting') + removedRows' = started'
      <4>1. Announced(transferTasks') = Announced(transferTasks) /\ Len(starting') = Len(starting) /\ started' = started
        BY <2>1
      <4>2. removedRows' = removedRows + 1 /\ Len(transferRows') = Len(transferRows) - 1
        BY <2>1, <2>2
      <4>3. Len(starting) \in Nat
        BY <1>1
      <4> QED BY <1>1, <1>2, <4>1, <4>2, <4>3, OneMoreRemoved
    <3> QED BY <2>4, <3>1 DEF RowsCounted, Announced
  <2>7. Known' \subseteq Known
    <3>1. Titles(transferRows') \subseteq Titles(transferRows)
      BY <2>3, FewerAre
    <3> QED BY <2>1, <3>1 DEF Known
  <2>8. NumbersApart'
    <3>1. Distinct(transferRows') /\ Unlike(starting, transferRows') /\ NotAnnounced(transferRows', transferTasks)
      BY <1>3, <2>3, FewerAre
    <3> QED BY <1>3, <2>1, <3>1 DEF NumbersApart
  <2>9. ASSUME ~reused PROVE Told(sends, transferRows', transferTasks)
    <3>1. \A k \in 1 .. Len(transferRows') : \E j \in 1 .. Len(transferRows) :
             transferRows'[k].no = transferRows[j].no /\ transferRows'[k].done = transferRows[j].done
      BY <2>3
    <3> QED BY <1>4, <2>9, <3>1, ToldWhatever
  <2> QED BY <2>1, <2>5, <2>6, <2>7, <2>8, <2>9
<1>19. CASE SelectTransfer
  <2>1. /\ selectedTransfer' \in 1 .. Len(transferRows)
        /\ UNCHANGED <<sends, recvs, starting, transferRows, started, removedRows, reused, transferTasks>>
    BY <1>19 DEF SelectTransfer
  <2>2. selectedTransfer' \in Nat \ {0} /\ selectedTransfer' <= Len(transferRows)
    BY <1>2, <2>1
  <2>3. TransfersTyped'
    BY <1>1, <2>1, <2>2 DEF TransfersTyped
  <2>4. RowsCounted'
    BY <1>2, <2>1, <2>2 DEF RowsCounted, Announced
  <2>5. Known' = Known /\ NumbersApart'
    BY <1>3, <2>1 DEF Known, NumbersApart
  <2> QED BY <1>4, <2>1, <2>3, <2>4, <2>5
<1> QED BY <1>9, <1>10, <1>11, <1>12, <1>13, <1>15, <1>16, <1>17, <1>18, <1>19 DEF TransfersNext
LEMMA TransfersShown == TransfersInv => RowsShowTransfers
<1> SUFFICES ASSUME TransfersInv PROVE RowsShowTransfers
  OBVIOUS
<1>1. /\ transferTasks \in Seq(TransferTasks) /\ transferRows \in Seq(TransferRowRecs)
      /\ selectedTransfer \in Nat \ {0} /\ RowsCounted
  BY DEF TransfersInv, TransfersTyped
<1>2. {i \in 1 .. Len(transferTasks) : transferTasks[i].task = "added"} = Hits(transferTasks, Announcements)
  <2>1. \A i \in 1 .. Len(transferTasks) : transferTasks[i].task = "added" <=> transferTasks[i] \in Announcements
    <3> TAKE i \in 1 .. Len(transferTasks)
    <3>1. transferTasks[i] \in TransferTasks
      BY <1>1
    <3> QED BY <3>1, TaskKinds
  <2> QED BY <2>1 DEF Hits
<1>3. Len(transferRows) + Cardinality({i \in 1 .. Len(transferTasks) : transferTasks[i].task = "added"})
         + Len(starting) + removedRows = started
  BY <1>1, <1>2 DEF RowsCounted
<1>4. transferRows # <<>> => Selected
  <2>1. transferRows # <<>> => Len(transferRows) \in Nat /\ Len(transferRows) # 0
    BY <1>1
  <2>2. selectedTransfer = 1 \/ selectedTransfer <= Len(transferRows)
    BY <1>1 DEF RowsCounted
  <2> QED BY <1>1, <2>1, <2>2 DEF Selected
<1>5. ASSUME ~reused, NEW i \in 1 .. Len(sends), NEW k \in 1 .. Len(transferRows), transferRows[k].no = sends[i].no,
             {j \in 1 .. Len(transferTasks) : transferTasks[j].row.no = sends[i].no} = {}
      PROVE  transferRows[k].done = sends[i].done
  <2>1. About(transferTasks, sends[i].no) = {}
    BY <1>5 DEF About
  <2>2. RowSays(transferRows, transferTasks, sends[i].no, sends[i].done)
    BY <1>5 DEF TransfersInv, Told
  <2> QED BY <1>5, <2>1, <2>2 DEF RowSays
<1> QED BY <1>3, <1>4, <1>5 DEF RowsShowTransfers

\* The rows of the Transfers view: each transfer gets one, and an upload's row comes to show
\* how far it is, unless its id is given to another (waste_core.cpp:475, app.cpp:361-387).
THEOREM TransfersAreShown == TransfersSpec => []RowsShowTransfers
<1>1. TransfersInit => TransfersInv
  BY TransfersStart
<1>2. TransfersInv /\ [TransfersNext]_transferVars => TransfersInv'
  BY TransfersStep
<1>3. TransfersInv => RowsShowTransfers
  BY TransfersShown
<1> QED BY <1>1, <1>2, <1>3, PTL DEF TransfersSpec
=============================================================================
