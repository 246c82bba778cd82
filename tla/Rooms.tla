------------------------------- MODULE Rooms -------------------------------
(***************************************************************************)
(* The chat of the terminal program: MESSAGE_CHAT in main_MsgCallback and  *)
(* sendChatMessage (waste_core.cpp), and the Chat view (app.cpp).  A       *)
(* message that is addressed to "#room" is for everyone in the room, one   *)
(* to "@nick" for one user; the network carries both to everyone.          *)
(***************************************************************************)
EXTENDS Integers, Sequences, SequencesExt

CONSTANTS Users,        \* the nicknames of the others
          Me,           \* the nickname of this host
          Channels,     \* the names of rooms of everyone
          MaxChats,     \* bound on the messages of a behaviour
          MaxRooms      \* bound on the rooms that are open

General == <<"#", "general">>
Direct(nick) == <<"@", nick>>
Open == {<<"#", c>> : c \in Channels}

VARIABLES rooms,      \* name, number of unread messages, messages and users of each room
          room,       \* the selected one
          chats,      \* number of messages received and sent
          tasks       \* posted to the interface's thread

roomVars == <<rooms, room, chats, tasks>>

NewRoom(name) == [name |-> name, unread |-> 0, messages |-> <<>>, users |-> {}]
RoomsInit == rooms = <<NewRoom(General)>> /\ room = 1 /\ chats = 0 /\ tasks = <<>>

\* The first room of a name, or 0.
Found(name) ==
    LET is == {i \in 1 .. Len(rooms) : rooms[i].name = name}
    IN  IF is = {} THEN 0 ELSE CHOOSE i \in is : \A j \in is : i <= j

-----------------------------------------------------------------------------
(* The core's thread *)

Say(name, m) == [task |-> "message", name |-> name, m |-> m, user |-> m.src]
Joined(name, user) == [task |-> "joined", name |-> name, user |-> user]
Left(name, user) == [task |-> "left", name |-> name, user |-> user]

\* A direct message is for its addressee, and for its sender where it comes back.
Hears(m) == m.dest \in Open \/ m.dest = Direct(Me) \/ m.src = Me
\* The room of a direct message is that of the other one.
RoomOf(m) == IF m.dest \in Open \/ m.src = Me THEN m.dest ELSE Direct(m.src)

\* What a message has the interface do, in order.
TasksOf(m) ==
    CASE m.text = "/join" -> <<Joined(m.dest, m.src), Say(m.dest, m)>>
      [] m.text = "/part" -> <<Left(m.dest, m.src), Say(m.dest, m)>>
      [] m.text = "/nick" -> <<Left(m.dest, m.old), Joined(m.dest, m.src), Say(m.dest, m)>>
      [] OTHER -> IF Hears(m) THEN <<Say(RoomOf(m), m)>> ELSE <<>>

ReceiveChat ==
    /\ chats < MaxChats
    /\ \E src \in Users, dest \in Open \cup {Direct(u) : u \in Users \cup {Me}} :
       \E text \in {"text", "/join", "/part", "/nick"} : \E old \in IF text = "/nick" THEN Users ELSE {src} :
           tasks' = tasks \o TasksOf([src |-> src, dest |-> dest, text |-> text, old |-> old])
    /\ chats' = chats + 1
    /\ UNCHANGED <<rooms, room>>

-----------------------------------------------------------------------------
(* The interface's thread *)

\* Enter: what is sent is shown here as it was typed, command or not.
SendChat ==
    /\ chats < MaxChats
    /\ \E text \in {"text", "/part"} :
           tasks' = Append(tasks, Say(rooms[room].name, [src |-> Me, dest |-> rooms[room].name,
                                                         text |-> text, old |-> Me]))
    /\ chats' = chats + 1
    /\ UNCHANGED <<rooms, room>>
\* The rooms are not searched for the name.
JoinRoom ==
    /\ Len(rooms) < MaxRooms
    /\ \E name \in Open : rooms' = Append(rooms, NewRoom(name))
    /\ UNCHANGED <<room, chats, tasks>>
StartDirect ==
    \E u \in Users :
        /\ IF Found(Direct(u)) # 0 THEN rooms' = rooms /\ room' = Found(Direct(u))
           ELSE Len(rooms) < MaxRooms /\ rooms' = Append(rooms, NewRoom(Direct(u))) /\ room' = Len(rooms) + 1
        /\ UNCHANGED <<chats, tasks>>
\* Mutant of LeaveRoom: the selection stays where it was.
LeaveRoomStay ==
    /\ room > 1
    /\ rooms' = RemoveAt(rooms, room)
    /\ UNCHANGED <<room, chats, tasks>>
LeaveRoom ==
    /\ room > 1
    /\ rooms' = RemoveAt(rooms, room) /\ room' = room - 1
    /\ UNCHANGED <<chats, tasks>>
\* The arrows stop at the ends, Tab and Shift+Tab go round.
SelectRoom ==
    /\ room' \in {room - 1, room + 1, (room % Len(rooms)) + 1, ((room + Len(rooms) - 2) % Len(rooms)) + 1}
    /\ room' \in 1 .. Len(rooms)
    /\ UNCHANGED <<rooms, chats, tasks>>

RoomTask(t) == tasks # <<>> /\ tasks[1].task = t /\ tasks' = Tail(tasks)
ShowMessage ==
    /\ RoomTask("message")
    /\ LET i == Found(tasks[1].name)
           said == [NewRoom(tasks[1].name) EXCEPT !.unread = 1, !.messages = <<tasks[1].m>>]
       IN  rooms' = IF i = 0 THEN Append(rooms, said)
                    ELSE [rooms EXCEPT ![i].messages = Append(@, tasks[1].m),
                                       ![i].unread = IF i = room THEN @ ELSE @ + 1]
    /\ UNCHANGED <<room, chats>>
ShowPresence ==
    /\ RoomTask("joined") \/ RoomTask("left")
    /\ LET i == Found(tasks[1].name)
           users == IF i = 0 THEN {} ELSE rooms[i].users
       IN  rooms' = IF i = 0 THEN rooms
                    ELSE [rooms EXCEPT ![i].users = IF tasks[1].task = "joined" THEN users \cup {tasks[1].user}
                                                    ELSE users \ {tasks[1].user}]
    /\ UNCHANGED <<room, chats>>

RoomsNext ==
    \/ ReceiveChat \/ SendChat \/ JoinRoom \/ StartDirect \/ LeaveRoom \/ SelectRoom
    \/ ShowMessage \/ ShowPresence

RoomsSpec == RoomsInit /\ [][RoomsNext]_roomVars

-----------------------------------------------------------------------------
(* Properties *)

\* What was written to one user is shown to no third one, and between those two in the room of
\* the other; commands written in such a room are not kept from anyone.  A room can be read
\* and written to only where one is selected, so one always is, and the first cannot be left
\* (waste_core.cpp:224-248, app.cpp:2653-2661).
DirectStaysBetweenTwo ==
    /\ room \in 1 .. Len(rooms) /\ rooms[1].name = General
    /\ \A i \in 1 .. Len(rooms) : \A k \in 1 .. Len(rooms[i].messages) :
        LET m == rooms[i].messages[k]
        IN  m.text = "text" => /\ m.dest \in Open => rooms[i].name = m.dest
                               /\ m.dest = Direct(Me) => rooms[i].name = Direct(m.src)
                               /\ m.dest \notin Open /\ m.dest # Direct(Me) =>
                                      m.src = Me /\ rooms[i].name = m.dest
=============================================================================
