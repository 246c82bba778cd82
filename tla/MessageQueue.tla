---------------------------- MODULE MessageQueue ----------------------------
(***************************************************************************)
(* One direction of a link between two WASTE nodes: the sender's           *)
(* C_MessageQueue (a bounded priority queue that is written to the         *)
(* connection header first, body in pieces), the byte stream, and the      *)
(* receiver's half of C_MessageQueue::run, which cuts the stream back into *)
(* messages and checks their MD5.                                          *)
(*                                                                         *)
(* Bytes are counted in units of 8, the Blowfish block: every length the   *)
(* code moves is rounded by PAD8 or "& ~7".  A unit of the stream is a     *)
(* cell that names its message and its place in it; a cell can be damaged  *)
(* on the way (TCP's checksum is weak), which is what the MD5 is for.      *)
(***************************************************************************)
EXTENDS Integers, Sequences, FiniteSets, Functions

CONSTANTS
  Message,      \* messages the program may hand to send_message
  Filler,       \* the MESSAGE_LOCAL_SATURATE message
  Junk,         \* what the parser makes of a damaged header
  Priority,     \* [AnyMessage -> Nat], message_prio: smaller is more urgent
  Units,        \* [AnyMessage -> Nat], PAD8(message_length) / 8
  QueueLen,     \* m_msg_len
  HeaderUnits,  \* 40 bytes: 5 units in the code
  SendCap,      \* getMaxSendSize() in units
  RecvCap,      \* what the receiving side holds before it is read
  Saturating,   \* (g_throttle_flag&32) && (get_saturatemode()&1)
  JunkUnits,    \* body lengths a damaged header may announce
  MaxFiller,    \* bound: filler messages in a behaviour
  MaxDamage     \* bound: messages damaged in a behaviour

AnyMessage == Message \cup {Filler}

ASSUME MessageAssumption ==
  /\ Filler \notin Message
  /\ Junk \notin AnyMessage
  /\ Priority \in [AnyMessage -> Nat]
  /\ Units \in [AnyMessage -> Nat]
  /\ JunkUnits \subseteq Nat

ASSUME SizeAssumption ==
  /\ QueueLen \in Nat \ {0}
  /\ HeaderUnits \in Nat \ {0}
  /\ SendCap \in Nat
  /\ RecvCap \in Nat
  /\ Saturating \in BOOLEAN
  /\ MaxFiller \in Nat
  /\ MaxDamage \in Nat

VARIABLES
  handed,       \* history: the messages given to send_message, in order
  m_msg,        \* the queue, most urgent first
  m_msg_bsent,  \* units of the head's body written, -1 before its header
  m_stat_drop,
  inrun,        \* the sender is in the while loop of run(0)
  sendbuf,      \* cells in the connection's send buffer
  written,      \* history: messages whose header was written, in order
  recvbuf,      \* cells that reached the receiver and are not read
  m_newmsg,     \* [msg, units, good] being received
  m_newmsg_pos, \* units of its body received, -1 when there is none
  closed,       \* the receiver called close(1)
  got,          \* history: messages recv_message returned, in order
  spoiled       \* history: messages with a damaged cell

sendvars == <<handed, m_msg, m_msg_bsent, m_stat_drop, inrun, written>>
recvvars == <<m_newmsg, m_newmsg_pos, closed, got>>
vars == <<sendvars, sendbuf, recvbuf, recvvars, spoiled>>

NoCell == [msg |-> Junk, at |-> 0]
Cell == [msg : AnyMessage \cup {Junk}, at : Nat]
Cells(m, from, to) == [i \in 1..(to - from + 1) |-> [msg |-> m, at |-> from + i - 1]]
Header(m) == Cells(m, 1, HeaderUnits)

NoMessage == [msg |-> Junk, units |-> 0, good |-> FALSE]
Incoming == [msg : AnyMessage \cup {Junk}, units : Nat, good : BOOLEAN]

MinOf(a, b) == IF a < b THEN a ELSE b

\* The queue holds messages and nothing else, and no count or position of mqueue.h
\* leaves its range.
TypeOK ==
  /\ handed \in Seq(Message)
  /\ m_msg \in Seq(AnyMessage)
  /\ m_msg_bsent \in Nat \cup {-1}
  /\ m_stat_drop \in Nat
  /\ inrun \in BOOLEAN
  /\ sendbuf \in Seq(Cell) /\ recvbuf \in Seq(Cell)
  /\ written \in Seq(AnyMessage)
  /\ m_newmsg \in Incoming
  /\ m_newmsg_pos \in Nat \cup {-1}
  /\ closed \in BOOLEAN
  /\ got \in Seq(AnyMessage \cup {Junk})
  /\ spoiled \subseteq Message

Init ==
  /\ handed = <<>> /\ m_msg = <<>> /\ m_msg_bsent = -1 /\ m_stat_drop = 0
  /\ inrun = FALSE /\ written = <<>>
  /\ sendbuf = <<>> /\ recvbuf = <<>>
  /\ m_newmsg = NoMessage /\ m_newmsg_pos = -1
  /\ closed = FALSE /\ got = <<>> /\ spoiled = {}

-----------------------------------------------------------------------------
(* The sender.                                                             *)

\* Mutant of FirstFree: a message in flight gives way to a more urgent one.
FirstFreeIgnoringFlight(bsent) == 1

\* The first place a new message may take: the head stays while it is in flight.
FirstFree(bsent) == IF bsent >= 0 THEN 2 ELSE 1

\* Mutant of IsPlace: in front of messages of the same priority.
IsPlaceBeforeEquals(q, bsent, m, x) ==
  /\ x <= Len(q) => Priority[m] <= Priority[q[x]]
  /\ \A i \in FirstFree(bsent)..Len(q) : i < x => Priority[m] > Priority[q[i]]

\* Where send_message puts m: before the first less urgent message.
IsPlace(q, bsent, m, x) ==
  /\ x <= Len(q) => Priority[m] < Priority[q[x]]
  /\ \A i \in FirstFree(bsent)..Len(q) : i < x => Priority[m] >= Priority[q[i]]

Place(q, bsent, m) ==
  CHOOSE x \in FirstFree(bsent)..(Len(q) + 1) : IsPlace(q, bsent, m, x)

\* insert(): shift right from x, the last message falls off a full queue.
Insert(q, x, m) ==
  [i \in 1..MinOf(Len(q) + 1, QueueLen) |->
     IF i < x THEN q[i] ELSE IF i = x THEN m ELSE q[i - 1]]

\* Mutant of Enqueue: a full queue turns the new message away.
EnqueueWhileRoom(q, bsent, m) ==
  IF Len(q) < QueueLen THEN Insert(q, Place(q, bsent, m), m) ELSE q

Enqueue(q, bsent, m) ==
  LET x == Place(q, bsent, m)
  IN  IF x <= QueueLen THEN Insert(q, x, m) ELSE q

Dropped(q) == IF Len(q) = QueueLen THEN 1 ELSE 0

SendMessage(m) ==
  /\ ~inrun
  /\ m \notin Range(handed)
  /\ handed' = Append(handed, m)
  /\ m_msg' = Enqueue(m_msg, m_msg_bsent, m)
  /\ m_stat_drop' = m_stat_drop + Dropped(m_msg)
  /\ UNCHANGED <<m_msg_bsent, inrun, written, sendbuf, recvbuf, recvvars, spoiled>>

\* saturate(): filler goes out only when nothing else is queued.
Saturate(q, buffered) ==
  IF /\ q = <<>> /\ Saturating
     /\ buffered < HeaderUnits + 2 * Units[Filler]
     /\ Cardinality({i \in DOMAIN written : written[i] = Filler}) < MaxFiller
  THEN Enqueue(q, -1, Filler) ELSE q

\* run(0): the check before the while loop.
RunSend ==
  /\ ~inrun
  /\ inrun' = TRUE
  /\ m_msg' = Saturate(m_msg, Len(sendbuf))
  /\ UNCHANGED <<handed, m_msg_bsent, m_stat_drop, written, sendbuf, recvbuf,
                 recvvars, spoiled>>

Available(buf) == IF Len(buf) < SendCap THEN SendCap - Len(buf) ELSE 0

\* The loop ends: the queue is empty or there is no room for the next header.
RunSendStop ==
  /\ inrun
  /\ \/ m_msg = <<>>
     \/ m_msg_bsent < 0 /\ Available(sendbuf) < HeaderUnits
  /\ inrun' = FALSE
  /\ UNCHANGED <<handed, m_msg, m_msg_bsent, m_stat_drop, written, sendbuf, recvbuf,
                 recvvars, spoiled>>

\* One turn of the loop: the header if it is not out yet, as much of the body as
\* fits, and the next message once this one is complete.
RunSendTurn ==
  /\ inrun
  /\ m_msg # <<>>
  /\ m_msg_bsent >= 0 \/ Available(sendbuf) >= HeaderUnits
  /\ LET m    == Head(m_msg)
         buf  == IF m_msg_bsent < 0 THEN sendbuf \o Header(m) ELSE sendbuf
         from == IF m_msg_bsent < 0 THEN 0 ELSE m_msg_bsent
         room == Available(buf)
         upto == from + MinOf(Units[m] - from, room)
         buf2 == buf \o Cells(m, HeaderUnits + from + 1, HeaderUnits + upto)
         done == upto >= Units[m]
     IN  /\ written' = IF m_msg_bsent < 0 THEN Append(written, m) ELSE written
         /\ sendbuf' = buf2
         /\ m_msg_bsent' = IF done THEN -1 ELSE upto
         /\ m_msg' = IF ~done THEN m_msg
                     ELSE IF Available(buf2) >= HeaderUnits + Units[Filler]
                     THEN Saturate(Tail(m_msg), Len(buf2)) ELSE Tail(m_msg)
         /\ inrun' = (room >= 1)
  /\ UNCHANGED <<handed, m_stat_drop, recvbuf, recvvars, spoiled>>

-----------------------------------------------------------------------------
(* The stream.                                                             *)

\* C_Connection::run moves the oldest bytes; after close(1) nothing is read.
Transmit ==
  /\ ~inrun /\ ~closed
  /\ sendbuf # <<>> /\ Len(recvbuf) < RecvCap
  /\ recvbuf' = Append(recvbuf, Head(sendbuf))
  /\ sendbuf' = Tail(sendbuf)
  /\ UNCHANGED <<sendvars, recvvars, spoiled>>

\* Bytes of the newest cell change on the way.
Damage ==
  /\ Cardinality(spoiled) < MaxDamage
  /\ recvbuf # <<>>
  /\ LET c == recvbuf[Len(recvbuf)]
     IN  c.msg \in Message \ spoiled /\ spoiled' = spoiled \cup {c.msg}
  /\ recvbuf' = [recvbuf EXCEPT ![Len(recvbuf)] = NoCell]
  /\ UNCHANGED <<sendvars, sendbuf, recvvars>>

-----------------------------------------------------------------------------
(* The receiver: one turn of the for loop of C_MessageQueueList::run, that *)
(* is run(1,-1) and then recv_message.                                     *)

\* The messages a header may be read as; none when it is refused.
Parsed(h) ==
  {[msg |-> m, units |-> Units[m], good |-> TRUE] : m \in {n \in AnyMessage : h = Header(n)}}
Misread(h) ==
  IF Parsed(h) # {} THEN {}
  ELSE {[msg |-> Junk, units |-> u, good |-> FALSE] : u \in JunkUnits}

\* type 0, ttl or length out of range: close(1), and no message is begun.
RefuseHeader ==
  /\ m_newmsg_pos = -1
  /\ Len(recvbuf) >= HeaderUnits
  /\ Parsed(SubSeq(recvbuf, 1, HeaderUnits)) = {}
  /\ recvbuf' = SubSeq(recvbuf, HeaderUnits + 1, Len(recvbuf))
  /\ m_newmsg' = NoMessage
  /\ closed' = TRUE
  /\ UNCHANGED <<sendvars, sendbuf, m_newmsg_pos, got, spoiled>>

\* The body from pos on; MD5 is compared where the last unit arrives, which never
\* happens for a message of length zero.
ReceiveBody(new, pos, buf) ==
  LET n     == MinOf(new.units - pos, Len(buf))
      body  == SubSeq(buf, 1, n)
      same  == body = Cells(new.msg, HeaderUnits + pos + 1, HeaderUnits + pos + n)
      now   == [new EXCEPT !.good = new.good /\ same]
      full  == pos + n >= new.units
      bad   == pos < new.units /\ full /\ ~now.good
  IN  /\ recvbuf' = SubSeq(buf, n + 1, Len(buf))
      /\ closed' = (closed \/ bad)
      /\ m_newmsg_pos' = IF full THEN -1 ELSE pos + n
      /\ m_newmsg' = IF full THEN NoMessage ELSE now
      /\ got' = IF full /\ ~bad THEN Append(got, new.msg) ELSE got

RecvMessage ==
  /\ \/ /\ m_newmsg_pos = -1
        /\ Len(recvbuf) >= HeaderUnits
        /\ LET h == SubSeq(recvbuf, 1, HeaderUnits)
           IN  \E new \in Parsed(h) \cup Misread(h) :
                 ReceiveBody(new, 0, SubSeq(recvbuf, HeaderUnits + 1, Len(recvbuf)))
     \/ /\ m_newmsg_pos >= 0
        /\ recvbuf # <<>>
        /\ ReceiveBody(m_newmsg, m_newmsg_pos, recvbuf)
  /\ UNCHANGED <<sendvars, sendbuf, spoiled>>

Next ==
  \/ \E m \in Message : SendMessage(m)
  \/ RunSend \/ RunSendStop \/ RunSendTurn
  \/ Transmit \/ Damage
  \/ RefuseHeader \/ RecvMessage

\* Both event loops come round again and again, and the socket is served on each
\* turn.
Fairness ==
  /\ WF_vars(RunSend) /\ WF_vars(RunSendStop) /\ WF_vars(RunSendTurn)
  /\ SF_vars(Transmit) /\ WF_vars(RefuseHeader \/ RecvMessage)

Spec == Init /\ [][Next]_vars /\ Fairness

-----------------------------------------------------------------------------
(* What the queue promises.                                                *)

\* Messages handed in that neither wait nor went out.
Lost == Range(handed) \ (Range(m_msg) \cup Range(written))

Before(s, a, b) == \E i, j \in DOMAIN s : i < j /\ s[i] = a /\ s[j] = b

\* The part of the queue that send_message may still order.
Waiting == SubSeq(m_msg, FirstFree(m_msg_bsent), Len(m_msg))

\* Once part of a message is on the wire it stays at the head of the queue until all
\* of it is, whatever is handed in meanwhile; behind it the queue is in the order of
\* message_prio; and of two messages of one priority that are not lost the one handed
\* in first goes out first.
QueueInOrder ==
  /\ TypeOK
  /\ m_msg_bsent >= 0 =>
       m_msg # <<>> /\ written # <<>> /\ Head(m_msg) = written[Len(written)]
  /\ \A i, j \in DOMAIN Waiting : i < j => Priority[Waiting[i]] <= Priority[Waiting[j]]
  /\ \A a, b \in Range(handed) \ Lost :
       Before(handed, a, b) /\ Priority[a] = Priority[b] => Before(written \o Waiting, a, b)

\* What handing in a message throws out of the queue, or keeps from entering it.
Thrown == (Range(m_msg) \cup (Range(handed') \ Range(handed))) \ Range(m_msg')

\* Only a full queue loses a message, one for each message handed in; m_stat_drop
\* counts it; it is no more urgent than anything the queue keeps, and newer than what
\* is kept of its priority.  Nothing is lost between the queue and the wire.
LosesLeastUrgent ==
  [][IF handed' = handed THEN Lost' = Lost /\ m_stat_drop' = m_stat_drop
     ELSE /\ m_stat_drop' - m_stat_drop = Cardinality(Thrown)
          /\ Thrown # {} => Len(m_msg) = QueueLen
          /\ \A m \in Thrown, k \in Range(Waiting') :
               \/ Priority[k] < Priority[m]
               \/ Priority[k] = Priority[m] /\ Before(handed', k, m)]_vars

\* With nothing damaged the receiver cuts the stream where the sender did: it
\* never refuses a header or an MD5, and returns the messages in wire order.  A message
\* with a damaged cell never reaches recv_message's caller.
DeliveredInOrder ==
  /\ spoiled = {} =>
       /\ ~closed
       /\ Len(got) <= Len(written)
       /\ got = SubSeq(written, 1, Len(got))
  /\ spoiled \cap Range(got) = {}

\* A message more urgent than m is handed in.
MoreUrgentThan(m) ==
  \E k \in Range(handed') \ Range(handed) : Priority[k] < Priority[m]

\* A message handed in is delivered, unless a full queue lost it, bytes of the link
\* were damaged, or more urgent messages keep coming for ever: the queue is strictly by
\* message_prio, and what it promises the less urgent ends where their supply does not.
\* Messages of its own priority, however many, never hold it back for ever, and no half
\* written message stays behind.
EventuallyDelivered ==
  \A m \in Message :
    <>[][~MoreUrgentThan(m)]_vars
      => (m \in Range(handed) ~> m \in Range(got) \cup Lost \/ spoiled # {})
=============================================================================
