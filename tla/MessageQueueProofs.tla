------------------------- MODULE MessageQueueProofs -------------------------
(***************************************************************************)
(* Proofs about MessageQueue, for every set of messages, every assignment   *)
(* of priorities and lengths to them, every size of the queue, of the       *)
(* header and of the buffers, and any number of damaged messages.           *)
(***************************************************************************)
EXTENDS MessageQueue, SequenceTheorems, FiniteSetTheorems, WellFoundedInduction, TLAPS

\* All messages that went out or wait, in the order in which they are or will be written.
Flow == written \o Waiting

\* No message twice; of those handed in; in the order of priority; and of one priority
\* in the order in which they were handed in.
Once(f) == \A i, j \in 1..Len(f) : f[i] = f[j] /\ f[i] # Filler => i = j
HandedIn(f, h) == \A i \in 1..Len(f) : f[i] # Filler => \E j \in 1..Len(h) : f[i] = h[j]
InOrder(w) == \A i, j \in 1..Len(w) : i < j => Priority[w[i]] <= Priority[w[j]]
Fifo(f, h) ==
  \A i, j \in 1..Len(h), k, l \in 1..Len(f) :
    i < j /\ f[k] = h[i] /\ f[l] = h[j] /\ Priority[h[i]] = Priority[h[j]] => k < l
FillerOnce(w) == \A i, j \in 1..Len(w) : w[i] = Filler /\ w[j] = Filler => i = j

FlowInv ==
  /\ Once(handed) /\ Once(Flow) /\ HandedIn(Flow, handed) /\ Fifo(Flow, handed)
  /\ InOrder(Waiting) /\ FillerOnce(Waiting)

\* The head in flight is the last message whose header was written, and not complete.
InFlight ==
  m_msg_bsent >= 0 =>
    /\ m_msg # <<>> /\ written # <<>> /\ Head(m_msg) = written[Len(written)]
    /\ m_msg_bsent < Units[Head(m_msg)]
    /\ Head(m_msg) = Filler => \A i \in 1..Len(Waiting) : Waiting[i] # Filler

\* What is being received has a unit that did not arrive.
Receiving == m_newmsg_pos >= 0 => m_newmsg_pos < m_newmsg.units

QueueInv == TypeOK /\ Len(m_msg) <= QueueLen /\ InFlight /\ Receiving /\ FlowInv

-----------------------------------------------------------------------------
(* Sequences and numbers                                                   *)

LEMMA LeastOf ==
  ASSUME NEW S \in SUBSET Nat, S # {}
  PROVE  \E x \in S : \A y \in S : x <= y
<1> DEFINE R == OpToRel(<, Nat)
<1>1. \A x, y \in Nat : x < y => <<x, y>> \in R
  BY DEF OpToRel
<1>2. IsWellFoundedOn(R, Nat)
  BY NatLessThanWellFounded
<1> HIDE DEF R
<1>3. PICK x \in S : \A y \in S : ~(<<y, x>> \in R)
  BY <1>2, WFMin
<1>4. \A y \in S : x <= y
  <2> SUFFICES ASSUME NEW y \in S, ~(x <= y) PROVE FALSE
    OBVIOUS
  <2>1. x \in Nat /\ y \in Nat /\ y < x
    OBVIOUS
  <2> QED BY <1>1, <1>3, <2>1
<1> QED BY <1>4

LEMMA SeqOf ==
  ASSUME NEW S, NEW n \in Nat, NEW t \in [1..n -> S]
  PROVE  t \in Seq(S) /\ Len(t) = n
OBVIOUS

LEMMA Types ==
  /\ Filler \in AnyMessage /\ Message \subseteq AnyMessage /\ Filler \notin Message
  /\ Junk \notin AnyMessage
  /\ \A m \in AnyMessage : Priority[m] \in Nat /\ Units[m] \in Nat
  /\ QueueLen \in Nat \ {0} /\ HeaderUnits \in Nat \ {0} /\ SendCap \in Nat
BY MessageAssumption, SizeAssumption DEF AnyMessage

\* The part of the queue that may still be ordered, by its places in the queue.
LEMMA WaitingIs ==
  ASSUME NEW q \in Seq(AnyMessage), NEW b \in Nat \cup {-1}, b >= 0 => q # <<>>
  PROVE  LET w == SubSeq(q, FirstFree(b), Len(q))
             off == IF b >= 0 THEN 1 ELSE 0
         IN  /\ w \in Seq(AnyMessage) /\ Len(w) = Len(q) - off
             /\ \A i \in 1..Len(w) : w[i] = q[i + off]
             /\ FirstFree(b) = off + 1
<1> DEFINE off == IF b >= 0 THEN 1 ELSE 0
           w == SubSeq(q, FirstFree(b), Len(q))
<1>1. FirstFree(b) = off + 1 /\ off \in {0, 1} /\ off <= Len(q) /\ Len(q) \in Nat
  BY DEF FirstFree
<1>2. \A i \in (off + 1)..Len(q) : q[i] \in AnyMessage
  BY <1>1
<1> HIDE DEF off
<1>3. /\ SubSeq(q, off + 1, Len(q)) \in Seq(AnyMessage)
      /\ Len(SubSeq(q, off + 1, Len(q))) = IF off + 1 <= Len(q) THEN Len(q) - (off + 1) + 1 ELSE 0
      /\ \A i \in 1..(Len(q) - (off + 1) + 1) : SubSeq(q, off + 1, Len(q))[i] = q[off + 1 + i - 1]
  BY <1>1, <1>2, SubSeqProperties
<1>4. w \in Seq(AnyMessage) /\ Len(w) = Len(q) - off
  BY <1>1, <1>3
<1>5. \A i \in 1..Len(w) : w[i] = q[i + off]
  BY <1>1, <1>3, <1>4
<1> QED BY <1>1, <1>4, <1>5 DEF off

LEMMA FlowIs ==
  ASSUME NEW s \in Seq(AnyMessage), NEW w \in Seq(AnyMessage)
  PROVE  /\ s \o w \in Seq(AnyMessage) /\ DOMAIN (s \o w) = 1..(Len(s) + Len(w))
         /\ \A i \in 1..(Len(s) + Len(w)) : (s \o w)[i] = IF i <= Len(s) THEN s[i] ELSE w[i - Len(s)]
BY ConcatProperties

\* send_message always finds a place.
LEMMA PlaceIs ==
  ASSUME NEW q \in Seq(AnyMessage), NEW b \in Nat \cup {-1}, NEW m \in AnyMessage,
         b >= 0 => q # <<>>
  PROVE  /\ Place(q, b, m) \in FirstFree(b)..(Len(q) + 1)
         /\ IsPlace(q, b, m, Place(q, b, m))
<1> DEFINE S == {x \in FirstFree(b)..(Len(q) + 1) : x <= Len(q) => Priority[m] < Priority[q[x]]}
<1>1. FirstFree(b) \in 1..(Len(q) + 1) /\ Len(q) \in Nat
  BY DEF FirstFree
<1>2. S \in SUBSET Nat /\ Len(q) + 1 \in S
  BY <1>1
<1>3. PICK x \in S : \A y \in S : x <= y
  BY <1>2, LeastOf
<1>4. \A i \in FirstFree(b)..Len(q) : i < x => Priority[m] >= Priority[q[i]]
  <2> SUFFICES ASSUME NEW i \in FirstFree(b)..Len(q), i < x PROVE Priority[m] >= Priority[q[i]]
    OBVIOUS
  <2>1. i \in 1..Len(q) /\ x \in Nat
    BY <1>1
  <2>2. Priority[q[i]] \in Nat /\ Priority[m] \in Nat
    BY <2>1, Types
  <2>3. ~(Priority[m] < Priority[q[i]])
    BY <1>1, <1>3, <2>1
  <2> QED BY <2>2, <2>3
<1>5. IsPlace(q, b, m, x) /\ x \in FirstFree(b)..(Len(q) + 1)
  BY <1>4 DEF IsPlace
<1> QED BY <1>5 DEF Place

\* w2 is w with m at place p, behind what is as urgent and before what is less; where the
\* queue is full the last one is gone, or m is.
PutAt(w, w2, m, p, full) ==
  /\ p \in 1..(Len(w) + 1)
  /\ \A i \in 1..Len(w) : i < p => Priority[w[i]] <= Priority[m]
  /\ p <= Len(w) => Priority[m] < Priority[w[p]]
  /\ \/ full /\ p = Len(w) + 1 /\ w2 = w
     \/ /\ Len(w2) = IF full THEN Len(w) ELSE Len(w) + 1
        /\ p <= Len(w2)
        /\ \A i \in 1..Len(w2) : w2[i] = IF i < p THEN w[i] ELSE IF i = p THEN m ELSE w[i - 1]

LEMMA EnqueueIs ==
  ASSUME NEW q \in Seq(AnyMessage), NEW b \in Nat \cup {-1}, NEW m \in AnyMessage,
         b >= 0 => q # <<>>, Len(q) <= QueueLen
  PROVE  LET q2 == Enqueue(q, b, m)
             w == SubSeq(q, FirstFree(b), Len(q))
             w2 == SubSeq(q2, FirstFree(b), Len(q2))
         IN  /\ q2 \in Seq(AnyMessage) /\ Len(q2) <= QueueLen /\ q2 # <<>>
             /\ b >= 0 => Head(q2) = Head(q)
             /\ \E p \in Nat : PutAt(w, w2, m, p, Len(q) = QueueLen)
<1> DEFINE off == IF b >= 0 THEN 1 ELSE 0
           w == SubSeq(q, FirstFree(b), Len(q))
           x == Place(q, b, m)
           p == x - off
           q2 == Enqueue(q, b, m)
           w2 == SubSeq(q2, FirstFree(b), Len(q2))
<1>1. Len(q) \in Nat /\ off \in {0, 1} /\ off <= Len(q) /\ QueueLen \in Nat \ {0}
      /\ FirstFree(b) = off + 1
  BY Types DEF FirstFree
<1>2. x \in (off + 1)..(Len(q) + 1) /\ IsPlace(q, b, m, x)
  BY <1>1, PlaceIs
<1>3. /\ w \in Seq(AnyMessage) /\ Len(w) = Len(q) - off
      /\ \A i \in 1..Len(w) : w[i] = q[i + off]
  BY WaitingIs
<1> HIDE DEF off, w, x, q2, w2
<1>4. p \in Nat /\ p \in 1..(Len(w) + 1)
  BY <1>1, <1>2, <1>3
<1>5. \A i \in 1..Len(w) : i < p => Priority[w[i]] <= Priority[m]
  <2> SUFFICES ASSUME NEW i \in 1..Len(w), i < p PROVE Priority[w[i]] <= Priority[m]
    OBVIOUS
  <2>1. i + off \in FirstFree(b)..Len(q) /\ i + off < x /\ w[i] = q[i + off] /\ i + off \in 1..Len(q)
    BY <1>1, <1>2, <1>3
  <2>2. Priority[m] >= Priority[q[i + off]]
    BY <1>2, <2>1 DEF IsPlace
  <2>3. Priority[q[i + off]] \in Nat /\ Priority[m] \in Nat
    BY <2>1, Types
  <2> QED BY <2>1, <2>2, <2>3
<1>6. p <= Len(w) => Priority[m] < Priority[w[p]]
  <2> SUFFICES ASSUME p <= Len(w) PROVE Priority[m] < Priority[w[p]]
    OBVIOUS
  <2>1. p \in 1..Len(w) /\ p + off = x /\ x <= Len(q)
    BY <1>1, <1>2, <1>3, <1>4
  <2> QED BY <1>2, <1>3, <2>1 DEF IsPlace
<1>7. CASE x <= QueueLen
  <2> DEFINE n == MinOf(Len(q) + 1, QueueLen)
  <2>1. n = (IF Len(q) = QueueLen THEN Len(q) ELSE Len(q) + 1) /\ n \in Nat \ {0} /\ x <= n
    BY <1>1, <1>2, <1>7 DEF MinOf
  <2>2. q2 = [i \in 1..n |-> IF i < x THEN q[i] ELSE IF i = x THEN m ELSE q[i - 1]]
    BY <1>7 DEF Enqueue, Insert, q2, x
  <2> HIDE DEF n
  <2>3. \A i \in 1..n : (IF i < x THEN q[i] ELSE IF i = x THEN m ELSE q[i - 1]) \in AnyMessage
    <3> SUFFICES ASSUME NEW i \in 1..n
                 PROVE  (IF i < x THEN q[i] ELSE IF i = x THEN m ELSE q[i - 1]) \in AnyMessage
      OBVIOUS
    <3>1. i < x => i \in 1..Len(q)
      BY <1>1, <1>2, <2>1
    <3>2. i > x => i - 1 \in 1..Len(q)
      BY <1>1, <1>2, <2>1
    <3> QED BY <1>1, <1>2, <2>1, <3>1, <3>2
  <2>4. q2 \in Seq(AnyMessage) /\ Len(q2) = n
    BY <2>1, <2>2, <2>3
  <2>5. b >= 0 => Head(q2) = Head(q)
    <3>1. b >= 0 => x >= 2 /\ 1 \in 1..n
      BY <1>1, <1>2, <2>1 DEF off
    <3>2. b >= 0 => q2[1] = q[1]
      BY <1>1, <1>2, <2>1, <2>2, <3>1
    <3> QED BY <1>1, <2>1, <2>4, <3>2
  <2>6. /\ Len(w2) = n - off
        /\ \A i \in 1..Len(w2) : w2[i] = q2[i + off]
    <3>1. q2 # <<>>
      BY <2>1, <2>4
    <3> QED BY <2>4, <3>1, WaitingIs DEF w2, off
  <2>7. \A i \in 1..Len(w2) : w2[i] = IF i < p THEN w[i] ELSE IF i = p THEN m ELSE w[i - 1]
    <3> SUFFICES ASSUME NEW i \in 1..Len(w2)
                 PROVE  w2[i] = IF i < p THEN w[i] ELSE IF i = p THEN m ELSE w[i - 1]
      OBVIOUS
    <3>0. i \in Int /\ 1 <= i /\ i <= n - off
      BY <1>1, <2>1, <2>6
    <3>1. i + off \in 1..n /\ w2[i] = q2[i + off]
      BY <1>1, <2>1, <2>6, <3>0
    <3>2. w2[i] = IF i + off < x THEN q[i + off] ELSE IF i + off = x THEN m ELSE q[i + off - 1]
      BY <1>1, <1>2, <2>1, <2>2, <3>0, <3>1
    <3>3. CASE i + off < x
      <4>1. i \in 1..Len(w) /\ i < p
        BY <1>1, <1>2, <1>3, <3>3
      <4> QED BY <1>3, <3>2, <3>3, <4>1
    <3>4. CASE i + off = x
      BY <1>1, <1>2, <3>2, <3>4
    <3>5. CASE i + off > x
      <4>1. i - 1 \in 1..Len(w) /\ ~(i < p) /\ i # p /\ i + off - 1 = (i - 1) + off
        <5>1. x = p + off /\ x \in Nat /\ off \in Nat /\ p \in Nat /\ Len(w) = Len(q) - off /\ Len(q) \in Nat
          BY <1>1, <1>2, <1>3, <1>4
        <5>2. p >= 1 /\ n - off <= Len(w) + 1 /\ n \in Nat
          BY <1>4, <2>1, <5>1
        <5> QED BY <3>0, <3>5, <5>1, <5>2
      <4>2. w[i - 1] = q[i + off - 1]
        BY <1>3, <4>1
      <4> QED BY <1>1, <1>2, <3>2, <3>5, <4>1, <4>2
    <3> QED BY <1>1, <1>2, <3>3, <3>4, <3>5
  <2>8. p <= Len(w2) /\ Len(w2) = IF Len(q) = QueueLen THEN Len(w) ELSE Len(w) + 1
    BY <1>1, <1>2, <1>3, <2>1, <2>6
  <2>9. PutAt(w, w2, m, p, Len(q) = QueueLen)
    <3> HIDE DEF p
    <3> QED BY <1>4, <1>5, <1>6, <2>7, <2>8 DEF PutAt
  <2>10. Len(q2) <= QueueLen /\ q2 # <<>>
    BY <1>1, <2>1, <2>4
  <2> HIDE DEF p
  <2> QED BY <1>4, <2>4, <2>5, <2>9, <2>10 DEF q2, w2, w
<1>8. CASE ~(x <= QueueLen)
  <2>1. q2 = q
    BY <1>8 DEF Enqueue, q2, x
  <2>2. Len(q) = QueueLen /\ x = Len(q) + 1 /\ p = Len(w) + 1
    BY <1>1, <1>2, <1>3, <1>8
  <2>3. w2 = w
    BY <2>1 DEF w, w2
  <2>4. PutAt(w, w2, m, p, Len(q) = QueueLen)
    <3> HIDE DEF p
    <3> QED BY <1>4, <1>5, <1>6, <2>2, <2>3 DEF PutAt
  <2>5. q2 \in Seq(AnyMessage) /\ Len(q2) <= QueueLen /\ q2 # <<>> /\ Head(q2) = Head(q)
    BY <1>1, <2>1, <2>2
  <2> HIDE DEF p
  <2> QED BY <1>4, <2>4, <2>5 DEF q2, w2, w
<1>9. x \in Int /\ QueueLen \in Int
  BY <1>1, <1>2
<1> QED BY <1>7, <1>8

LEMMA PutOnce ==
  ASSUME NEW h \in Seq(Message), NEW m \in Message, Once(h), \A i \in 1..Len(h) : h[i] # m
  PROVE  /\ Append(h, m) \in Seq(Message) /\ Len(Append(h, m)) = Len(h) + 1 /\ Once(Append(h, m))
         /\ \A i \in 1..Len(h) : Append(h, m)[i] = h[i]
         /\ Append(h, m)[Len(h) + 1] = m
<1>1. /\ Append(h, m) \in Seq(Message) /\ Len(Append(h, m)) = Len(h) + 1
      /\ \A i \in 1..Len(h) : Append(h, m)[i] = h[i]
      /\ Append(h, m)[Len(h) + 1] = m
      /\ Len(h) \in Nat
  BY AppendProperties
<1> DEFINE h2 == Append(h, m)
<1> HIDE DEF h2
<1>2. \A i, j \in 1..Len(h) : h[i] = h[j] => i = j
  BY Types DEF Once
<1>3. ASSUME NEW i \in 1..(Len(h) + 1), NEW j \in 1..(Len(h) + 1), h2[i] = h2[j] PROVE i = j
  <2>1. i # Len(h) + 1 => i \in 1..Len(h) /\ h2[i] = h[i]
    BY <1>1 DEF h2
  <2>2. j # Len(h) + 1 => j \in 1..Len(h) /\ h2[j] = h[j]
    BY <1>1 DEF h2
  <2>3. h2[Len(h) + 1] = m
    BY <1>1 DEF h2
  <2> QED BY <1>2, <1>3, <2>1, <2>2, <2>3
<1>4. Once(h2)
  BY <1>1, <1>3 DEF Once, h2
<1> QED BY <1>1, <1>4 DEF h2

\* f2 is f, or what is left of it, with m at place p.
Shift(f, f2, m, p) ==
  /\ p \in 1..Len(f2)
  /\ \A k \in 1..Len(f2) :
       /\ k < p => k \in 1..Len(f) /\ f2[k] = f[k]
       /\ k = p => f2[k] = m
       /\ k > p => k - 1 \in 1..Len(f) /\ f2[k] = f[k - 1]

\* The places of the messages behind the new one go up by one.
LEMMA PutIndex ==
  ASSUME NEW s \in Seq(AnyMessage), NEW w \in Seq(AnyMessage), NEW w2 \in Seq(AnyMessage),
         NEW m \in Message, NEW p \in Nat, NEW full \in BOOLEAN,
         PutAt(w, w2, m, p, full), w2 # w
  PROVE  /\ Shift(w, w2, m, p) /\ Len(s) + p \in Nat
         /\ Shift(s \o w, s \o w2, m, Len(s) + p)
<1> DEFINE n == Len(s)  f == s \o w  f2 == s \o w2
<1>1. n \in Nat /\ Len(w) \in Nat /\ Len(w2) \in Nat
  OBVIOUS
<1>2. /\ Len(f) = n + Len(w)
      /\ \A i \in 1..(n + Len(w)) : f[i] = IF i <= n THEN s[i] ELSE w[i - n]
  BY ConcatProperties
<1>3. /\ Len(f2) = n + Len(w2)
      /\ \A i \in 1..(n + Len(w2)) : f2[i] = IF i <= n THEN s[i] ELSE w2[i - n]
  BY ConcatProperties
<1>4. /\ p \in 1..(Len(w) + 1) /\ Len(w2) <= Len(w) + 1 /\ p <= Len(w2)
      /\ \A i \in 1..Len(w2) : w2[i] = IF i < p THEN w[i] ELSE IF i = p THEN m ELSE w[i - 1]
  BY <1>1 DEF PutAt
<1> HIDE DEF n, f, f2
<1>5. ASSUME NEW k \in 1..Len(w2)
      PROVE  /\ k < p => k \in 1..Len(w) /\ w2[k] = w[k]
             /\ k = p => w2[k] = m
             /\ k > p => k - 1 \in 1..Len(w) /\ w2[k] = w[k - 1]
  BY <1>1, <1>4
<1>6. ASSUME NEW k \in 1..(n + Len(w2))
      PROVE  /\ k < n + p => k \in 1..(n + Len(w)) /\ f2[k] = f[k]
             /\ k = n + p => f2[k] = m
             /\ k > n + p => k - 1 \in 1..(n + Len(w)) /\ f2[k] = f[k - 1]
  <2>1. CASE k <= n
    <3>1. k \in 1..(n + Len(w)) /\ f2[k] = s[k] /\ f[k] = s[k] /\ k < n + p
      BY <1>1, <1>2, <1>3, <1>4, <2>1
    <3> QED BY <1>1, <1>4, <3>1
  <2>2. CASE k > n
    <3> DEFINE c == k - n
    <3>1. c \in 1..Len(w2) /\ c \in Int /\ k = n + c /\ f2[k] = w2[c]
      BY <1>1, <1>3, <2>2
    <3> HIDE DEF c
    <3>2. CASE c < p
      <4>1. c \in 1..Len(w) /\ w2[c] = w[c]
        BY <1>5, <3>1, <3>2
      <4>2. k \in 1..(n + Len(w)) /\ f[k] = w[c]
        BY <1>1, <1>2, <3>1, <4>1
      <4> QED BY <1>1, <3>1, <3>2, <4>1, <4>2
    <3>3. CASE c = p
      BY <1>1, <1>5, <3>1, <3>3
    <3>4. CASE c > p
      <4>1. c - 1 \in 1..Len(w) /\ w2[c] = w[c - 1]
        BY <1>5, <3>1, <3>4
      <4>2. k - 1 \in 1..(n + Len(w)) /\ k - 1 > n /\ k - 1 - n = c - 1
        <5>1. n \in Nat /\ Len(w) \in Nat /\ c \in Int /\ k = n + c /\ 1 <= c - 1 /\ c - 1 <= Len(w)
          BY <1>1, <3>1, <4>1
        <5> QED BY <5>1
      <4>3. f[k - 1] = w[c - 1]
        BY <1>1, <1>2, <4>2
      <4> QED BY <1>1, <3>1, <3>4, <4>1, <4>2, <4>3
    <3> QED BY <3>1, <3>2, <3>3, <3>4
  <2> QED BY <1>1, <2>1, <2>2
<1>7. Shift(w, w2, m, p)
  BY <1>1, <1>4, <1>5 DEF Shift
<1>8. n + p \in 1..Len(f2) /\ Len(f2) = n + Len(w2) /\ Len(f) = n + Len(w)
  BY <1>1, <1>2, <1>3, <1>4
<1>9. Shift(f, f2, m, n + p)
  BY <1>6, <1>8 DEF Shift
<1> QED BY <1>1, <1>7, <1>9 DEF n, f, f2

LEMMA ShiftOnce ==
  ASSUME NEW f \in Seq(AnyMessage), NEW f2 \in Seq(AnyMessage), NEW m \in Message, NEW p \in Nat,
         Shift(f, f2, m, p), Once(f), \A i \in 1..Len(f) : f[i] # m
  PROVE  Once(f2)
<1> SUFFICES ASSUME NEW i \in 1..Len(f2), NEW j \in 1..Len(f2), f2[i] = f2[j], f2[i] # Filler
             PROVE  i = j
  BY DEF Once
<1>0. \A k \in 1..Len(f2) : k = p <=> f2[k] = m
  <2> SUFFICES ASSUME NEW k \in 1..Len(f2) PROVE k = p <=> f2[k] = m
    OBVIOUS
  <2>1. k \in Int /\ p \in Int
    OBVIOUS
  <2>2. CASE k < p
    <3>1. k \in 1..Len(f) /\ f2[k] = f[k]
      BY <2>2 DEF Shift
    <3> QED BY <2>1, <2>2, <3>1
  <2>3. CASE k = p
    BY <2>3 DEF Shift
  <2>4. CASE k > p
    <3>1. k - 1 \in 1..Len(f) /\ f2[k] = f[k - 1]
      BY <2>4 DEF Shift
    <3> QED BY <2>1, <2>4, <3>1
  <2> QED BY <2>1, <2>2, <2>3, <2>4
<1>1. i = p <=> f2[i] = m
  BY <1>0
<1>2. j = p <=> f2[j] = m
  BY <1>0
<1>3. ASSUME i # p, j # p PROVE i = j
  <2> DEFINE i1 == IF i < p THEN i ELSE i - 1
             j1 == IF j < p THEN j ELSE j - 1
  <2>1. i1 \in 1..Len(f) /\ f2[i] = f[i1]
    BY <1>3 DEF Shift
  <2>2. j1 \in 1..Len(f) /\ f2[j] = f[j1]
    BY <1>3 DEF Shift
  <2>3. i1 = j1
    <3> HIDE DEF i1, j1
    <3> QED BY <2>1, <2>2 DEF Once
  <2> QED BY <1>3, <2>3
<1> QED BY <1>1, <1>2, <1>3

LEMMA ShiftHandedIn ==
  ASSUME NEW f \in Seq(AnyMessage), NEW f2 \in Seq(AnyMessage), NEW m \in Message, NEW p \in Nat,
         NEW h \in Seq(Message), Shift(f, f2, m, p), HandedIn(f, h)
  PROVE  HandedIn(f2, Append(h, m))
<1> SUFFICES ASSUME NEW i \in 1..Len(f2), f2[i] # Filler
             PROVE  \E j \in 1..Len(Append(h, m)) : f2[i] = Append(h, m)[j]
  BY DEF HandedIn
<1>1. /\ Len(Append(h, m)) = Len(h) + 1 /\ Len(h) \in Nat
      /\ \A k \in 1..Len(h) : Append(h, m)[k] = h[k]
      /\ Append(h, m)[Len(h) + 1] = m
  BY AppendProperties
<1>2. CASE i = p
  BY <1>1, <1>2 DEF Shift
<1>3. CASE i # p
  <2>1. PICK c \in 1..Len(f) : f2[i] = f[c]
    BY <1>3 DEF Shift
  <2>2. PICK j \in 1..Len(h) : f[c] = h[j]
    BY <2>1 DEF HandedIn
  <2>3. j \in 1..Len(Append(h, m)) /\ f2[i] = Append(h, m)[j]
    BY <1>1, <2>1, <2>2
  <2> QED BY <2>3
<1> QED BY <1>2, <1>3

LEMMA ShiftFiller ==
  ASSUME NEW f \in Seq(AnyMessage), NEW f2 \in Seq(AnyMessage), NEW m \in Message, NEW p \in Nat,
         Shift(f, f2, m, p)
  PROVE  /\ FillerOnce(f) => FillerOnce(f2)
         /\ (\A i \in 1..Len(f) : f[i] # Filler) => \A i \in 1..Len(f2) : f2[i] # Filler
<1>0. m # Filler
  BY Types
<1>1. ASSUME NEW i \in 1..Len(f2), f2[i] = Filler
      PROVE  /\ i # p /\ f2[i] = f[IF i < p THEN i ELSE i - 1]
             /\ (IF i < p THEN i ELSE i - 1) \in 1..Len(f)
  BY <1>0, <1>1 DEF Shift
<1>2. ASSUME FillerOnce(f), NEW i \in 1..Len(f2), NEW j \in 1..Len(f2), f2[i] = Filler, f2[j] = Filler
      PROVE  i = j
  <2> DEFINE i1 == IF i < p THEN i ELSE i - 1
             j1 == IF j < p THEN j ELSE j - 1
  <2>1. i1 \in 1..Len(f) /\ f[i1] = Filler /\ j1 \in 1..Len(f) /\ f[j1] = Filler /\ i # p /\ j # p
    BY <1>1, <1>2
  <2>2. i1 = j1
    <3> HIDE DEF i1, j1
    <3> QED BY <1>2, <2>1 DEF FillerOnce
  <2> QED BY <2>1, <2>2
<1>3. ASSUME \A i \in 1..Len(f) : f[i] # Filler, NEW i \in 1..Len(f2) PROVE f2[i] # Filler
  BY <1>1, <1>3
<1> QED BY <1>2, <1>3 DEF FillerOnce

\* Of one priority, the new message is behind all that were handed in before.
LEMMA ShiftFifo ==
  ASSUME NEW f \in Seq(AnyMessage), NEW f2 \in Seq(AnyMessage), NEW m \in Message, NEW p \in Nat,
         NEW h \in Seq(Message), Shift(f, f2, m, p), Fifo(f, h),
         \A i \in 1..Len(h) : h[i] # m, \A i \in 1..Len(f) : f[i] # m,
         \A k \in 1..Len(f2) : k > p => Priority[f2[k]] # Priority[m]
  PROVE  Fifo(f2, Append(h, m))
<1> DEFINE h2 == Append(h, m)
<1>1. /\ Len(h2) = Len(h) + 1 /\ Len(h) \in Nat
      /\ \A k \in 1..Len(h) : h2[k] = h[k]
      /\ h2[Len(h) + 1] = m
  BY AppendProperties
<1> HIDE DEF h2
<1> SUFFICES ASSUME NEW i \in 1..Len(h2), NEW j \in 1..Len(h2), NEW k \in 1..Len(f2),
                    NEW l \in 1..Len(f2), i < j, f2[k] = h2[i], f2[l] = h2[j],
                    Priority[h2[i]] = Priority[h2[j]]
             PROVE  k < l
  BY DEF Fifo, h2
<1>2. i \in 1..Len(h) /\ f2[k] = h[i] /\ k # p /\ h2[i] = h[i]
  <2>1. i \in 1..Len(h) /\ h2[i] = h[i]
    BY <1>1
  <2>2. h[i] # m /\ f2[k] = h[i]
    BY <2>1
  <2>3. k = p => f2[k] = m
    BY DEF Shift
  <2> QED BY <2>1, <2>2, <2>3
<1> DEFINE k1 == IF k < p THEN k ELSE k - 1
<1>3. k1 \in 1..Len(f) /\ f[k1] = h[i]
  BY <1>2 DEF Shift
<1>4. CASE j = Len(h) + 1
  <2>1. f2[l] = m /\ l = p
    BY <1>1, <1>4 DEF Shift
  <2>2. Priority[f2[k]] = Priority[m]
    BY <1>1, <1>2, <1>4
  <2> QED BY <1>1, <1>2, <2>1, <2>2
<1>5. CASE j # Len(h) + 1
  <2> DEFINE l1 == IF l < p THEN l ELSE l - 1
  <2>1. j \in 1..Len(h) /\ f2[l] = h[j] /\ l # p /\ h2[j] = h[j]
    <3>1. j \in 1..Len(h) /\ h2[j] = h[j]
      BY <1>1, <1>5
    <3>2. h[j] # m /\ f2[l] = h[j]
      BY <3>1
    <3>3. l = p => f2[l] = m
      BY DEF Shift
    <3> QED BY <3>1, <3>2, <3>3
  <2>2. l1 \in 1..Len(f) /\ f[l1] = h[j]
    BY <2>1 DEF Shift
  <2>3. k1 < l1
    <3> HIDE DEF k1, l1
    <3> QED BY <1>2, <1>3, <2>1, <2>2 DEF Fifo
  <2> QED BY <1>2, <2>1, <2>3
<1> QED BY <1>4, <1>5

LEMMA ShiftInOrder ==
  ASSUME NEW w \in Seq(AnyMessage), NEW w2 \in Seq(AnyMessage), NEW m \in Message, NEW p \in Nat,
         Shift(w, w2, m, p), InOrder(w),
         \A i \in 1..Len(w) : i < p => Priority[w[i]] <= Priority[m],
         p <= Len(w) => Priority[m] < Priority[w[p]]
  PROVE  /\ InOrder(w2)
         /\ \A k \in 1..Len(w2) : k > p => Priority[m] < Priority[w2[k]]
<1>0. /\ \A i \in 1..Len(w) : w[i] \in AnyMessage /\ Priority[w[i]] \in Nat
      /\ Priority[m] \in Nat /\ Len(w) \in Nat /\ Len(w2) \in Nat
  BY Types
<1>1. ASSUME NEW i \in 1..Len(w), i >= p PROVE Priority[m] < Priority[w[i]]
  <2>1. p \in 1..Len(w) /\ p <= Len(w)
    BY <1>0, <1>1 DEF Shift
  <2>2. CASE i = p
    BY <2>1, <2>2
  <2>3. CASE p < i
    <3>1. Priority[w[p]] <= Priority[w[i]]
      BY <2>1, <2>3 DEF InOrder
    <3> QED BY <1>0, <2>1, <3>1
  <2> QED BY <1>0, <1>1, <2>1, <2>2, <2>3
<1>2. ASSUME NEW k \in 1..Len(w2), k > p PROVE Priority[m] < Priority[w2[k]]
  <2>1. k - 1 \in 1..Len(w) /\ w2[k] = w[k - 1] /\ k - 1 >= p
    BY <1>2 DEF Shift
  <2>2. Priority[m] < Priority[w[k - 1]] /\ Priority[w[k - 1]] \in Nat
    BY <1>0, <1>1, <2>1
  <2> QED BY <1>0, <2>1, <2>2
<1>3. ASSUME NEW k \in 1..Len(w2), k < p
      PROVE Priority[w2[k]] <= Priority[m] /\ k \in 1..Len(w) /\ w2[k] = w[k]
  BY <1>3 DEF Shift
<1>4. ASSUME NEW i \in 1..Len(w2), NEW j \in 1..Len(w2), i < j
      PROVE  Priority[w2[i]] <= Priority[w2[j]]
  <2>1. w2[i] \in AnyMessage /\ w2[j] \in AnyMessage
    OBVIOUS
  <2>2. Priority[w2[i]] \in Nat /\ Priority[w2[j]] \in Nat
    BY <2>1, Types
  <2>3. CASE j < p
    <3>1. Priority[w[i]] <= Priority[w[j]]
      BY <1>3, <1>4, <2>3 DEF InOrder
    <3> QED BY <1>3, <1>4, <2>3, <3>1
  <2>4. CASE i > p
    <3>1. i - 1 \in 1..Len(w) /\ w2[i] = w[i - 1] /\ j - 1 \in 1..Len(w) /\ w2[j] = w[j - 1]
      BY <1>4, <2>4 DEF Shift
    <3>2. Priority[w[i - 1]] <= Priority[w[j - 1]]
      BY <1>4, <3>1 DEF InOrder
    <3> QED BY <3>1, <3>2
  <2>5. CASE i <= p /\ j >= p
    <3>1. Priority[w2[i]] <= Priority[m]
      <4>1. i = p => w2[i] = m
        BY DEF Shift
      <4> QED BY <1>0, <1>3, <2>5, <4>1
    <3>2. Priority[m] <= Priority[w2[j]]
      <4>1. j = p => w2[j] = m
        BY DEF Shift
      <4> QED BY <1>0, <1>2, <2>2, <2>5, <4>1
    <3> QED BY <1>0, <2>2, <3>1, <3>2
  <2> QED BY <2>3, <2>4, <2>5
<1> QED BY <1>2, <1>4 DEF InOrder

\* What send_message does to the messages that went out or wait keeps every part of FlowInv.
LEMMA PutKeeps ==
  ASSUME NEW s \in Seq(AnyMessage), NEW w \in Seq(AnyMessage), NEW w2 \in Seq(AnyMessage),
         NEW h \in Seq(Message), NEW m \in Message, NEW p \in Nat, NEW full \in BOOLEAN,
         PutAt(w, w2, m, p, full), \A i \in 1..Len(h) : h[i] # m,
         Once(h), Once(s \o w), HandedIn(s \o w, h), Fifo(s \o w, h), InOrder(w), FillerOnce(w)
  PROVE  LET h2 == Append(h, m)
         IN  /\ Once(h2) /\ Once(s \o w2) /\ HandedIn(s \o w2, h2) /\ Fifo(s \o w2, h2)
             /\ InOrder(w2) /\ FillerOnce(w2)
             /\ (\A i \in 1..Len(w) : w[i] # Filler) => \A i \in 1..Len(w2) : w2[i] # Filler
<1> DEFINE h2 == Append(h, m)  f == s \o w  f2 == s \o w2
<1>1. /\ Once(h2) /\ h2 \in Seq(Message) /\ Len(h2) = Len(h) + 1 /\ Len(h) \in Nat
      /\ \A i \in 1..Len(h) : h2[i] = h[i]
      /\ h2[Len(h) + 1] = m
  BY PutOnce
<1>2. f \in Seq(AnyMessage) /\ f2 \in Seq(AnyMessage) /\ m # Filler
  BY Types
<1>3. Once(f) /\ HandedIn(f, h) /\ Fifo(f, h)
  OBVIOUS
<1>4. \A i \in 1..Len(f) : f[i] # m
  BY <1>2, <1>3 DEF HandedIn
<1>5. CASE w2 # w
  <2>1. Shift(w, w2, m, p) /\ Len(s) + p \in Nat /\ Shift(f, f2, m, Len(s) + p)
    BY <1>5, PutIndex
  <2>2. InOrder(w2) /\ \A k \in 1..Len(w2) : k > p => Priority[m] < Priority[w2[k]]
    BY <2>1, ShiftInOrder DEF PutAt
  <2>3. \A k \in 1..Len(f2) : k > Len(s) + p => Priority[f2[k]] # Priority[m]
    <3> SUFFICES ASSUME NEW k \in 1..Len(f2), k > Len(s) + p PROVE Priority[f2[k]] # Priority[m]
      OBVIOUS
    <3>1. Len(f2) = Len(s) + Len(w2) /\ Len(s) \in Nat /\ Len(w2) \in Nat
      BY ConcatProperties
    <3>2. k - Len(s) \in 1..Len(w2) /\ k - Len(s) > p /\ f2[k] = w2[k - Len(s)]
      BY <3>1, ConcatProperties
    <3>3. Priority[m] < Priority[f2[k]]
      BY <2>2, <3>2
    <3>4. f2[k] \in AnyMessage
      BY <1>2
    <3>5. Priority[f2[k]] \in Nat /\ Priority[m] \in Nat
      BY <3>4, Types
    <3> QED BY <3>3, <3>5
  <2> HIDE DEF f, f2
  <2>4. Once(f2)
    BY <1>2, <1>3, <1>4, <2>1, ShiftOnce
  <2>5. HandedIn(f2, h2)
    BY <1>2, <1>3, <2>1, ShiftHandedIn
  <2>6. Fifo(f2, h2)
    BY <1>2, <1>3, <1>4, <2>1, <2>3, ShiftFifo
  <2>7. /\ FillerOnce(w2)
        /\ (\A i \in 1..Len(w) : w[i] # Filler) => \A i \in 1..Len(w2) : w2[i] # Filler
    BY <2>1, ShiftFiller
  <2> QED BY <1>1, <2>2, <2>4, <2>5, <2>6, <2>7 DEF f, f2
<1>6. CASE w2 = w
  <2> HIDE DEF f, h2
  <2>1. HandedIn(f, h2)
    <3> SUFFICES ASSUME NEW i \in 1..Len(f), f[i] # Filler PROVE \E j \in 1..Len(h2) : f[i] = h2[j]
      BY DEF HandedIn
    <3>1. PICK j \in 1..Len(h) : f[i] = h[j]
      BY <1>3 DEF HandedIn
    <3>2. j \in 1..Len(h2) /\ f[i] = h2[j]
      BY <1>1, <3>1
    <3> QED BY <3>2
  <2>2. Fifo(f, h2)
    <3> SUFFICES ASSUME NEW i \in 1..Len(h2), NEW j \in 1..Len(h2), NEW k \in 1..Len(f),
                        NEW l \in 1..Len(f), i < j, f[k] = h2[i], f[l] = h2[j],
                        Priority[h2[i]] = Priority[h2[j]]
                 PROVE  k < l
      BY DEF Fifo
    <3>1. i # Len(h) + 1 /\ j # Len(h) + 1
      BY <1>1, <1>4
    <3>2. i \in 1..Len(h) /\ j \in 1..Len(h) /\ h2[i] = h[i] /\ h2[j] = h[j]
      BY <1>1, <3>1
    <3> QED BY <1>3, <3>2 DEF Fifo
  <2> QED BY <1>1, <1>3, <1>6, <2>1, <2>2 DEF f, h2
<1> QED BY <1>5, <1>6

-----------------------------------------------------------------------------
(* The cells of a message                                                  *)

LEMMA CellsAre ==
  ASSUME NEW m \in AnyMessage \cup {Junk}, NEW a \in Nat, NEW n \in Nat
  PROVE  LET c == Cells(m, a + 1, a + n)
         IN  /\ c \in Seq(Cell) /\ Len(c) = n
             /\ \A i \in 1..n : c[i] = [msg |-> m, at |-> a + i]
<1> DEFINE c == Cells(m, a + 1, a + n)
<1>1. a + n - (a + 1) + 1 = n
  OBVIOUS
<1>2. c = [i \in 1..n |-> [msg |-> m, at |-> a + 1 + i - 1]]
  BY <1>1 DEF Cells
<1>3. \A i \in 1..n : c[i] = [msg |-> m, at |-> a + i]
  BY <1>2
<1>4. \A i \in 1..n : c[i] \in Cell
  <2> SUFFICES ASSUME NEW i \in 1..n PROVE c[i] \in Cell
    OBVIOUS
  <2>1. [msg |-> m, at |-> a + i] \in Cell
    BY DEF Cell
  <2> QED BY <1>3, <2>1
<1>5. c \in [1..n -> Cell]
  <2>1. c = [i \in 1..n |-> c[i]]
    BY <1>2
  <2> HIDE DEF c
  <2> QED BY <1>4, <2>1
<1> HIDE DEF c
<1>6. c \in Seq(Cell) /\ Len(c) = n
  BY <1>5
<1> QED BY <1>3, <1>6 DEF c

LEMMA HeaderIs ==
  ASSUME NEW m \in AnyMessage \cup {Junk}
  PROVE  /\ Header(m) \in Seq(Cell) /\ Len(Header(m)) = HeaderUnits
         /\ \A i \in 1..HeaderUnits : Header(m)[i] = [msg |-> m, at |-> i]
         /\ \A a \in Nat : a = 0 => Header(m) = Cells(m, a + 1, a + HeaderUnits)
<1> SUFFICES ASSUME NEW a \in Nat, a = 0
             PROVE  /\ Header(m) \in Seq(Cell) /\ Len(Header(m)) = HeaderUnits
                    /\ \A i \in 1..HeaderUnits : Header(m)[i] = [msg |-> m, at |-> i]
                    /\ Header(m) = Cells(m, a + 1, a + HeaderUnits)
  OBVIOUS
<1>1. HeaderUnits \in Nat /\ a + HeaderUnits = HeaderUnits /\ a + 1 = 1
  BY Types
<1>2. Header(m) = Cells(m, a + 1, a + HeaderUnits)
  BY <1>1 DEF Header
<1>3. /\ Header(m) \in Seq(Cell) /\ Len(Header(m)) = HeaderUnits
      /\ \A i \in 1..HeaderUnits : Header(m)[i] = [msg |-> m, at |-> a + i]
  <2> DEFINE n == HeaderUnits
  <2>1. n \in Nat
    BY <1>1
  <2> HIDE DEF n
  <2>2. LET c == Cells(m, a + 1, a + n)
        IN  c \in Seq(Cell) /\ Len(c) = n /\ \A i \in 1..n : c[i] = [msg |-> m, at |-> a + i]
    BY <2>1, CellsAre
  <2> QED BY <1>2, <2>2 DEF n
<1>4. \A i \in 1..HeaderUnits : Header(m)[i] = [msg |-> m, at |-> i]
  <2> SUFFICES ASSUME NEW i \in 1..HeaderUnits PROVE Header(m)[i] = [msg |-> m, at |-> i]
    OBVIOUS
  <2>1. a + i = i
    BY <1>1
  <2> QED BY <1>3, <2>1
<1> QED BY <1>2, <1>3, <1>4

LEMMA Regroup ==
  ASSUME sendbuf \in Seq(Cell), NEW c \in Seq(Cell), NEW d \in Seq(Cell)
  PROVE  (sendbuf \o c) \o d = sendbuf \o (c \o d)
OBVIOUS

LEMMA CellsJoin ==
  ASSUME NEW m \in AnyMessage, NEW a \in Nat, NEW k \in Nat, NEW n \in Nat
  PROVE  Cells(m, a + 1, a + k) \o Cells(m, a + k + 1, a + k + n) = Cells(m, a + 1, a + (k + n))
<1> DEFINE c == Cells(m, a + 1, a + k)  d == Cells(m, a + k + 1, a + k + n)
           e == Cells(m, a + 1, a + (k + n))
<1>1. c \in Seq(Cell) /\ Len(c) = k /\ \A i \in 1..k : c[i] = [msg |-> m, at |-> a + i]
  BY CellsAre
<1>2. d \in Seq(Cell) /\ Len(d) = n /\ \A i \in 1..n : d[i] = [msg |-> m, at |-> a + k + i]
  <2>1. a + k \in Nat
    OBVIOUS
  <2> QED BY <2>1, CellsAre
<1>3. e \in Seq(Cell) /\ Len(e) = k + n /\ \A i \in 1..(k + n) : e[i] = [msg |-> m, at |-> a + i]
  <2>1. k + n \in Nat
    OBVIOUS
  <2> QED BY <2>1, CellsAre
<1> HIDE DEF c, d, e
<1>4. c \o d \in Seq(Cell) /\ Len(c \o d) = k + n
      /\ \A i \in 1..(k + n) : (c \o d)[i] = IF i <= k THEN c[i] ELSE d[i - k]
  <2>1. /\ c \o d \in Seq(Cell) /\ Len(c \o d) = Len(c) + Len(d)
        /\ \A i \in 1..(Len(c) + Len(d)) : (c \o d)[i] = IF i <= Len(c) THEN c[i] ELSE d[i - Len(c)]
    BY <1>1, <1>2, ConcatProperties
  <2> QED BY <1>1, <1>2, <2>1
<1>5. \A i \in 1..Len(c \o d) : (c \o d)[i] = e[i]
  <2> SUFFICES ASSUME NEW i \in 1..(k + n) PROVE (c \o d)[i] = e[i]
    BY <1>4
  <2>1. CASE i <= k
    BY <1>1, <1>3, <1>4, <2>1
  <2>2. CASE i > k
    <3>1. i - k \in 1..n /\ a + k + (i - k) = a + i /\ ~(i <= k)
      BY <2>2
    <3>2. d[i - k] = [msg |-> m, at |-> a + i]
      BY <1>2, <3>1
    <3> QED BY <1>3, <1>4, <3>1, <3>2
  <2>3. i \in Int /\ k \in Int
    OBVIOUS
  <2>4. i <= k \/ i > k
    BY <2>3
  <2> QED BY <2>1, <2>2, <2>4
<1>6. c \o d = e
  BY <1>3, <1>4, <1>5, SeqEqual
<1> QED BY <1>6 DEF c, d, e

\* saturate() changes an empty queue only.
LEMMA SaturateIs ==
  ASSUME NEW q \in Seq(AnyMessage), NEW n \in Nat
  PROVE  Saturate(q, n) = q \/ (q = <<>> /\ Saturate(q, n) = <<Filler>>)
<1> SUFFICES ASSUME Saturate(q, n) # q PROVE q = <<>> /\ Saturate(q, n) = <<Filler>>
  OBVIOUS
<1>1. q = <<>> /\ Saturate(q, n) = Enqueue(q, -1, Filler)
  BY DEF Saturate
<1>2. Len(q) = 0 /\ FirstFree(-1) = 1
  BY <1>1 DEF FirstFree
<1>3. Place(q, -1, Filler) = 1
  <2>1. Place(q, -1, Filler) \in FirstFree(-1)..(Len(q) + 1)
    <3>1. ~(-1 >= 0) /\ Filler \in AnyMessage
      BY Types
    <3> QED BY <3>1, PlaceIs
  <2> QED BY <1>2, <2>1
<1>4. 1 <= QueueLen /\ MinOf(0 + 1, QueueLen) = 1
  BY Types DEF MinOf
<1>5. Saturate(q, n) = Insert(q, 1, Filler)
  BY <1>1, <1>3, <1>4 DEF Enqueue
<1>6. Insert(q, 1, Filler) = [i \in 1..1 |-> IF i < 1 THEN q[i] ELSE IF i = 1 THEN Filler ELSE q[i - 1]]
  BY <1>2, <1>4 DEF Insert
<1>7. Insert(q, 1, Filler) = <<Filler>>
  <2> DEFINE t == Insert(q, 1, Filler)
  <2>1. t \in [1..1 -> AnyMessage] /\ t[1] = Filler
    BY <1>6, Types
  <2> HIDE DEF t
  <2>2. t \in Seq(AnyMessage) /\ Len(t) = 1
    BY <2>1, SeqOf
  <2>3. <<Filler>> \in Seq(AnyMessage) /\ Len(<<Filler>>) = 1 /\ <<Filler>>[1] = Filler
    BY Types
  <2>4. t = <<Filler>>
    BY <2>1, <2>2, <2>3, SeqEqual
  <2> QED BY <2>4 DEF t
<1> QED BY <1>1, <1>5, <1>7

\* One turn writes the cells behind those written before, a the last of them: of the
\* header at least, and of the body no more than there is.
LEMMA TurnIs ==
  ASSUME TypeOK, InFlight, RunSendTurn
  PROVE  \E a, k \in Nat :
           LET m == Head(m_msg)
           IN  /\ m \in AnyMessage
               /\ a = IF m_msg_bsent < 0 THEN 0 ELSE HeaderUnits + m_msg_bsent
               /\ HeaderUnits <= a + k /\ a + k <= HeaderUnits + Units[m]
               /\ sendbuf' = sendbuf \o Cells(m, a + 1, a + k)
               /\ written' = IF m_msg_bsent < 0 THEN Append(written, m) ELSE written
               /\ m_msg_bsent' = IF a + k = HeaderUnits + Units[m] THEN -1 ELSE a + k - HeaderUnits
               /\ a + k # HeaderUnits + Units[m] => m_msg' = m_msg
               /\ a + k = HeaderUnits + Units[m] =>
                    m_msg' = Tail(m_msg) \/ (Tail(m_msg) = <<>> /\ m_msg' = <<Filler>>)
<1> DEFINE m    == Head(m_msg)
           buf  == IF m_msg_bsent < 0 THEN sendbuf \o Header(m) ELSE sendbuf
           from == IF m_msg_bsent < 0 THEN 0 ELSE m_msg_bsent
           room == Available(buf)
           n    == MinOf(Units[m] - from, room)
           upto == from + n
           buf2 == buf \o Cells(m, HeaderUnits + from + 1, HeaderUnits + upto)
           done == upto >= Units[m]
<1>1. /\ m_msg # <<>>
      /\ written' = IF m_msg_bsent < 0 THEN Append(written, m) ELSE written
      /\ sendbuf' = buf2
      /\ m_msg_bsent' = IF done THEN -1 ELSE upto
      /\ m_msg' = IF ~done THEN m_msg
                  ELSE IF Available(buf2) >= HeaderUnits + Units[Filler]
                  THEN Saturate(Tail(m_msg), Len(buf2)) ELSE Tail(m_msg)
  BY DEF RunSendTurn
<1>2. m \in AnyMessage /\ Tail(m_msg) \in Seq(AnyMessage) /\ Units[m] \in Nat /\ HeaderUnits \in Nat
      /\ m_msg_bsent \in Nat \cup {-1} /\ sendbuf \in Seq(Cell)
  BY <1>1, HeadTailProperties, Types DEF TypeOK
<1>3. buf \in Seq(Cell)
  BY <1>2, HeaderIs
<1>4. from \in Nat /\ from <= Units[m]
  BY <1>1, <1>2 DEF InFlight
<1>5. room \in Nat
  <2> HIDE DEF buf
  <2> QED BY <1>3, Types DEF Available
<1> HIDE DEF m, buf, from, room, done
<1>6. n \in Nat /\ upto \in Nat /\ from <= upto /\ upto <= Units[m]
  <2>1. n \in Nat /\ n <= Units[m] - from
    BY <1>2, <1>4, <1>5 DEF MinOf
  <2> HIDE DEF n
  <2> QED BY <1>2, <1>4, <2>1
<1> HIDE DEF n
<1> DEFINE a == IF m_msg_bsent < 0 THEN 0 ELSE HeaderUnits + m_msg_bsent
           k == HeaderUnits + upto - a
<1>7. a \in Nat /\ k \in Nat /\ a + k = HeaderUnits + upto
  <2>1. CASE m_msg_bsent < 0
    <3>1. a = 0 /\ from = 0
      BY <2>1 DEF from
    <3> HIDE DEF a
    <3> QED BY <1>2, <1>6, <3>1
  <2>2. CASE ~(m_msg_bsent < 0)
    <3>1. a = HeaderUnits + from /\ from \in Nat
      BY <1>4, <2>2 DEF from
    <3> HIDE DEF a
    <3> QED BY <1>2, <1>4, <1>6, <3>1
  <2> QED BY <2>1, <2>2
<1>8. buf2 = sendbuf \o Cells(m, a + 1, a + k)
  <2>1. CASE m_msg_bsent < 0
    <3>1. a = 0 /\ from = 0 /\ buf = sendbuf \o Header(m)
      BY <2>1 DEF from, buf
    <3> HIDE DEF a
    <3>2. /\ a + HeaderUnits = HeaderUnits + from /\ a + HeaderUnits + n = HeaderUnits + upto
          /\ a + (HeaderUnits + n) = a + k /\ k = HeaderUnits + n
      BY <1>2, <1>4, <1>6, <1>7, <3>1
    <3>3. Header(m) = Cells(m, a + 1, a + HeaderUnits)
      BY <1>2, <1>7, <3>1, HeaderIs
    <3>4. Cells(m, a + 1, a + HeaderUnits) \o Cells(m, a + HeaderUnits + 1, a + HeaderUnits + n)
            = Cells(m, a + 1, a + (HeaderUnits + n))
      <4> DEFINE u == HeaderUnits
      <4>1. u \in Nat
        BY <1>2
      <4> HIDE DEF u, upto, k
      <4>2. m \in AnyMessage /\ a \in Nat /\ n \in Nat
        BY <1>2, <1>6, <1>7
      <4>3. Cells(m, a + 1, a + u) \o Cells(m, a + u + 1, a + u + n) = Cells(m, a + 1, a + (u + n))
        BY <4>1, <4>2, CellsJoin, Zenon
      <4> QED BY <4>3 DEF u
    <3>5. /\ Cells(m, a + 1, a + HeaderUnits) \in Seq(Cell)
          /\ Cells(m, a + HeaderUnits + 1, a + HeaderUnits + n) \in Seq(Cell)
      <4>1. a + HeaderUnits \in Nat
        BY <1>2, <1>7
      <4> QED BY <1>2, <1>6, <1>7, <4>1, CellsAre
    <3> DEFINE c == Cells(m, a + 1, a + HeaderUnits)
               d == Cells(m, a + HeaderUnits + 1, a + HeaderUnits + n)
    <3>6. buf2 = (sendbuf \o c) \o d
      BY <3>1, <3>2, <3>3
    <3>7. c \o d = Cells(m, a + 1, a + k)
      BY <3>2, <3>4
    <3> HIDE DEF c, d
    <3>8. (sendbuf \o c) \o d = sendbuf \o (c \o d)
      <4>1. c \in Seq(Cell) /\ d \in Seq(Cell) /\ sendbuf \in Seq(Cell)
        BY <1>2, <3>5 DEF c, d
      <4> QED BY <4>1, Regroup
    <3> QED BY <3>6, <3>7, <3>8
  <2>2. CASE ~(m_msg_bsent < 0)
    <3>1. a = HeaderUnits + from /\ buf = sendbuf
      BY <2>2 DEF from, buf
    <3> QED BY <1>7, <3>1
  <2> QED BY <2>1, <2>2
<1>9. done <=> a + k = HeaderUnits + Units[m]
  BY <1>2, <1>6, <1>7 DEF done
<1>10. done => m_msg' = Tail(m_msg) \/ (Tail(m_msg) = <<>> /\ m_msg' = <<Filler>>)
  <2>1. Len(buf2) \in Nat
    <3>1. buf2 \in Seq(Cell)
      <4>1. Cells(m, a + 1, a + k) \in Seq(Cell)
        BY <1>2, <1>7, CellsAre
      <4> QED BY <1>2, <1>8, <4>1, ConcatProperties
    <3> HIDE DEF buf2
    <3> QED BY <3>1
  <2> HIDE DEF buf2
  <2>2. Saturate(Tail(m_msg), Len(buf2)) = Tail(m_msg)
        \/ (Tail(m_msg) = <<>> /\ Saturate(Tail(m_msg), Len(buf2)) = <<Filler>>)
    BY <1>2, <2>1, SaturateIs
  <2> QED BY <1>1, <2>2
<1>11. /\ HeaderUnits <= a + k /\ a + k <= HeaderUnits + Units[m]
       /\ m_msg_bsent' = IF a + k = HeaderUnits + Units[m] THEN -1 ELSE a + k - HeaderUnits
  <2>1. /\ HeaderUnits <= a + k /\ a + k <= HeaderUnits + Units[m] /\ a + k - HeaderUnits = upto
    <3> HIDE DEF a, k, upto
    <3> QED BY <1>2, <1>6, <1>7
  <2> HIDE DEF a, k, upto
  <2> QED BY <1>1, <1>9, <2>1
<1>12. a + k # HeaderUnits + Units[m] => m_msg' = m_msg
  BY <1>1, <1>9
<1>13. sendbuf' = sendbuf \o Cells(m, a + 1, a + k)
  BY <1>1, <1>8
<1>14. a = IF m_msg_bsent < 0 THEN 0 ELSE HeaderUnits + m_msg_bsent
  OBVIOUS
<1> HIDE DEF a, k
<1> QED BY <1>1, <1>2, <1>7, <1>9, <1>10, <1>11, <1>12, <1>13, <1>14 DEF m

-----------------------------------------------------------------------------
(* What the receiver takes from its buffer                                 *)

LEMMA CutIs ==
  ASSUME NEW S, NEW s \in Seq(S), NEW n \in Nat, n <= Len(s)
  PROVE  /\ SubSeq(s, n + 1, Len(s)) \in Seq(S) /\ Len(SubSeq(s, n + 1, Len(s))) = Len(s) - n
         /\ \A i \in 1..(Len(s) - n) : SubSeq(s, n + 1, Len(s))[i] = s[n + i]
         /\ SubSeq(s, 1, n) \in Seq(S) /\ Len(SubSeq(s, 1, n)) = n
         /\ \A i \in 1..n : SubSeq(s, 1, n)[i] = s[i]
<1>1. Len(s) \in Nat /\ \A i \in 1..Len(s) : s[i] \in S
  OBVIOUS
<1>2. /\ SubSeq(s, n + 1, Len(s)) \in Seq(S)
      /\ Len(SubSeq(s, n + 1, Len(s))) = IF n + 1 <= Len(s) THEN Len(s) - (n + 1) + 1 ELSE 0
      /\ \A i \in 1..(Len(s) - (n + 1) + 1) : SubSeq(s, n + 1, Len(s))[i] = s[n + 1 + i - 1]
  <2>1. n + 1 \in Int /\ Len(s) \in Int /\ \A i \in (n + 1)..Len(s) : s[i] \in S
    BY <1>1
  <2> QED BY <2>1, SubSeqProperties
<1>3. /\ SubSeq(s, 1, n) \in Seq(S)
      /\ Len(SubSeq(s, 1, n)) = IF 1 <= n THEN n - 1 + 1 ELSE 0
      /\ \A i \in 1..(n - 1 + 1) : SubSeq(s, 1, n)[i] = s[1 + i - 1]
  <2>1. 1 \in Int /\ n \in Int /\ \A i \in 1..n : s[i] \in S
    BY <1>1
  <2> QED BY <2>1, SubSeqProperties
<1>4. Len(SubSeq(s, n + 1, Len(s))) = Len(s) - n /\ Len(SubSeq(s, 1, n)) = n
  BY <1>1, <1>2, <1>3
<1>5. ASSUME NEW i \in 1..(Len(s) - n) PROVE SubSeq(s, n + 1, Len(s))[i] = s[n + i]
  <2>1. i \in 1..(Len(s) - (n + 1) + 1) /\ n + 1 + i - 1 = n + i
    BY <1>1
  <2> QED BY <1>2, <2>1
<1>6. ASSUME NEW i \in 1..n PROVE SubSeq(s, 1, n)[i] = s[i]
  <2>1. i \in 1..(n - 1 + 1) /\ 1 + i - 1 = i
    OBVIOUS
  <2> QED BY <1>3, <2>1
<1> QED BY <1>2, <1>3, <1>4, <1>5, <1>6

\* Of recvbuf the header, c units or none, and n units of the body behind pos are read.
Taken(new, pos, c, n) ==
  /\ c + n <= Len(recvbuf) /\ pos + n <= new.units
  /\ recvbuf' \in Seq(Cell) /\ Len(recvbuf') = Len(recvbuf) - (c + n)
  /\ \A i \in 1..Len(recvbuf') : recvbuf'[i] = recvbuf[c + n + i]
  /\ LET ok == /\ new.good
               /\ \A i \in 1..n : recvbuf[c + i] = [msg |-> new.msg, at |-> HeaderUnits + pos + i]
     IN  \/ /\ pos + n < new.units /\ m_newmsg_pos' = pos + n
            /\ m_newmsg' = [msg |-> new.msg, units |-> new.units, good |-> ok]
            /\ got' = got /\ closed' = closed
         \/ /\ pos + n = new.units /\ m_newmsg_pos' = -1 /\ m_newmsg' = NoMessage
            /\ \/ pos < new.units /\ ~ok /\ closed' = TRUE /\ got' = got
               \/ (pos = new.units \/ ok) /\ closed' = closed /\ got' = Append(got, new.msg)

LEMMA BodyIs ==
  ASSUME recvbuf \in Seq(Cell), closed \in BOOLEAN, NEW new \in Incoming, NEW pos \in Nat,
         NEW c \in Nat, pos <= new.units, c <= Len(recvbuf),
         ReceiveBody(new, pos, SubSeq(recvbuf, c + 1, Len(recvbuf)))
  PROVE  \E n \in Nat : Taken(new, pos, c, n)
<1> DEFINE buf  == SubSeq(recvbuf, c + 1, Len(recvbuf))
           n    == MinOf(new.units - pos, Len(buf))
           same == SubSeq(buf, 1, n) = Cells(new.msg, HeaderUnits + pos + 1, HeaderUnits + pos + n)
           ok   == new.good /\ same
           now  == [new EXCEPT !.good = ok]
           full == pos + n >= new.units
           bad  == pos < new.units /\ full /\ ~now.good
<1>1. /\ recvbuf' = SubSeq(buf, n + 1, Len(buf))
      /\ closed' = (closed \/ bad)
      /\ m_newmsg_pos' = IF full THEN -1 ELSE pos + n
      /\ m_newmsg' = IF full THEN NoMessage ELSE now
      /\ got' = IF full /\ ~bad THEN Append(got, new.msg) ELSE got
  BY DEF ReceiveBody
<1>2. /\ new = [msg |-> new.msg, units |-> new.units, good |-> new.good]
      /\ new.msg \in AnyMessage \cup {Junk} /\ new.units \in Nat /\ new.good \in BOOLEAN
  BY DEF Incoming
<1>3. /\ buf \in Seq(Cell) /\ Len(buf) = Len(recvbuf) - c
      /\ \A i \in 1..(Len(recvbuf) - c) : buf[i] = recvbuf[c + i]
      /\ Len(recvbuf) \in Nat /\ Len(buf) \in Nat
  <2>1. recvbuf \in Seq(Cell) /\ c \in Nat /\ c <= Len(recvbuf)
    OBVIOUS
  <2>2. /\ SubSeq(recvbuf, c + 1, Len(recvbuf)) \in Seq(Cell)
        /\ Len(SubSeq(recvbuf, c + 1, Len(recvbuf))) = Len(recvbuf) - c
        /\ \A i \in 1..(Len(recvbuf) - c) : SubSeq(recvbuf, c + 1, Len(recvbuf))[i] = recvbuf[c + i]
    BY <2>1, CutIs, Zenon
  <2> HIDE DEF n, same, ok, now, full, bad
  <2>3. /\ buf \in Seq(Cell) /\ Len(buf) = Len(recvbuf) - c
        /\ \A i \in 1..(Len(recvbuf) - c) : buf[i] = recvbuf[c + i]
    BY <2>2, Zenon DEF buf
  <2> HIDE DEF buf
  <2> QED BY <2>1, <2>3
<1> HIDE DEF buf
<1>4. n \in Nat /\ n <= Len(buf) /\ n <= new.units - pos
      /\ (n = Len(buf) \/ n = new.units - pos)
  BY <1>2, <1>3 DEF MinOf
<1>5. now = [msg |-> new.msg, units |-> new.units, good |-> ok] /\ now.good = ok
  <2> HIDE DEF ok
  <2> QED BY <1>2
<1> HIDE DEF n, now
<1>6. /\ SubSeq(buf, n + 1, Len(buf)) \in Seq(Cell) /\ Len(SubSeq(buf, n + 1, Len(buf))) = Len(buf) - n
      /\ \A i \in 1..(Len(buf) - n) : SubSeq(buf, n + 1, Len(buf))[i] = buf[n + i]
      /\ SubSeq(buf, 1, n) \in Seq(Cell) /\ Len(SubSeq(buf, 1, n)) = n
      /\ \A i \in 1..n : SubSeq(buf, 1, n)[i] = buf[i]
  BY <1>3, <1>4, CutIs
<1>7. c + n <= Len(recvbuf) /\ pos + n <= new.units /\ Len(recvbuf') = Len(recvbuf) - (c + n)
      /\ recvbuf' \in Seq(Cell)
  <2>1. recvbuf' \in Seq(Cell) /\ Len(recvbuf') = Len(buf) - n
    BY <1>1, <1>6
  <2>2. c + n <= Len(recvbuf) /\ Len(buf) - n = Len(recvbuf) - (c + n)
    BY <1>3, <1>4
  <2>3. pos + n <= new.units
    BY <1>2, <1>4
  <2> QED BY <2>1, <2>2, <2>3
<1>8. \A i \in 1..Len(recvbuf') : recvbuf'[i] = recvbuf[c + n + i]
  <2> SUFFICES ASSUME NEW i \in 1..Len(recvbuf') PROVE recvbuf'[i] = recvbuf[c + n + i]
    OBVIOUS
  <2>1. i \in 1..(Len(buf) - n) /\ n + i \in 1..(Len(recvbuf) - c) /\ c + (n + i) = c + n + i
    BY <1>3, <1>4, <1>7
  <2> QED BY <1>1, <1>3, <1>6, <2>1
<1>9. same <=> \A i \in 1..n : recvbuf[c + i] = [msg |-> new.msg, at |-> HeaderUnits + pos + i]
  <2> DEFINE b == HeaderUnits + pos
             d == Cells(new.msg, b + 1, b + n)
  <2>1. b \in Nat
    BY Types
  <2>2. same <=> SubSeq(buf, 1, n) = d
    OBVIOUS
  <2> HIDE DEF b
  <2>3. d \in Seq(Cell) /\ Len(d) = n /\ \A i \in 1..n : d[i] = [msg |-> new.msg, at |-> b + i]
    BY <1>2, <1>4, <2>1, CellsAre
  <2> HIDE DEF d, same
  <2>4. \A i \in 1..n : SubSeq(buf, 1, n)[i] = recvbuf[c + i]
    <3> SUFFICES ASSUME NEW i \in 1..n PROVE SubSeq(buf, 1, n)[i] = recvbuf[c + i]
      OBVIOUS
    <3>1. i \in 1..(Len(recvbuf) - c)
      BY <1>3, <1>4
    <3> QED BY <1>3, <1>6, <3>1
  <2>5. (\A i \in 1..n : recvbuf[c + i] = [msg |-> new.msg, at |-> b + i]) => same
    <3> SUFFICES ASSUME \A i \in 1..n : recvbuf[c + i] = [msg |-> new.msg, at |-> b + i] PROVE same
      OBVIOUS
    <3>1. \A i \in 1..Len(SubSeq(buf, 1, n)) : SubSeq(buf, 1, n)[i] = d[i]
      <4> SUFFICES ASSUME NEW i \in 1..n PROVE SubSeq(buf, 1, n)[i] = d[i]
        BY <1>6
      <4>1. d[i] = [msg |-> new.msg, at |-> b + i]
        BY <2>3
      <4> QED BY <2>4, <4>1
    <3>2. SubSeq(buf, 1, n) = d
      BY <1>6, <2>3, <3>1, SeqEqual
    <3> QED BY <2>2, <3>2
  <2>6. same => \A i \in 1..n : recvbuf[c + i] = [msg |-> new.msg, at |-> b + i]
    BY <2>2, <2>3, <2>4
  <2> QED BY <2>5, <2>6 DEF b
<1> HIDE DEF same
<1>10. full <=> pos + n = new.units
  BY <1>2, <1>4
<1>11. ~full <=> pos + n < new.units
  BY <1>2, <1>4
<1>12. bad <=> pos < new.units /\ full /\ ~ok
  BY <1>5
<1>13. pos < new.units \/ pos = new.units
  BY <1>2
<1> DEFINE ok2 == /\ new.good
                  /\ \A i \in 1..n : recvbuf[c + i] = [msg |-> new.msg, at |-> HeaderUnits + pos + i]
<1>14. ok = ok2
  BY <1>2, <1>9
<1> HIDE DEF ok, full, bad
<1>15. \/ /\ pos + n < new.units /\ m_newmsg_pos' = pos + n
          /\ m_newmsg' = [msg |-> new.msg, units |-> new.units, good |-> ok]
          /\ got' = got /\ closed' = closed
       \/ /\ pos + n = new.units /\ m_newmsg_pos' = -1 /\ m_newmsg' = NoMessage
          /\ \/ pos < new.units /\ ~ok /\ closed' = TRUE /\ got' = got
             \/ (pos = new.units \/ ok) /\ closed' = closed /\ got' = Append(got, new.msg)
  <2>1. CASE ~full
    BY <1>1, <1>5, <1>11, <1>12, <2>1
  <2>2. CASE full /\ bad
    BY <1>1, <1>10, <1>12, <2>2
  <2>3. CASE full /\ ~bad
    BY <1>1, <1>10, <1>12, <1>13, <2>3
  <2> QED BY <2>1, <2>2, <2>3
<1>16. Taken(new, pos, c, n)
  BY <1>7, <1>8, <1>14, <1>15 DEF Taken
<1> QED BY <1>4, <1>16

HeaderOf(m) == \A i \in 1..HeaderUnits : recvbuf[i] = [msg |-> m, at |-> i]

LEMMA HeaderOfIs ==
  ASSUME recvbuf \in Seq(Cell), HeaderUnits <= Len(recvbuf), NEW m \in AnyMessage
  PROVE  SubSeq(recvbuf, 1, HeaderUnits) = Header(m) <=> HeaderOf(m)
<1> DEFINE h == SubSeq(recvbuf, 1, HeaderUnits)  d == Header(m)  n == HeaderUnits
<1>0. n \in Nat /\ n <= Len(recvbuf)
  BY Types
<1>1. h \in Seq(Cell) /\ Len(h) = n /\ \A i \in 1..n : h[i] = recvbuf[i]
  <2> HIDE DEF n
  <2>1. SubSeq(recvbuf, 1, n) \in Seq(Cell) /\ Len(SubSeq(recvbuf, 1, n)) = n
        /\ \A i \in 1..n : SubSeq(recvbuf, 1, n)[i] = recvbuf[i]
    BY <1>0, CutIs
  <2> QED BY <2>1 DEF n
<1>2. d \in Seq(Cell) /\ Len(d) = n /\ \A i \in 1..n : d[i] = [msg |-> m, at |-> i]
  BY HeaderIs
<1> HIDE DEF h, d, n
<1>3. h = d => \A i \in 1..n : recvbuf[i] = [msg |-> m, at |-> i]
  BY <1>1, <1>2
<1>4. ASSUME \A i \in 1..n : recvbuf[i] = [msg |-> m, at |-> i] PROVE h = d
  <2>1. ASSUME NEW i \in 1..n PROVE h[i] = d[i]
    <3>1. d[i] = [msg |-> m, at |-> i]
      BY <1>2
    <3> QED BY <1>1, <1>4, <3>1
  <2>2. \A i \in 1..Len(h) : h[i] = d[i]
    BY <1>1, <2>1
  <2> QED BY <1>1, <1>2, <2>2, SeqEqual
<1> QED BY <1>3, <1>4 DEF h, d, n, HeaderOf

LEMMA RefuseIs ==
  ASSUME TypeOK, RefuseHeader
  PROVE  /\ m_newmsg_pos = -1 /\ HeaderUnits <= Len(recvbuf)
         /\ \A m \in AnyMessage : ~HeaderOf(m)
         /\ recvbuf' \in Seq(Cell) /\ Len(recvbuf') = Len(recvbuf) - HeaderUnits
         /\ \A i \in 1..Len(recvbuf') : recvbuf'[i] = recvbuf[HeaderUnits + i]
<1> DEFINE n == HeaderUnits
<1>1. recvbuf \in Seq(Cell) /\ n \in Nat /\ n <= Len(recvbuf)
  BY Types DEF TypeOK, RefuseHeader
<1>2. recvbuf' = SubSeq(recvbuf, n + 1, Len(recvbuf))
  BY DEF RefuseHeader
<1>3. \A m \in AnyMessage : ~HeaderOf(m)
  <2> SUFFICES ASSUME NEW m \in AnyMessage, HeaderOf(m) PROVE FALSE
    OBVIOUS
  <2>1. SubSeq(recvbuf, 1, HeaderUnits) = Header(m)
    BY <1>1, HeaderOfIs
  <2>2. [msg |-> m, units |-> Units[m], good |-> TRUE] \in Parsed(SubSeq(recvbuf, 1, HeaderUnits))
    BY <2>1 DEF Parsed
  <2> QED BY <2>2 DEF RefuseHeader
<1>4. m_newmsg_pos = -1
  BY DEF RefuseHeader
<1> HIDE DEF n
<1>5. recvbuf' \in Seq(Cell) /\ Len(recvbuf') = Len(recvbuf) - n
      /\ \A i \in 1..(Len(recvbuf) - n) : recvbuf'[i] = recvbuf[n + i]
  BY <1>1, <1>2, CutIs
<1> QED BY <1>1, <1>3, <1>4, <1>5 DEF n

LEMMA RecvIs ==
  ASSUME TypeOK, Receiving, RecvMessage
  PROVE  \E new \in Incoming, pos, c, n \in Nat :
           /\ Taken(new, pos, c, n)
           /\ \/ /\ m_newmsg_pos = -1 /\ pos = 0 /\ c = HeaderUnits
                 /\ \/ /\ new.good /\ new.msg \in AnyMessage /\ new.units = Units[new.msg]
                       /\ HeaderOf(new.msg)
                    \/ ~new.good /\ new.msg = Junk /\ \A m \in AnyMessage : ~HeaderOf(m)
              \/ /\ m_newmsg_pos >= 0 /\ pos = m_newmsg_pos /\ c = 0 /\ new = m_newmsg
                 /\ pos < new.units
<1> DEFINE h == SubSeq(recvbuf, 1, HeaderUnits)
<1>0. /\ recvbuf \in Seq(Cell) /\ closed \in BOOLEAN /\ m_newmsg \in Incoming
      /\ m_newmsg_pos \in Nat \cup {-1} /\ HeaderUnits \in Nat
  BY Types DEF TypeOK
<1>1. ASSUME m_newmsg_pos = -1, Len(recvbuf) >= HeaderUnits,
             NEW new \in Parsed(h) \cup Misread(h),
             ReceiveBody(new, 0, SubSeq(recvbuf, HeaderUnits + 1, Len(recvbuf)))
      PROVE  /\ new \in Incoming
             /\ \/ /\ new.good /\ new.msg \in AnyMessage /\ new.units = Units[new.msg]
                   /\ HeaderOf(new.msg)
                \/ ~new.good /\ new.msg = Junk /\ \A m \in AnyMessage : ~HeaderOf(m)
             /\ \E n \in Nat : Taken(new, 0, HeaderUnits, n)
  <2>1. \A m \in AnyMessage : h = Header(m) <=> HeaderOf(m)
    BY <1>0, <1>1, HeaderOfIs
  <2>2. ASSUME new \in Parsed(h)
        PROVE  /\ new \in Incoming
               /\ \/ /\ new.good /\ new.msg \in AnyMessage /\ new.units = Units[new.msg]
                     /\ HeaderOf(new.msg)
                  \/ ~new.good /\ new.msg = Junk /\ \A m \in AnyMessage : ~HeaderOf(m)
    <3>1. PICK m \in AnyMessage : h = Header(m) /\ new = [msg |-> m, units |-> Units[m], good |-> TRUE]
      BY <2>2 DEF Parsed
    <3>2. new \in Incoming
      BY <3>1, Types DEF Incoming
    <3>3. new.good /\ new.msg = m /\ new.units = Units[m]
      BY <3>1
    <3>4. HeaderOf(m)
      BY <2>1, <3>1
    <3> QED BY <3>2, <3>3, <3>4
  <2>3. ASSUME new \in Misread(h)
        PROVE  /\ new \in Incoming
               /\ \/ /\ new.good /\ new.msg \in AnyMessage /\ new.units = Units[new.msg]
                     /\ HeaderOf(new.msg)
                  \/ ~new.good /\ new.msg = Junk /\ \A m \in AnyMessage : ~HeaderOf(m)
    <3>1. Parsed(h) = {}
      BY <2>3 DEF Misread
    <3>2. PICK u \in JunkUnits : new = [msg |-> Junk, units |-> u, good |-> FALSE]
      BY <2>3, <3>1 DEF Misread
    <3>3. new \in Incoming
      BY <3>2, MessageAssumption DEF Incoming
    <3>4. ~new.good /\ new.msg = Junk
      BY <3>2
    <3>5. \A m \in AnyMessage : ~HeaderOf(m)
      <4> SUFFICES ASSUME NEW m \in AnyMessage, HeaderOf(m) PROVE FALSE
        OBVIOUS
      <4>1. [msg |-> m, units |-> Units[m], good |-> TRUE] \in Parsed(h)
        BY <2>1 DEF Parsed
      <4> QED BY <3>1, <4>1
    <3> QED BY <3>3, <3>4, <3>5
  <2>4. new \in Incoming
    BY <2>2, <2>3
  <2>5. \E n \in Nat : Taken(new, 0, HeaderUnits, n)
    <3> DEFINE z == 0  c == HeaderUnits
    <3>1. z \in Nat /\ z <= new.units /\ c \in Nat /\ c <= Len(recvbuf)
      BY <1>0, <1>1, <2>4 DEF Incoming
    <3>2. ReceiveBody(new, z, SubSeq(recvbuf, c + 1, Len(recvbuf)))
      BY <1>1
    <3> HIDE DEF z, c
    <3>3. \E n \in Nat : Taken(new, z, c, n)
      BY <1>0, <2>4, <3>1, <3>2, BodyIs
    <3> QED BY <3>3 DEF z, c
  <2> QED BY <2>2, <2>3, <2>4, <2>5
<1>2. ASSUME m_newmsg_pos >= 0, ReceiveBody(m_newmsg, m_newmsg_pos, recvbuf)
      PROVE  /\ m_newmsg_pos \in Nat /\ m_newmsg_pos < m_newmsg.units
             /\ \E n \in Nat : Taken(m_newmsg, m_newmsg_pos, 0, n)
  <2>1. m_newmsg_pos \in Nat /\ m_newmsg_pos < m_newmsg.units /\ m_newmsg.units \in Nat
    BY <1>0, <1>2 DEF Receiving, Incoming
  <2> DEFINE z == 0
  <2>2. z \in Nat /\ z + 1 = 1 /\ z <= Len(recvbuf)
    BY <1>0
  <2>3. SubSeq(recvbuf, 1, Len(recvbuf)) = recvbuf
    BY <1>0, SubSeqFull
  <2>4. ReceiveBody(m_newmsg, m_newmsg_pos, SubSeq(recvbuf, z + 1, Len(recvbuf)))
    BY <1>2, <2>2, <2>3
  <2> HIDE DEF z
  <2>5. \E n \in Nat : Taken(m_newmsg, m_newmsg_pos, z, n)
    BY <1>0, <2>1, <2>2, <2>4, BodyIs
  <2> QED BY <2>1, <2>5 DEF z
<1>3. CASE m_newmsg_pos = -1
  <2>1. PICK new \in Parsed(h) \cup Misread(h) :
          ReceiveBody(new, 0, SubSeq(recvbuf, HeaderUnits + 1, Len(recvbuf)))
    BY <1>3 DEF RecvMessage
  <2>2. Len(recvbuf) >= HeaderUnits
    BY <1>3 DEF RecvMessage
  <2> HIDE DEF h
  <2>3. PICK n \in Nat : Taken(new, 0, HeaderUnits, n)
    BY <1>1, <1>3, <2>1, <2>2
  <2>4. new \in Incoming
    BY <1>1, <1>3, <2>1, <2>2
  <2>5. \/ /\ new.good /\ new.msg \in AnyMessage /\ new.units = Units[new.msg]
           /\ HeaderOf(new.msg)
        \/ ~new.good /\ new.msg = Junk /\ \A m \in AnyMessage : ~HeaderOf(m)
    BY <1>1, <1>3, <2>1, <2>2
  <2> QED BY <1>0, <1>3, <2>3, <2>4, <2>5
<1>4. CASE m_newmsg_pos # -1
  <2>1. m_newmsg_pos >= 0 /\ ReceiveBody(m_newmsg, m_newmsg_pos, recvbuf)
    BY <1>4 DEF RecvMessage
  <2>2. PICK n \in Nat : Taken(m_newmsg, m_newmsg_pos, 0, n)
    BY <1>2, <2>1
  <2>3. m_newmsg_pos \in Nat /\ m_newmsg_pos < m_newmsg.units
    BY <1>2, <2>1
  <2> QED BY <1>0, <2>1, <2>2, <2>3
<1> QED BY <1>3, <1>4

-----------------------------------------------------------------------------
(* The queue, step by step                                                 *)

LEMMA WaitingNow ==
  ASSUME TypeOK, InFlight
  PROVE  /\ Waiting \in Seq(AnyMessage) /\ Flow \in Seq(AnyMessage)
         /\ m_msg_bsent < 0 => Waiting = m_msg
         /\ m_msg_bsent >= 0 => Waiting = Tail(m_msg) /\ Tail(m_msg) \in Seq(AnyMessage)
<1>1. /\ m_msg \in Seq(AnyMessage) /\ m_msg_bsent \in Nat \cup {-1} /\ written \in Seq(AnyMessage)
      /\ m_msg_bsent >= 0 => m_msg # <<>>
  BY DEF TypeOK, InFlight
<1>2. Waiting \in Seq(AnyMessage)
  BY <1>1, WaitingIs DEF Waiting
<1>3. m_msg_bsent < 0 => Waiting = m_msg
  BY <1>1, SubSeqFull DEF Waiting, FirstFree
<1>4. m_msg_bsent >= 0 => Waiting = Tail(m_msg) /\ Tail(m_msg) \in Seq(AnyMessage)
  <2> SUFFICES ASSUME m_msg_bsent >= 0 PROVE Waiting = Tail(m_msg) /\ Tail(m_msg) \in Seq(AnyMessage)
    OBVIOUS
  <2>1. Tail(m_msg) \in Seq(AnyMessage) /\ Tail(m_msg) = SubSeq(m_msg, 2, Len(m_msg))
    BY <1>1, HeadTailProperties, TailIsSubSeq
  <2>2. FirstFree(m_msg_bsent) = 2
    BY DEF FirstFree
  <2> QED BY <2>1, <2>2 DEF Waiting
<1> QED BY <1>1, <1>2, <1>3, <1>4, ConcatProperties DEF Flow

\* saturate() keeps every part of FlowInv.
LEMMA FillerKeeps ==
  ASSUME NEW s \in Seq(AnyMessage), NEW w \in Seq(AnyMessage), NEW w2, NEW h \in Seq(Message),
         w2 = w \/ (w = <<>> /\ w2 = <<Filler>>),
         Once(s \o w), HandedIn(s \o w, h), Fifo(s \o w, h), InOrder(w), FillerOnce(w)
  PROVE  /\ w2 \in Seq(AnyMessage)
         /\ Once(s \o w2) /\ HandedIn(s \o w2, h) /\ Fifo(s \o w2, h) /\ InOrder(w2) /\ FillerOnce(w2)
<1>1. CASE w2 = w
  BY <1>1
<1>2. CASE w = <<>> /\ w2 = <<Filler>>
  <2> DEFINE f == s \o w  f2 == s \o w2
  <2>1. w2 \in Seq(AnyMessage) /\ Len(w2) = 1 /\ w2[1] = Filler
    BY <1>2, Types
  <2>2. f = s /\ Len(s) \in Nat
    BY <1>2, ConcatEmptySeq
  <2>3. Len(f2) = Len(s) + 1
        /\ \A i \in 1..(Len(s) + 1) : f2[i] = IF i <= Len(s) THEN s[i] ELSE w2[i - Len(s)]
    <3>1. Len(f2) = Len(s) + Len(w2)
          /\ \A i \in 1..(Len(s) + Len(w2)) : f2[i] = IF i <= Len(s) THEN s[i] ELSE w2[i - Len(s)]
      BY <2>1, ConcatProperties
    <3> HIDE DEF f2
    <3> QED BY <2>1, <3>1
  <2> HIDE DEF f, f2
  <2>4. ASSUME NEW i \in 1..Len(f2), f2[i] # Filler PROVE i \in 1..Len(s) /\ f2[i] = s[i]
    <3>1. i = Len(s) + 1 => f2[i] = Filler
      BY <2>1, <2>2, <2>3
    <3> QED BY <2>2, <2>3, <2>4, <3>1
  <2>5. Once(f2)
    <3>1. Once(s)
      BY <2>2 DEF f
    <3> QED BY <2>4, <3>1 DEF Once
  <2>6. HandedIn(f2, h)
    <3>1. HandedIn(s, h)
      BY <2>2 DEF f
    <3> QED BY <2>4, <3>1 DEF HandedIn
  <2>7. Fifo(f2, h)
    <3>1. Fifo(s, h)
      BY <2>2 DEF f
    <3> SUFFICES ASSUME NEW i \in 1..Len(h), NEW j \in 1..Len(h), NEW k \in 1..Len(f2),
                        NEW l \in 1..Len(f2), i < j, f2[k] = h[i], f2[l] = h[j],
                        Priority[h[i]] = Priority[h[j]]
                 PROVE  k < l
      BY DEF Fifo
    <3>2. h[i] # Filler /\ h[j] # Filler
      <4>1. h[i] \in Message /\ h[j] \in Message
        OBVIOUS
      <4> QED BY <4>1, Types
    <3>3. k \in 1..Len(s) /\ s[k] = h[i] /\ l \in 1..Len(s) /\ s[l] = h[j]
      BY <2>4, <3>2
    <3> QED BY <3>1, <3>3 DEF Fifo
  <2>8. InOrder(w2) /\ FillerOnce(w2)
    BY <2>1 DEF InOrder, FillerOnce
  <2> QED BY <2>1, <2>5, <2>6, <2>7, <2>8 DEF f2
<1> QED BY <1>1, <1>2

LEMMA TailKeeps ==
  ASSUME NEW q \in Seq(AnyMessage), q # <<>>, InOrder(q), FillerOnce(q)
  PROVE  /\ InOrder(Tail(q)) /\ FillerOnce(Tail(q))
         /\ Head(q) = Filler => \A i \in 1..Len(Tail(q)) : Tail(q)[i] # Filler
<1> DEFINE t == Tail(q)
<1>1. t \in Seq(AnyMessage) /\ Len(t) = Len(q) - 1 /\ \A i \in 1..Len(t) : t[i] = q[i + 1]
  BY HeadTailProperties
<1>2. Len(q) \in Nat /\ Len(q) >= 1 /\ Head(q) = q[1]
  OBVIOUS
<1> HIDE DEF t
<1>3. InOrder(t)
  <2> SUFFICES ASSUME NEW i \in 1..Len(t), NEW j \in 1..Len(t), i < j
               PROVE  Priority[t[i]] <= Priority[t[j]]
    BY DEF InOrder
  <2>1. i + 1 \in 1..Len(q) /\ j + 1 \in 1..Len(q) /\ i + 1 < j + 1
    BY <1>1, <1>2
  <2> QED BY <1>1, <2>1 DEF InOrder
<1>4. FillerOnce(t)
  <2> SUFFICES ASSUME NEW i \in 1..Len(t), NEW j \in 1..Len(t), t[i] = Filler, t[j] = Filler
               PROVE  i = j
    BY DEF FillerOnce
  <2>1. i + 1 \in 1..Len(q) /\ j + 1 \in 1..Len(q) /\ q[i + 1] = Filler /\ q[j + 1] = Filler
    BY <1>1, <1>2
  <2>2. i + 1 = j + 1
    BY <2>1 DEF FillerOnce
  <2> QED BY <2>2
<1>5. ASSUME Head(q) = Filler, NEW i \in 1..Len(t), t[i] = Filler PROVE FALSE
  <2>1. i + 1 \in 1..Len(q) /\ q[i + 1] = Filler /\ 1 \in 1..Len(q) /\ q[1] = Filler
    BY <1>1, <1>2, <1>5
  <2>2. i + 1 = 1
    BY <2>1 DEF FillerOnce
  <2> QED BY <2>2
<1> QED BY <1>3, <1>4, <1>5 DEF t

\* After one turn the messages behind the head wait, or a filler where there is none.
LEMMA TurnFlow ==
  ASSUME QueueInv, RunSendTurn
  PROVE  \E w \in Seq(AnyMessage) :
           /\ w = Tail(m_msg) /\ Flow = written' \o w
           /\ InOrder(w) /\ FillerOnce(w)
           /\ Head(m_msg) = Filler => \A i \in 1..Len(w) : w[i] # Filler
<1> DEFINE m == Head(m_msg)  w == Tail(m_msg)
<1>1. TypeOK /\ InFlight /\ FlowInv /\ m_msg # <<>>
  BY DEF QueueInv, RunSendTurn
<1>2. PICK a, k \in Nat : written' = IF m_msg_bsent < 0 THEN Append(written, m) ELSE written
  BY <1>1, TurnIs
<1>3. m \in AnyMessage /\ w \in Seq(AnyMessage) /\ m_msg \in Seq(AnyMessage)
      /\ written \in Seq(AnyMessage) /\ m_msg_bsent \in Nat \cup {-1}
  BY <1>1, HeadTailProperties DEF TypeOK
<1>4. /\ m_msg_bsent < 0 => Waiting = m_msg
      /\ m_msg_bsent >= 0 => Waiting = Tail(m_msg)
  BY <1>1, WaitingNow
<1>5. CASE m_msg_bsent < 0
  <2>1. InOrder(m_msg) /\ FillerOnce(m_msg) /\ Flow = written \o m_msg
    BY <1>1, <1>4, <1>5 DEF FlowInv, Flow
  <2>2. InOrder(w) /\ FillerOnce(w) /\ (m = Filler => \A i \in 1..Len(w) : w[i] # Filler)
    BY <1>1, <1>3, <2>1, TailKeeps
  <2>3. written \o m_msg = Append(written, m) \o w
    <3>1. m_msg = <<m>> \o w
      BY <1>1, <1>3
    <3>2. Append(written, m) = written \o <<m>> /\ <<m>> \in Seq(AnyMessage)
      BY <1>3, AppendIsConcat
    <3> HIDE DEF m, w
    <3>3. (written \o <<m>>) \o w = written \o (<<m>> \o w)
      BY <1>3, <3>2, ConcatAssociative
    <3> QED BY <3>1, <3>2, <3>3
  <2> QED BY <1>2, <1>3, <1>5, <2>1, <2>2, <2>3
<1>6. CASE ~(m_msg_bsent < 0)
  <2>1. m_msg_bsent >= 0
    BY <1>3, <1>6
  <2>2. Waiting = w /\ InOrder(w) /\ FillerOnce(w) /\ Flow = written' \o w
    BY <1>1, <1>2, <1>4, <1>6, <2>1 DEF FlowInv, Flow
  <2>3. m = Filler => \A i \in 1..Len(w) : w[i] # Filler
    BY <1>1, <2>1, <2>2 DEF InFlight
  <2> QED BY <1>3, <2>2, <2>3
<1> QED BY <1>5, <1>6

LEMMA SendKeeps ==
  ASSUME QueueInv, NEW m \in Message, SendMessage(m)
  PROVE  QueueInv'
<1> DEFINE b == m_msg_bsent  full == Len(m_msg) = QueueLen
<1>1. TypeOK /\ InFlight /\ FlowInv /\ Receiving /\ Len(m_msg) <= QueueLen
  BY DEF QueueInv
<1>2. /\ handed' = Append(handed, m) /\ m_msg' = Enqueue(m_msg, b, m)
      /\ m_stat_drop' = m_stat_drop + Dropped(m_msg)
      /\ m_msg_bsent' = b /\ inrun' = inrun /\ written' = written /\ sendbuf' = sendbuf
      /\ recvbuf' = recvbuf /\ m_newmsg' = m_newmsg /\ m_newmsg_pos' = m_newmsg_pos
      /\ closed' = closed /\ got' = got /\ spoiled' = spoiled
  BY DEF SendMessage, recvvars
<1>3. \A i \in 1..Len(handed) : handed[i] # m
  <2>1. handed \in Seq(Message) /\ m \notin Range(handed)
    BY <1>1 DEF TypeOK, SendMessage
  <2> QED BY <2>1 DEF Range
<1>4. /\ m_msg \in Seq(AnyMessage) /\ b \in Nat \cup {-1} /\ m \in AnyMessage /\ (b >= 0 => m_msg # <<>>)
      /\ written \in Seq(AnyMessage) /\ handed \in Seq(Message)
  BY <1>1, Types DEF TypeOK, InFlight
<1> HIDE DEF b
<1>5. /\ m_msg' \in Seq(AnyMessage) /\ Len(m_msg') <= QueueLen /\ m_msg' # <<>>
      /\ b >= 0 => Head(m_msg') = Head(m_msg)
      /\ \E p \in Nat : PutAt(Waiting, Waiting', m, p, full)
  <2>1. LET q2 == Enqueue(m_msg, b, m)
            w == SubSeq(m_msg, FirstFree(b), Len(m_msg))
            w2 == SubSeq(q2, FirstFree(b), Len(q2))
        IN  /\ q2 \in Seq(AnyMessage) /\ Len(q2) <= QueueLen /\ q2 # <<>>
            /\ b >= 0 => Head(q2) = Head(m_msg)
            /\ \E p \in Nat : PutAt(w, w2, m, p, Len(m_msg) = QueueLen)
    BY <1>1, <1>4, EnqueueIs
  <2>2. /\ SubSeq(m_msg, FirstFree(b), Len(m_msg)) = Waiting
        /\ SubSeq(m_msg', FirstFree(b), Len(m_msg')) = Waiting'
    BY <1>2 DEF Waiting, b
  <2> QED BY <1>2, <2>1, <2>2
<1>6. Waiting \in Seq(AnyMessage)
  BY <1>1, WaitingNow
<1>7. Waiting' \in Seq(AnyMessage)
  <2> DEFINE q2 == m_msg'
  <2>1. q2 \in Seq(AnyMessage) /\ q2 # <<>>
    BY <1>5
  <2> HIDE DEF q2
  <2>2. SubSeq(q2, FirstFree(b), Len(q2)) \in Seq(AnyMessage)
    BY <1>4, <2>1, WaitingIs
  <2> QED BY <1>2, <2>2 DEF Waiting, b, q2
<1>8. /\ Once(handed) /\ Once(written \o Waiting) /\ HandedIn(written \o Waiting, handed)
      /\ Fifo(written \o Waiting, handed) /\ InOrder(Waiting) /\ FillerOnce(Waiting)
  BY <1>1 DEF FlowInv, Flow
<1>9. /\ Once(handed') /\ Once(written \o Waiting') /\ HandedIn(written \o Waiting', handed')
      /\ Fifo(written \o Waiting', handed') /\ InOrder(Waiting') /\ FillerOnce(Waiting')
      /\ (\A i \in 1..Len(Waiting) : Waiting[i] # Filler) => \A i \in 1..Len(Waiting') : Waiting'[i] # Filler
  <2> DEFINE w == Waiting  w2 == Waiting'  s == written  h == handed  h2 == handed'
  <2>1. PICK p \in Nat : PutAt(w, w2, m, p, full)
    BY <1>5
  <2>2. w \in Seq(AnyMessage) /\ w2 \in Seq(AnyMessage) /\ s \in Seq(AnyMessage) /\ h \in Seq(Message)
        /\ full \in BOOLEAN /\ h2 = Append(h, m) /\ \A i \in 1..Len(h) : h[i] # m
    BY <1>2, <1>3, <1>4, <1>6, <1>7
  <2>3. Once(h) /\ Once(s \o w) /\ HandedIn(s \o w, h) /\ Fifo(s \o w, h) /\ InOrder(w) /\ FillerOnce(w)
    BY <1>8
  <2> HIDE DEF w, w2, s, h, h2, full
  <2>4. /\ Once(h2) /\ Once(s \o w2) /\ HandedIn(s \o w2, h2) /\ Fifo(s \o w2, h2)
        /\ InOrder(w2) /\ FillerOnce(w2)
        /\ (\A i \in 1..Len(w) : w[i] # Filler) => \A i \in 1..Len(w2) : w2[i] # Filler
    BY <2>1, <2>2, <2>3, PutKeeps
  <2> QED BY <2>4 DEF w, w2, s, h, h2
<1>10. FlowInv'
  BY <1>2, <1>9 DEF FlowInv, Flow
<1>11. InFlight'
  <2> SUFFICES ASSUME m_msg_bsent' >= 0
               PROVE  /\ m_msg' # <<>> /\ written' # <<>> /\ Head(m_msg') = written'[Len(written')]
                      /\ m_msg_bsent' < Units[Head(m_msg')]
                      /\ Head(m_msg') = Filler => \A i \in 1..Len(Waiting') : Waiting'[i] # Filler
    BY DEF InFlight
  <2>1. b >= 0 /\ m_msg_bsent >= 0
    BY <1>2 DEF b
  <2>2. Head(m_msg') = Head(m_msg) /\ m_msg_bsent' = m_msg_bsent /\ written' = written
    BY <1>2, <1>5, <2>1 DEF b
  <2>3. /\ written # <<>> /\ Head(m_msg) = written[Len(written)] /\ m_msg_bsent < Units[Head(m_msg)]
        /\ Head(m_msg) = Filler => \A i \in 1..Len(Waiting) : Waiting[i] # Filler
    BY <1>1, <2>1 DEF InFlight
  <2> QED BY <1>5, <1>9, <2>2, <2>3
<1>12. TypeOK'
  <2>1. handed' \in Seq(Message)
    BY <1>2, <1>4
  <2>2. m_stat_drop' \in Nat
    BY <1>1, <1>2 DEF TypeOK, Dropped
  <2> QED BY <1>1, <1>2, <1>5, <2>1, <2>2 DEF TypeOK, b
<1>13. Receiving'
  BY <1>1, <1>2 DEF Receiving
<1> QED BY <1>5, <1>10, <1>11, <1>12, <1>13 DEF QueueInv

LEMMA RunSendKeeps ==
  ASSUME QueueInv, RunSend
  PROVE  QueueInv' /\ (Flow' = Flow \/ Flow' = Append(Flow, Filler))
<1>1. TypeOK /\ InFlight /\ FlowInv /\ Receiving /\ Len(m_msg) <= QueueLen
  BY DEF QueueInv
<1>2. /\ handed' = handed /\ m_msg' = Saturate(m_msg, Len(sendbuf)) /\ inrun' = TRUE
      /\ m_stat_drop' = m_stat_drop
      /\ m_msg_bsent' = m_msg_bsent /\ written' = written /\ sendbuf' = sendbuf
      /\ recvbuf' = recvbuf /\ m_newmsg' = m_newmsg /\ m_newmsg_pos' = m_newmsg_pos
      /\ closed' = closed /\ got' = got /\ spoiled' = spoiled
  BY DEF RunSend, recvvars
<1>3. m_msg \in Seq(AnyMessage) /\ Len(sendbuf) \in Nat /\ m_msg_bsent \in Nat \cup {-1}
      /\ written \in Seq(AnyMessage) /\ handed \in Seq(Message)
  BY <1>1 DEF TypeOK
<1>4. m_msg' = m_msg \/ (m_msg = <<>> /\ m_msg' = <<Filler>>)
  BY <1>2, <1>3, SaturateIs
<1>5. m_msg' \in Seq(AnyMessage) /\ Len(m_msg') <= QueueLen
  <2>1. <<Filler>> \in Seq(AnyMessage) /\ Len(<<Filler>>) = 1 /\ 1 <= QueueLen
    BY Types
  <2> QED BY <1>1, <1>3, <1>4, <2>1
<1>6. TypeOK'
  BY <1>1, <1>2, <1>5 DEF TypeOK
<1>7. Receiving'
  BY <1>1, <1>2 DEF Receiving
<1>8. CASE m_msg' = m_msg
  <2>1. Waiting' = Waiting /\ Flow' = Flow
    BY <1>2, <1>8 DEF Waiting, Flow
  <2>2. InFlight'
    BY <1>1, <1>2, <1>8, <2>1 DEF InFlight
  <2>3. FlowInv'
    BY <1>1, <1>2, <2>1 DEF FlowInv
  <2> QED BY <1>5, <1>6, <1>7, <2>1, <2>2, <2>3 DEF QueueInv
<1>9. CASE m_msg = <<>> /\ m_msg' = <<Filler>>
  <2>1. ~(m_msg_bsent >= 0) /\ ~(m_msg_bsent' >= 0)
    BY <1>1, <1>2, <1>3, <1>9 DEF InFlight
  <2>2. InFlight'
    BY <2>1 DEF InFlight
  <2>3. Waiting = m_msg /\ Waiting' = m_msg'
    <3>1. FirstFree(m_msg_bsent) = 1
      BY <2>1 DEF FirstFree
    <3>2. SubSeq(m_msg, 1, Len(m_msg)) = m_msg
      BY <1>3, SubSeqFull
    <3> DEFINE q2 == m_msg'
    <3>3. q2 \in Seq(AnyMessage)
      BY <1>5
    <3> HIDE DEF q2
    <3>4. SubSeq(q2, 1, Len(q2)) = q2
      BY <3>3, SubSeqFull
    <3> QED BY <1>2, <3>1, <3>2, <3>4 DEF Waiting, q2
  <2>4. /\ Once(written \o Waiting) /\ HandedIn(written \o Waiting, handed)
        /\ Fifo(written \o Waiting, handed) /\ InOrder(Waiting) /\ FillerOnce(Waiting) /\ Once(handed)
    BY <1>1 DEF FlowInv, Flow
  <2> DEFINE w == Waiting  w2 == Waiting'
  <2>5. w \in Seq(AnyMessage) /\ (w2 = w \/ (w = <<>> /\ w2 = <<Filler>>))
    BY <1>3, <1>4, <2>3
  <2> HIDE DEF w, w2
  <2>6. /\ Once(written \o w2) /\ HandedIn(written \o w2, handed)
        /\ Fifo(written \o w2, handed) /\ InOrder(w2) /\ FillerOnce(w2)
    BY <1>3, <2>4, <2>5, FillerKeeps DEF w
  <2>7. FlowInv'
    BY <1>2, <2>4, <2>6 DEF FlowInv, Flow, w2
  <2>8. Flow = written /\ Flow' = Append(Flow, Filler)
    <3>1. Flow = written
      BY <1>3, <1>9, <2>3, ConcatEmptySeq DEF Flow
    <3>2. Flow' = written \o <<Filler>>
      BY <1>2, <1>9, <2>3 DEF Flow
    <3>3. Append(written, Filler) = written \o <<Filler>>
      BY <1>3, Types, AppendIsConcat
    <3> QED BY <3>1, <3>2, <3>3
  <2> QED BY <1>5, <1>6, <1>7, <2>2, <2>7, <2>8 DEF QueueInv
<1> QED BY <1>4, <1>8, <1>9

LEMMA TurnKeeps ==
  ASSUME QueueInv, RunSendTurn
  PROVE  QueueInv' /\ (Flow' = Flow \/ Flow' = Append(Flow, Filler))
<1> DEFINE m == Head(m_msg)
<1>1. TypeOK /\ InFlight /\ FlowInv /\ Receiving /\ Len(m_msg) <= QueueLen /\ m_msg # <<>>
  BY DEF QueueInv, RunSendTurn
<1>2. /\ handed' = handed /\ m_stat_drop' = m_stat_drop /\ inrun' \in BOOLEAN
      /\ recvbuf' = recvbuf /\ m_newmsg' = m_newmsg /\ m_newmsg_pos' = m_newmsg_pos
      /\ closed' = closed /\ got' = got /\ spoiled' = spoiled
  BY DEF RunSendTurn, recvvars
<1>3. PICK a, k \in Nat :
        /\ m \in AnyMessage
        /\ a = IF m_msg_bsent < 0 THEN 0 ELSE HeaderUnits + m_msg_bsent
        /\ HeaderUnits <= a + k /\ a + k <= HeaderUnits + Units[m]
        /\ sendbuf' = sendbuf \o Cells(m, a + 1, a + k)
        /\ written' = IF m_msg_bsent < 0 THEN Append(written, m) ELSE written
        /\ m_msg_bsent' = IF a + k = HeaderUnits + Units[m] THEN -1 ELSE a + k - HeaderUnits
        /\ a + k # HeaderUnits + Units[m] => m_msg' = m_msg
        /\ a + k = HeaderUnits + Units[m] =>
             m_msg' = Tail(m_msg) \/ (Tail(m_msg) = <<>> /\ m_msg' = <<Filler>>)
  BY <1>1, TurnIs
<1>4. PICK w \in Seq(AnyMessage) :
        /\ w = Tail(m_msg) /\ Flow = written' \o w
        /\ InOrder(w) /\ FillerOnce(w)
        /\ m = Filler => \A i \in 1..Len(w) : w[i] # Filler
  BY TurnFlow
<1>5. /\ m_msg \in Seq(AnyMessage) /\ m_msg_bsent \in Nat \cup {-1} /\ sendbuf \in Seq(Cell)
      /\ written \in Seq(AnyMessage) /\ handed \in Seq(Message)
      /\ Units[m] \in Nat /\ HeaderUnits \in Nat /\ <<Filler>> \in Seq(AnyMessage) /\ 1 <= QueueLen
      /\ Len(w) = Len(m_msg) - 1 /\ Len(m_msg) \in Nat
  BY <1>1, <1>3, <1>4, Types, HeadTailProperties DEF TypeOK
<1> HIDE DEF m
<1>6. written' \in Seq(AnyMessage) /\ written' # <<>> /\ m = written'[Len(written')]
  <2>1. CASE m_msg_bsent < 0
    <3>1. written' = Append(written, m)
      BY <1>3, <2>1
    <3>2. Append(written, m) \in Seq(AnyMessage) /\ Len(Append(written, m)) = Len(written) + 1
          /\ Append(written, m)[Len(written) + 1] = m /\ Append(written, m) # <<>>
      <4>1. m \in AnyMessage /\ written \in Seq(AnyMessage)
        BY <1>3, <1>5
      <4> QED BY <4>1, AppendProperties
    <3> QED BY <3>1, <3>2
  <2>2. CASE ~(m_msg_bsent < 0)
    BY <1>1, <1>3, <1>5, <2>2 DEF InFlight, m
  <2> QED BY <2>1, <2>2
<1>7. sendbuf' \in Seq(Cell)
  BY <1>3, <1>5, CellsAre, ConcatProperties
<1>8. m_msg_bsent' \in Nat \cup {-1}
      /\ (m_msg_bsent' >= 0 => m_msg' = m_msg /\ m_msg_bsent' < Units[m])
      /\ (~(m_msg_bsent' >= 0) => m_msg' = w \/ (w = <<>> /\ m_msg' = <<Filler>>))
  <2>1. CASE a + k = HeaderUnits + Units[m]
    BY <1>3, <1>4, <2>1
  <2>2. CASE a + k # HeaderUnits + Units[m]
    <3>1. a + k - HeaderUnits \in Nat /\ a + k - HeaderUnits < Units[m]
      <4> DEFINE x == a + k  u == Units[m]
      <4>1. x \in Nat /\ u \in Nat /\ HeaderUnits \in Nat
            /\ HeaderUnits <= x /\ x <= HeaderUnits + u /\ x # HeaderUnits + u
        BY <1>3, <1>5, <2>2
      <4> HIDE DEF x, u
      <4>2. x - HeaderUnits \in Nat /\ x - HeaderUnits < u
        BY <4>1
      <4> QED BY <1>5, <4>1, <4>2 DEF x, u
    <3> QED BY <1>3, <2>2, <3>1
  <2> QED BY <2>1, <2>2
<1>9. m_msg' \in Seq(AnyMessage) /\ Len(m_msg') <= QueueLen
  <2>1. w \in Seq(AnyMessage) /\ Len(w) <= QueueLen
    BY <1>1, <1>5, Types
  <2>2. Len(<<Filler>>) = 1
    OBVIOUS
  <2> QED BY <1>1, <1>5, <1>8, <2>1, <2>2
<1>10. /\ Waiting' = w \/ (w = <<>> /\ Waiting' = <<Filler>>)
       /\ m_msg_bsent' >= 0 => Waiting' = w
  <2> DEFINE q2 == m_msg'
  <2>1. CASE m_msg_bsent' >= 0
    <3>1. FirstFree(m_msg_bsent') = 2 /\ m_msg' = m_msg
      BY <1>8, <2>1 DEF FirstFree
    <3>2. w = SubSeq(m_msg, 2, Len(m_msg))
      BY <1>1, <1>4, <1>5, TailIsSubSeq
    <3>3. Waiting' = w
      BY <3>1, <3>2 DEF Waiting
    <3> QED BY <3>3
  <2>2. CASE ~(m_msg_bsent' >= 0)
    <3>1. FirstFree(m_msg_bsent') = 1
      BY <2>2 DEF FirstFree
    <3>2. q2 \in Seq(AnyMessage)
      BY <1>9
    <3> HIDE DEF q2
    <3>3. SubSeq(q2, 1, Len(q2)) = q2
      BY <3>2, SubSeqFull
    <3>4. Waiting' = m_msg'
      BY <3>1, <3>3 DEF Waiting, q2
    <3> QED BY <1>8, <2>2, <3>4
  <2> QED BY <2>1, <2>2
<1>11. FlowInv'
  <2> DEFINE w2 == Waiting'  s == written'
  <2>1. Once(s \o w) /\ HandedIn(s \o w, handed) /\ Fifo(s \o w, handed) /\ Once(handed)
    BY <1>1, <1>4 DEF FlowInv
  <2>2. (w2 = w \/ (w = <<>> /\ w2 = <<Filler>>)) /\ s \in Seq(AnyMessage)
    BY <1>6, <1>10
  <2> HIDE DEF w2, s
  <2>3. /\ Once(s \o w2) /\ HandedIn(s \o w2, handed)
        /\ Fifo(s \o w2, handed) /\ InOrder(w2) /\ FillerOnce(w2)
    BY <1>4, <1>5, <2>1, <2>2, FillerKeeps
  <2> QED BY <1>2, <2>1, <2>3 DEF FlowInv, Flow, w2, s
<1>12. InFlight'
  <2> SUFFICES ASSUME m_msg_bsent' >= 0
               PROVE  /\ m_msg' # <<>> /\ written' # <<>> /\ Head(m_msg') = written'[Len(written')]
                      /\ m_msg_bsent' < Units[Head(m_msg')]
                      /\ Head(m_msg') = Filler => \A i \in 1..Len(Waiting') : Waiting'[i] # Filler
    BY DEF InFlight
  <2>1. m_msg' = m_msg /\ m_msg_bsent' < Units[m] /\ Waiting' = w
    BY <1>8, <1>10
  <2>2. Head(m_msg') = m
    BY <2>1 DEF m
  <2> QED BY <1>1, <1>4, <1>6, <2>1, <2>2
<1>13. TypeOK'
  BY <1>1, <1>2, <1>6, <1>7, <1>8, <1>9 DEF TypeOK
<1>14. Receiving'
  BY <1>1, <1>2 DEF Receiving
<1>15. Flow' = Flow \/ Flow' = Append(Flow, Filler)
  <2>1. CASE Waiting' = w
    BY <1>4, <2>1 DEF Flow
  <2>2. CASE w = <<>> /\ Waiting' = <<Filler>>
    <3> DEFINE s == written'
    <3>1. Flow = s \o <<>> /\ Flow' = s \o <<Filler>> /\ s \in Seq(AnyMessage)
      BY <1>4, <1>6, <2>2 DEF Flow
    <3> HIDE DEF s
    <3>2. s \o <<>> = s /\ Append(s, Filler) = s \o <<Filler>>
      BY <3>1, Types, ConcatEmptySeq, AppendIsConcat
    <3> QED BY <3>1, <3>2
  <2> QED BY <1>10, <2>1, <2>2
<1> QED BY <1>9, <1>11, <1>12, <1>13, <1>14, <1>15 DEF QueueInv

\* The rest of the steps leave the queue and what was written alone.
LEMMA QueueRests ==
  ASSUME QueueInv, UNCHANGED <<handed, m_msg, m_msg_bsent, written>>
  PROVE  (Len(m_msg) <= QueueLen /\ InFlight /\ FlowInv)'
<1>1. Waiting' = Waiting /\ Flow' = Flow
  BY DEF Waiting, Flow
<1>2. InFlight'
  BY <1>1 DEF InFlight, QueueInv
<1>3. FlowInv'
  BY <1>1 DEF FlowInv, QueueInv
<1> QED BY <1>2, <1>3 DEF QueueInv

LEMMA RestKeeps ==
  ASSUME QueueInv, RunSendStop \/ Transmit \/ Damage \/ RefuseHeader \/ RecvMessage \/ UNCHANGED vars
  PROVE  QueueInv'
<1>1. TypeOK /\ Receiving
  BY DEF QueueInv
<1>2. UNCHANGED <<handed, m_msg, m_msg_bsent, m_stat_drop, written>>
  BY DEF RunSendStop, Transmit, Damage, RefuseHeader, RecvMessage, vars, sendvars
<1>3. (Len(m_msg) <= QueueLen /\ InFlight /\ FlowInv)'
  BY <1>2, QueueRests
<1>4. CASE RunSendStop
  <2>1. TypeOK' /\ Receiving'
    BY <1>1, <1>4 DEF RunSendStop, TypeOK, Receiving, recvvars
  <2> QED BY <1>3, <2>1 DEF QueueInv
<1>5. CASE Transmit
  <2>1. sendbuf # <<>> /\ sendbuf \in Seq(Cell) /\ recvbuf \in Seq(Cell)
    BY <1>1, <1>5 DEF Transmit, TypeOK
  <2>2. recvbuf' \in Seq(Cell) /\ sendbuf' \in Seq(Cell)
    BY <1>5, <2>1, HeadTailProperties, AppendProperties DEF Transmit
  <2>3. TypeOK' /\ Receiving'
    BY <1>1, <1>2, <1>5, <2>2 DEF Transmit, TypeOK, Receiving, recvvars, sendvars
  <2> QED BY <1>3, <2>3 DEF QueueInv
<1>6. CASE Damage
  <2>1. NoCell \in Cell
    BY DEF NoCell, Cell
  <2>2. recvbuf' \in Seq(Cell) /\ spoiled' \subseteq Message
    <3>1. recvbuf \in Seq(Cell) /\ spoiled \subseteq Message
      BY <1>1 DEF TypeOK
    <3> QED BY <1>6, <2>1, <3>1, ExceptSeq DEF Damage
  <2>3. TypeOK' /\ Receiving'
    BY <1>1, <1>2, <1>6, <2>2 DEF Damage, TypeOK, Receiving, recvvars, sendvars
  <2> QED BY <1>3, <2>3 DEF QueueInv
<1>7. CASE RefuseHeader
  <2>1. recvbuf' \in Seq(Cell) /\ NoMessage \in Incoming
    BY <1>1, <1>7, RefuseIs DEF NoMessage, Incoming
  <2>2. TypeOK'
    BY <1>1, <1>2, <1>7, <2>1 DEF RefuseHeader, TypeOK, sendvars
  <2>3. Receiving'
    <3>1. ~(m_newmsg_pos' >= 0)
      BY <1>7 DEF RefuseHeader
    <3> QED BY <3>1 DEF Receiving
  <2> QED BY <1>3, <2>2, <2>3 DEF QueueInv
<1>8. CASE RecvMessage
  <2>1. PICK new \in Incoming, pos, c, n \in Nat : Taken(new, pos, c, n)
    BY <1>1, <1>8, RecvIs
  <2>2. new.msg \in AnyMessage \cup {Junk} /\ new.units \in Nat /\ NoMessage \in Incoming
    BY DEF NoMessage, Incoming
  <2>3. recvbuf' \in Seq(Cell) /\ got \in Seq(AnyMessage \cup {Junk}) /\ closed \in BOOLEAN
    BY <1>1, <2>1 DEF Taken, TypeOK
  <2>4. /\ m_newmsg' \in Incoming /\ m_newmsg_pos' \in Nat \cup {-1}
        /\ closed' \in BOOLEAN /\ got' \in Seq(AnyMessage \cup {Junk})
        /\ m_newmsg_pos' >= 0 => m_newmsg_pos' < m_newmsg'.units
    <3> DEFINE ok == /\ new.good
                     /\ \A i \in 1..n : recvbuf[c + i] = [msg |-> new.msg, at |-> HeaderUnits + pos + i]
    <3>1. ok \in BOOLEAN
      <4>1. new.good \in BOOLEAN
        BY DEF Incoming
      <4> QED BY <4>1
    <3>2. \/ /\ pos + n < new.units /\ m_newmsg_pos' = pos + n
             /\ m_newmsg' = [msg |-> new.msg, units |-> new.units, good |-> ok]
             /\ got' = got /\ closed' = closed
          \/ /\ m_newmsg_pos' = -1 /\ m_newmsg' = NoMessage
             /\ \/ closed' = TRUE /\ got' = got
                \/ closed' = closed /\ got' = Append(got, new.msg)
      BY <2>1 DEF Taken
    <3> HIDE DEF ok
    <3>3. [msg |-> new.msg, units |-> new.units, good |-> ok] \in Incoming
      BY <2>2, <3>1 DEF Incoming
    <3>4. Append(got, new.msg) \in Seq(AnyMessage \cup {Junk})
      BY <2>2, <2>3, AppendProperties
    <3>5. CASE /\ pos + n < new.units /\ m_newmsg_pos' = pos + n
               /\ m_newmsg' = [msg |-> new.msg, units |-> new.units, good |-> ok]
               /\ got' = got /\ closed' = closed
      BY <2>3, <3>3, <3>5
    <3>6. CASE /\ m_newmsg_pos' = -1 /\ m_newmsg' = NoMessage
               /\ \/ closed' = TRUE /\ got' = got
                  \/ closed' = closed /\ got' = Append(got, new.msg)
      <4>1. ~(m_newmsg_pos' >= 0) /\ m_newmsg_pos' \in Nat \cup {-1}
        BY <3>6
      <4>2. m_newmsg' \in Incoming
        BY <2>2, <3>6
      <4>3. closed' \in BOOLEAN /\ got' \in Seq(AnyMessage \cup {Junk})
        BY <2>3, <3>4, <3>6
      <4> QED BY <4>1, <4>2, <4>3
    <3> QED BY <3>2, <3>5, <3>6
  <2>5. TypeOK' /\ Receiving'
    BY <1>1, <1>2, <1>8, <2>3, <2>4 DEF RecvMessage, TypeOK, Receiving, sendvars
  <2> QED BY <1>3, <2>5 DEF QueueInv
<1>9. CASE UNCHANGED vars
  <2>1. TypeOK' /\ Receiving'
    BY <1>1, <1>9 DEF vars, TypeOK, Receiving, recvvars, sendvars
  <2> QED BY <1>3, <2>1 DEF QueueInv
<1> QED BY <1>4, <1>5, <1>6, <1>7, <1>8, <1>9

LEMMA QueueStarts == Init => QueueInv
<1> SUFFICES ASSUME Init PROVE QueueInv
  OBVIOUS
<1>1. m_msg = <<>> /\ m_msg_bsent = -1 /\ written = <<>> /\ handed = <<>> /\ ~(m_msg_bsent >= 0)
  BY DEF Init
<1>2. TypeOK
  <2>1. NoMessage \in Incoming /\ Junk \in AnyMessage \cup {Junk}
    BY DEF NoMessage, Incoming
  <2>2. /\ handed \in Seq(Message) /\ m_msg \in Seq(AnyMessage) /\ written \in Seq(AnyMessage)
        /\ sendbuf \in Seq(Cell) /\ recvbuf \in Seq(Cell) /\ got \in Seq(AnyMessage \cup {Junk})
    BY DEF Init
  <2>3. m_newmsg \in Incoming /\ spoiled \subseteq Message /\ inrun \in BOOLEAN /\ closed \in BOOLEAN
    BY <2>1 DEF Init
  <2>4. m_msg_bsent \in Nat \cup {-1} /\ m_newmsg_pos \in Nat \cup {-1} /\ m_stat_drop \in Nat
    BY DEF Init
  <2> QED BY <2>2, <2>3, <2>4 DEF TypeOK
<1>3. Waiting = <<>>
  <2>1. FirstFree(m_msg_bsent) = 1 /\ Len(m_msg) = 0
    BY <1>1 DEF FirstFree
  <2> QED BY <2>1, SubSeqEmpty DEF Waiting
<1>4. Flow = <<>>
  BY <1>1, <1>3 DEF Flow
<1>5. FlowInv
  BY <1>1, <1>3, <1>4 DEF FlowInv, Once, HandedIn, Fifo, InOrder, FillerOnce
<1>6. InFlight /\ Len(m_msg) <= QueueLen
  BY <1>1, Types DEF InFlight
<1>7. Receiving
  BY DEF Init, Receiving
<1> QED BY <1>2, <1>5, <1>6, <1>7 DEF QueueInv

LEMMA QueueStep == QueueInv /\ [Next]_vars => QueueInv'
BY SendKeeps, RunSendKeeps, TurnKeeps, RestKeeps DEF Next

\* QueueInv is an inductive invariant.
THEOREM QueueInvariant == Spec => []QueueInv
BY QueueStarts, QueueStep, PTL DEF Spec

-----------------------------------------------------------------------------
(* What the queue promises                                                 *)

\* What is kept, waiting or written, by its place in Flow.
LEMMA KeptIs ==
  ASSUME QueueInv, NEW m
  PROVE  m \in Range(m_msg) \cup Range(written) <=> \E k \in 1..Len(Flow) : Flow[k] = m
<1> DEFINE w == Waiting  f == Flow
<1>1. /\ TypeOK /\ InFlight /\ w \in Seq(AnyMessage) /\ f \in Seq(AnyMessage)
      /\ m_msg_bsent < 0 => w = m_msg
      /\ m_msg_bsent >= 0 => w = Tail(m_msg)
  BY WaitingNow DEF QueueInv
<1>2. m_msg \in Seq(AnyMessage) /\ written \in Seq(AnyMessage) /\ m_msg_bsent \in Nat \cup {-1}
  BY <1>1 DEF TypeOK
<1>3. Len(f) = Len(written) + Len(w) /\ Len(written) \in Nat /\ Len(w) \in Nat
      /\ \A i \in 1..(Len(written) + Len(w)) :
           f[i] = IF i <= Len(written) THEN written[i] ELSE w[i - Len(written)]
  BY <1>1, <1>2, ConcatProperties DEF Flow
<1>4. (m \in Range(m_msg) <=> \E i \in 1..Len(m_msg) : m_msg[i] = m)
      /\ (m \in Range(written) <=> \E i \in 1..Len(written) : written[i] = m)
  BY <1>2 DEF Range
<1> HIDE DEF w, f
<1>5. (\E k \in 1..Len(f) : f[k] = m) <=>
        (\E i \in 1..Len(written) : written[i] = m) \/ (\E i \in 1..Len(w) : w[i] = m)
  <2>1. ASSUME NEW i \in 1..Len(w) PROVE i + Len(written) \in 1..Len(f) /\ f[i + Len(written)] = w[i]
    BY <1>3
  <2>2. ASSUME NEW i \in 1..Len(written) PROVE i \in 1..Len(f) /\ f[i] = written[i]
    BY <1>3
  <2>3. ASSUME NEW k \in 1..Len(f)
        PROVE  \/ k \in 1..Len(written) /\ f[k] = written[k]
               \/ k - Len(written) \in 1..Len(w) /\ f[k] = w[k - Len(written)]
    BY <1>3
  <2>4. ASSUME NEW k \in 1..Len(f), f[k] = m
        PROVE  (\E i \in 1..Len(written) : written[i] = m) \/ (\E i \in 1..Len(w) : w[i] = m)
    BY <2>3, <2>4
  <2>5. ASSUME NEW i \in 1..Len(w), w[i] = m PROVE \E k \in 1..Len(f) : f[k] = m
    BY <2>1, <2>5
  <2>6. ASSUME NEW i \in 1..Len(written), written[i] = m PROVE \E k \in 1..Len(f) : f[k] = m
    BY <2>2, <2>6
  <2> QED BY <2>4, <2>5, <2>6
<1>6. CASE m_msg_bsent < 0
  BY <1>1, <1>4, <1>5, <1>6 DEF f
<1>7. CASE ~(m_msg_bsent < 0)
  <2>1. m_msg_bsent >= 0 /\ m_msg # <<>> /\ written # <<>> /\ Head(m_msg) = written[Len(written)]
    BY <1>1, <1>2, <1>7 DEF InFlight
  <2>2. w = Tail(m_msg) /\ Len(w) = Len(m_msg) - 1 /\ (\A i \in 1..Len(w) : w[i] = m_msg[i + 1])
        /\ Head(m_msg) = m_msg[1] /\ Len(m_msg) \in Nat /\ Len(m_msg) >= 1
    <3>1. w = Tail(m_msg)
      BY <1>1, <2>1
    <3>2. /\ Len(Tail(m_msg)) = Len(m_msg) - 1
          /\ \A i \in 1..Len(Tail(m_msg)) : Tail(m_msg)[i] = m_msg[i + 1]
      BY <1>2, <2>1, HeadTailProperties
    <3>3. Head(m_msg) = m_msg[1] /\ Len(m_msg) \in Nat /\ Len(m_msg) >= 1
      BY <1>2, <2>1
    <3> QED BY <3>1, <3>2, <3>3
  <2>3. Len(written) \in 1..Len(written)
    BY <1>2, <2>1
  <2>4. ASSUME NEW i \in 1..Len(m_msg)
        PROVE  m_msg[i] = written[Len(written)] \/ (i - 1 \in 1..Len(w) /\ m_msg[i] = w[i - 1])
    BY <2>1, <2>2
  <2>5. ASSUME NEW i \in 1..Len(w) PROVE i + 1 \in 1..Len(m_msg) /\ m_msg[i + 1] = w[i]
    BY <2>2
  <2> QED BY <1>4, <1>5, <2>3, <2>4, <2>5 DEF f
<1> QED BY <1>6, <1>7

LEMMA OrderHolds ==
  ASSUME QueueInv
  PROVE  QueueInOrder
<1>1. TypeOK /\ InFlight /\ FlowInv
  BY DEF QueueInv
<1>2. Waiting \in Seq(AnyMessage) /\ handed \in Seq(Message)
  BY <1>1, WaitingNow DEF TypeOK
<1>3. \A i, j \in DOMAIN Waiting : i < j => Priority[Waiting[i]] <= Priority[Waiting[j]]
  BY <1>1, <1>2 DEF FlowInv, InOrder
<1>4. ASSUME NEW a \in Range(handed) \ Lost, NEW b \in Range(handed) \ Lost,
             Before(handed, a, b), Priority[a] = Priority[b]
      PROVE  Before(written \o Waiting, a, b)
  <2> DEFINE f == Flow
  <2>1. PICK i \in 1..Len(handed), j \in 1..Len(handed) : i < j /\ handed[i] = a /\ handed[j] = b
    BY <1>2, <1>4 DEF Before
  <2>2. PICK k \in 1..Len(f) : f[k] = a
    BY <1>4, KeptIs DEF Lost
  <2>3. PICK l \in 1..Len(f) : f[l] = b
    BY <1>4, KeptIs DEF Lost
  <2>4. k < l
    BY <1>1, <1>4, <2>1, <2>2, <2>3 DEF FlowInv, Fifo
  <2>5. DOMAIN f = 1..Len(f)
    BY <1>1, WaitingNow
  <2>6. Before(f, a, b)
    <3> HIDE DEF f
    <3> QED BY <2>2, <2>3, <2>4, <2>5 DEF Before
  <2> QED BY <2>6 DEF Flow
<1> QED BY <1>1, <1>3, <1>4 DEF QueueInOrder, InFlight

\* The head stays while part of it is on the wire, the queue is in the order of
\* message_prio, and messages of one priority go out in the order of send_message.
THEOREM QueueStaysInOrder == Spec => []QueueInOrder
BY QueueInvariant, OrderHolds, PTL

-----------------------------------------------------------------------------
(* What a full queue loses                                                 *)

\* MSGPRIO_LOCAL_SATURATE is "lowest possible priority": every message of the program
\* goes before the filler.
FillerIsLeast == \A m \in Message : Priority[m] < Priority[Filler]

\* With room everything stays; without, one message goes, the least urgent and of those
\* the last that was handed in.
LosesLeast(w, w2, h, m, full) ==
  LET Stays(x) == \E j \in 1..Len(w2) : w2[j] = x
  IN  /\ ~full => Stays(m) /\ \A i \in 1..Len(w) : Stays(w[i])
      /\ full => \E z :
           /\ z = m \/ \E i \in 1..Len(w) : w[i] = z
           /\ ~Stays(z)
           /\ m # z => Stays(m)
           /\ \A i \in 1..Len(w) : w[i] # z => Stays(w[i])
           /\ \A k \in 1..Len(w2) :
                \/ Priority[w2[k]] < Priority[z]
                \/ Priority[w2[k]] = Priority[z] /\ Before(Append(h, m), w2[k], z)

LEMMA PutLoses ==
  ASSUME NEW s \in Seq(AnyMessage), NEW w \in Seq(AnyMessage), NEW w2 \in Seq(AnyMessage),
         NEW h \in Seq(Message), NEW m \in Message, NEW p \in Nat, NEW full \in BOOLEAN,
         PutAt(w, w2, m, p, full), \A i \in 1..Len(h) : h[i] # m, FillerIsLeast,
         Once(s \o w), HandedIn(s \o w, h), Fifo(s \o w, h), InOrder(w), FillerOnce(w)
  PROVE  LosesLeast(w, w2, h, m, full)
<1> DEFINE h2 == Append(h, m)  n == Len(w)
           Stays(x) == \E j \in 1..Len(w2) : w2[j] = x
           Worst(z) == \A k \in 1..Len(w2) :
                         \/ Priority[w2[k]] < Priority[z]
                         \/ Priority[w2[k]] = Priority[z] /\ Before(h2, w2[k], z)
<1>1. /\ h2 \in Seq(Message) /\ Len(h2) = Len(h) + 1 /\ Len(h) \in Nat /\ DOMAIN h2 = 1..(Len(h) + 1)
      /\ \A i \in 1..Len(h) : h2[i] = h[i]
      /\ h2[Len(h) + 1] = m
  BY AppendProperties
<1>2. /\ n \in Nat /\ Len(w2) \in Nat /\ m # Filler /\ Filler \in AnyMessage /\ m \in AnyMessage
      /\ \A x \in AnyMessage : Priority[x] \in Nat
      /\ \A i \in 1..n : w[i] \in AnyMessage
      /\ \A i \in 1..Len(w2) : w2[i] \in AnyMessage
  BY Types
<1> HIDE DEF h2, n
<1>3. \A x \in AnyMessage : Priority[x] = Priority[Filler] => x = Filler
  <2> SUFFICES ASSUME NEW x \in AnyMessage, x # Filler PROVE Priority[x] # Priority[Filler]
    OBVIOUS
  <2>1. x \in Message /\ Priority[x] < Priority[Filler]
    BY DEF AnyMessage, FillerIsLeast
  <2>2. Priority[x] \in Nat /\ Priority[Filler] \in Nat
    BY <1>2
  <2> QED BY <2>1, <2>2
\* The same of w alone, behind what was written.
<1>4. /\ \A i, j \in 1..n : w[i] = w[j] => i = j
      /\ \A i \in 1..n : w[i] # Filler => \E a \in 1..Len(h) : w[i] = h[a]
      /\ \A a, b \in 1..Len(h), i, j \in 1..n :
           a < b /\ w[i] = h[a] /\ w[j] = h[b] /\ Priority[h[a]] = Priority[h[b]] => i < j
  <2> DEFINE f == s \o w
  <2>1. Len(f) = Len(s) + n /\ Len(s) \in Nat
        /\ \A i \in 1..(Len(s) + n) : f[i] = IF i <= Len(s) THEN s[i] ELSE w[i - Len(s)]
    BY ConcatProperties DEF n
  <2>2. Once(f) /\ HandedIn(f, h) /\ Fifo(f, h)
    OBVIOUS
  <2> HIDE DEF f
  <2>3. ASSUME NEW i \in 1..n PROVE i + Len(s) \in 1..Len(f) /\ f[i + Len(s)] = w[i]
    <3> DEFINE l == Len(s)
    <3>1. l \in Nat /\ i + l \in 1..(l + n) /\ ~(i + l <= l) /\ i + l - l = i
      BY <1>2, <2>1
    <3>2. f[i + l] = IF i + l <= l THEN s[i + l] ELSE w[i + l - l]
      BY <2>1, <3>1
    <3> HIDE DEF l
    <3>3. f[i + l] = w[i]
      BY <3>1, <3>2
    <3>4. i + l \in 1..Len(f)
      BY <2>1, <3>1 DEF l
    <3> QED BY <3>3, <3>4 DEF l
  <2>4. ASSUME NEW i \in 1..n, NEW j \in 1..n, w[i] = w[j] PROVE i = j
    <3>1. CASE w[i] = Filler
      BY <2>4, <3>1 DEF FillerOnce, n
    <3>2. CASE w[i] # Filler
      <4>1. i + Len(s) = j + Len(s)
        BY <2>2, <2>3, <2>4, <3>2 DEF Once
      <4> QED BY <2>1, <4>1
    <3> QED BY <3>1, <3>2
  <2>5. ASSUME NEW i \in 1..n, w[i] # Filler PROVE \E a \in 1..Len(h) : w[i] = h[a]
    <3>1. i + Len(s) \in 1..Len(f) /\ f[i + Len(s)] = w[i]
      BY <2>3
    <3>2. \E a \in 1..Len(h) : f[i + Len(s)] = h[a]
      BY <2>2, <2>5, <3>1 DEF HandedIn
    <3> QED BY <3>1, <3>2
  <2>6. ASSUME NEW a \in 1..Len(h), NEW b \in 1..Len(h), NEW i \in 1..n, NEW j \in 1..n,
               a < b, w[i] = h[a], w[j] = h[b], Priority[h[a]] = Priority[h[b]]
        PROVE  i < j
    <3>1. i + Len(s) < j + Len(s)
      BY <2>2, <2>3, <2>6 DEF Fifo
    <3> QED BY <2>1, <3>1
  <2> QED BY <2>4, <2>5, <2>6
<1>5. \A i \in 1..n : w[i] # m
  BY <1>2, <1>4
<1>6. CASE w2 = w
  <2>1. full
    BY <1>6 DEF PutAt
  <2>2. p = n + 1 \/ Len(w2) # Len(w)
    <3>1. p \in 1..(n + 1)
      BY DEF PutAt, n
    <3>2. p <= n => w2[p] = m
      BY <1>2, <1>6, <3>1 DEF PutAt, n
    <3> QED BY <1>2, <1>5, <1>6, <3>1, <3>2
  <2>3. p = n + 1
    BY <1>6, <2>2
  <2>4. Worst(m)
    <3> SUFFICES ASSUME NEW k \in 1..n
                 PROVE  \/ Priority[w[k]] < Priority[m]
                        \/ Priority[w[k]] = Priority[m] /\ Before(h2, w[k], m)
      BY <1>6 DEF n
    <3>1. Priority[w[k]] <= Priority[m]
      BY <1>2, <2>3 DEF PutAt, n
    <3>2. Priority[w[k]] \in Nat /\ Priority[m] \in Nat
      BY <1>2
    <3>3. ASSUME Priority[w[k]] = Priority[m] PROVE Before(h2, w[k], m)
      <4>1. w[k] # Filler
        BY <1>2, <1>3, <3>3
      <4>2. PICK a \in 1..Len(h) : w[k] = h[a]
        BY <1>4, <4>1
      <4>3. a \in DOMAIN h2 /\ Len(h) + 1 \in DOMAIN h2 /\ a < Len(h) + 1 /\ h2[a] = w[k]
            /\ h2[Len(h) + 1] = m
        BY <1>1, <4>2
      <4> QED BY <4>3 DEF Before
    <3> QED BY <3>1, <3>2, <3>3
  <2>5. ~Stays(m)
    BY <1>5, <1>6 DEF n
  <2>6. \A i \in 1..Len(w) : Stays(w[i])
    BY <1>6
  <2> HIDE DEF Stays, Worst
  <2>7. \E z : /\ z = m \/ \E i \in 1..Len(w) : w[i] = z
               /\ ~Stays(z)
               /\ m # z => Stays(m)
               /\ \A i \in 1..Len(w) : w[i] # z => Stays(w[i])
               /\ Worst(z)
    BY <2>4, <2>5, <2>6
  <2> QED BY <2>1, <2>7 DEF Stays, Worst, h2, LosesLeast
<1>7. CASE w2 # w
  <2>1. /\ p \in 1..(n + 1) /\ p <= Len(w2) /\ Len(w2) = IF full THEN n ELSE n + 1
        /\ \A i \in 1..Len(w2) : w2[i] = IF i < p THEN w[i] ELSE IF i = p THEN m ELSE w[i - 1]
        /\ p <= n => Priority[m] < Priority[w[p]]
    BY <1>7 DEF PutAt, n
  <2>2. Stays(m)
    <3>1. p \in 1..Len(w2) /\ w2[p] = m
      BY <1>2, <2>1
    <3> QED BY <3>1
  <2>3. ASSUME NEW i \in 1..n, ~full \/ i < n PROVE Stays(w[i])
    <3>1. CASE i < p
      <4>1. i \in 1..Len(w2) /\ w2[i] = w[i]
        BY <1>2, <2>1, <3>1
      <4> QED BY <4>1
    <3>2. CASE i >= p
      <4>1. i + 1 \in 1..Len(w2) /\ ~(i + 1 < p) /\ i + 1 # p /\ i + 1 - 1 = i
        BY <1>2, <2>1, <2>3, <3>2
      <4>2. w2[i + 1] = w[i]
        BY <2>1, <4>1
      <4> QED BY <4>1, <4>2
    <3> QED BY <2>1, <3>1, <3>2
  <2>4. CASE ~full
    <3>1. \A i \in 1..Len(w) : Stays(w[i])
      BY <2>3, <2>4 DEF n
    <3> QED BY <2>2, <2>4, <3>1 DEF LosesLeast
  <2>5. CASE full
    <3> DEFINE z == w[n]
    <3>1. n >= 1 /\ n \in 1..n /\ Len(w2) = n /\ p <= n /\ z \in AnyMessage /\ z # m
      BY <1>2, <1>5, <2>1, <2>5
    <3>2. Priority[m] < Priority[z]
      <4>1. Priority[m] < Priority[w[p]] /\ p \in 1..n
        BY <1>2, <2>1, <3>1
      <4>2. p < n => Priority[w[p]] <= Priority[w[n]]
        BY <3>1, <4>1 DEF InOrder, n
      <4>3. Priority[m] \in Nat /\ Priority[w[p]] \in Nat /\ Priority[z] \in Nat
        BY <1>2, <3>1, <4>1
      <4>4. p = n \/ p < n
        BY <3>1, <4>1
      <4> QED BY <4>1, <4>2, <4>3, <4>4
    <3>3. ASSUME NEW k \in 1..n, k # p
          PROVE  \E i \in 1..n : i < n /\ w2[k] = w[i]
      <4>1. CASE k < p
        BY <2>1, <3>1, <4>1
      <4>2. CASE k > p
        <5>1. k - 1 \in 1..n /\ k - 1 < n /\ ~(k < p) /\ k # p
          BY <1>2, <2>1, <3>1, <4>2
        <5> QED BY <2>1, <3>1, <5>1
      <4> QED BY <2>1, <3>3, <4>1, <4>2
    <3>4. w2[p] = m
      BY <2>1, <3>1
    <3>5. ~Stays(z)
      <4> SUFFICES ASSUME NEW j \in 1..n, w2[j] = z PROVE FALSE
        BY <3>1
      <4>1. j # p
        BY <3>1, <3>4
      <4>2. PICK i \in 1..n : i < n /\ w2[j] = w[i]
        BY <3>3, <4>1
      <4>3. i = n
        BY <1>4, <3>1, <4>2
      <4> QED BY <3>1, <4>2, <4>3
    <3>6. \A i \in 1..n : w[i] # z => Stays(w[i])
      <4> SUFFICES ASSUME NEW i \in 1..n, w[i] # z PROVE Stays(w[i])
        OBVIOUS
      <4>1. i # n
        OBVIOUS
      <4>2. i < n
        BY <1>2, <4>1
      <4> QED BY <2>3, <4>2
    <3>7. Worst(z)
      <4> SUFFICES ASSUME NEW k \in 1..n
                   PROVE  \/ Priority[w2[k]] < Priority[z]
                          \/ Priority[w2[k]] = Priority[z] /\ Before(h2, w2[k], z)
        BY <3>1
      <4>1. CASE k = p
        BY <3>2, <3>4, <4>1
      <4>2. CASE k # p
        <5>1. PICK i \in 1..n : i < n /\ w2[k] = w[i]
          BY <3>3, <4>2
        <5>2. Priority[w[i]] <= Priority[z]
          BY <3>1, <5>1 DEF InOrder, n
        <5>3. Priority[w[i]] \in Nat /\ Priority[z] \in Nat /\ w[i] \in AnyMessage
          BY <1>2, <3>1
        <5>4. ASSUME Priority[w[i]] = Priority[z] PROVE Before(h2, w[i], z)
          <6>0. i # n /\ w[i] # z
            <7>1. i # n
              BY <3>1, <5>1
            <7> QED BY <1>4, <3>1, <7>1
          <6>1. z # Filler /\ w[i] # Filler
            <7>1. z = Filler => w[i] = Filler
              BY <1>3, <5>3, <5>4
            <7>2. w[i] = Filler => z = Filler
              BY <1>3, <3>1, <5>4
            <7> QED BY <6>0, <7>1, <7>2
          <6>2. PICK a \in 1..Len(h) : w[i] = h[a]
            BY <1>4, <6>1
          <6>3. PICK b \in 1..Len(h) : z = h[b]
            BY <1>4, <3>1, <6>1
          <6>4. a # b
            BY <6>0, <6>2, <6>3
          <6>5. ~(b < a)
            <7> SUFFICES ASSUME b < a PROVE FALSE
              OBVIOUS
            <7>1. n < i
              BY <1>4, <3>1, <5>4, <6>2, <6>3
            <7> QED BY <1>2, <5>1, <7>1
          <6>6. a < b
            BY <6>4, <6>5
          <6>7. a \in DOMAIN h2 /\ b \in DOMAIN h2 /\ h2[a] = w[i] /\ h2[b] = z
            BY <1>1, <6>2, <6>3
          <6> HIDE DEF z
          <6> QED BY <6>6, <6>7 DEF Before
        <5> QED BY <5>1, <5>2, <5>3, <5>4
      <4> QED BY <4>1, <4>2
    <3>8. \E i \in 1..Len(w) : w[i] = z
      BY <3>1 DEF n
    <3>9. \A i \in 1..Len(w) : w[i] # z => Stays(w[i])
      BY <3>6 DEF n
    <3> HIDE DEF Stays, Worst, z
    <3>10. \E y : /\ y = m \/ \E i \in 1..Len(w) : w[i] = y
                  /\ ~Stays(y)
                  /\ m # y => Stays(m)
                  /\ \A i \in 1..Len(w) : w[i] # y => Stays(w[i])
                  /\ Worst(y)
      BY <2>2, <3>5, <3>7, <3>8, <3>9
    <3> QED BY <2>5, <3>10 DEF Stays, Worst, h2, LosesLeast
  <2> QED BY <2>4, <2>5
<1> QED BY <1>6, <1>7

\* The queue is the head in flight and what waits.
LEMMA QueueRange ==
  ASSUME NEW q \in Seq(AnyMessage), NEW b \in Nat \cup {-1}, b >= 0 => q # <<>>, NEW x
  PROVE  x \in Range(q) <=>
           \/ \E i \in 1..Len(SubSeq(q, FirstFree(b), Len(q))) : SubSeq(q, FirstFree(b), Len(q))[i] = x
           \/ b >= 0 /\ x = Head(q)
<1> DEFINE w == SubSeq(q, FirstFree(b), Len(q))
<1>1. x \in Range(q) <=> \E i \in 1..Len(q) : q[i] = x
  BY DEF Range
<1>2. PICK off \in {0, 1} : /\ off = IF b >= 0 THEN 1 ELSE 0
                            /\ Len(w) = Len(q) - off
                            /\ \A i \in 1..Len(w) : w[i] = q[i + off]
  BY WaitingIs
<1>3. Len(q) \in Nat /\ (off = 1 => Len(q) >= 1 /\ Head(q) = q[1])
  BY <1>2
<1> HIDE DEF w
<1>4. ASSUME NEW i \in 1..Len(q)
      PROVE  (off = 1 /\ q[i] = Head(q)) \/ (i - off \in 1..Len(w) /\ w[i - off] = q[i])
  <2>1. CASE i - off = 0
    BY <1>2, <1>3, <2>1
  <2>2. CASE i - off # 0
    <3>1. i - off \in 1..Len(w) /\ i - off + off = i
      BY <1>2, <1>3, <2>2
    <3> QED BY <1>2, <3>1
  <2> QED BY <2>1, <2>2
<1>5. ASSUME NEW i \in 1..Len(w) PROVE i + off \in 1..Len(q) /\ q[i + off] = w[i]
  BY <1>2, <1>3
<1>6. off = 1 <=> b >= 0
  BY <1>2
<1>7. off = 1 => 1 \in 1..Len(q) /\ Head(q) = q[1]
  BY <1>3
<1>8. ASSUME NEW i \in 1..Len(q), q[i] = x
      PROVE  (\E k \in 1..Len(w) : w[k] = x) \/ (b >= 0 /\ x = Head(q))
  BY <1>4, <1>6, <1>8
<1>9. ASSUME NEW i \in 1..Len(w), w[i] = x PROVE x \in Range(q)
  BY <1>1, <1>5, <1>9
<1>10. ASSUME b >= 0, x = Head(q) PROVE x \in Range(q)
  BY <1>1, <1>6, <1>7, <1>10
<1> QED BY <1>1, <1>8, <1>9, <1>10 DEF w

LEMMA SendLoses ==
  ASSUME FillerIsLeast, QueueInv, NEW m \in Message, SendMessage(m)
  PROVE  /\ m_stat_drop' - m_stat_drop = Cardinality(Thrown)
         /\ Thrown # {} => Len(m_msg) = QueueLen
         /\ \A y \in Thrown, k \in Range(Waiting') :
               \/ Priority[k] < Priority[y]
               \/ Priority[k] = Priority[y] /\ Before(handed', k, y)
<1> DEFINE b == m_msg_bsent  full == Len(m_msg) = QueueLen
           w == Waiting  w2 == Waiting'  s == written  h == handed  h2 == Append(handed, m)
           Stays(x) == \E j \in 1..Len(w2) : w2[j] = x
<1>1. TypeOK /\ InFlight /\ FlowInv /\ Len(m_msg) <= QueueLen /\ QueueInv'
  BY SendKeeps DEF QueueInv
<1>2. /\ handed' = h2 /\ m_msg' = Enqueue(m_msg, b, m)
      /\ m_stat_drop' = m_stat_drop + Dropped(m_msg) /\ m_msg_bsent' = b /\ m \notin Range(handed)
  BY DEF SendMessage
<1>3. \A i \in 1..Len(h) : h[i] # m
  <2>1. h \in Seq(Message)
    BY <1>1 DEF TypeOK
  <2> QED BY <1>2, <2>1 DEF Range
<1>4. /\ m_msg \in Seq(AnyMessage) /\ b \in Nat \cup {-1} /\ m \in AnyMessage /\ (b >= 0 => m_msg # <<>>)
      /\ s \in Seq(AnyMessage) /\ h \in Seq(Message) /\ m_stat_drop \in Nat
      /\ w \in Seq(AnyMessage) /\ m # Filler
  BY <1>1, Types, WaitingNow DEF TypeOK, InFlight
<1>5. /\ m_msg' \in Seq(AnyMessage) /\ m_msg' # <<>>
      /\ b >= 0 => Head(m_msg') = Head(m_msg)
      /\ \E p \in Nat : PutAt(w, w2, m, p, full)
  <2> HIDE DEF b
  <2>1. LET q2 == Enqueue(m_msg, b, m)
            v == SubSeq(m_msg, FirstFree(b), Len(m_msg))
            v2 == SubSeq(q2, FirstFree(b), Len(q2))
        IN  /\ q2 \in Seq(AnyMessage) /\ q2 # <<>>
            /\ b >= 0 => Head(q2) = Head(m_msg)
            /\ \E p \in Nat : PutAt(v, v2, m, p, Len(m_msg) = QueueLen)
    BY <1>1, <1>4, EnqueueIs
  <2>2. /\ SubSeq(m_msg, FirstFree(b), Len(m_msg)) = w
        /\ SubSeq(m_msg', FirstFree(b), Len(m_msg')) = w2
    BY <1>2 DEF Waiting, b
  <2> QED BY <1>2, <2>1, <2>2
<1>6. w2 \in Seq(AnyMessage)
  <2>1. (TypeOK /\ InFlight)'
    BY <1>1 DEF QueueInv
  <2>2. (TypeOK /\ InFlight => Waiting \in Seq(AnyMessage))'
    BY WaitingNow, PTL
  <2> QED BY <2>1, <2>2
<1>7. Once(s \o w) /\ HandedIn(s \o w, h) /\ Fifo(s \o w, h) /\ InOrder(w) /\ FillerOnce(w)
  BY <1>1 DEF FlowInv, Flow
<1>8. \A x : x \in Range(m_msg) <=> (\E i \in 1..Len(w) : w[i] = x) \/ (b >= 0 /\ x = Head(m_msg))
  <2> HIDE DEF b
  <2>1. w = SubSeq(m_msg, FirstFree(b), Len(m_msg))
    BY DEF Waiting, b
  <2> HIDE DEF w
  <2> QED BY <1>4, <2>1, QueueRange
<1>9. \A x : x \in Range(m_msg') <=> Stays(x) \/ (b >= 0 /\ x = Head(m_msg))
  <2> DEFINE q2 == m_msg'
  <2>1. q2 \in Seq(AnyMessage) /\ (b >= 0 => q2 # <<>>) /\ (b >= 0 => Head(q2) = Head(m_msg))
    BY <1>5
  <2>2. w2 = SubSeq(q2, FirstFree(b), Len(q2))
    BY <1>2 DEF Waiting
  <2> HIDE DEF b, q2, w2
  <2>3. \A x : x \in Range(q2) <=> (\E i \in 1..Len(w2) : w2[i] = x) \/ (b >= 0 /\ x = Head(q2))
    BY <1>4, <2>1, <2>2, QueueRange
  <2> QED BY <2>1, <2>3 DEF q2
\* The head in flight is no message that waits, and not the new one.
<1>10. b >= 0 => Head(m_msg) # m /\ \A i \in 1..Len(w) : w[i] # Head(m_msg)
  <2> SUFFICES ASSUME b >= 0 PROVE Head(m_msg) # m /\ \A i \in 1..Len(w) : w[i] # Head(m_msg)
    OBVIOUS
  <2> DEFINE f == s \o w
  <2>1. /\ s # <<>> /\ Head(m_msg) = s[Len(s)] /\ (Head(m_msg) = Filler => \A i \in 1..Len(w) : w[i] # Filler)
    BY <1>1 DEF InFlight
  <2>2. /\ Len(s) \in Nat /\ Len(s) >= 1 /\ Len(w) \in Nat /\ Len(f) = Len(s) + Len(w)
        /\ \A i \in 1..(Len(s) + Len(w)) : f[i] = IF i <= Len(s) THEN s[i] ELSE w[i - Len(s)]
    <3>1. Len(s) \in Nat /\ Len(s) >= 1 /\ Len(w) \in Nat
      BY <1>4, <2>1
    <3> QED BY <1>4, <3>1, ConcatProperties
  <2> DEFINE l == Len(s)
  <2>3. l \in 1..Len(f) /\ f[l] = Head(m_msg)
    BY <2>1, <2>2
  <2>4. Once(f) /\ HandedIn(f, h)
    BY <1>7
  <2> HIDE DEF f
  <2>5. Head(m_msg) # m
    <3>1. Head(m_msg) # Filler => \E a \in 1..Len(h) : Head(m_msg) = h[a]
      BY <2>3, <2>4 DEF HandedIn
    <3> QED BY <1>3, <1>4, <3>1
  <2>6. ASSUME NEW i \in 1..Len(w), w[i] = Head(m_msg), Head(m_msg) # Filler PROVE FALSE
    <3>1. i + l \in 1..(l + Len(w)) /\ ~(i + l <= l) /\ i + l - l = i /\ i + l # l
      BY <2>2
    <3>2. f[i + l] = IF i + l <= l THEN s[i + l] ELSE w[i + l - l]
      BY <2>2, <3>1
    <3>3. i + l \in 1..Len(f)
      BY <2>2, <3>1
    <3> HIDE DEF l
    <3>4. f[i + l] = w[i]
      BY <3>1, <3>2
    <3> QED BY <2>3, <2>4, <2>6, <3>1, <3>3, <3>4 DEF Once
  <2> QED BY <2>1, <2>5, <2>6
<1>11. Thrown = {x \in Range(m_msg) \cup {m} : x \notin Range(m_msg')}
  <2>1. Range(handed') \ Range(handed) = {m}
    <3>1. /\ h2 \in Seq(Message) /\ Len(h2) = Len(h) + 1 /\ Len(h) \in Nat
          /\ \A i \in 1..Len(h) : h2[i] = h[i]
          /\ h2[Len(h) + 1] = m
      BY <1>4, AppendProperties
    <3>2. \A x : x \in Range(h) <=> \E i \in 1..Len(h) : h[i] = x
      BY <1>4 DEF Range
    <3> HIDE DEF h2
    <3>3. \A x : x \in Range(h2) <=> \E i \in 1..(Len(h) + 1) : h2[i] = x
      BY <3>1 DEF Range
    <3>4. Len(h) + 1 \in 1..(Len(h) + 1) /\ \A i \in 1..(Len(h) + 1) : i \in 1..Len(h) \/ i = Len(h) + 1
      BY <3>1
    <3>5. \A x : x \in Range(h2) <=> x \in Range(h) \/ x = m
      BY <3>1, <3>2, <3>3, <3>4
    <3> QED BY <1>2, <3>5
  <2> QED BY <2>1 DEF Thrown
<1>12. PICK p \in Nat : PutAt(w, w2, m, p, full)
  BY <1>5
<1>13. full \in BOOLEAN
  OBVIOUS
<1> HIDE DEF b, full, w, w2, s, h, h2
<1>14. /\ ~full => Stays(m) /\ \A i \in 1..Len(w) : Stays(w[i])
       /\ full => \E z :
            /\ z = m \/ \E i \in 1..Len(w) : w[i] = z
            /\ ~Stays(z)
            /\ m # z => Stays(m)
            /\ \A i \in 1..Len(w) : w[i] # z => Stays(w[i])
            /\ \A k \in 1..Len(w2) :
                 \/ Priority[w2[k]] < Priority[z]
                 \/ Priority[w2[k]] = Priority[z] /\ Before(Append(h, m), w2[k], z)
  <2>1. /\ s \in Seq(AnyMessage) /\ w \in Seq(AnyMessage) /\ w2 \in Seq(AnyMessage)
        /\ h \in Seq(Message) /\ full \in BOOLEAN
    BY <1>4, <1>6, <1>13
  <2>2. PutAt(w, w2, m, p, full) /\ \A i \in 1..Len(h) : h[i] # m
    BY <1>3, <1>12
  <2>3. LosesLeast(w, w2, h, m, full)
    BY <1>7, <2>1, <2>2, PutLoses
  <2> QED BY <2>3 DEF LosesLeast
<1>15. \A k \in Range(Waiting') : \E j \in 1..Len(w2) : k = w2[j]
  BY <1>6 DEF Range, w2
<1>16. CASE ~full
  <2>1. Thrown = {}
    BY <1>8, <1>9, <1>11, <1>14, <1>16
  <2>2. Dropped(m_msg) = 0
    BY <1>16 DEF Dropped, full
  <2> QED BY <1>2, <1>4, <2>1, <2>2, FS_EmptySet
<1>17. CASE full
  <2>1. PICK z :
          /\ z = m \/ \E i \in 1..Len(w) : w[i] = z
          /\ ~Stays(z)
          /\ m # z => Stays(m)
          /\ \A i \in 1..Len(w) : w[i] # z => Stays(w[i])
          /\ \A k \in 1..Len(w2) :
               \/ Priority[w2[k]] < Priority[z]
               \/ Priority[w2[k]] = Priority[z] /\ Before(Append(h, m), w2[k], z)
    BY <1>14, <1>17
  <2>2. ~(b >= 0 /\ z = Head(m_msg))
    BY <1>10, <2>1
  <2>3. z \in Thrown
    BY <1>8, <1>9, <1>11, <2>1, <2>2
  <2>4. \A x \in Thrown : x = z
    BY <1>8, <1>9, <1>11, <2>1
  <2>5. Thrown = {z}
    BY <2>3, <2>4
  <2>6. Cardinality(Thrown) = 1
    BY <2>5, FS_Singleton
  <2>7. Dropped(m_msg) = 1 /\ Len(m_msg) = QueueLen
    BY <1>17 DEF Dropped, full
  <2>8. \A k \in Range(Waiting') :
          \/ Priority[k] < Priority[z]
          \/ Priority[k] = Priority[z] /\ Before(Append(h, m), k, z)
    BY <1>15, <2>1
  <2>9. handed' = Append(h, m)
    BY <1>2 DEF h, h2
  <2>10. m_stat_drop' - m_stat_drop = 1
    BY <1>2, <1>4, <2>7
  <2> QED BY <2>4, <2>6, <2>7, <2>8, <2>9, <2>10
<1> QED BY <1>16, <1>17

LEMMA AllKept ==
  QueueInv => \A m : m \in Range(m_msg) \cup Range(written) <=> \E k \in 1..Len(Flow) : Flow[k] = m
BY KeptIs

LEMMA OtherLoses ==
  ASSUME QueueInv, [Next]_vars, \A m \in Message : ~SendMessage(m)
  PROVE  handed' = handed /\ Lost' = Lost /\ m_stat_drop' = m_stat_drop
<1>1. handed' = handed /\ m_stat_drop' = m_stat_drop
  BY DEF Next, RunSend, RunSendStop, RunSendTurn, Transmit, Damage, RefuseHeader, RecvMessage,
         vars, sendvars
<1>2. handed \in Seq(Message) /\ QueueInv'
  BY QueueStep DEF QueueInv, TypeOK
<1>3. Flow' = Flow \/ Flow' = Append(Flow, Filler)
  <2>1. CASE RunSend
    BY <2>1, RunSendKeeps
  <2>2. CASE RunSendTurn
    BY <2>2, TurnKeeps
  <2>3. CASE UNCHANGED <<m_msg, m_msg_bsent, written>>
    BY <2>3 DEF Flow, Waiting
  <2> QED BY <2>1, <2>2, <2>3
      DEF Next, RunSendStop, Transmit, Damage, RefuseHeader, RecvMessage, vars, sendvars
<1> DEFINE f == Flow  f2 == Flow'
<1>4. f \in Seq(AnyMessage) /\ Filler \in AnyMessage /\ (f2 = f \/ f2 = Append(f, Filler))
  BY <1>3, WaitingNow, Types DEF QueueInv
<1>5. \A m : m \in Range(m_msg) \cup Range(written) <=> \E k \in 1..Len(f) : f[k] = m
  BY KeptIs
<1>6. \A m : m \in Range(m_msg') \cup Range(written') <=> \E k \in 1..Len(f2) : f2[k] = m
  <2>1. (QueueInv => \A m : m \in Range(m_msg) \cup Range(written) <=> \E k \in 1..Len(Flow) : Flow[k] = m)'
    BY AllKept, PTL
  <2> QED BY <1>2, <2>1
<1> HIDE DEF f, f2
<1>7. \A m \in Message : (\E k \in 1..Len(f) : f[k] = m) <=> (\E k \in 1..Len(f2) : f2[k] = m)
  <2>1. CASE f2 = f
    BY <2>1
  <2>2. CASE f2 = Append(f, Filler)
    <3>1. /\ Len(f2) = Len(f) + 1 /\ Len(f) \in Nat
          /\ \A i \in 1..Len(f) : f2[i] = f[i]
          /\ f2[Len(f) + 1] = Filler
      BY <1>4, <2>2, AppendProperties
    <3>2. \A i \in 1..Len(f2) : i \in 1..Len(f) \/ i = Len(f) + 1
      BY <3>1
    <3>3. \A i \in 1..Len(f) : i \in 1..Len(f2)
      BY <3>1
    <3>4. \A m \in Message : m # Filler
      BY Types
    <3> QED BY <3>1, <3>2, <3>3, <3>4
  <2> QED BY <1>4, <2>1, <2>2
<1>8. \A x \in Range(handed) : x \in Message
  BY <1>2 DEF Range
<1> QED BY <1>1, <1>5, <1>6, <1>7, <1>8 DEF Lost

\* Only a full queue loses a message, one for each that is handed in: none more urgent
\* than what it keeps, and of its priority the newest.  m_stat_drop counts them.
THEOREM LeastUrgentIsLost ==
  ASSUME FillerIsLeast
  PROVE  Spec => LosesLeastUrgent
<1>1. QueueInv /\ [Next]_vars =>
        [IF handed' = handed THEN Lost' = Lost /\ m_stat_drop' = m_stat_drop
         ELSE /\ m_stat_drop' - m_stat_drop = Cardinality(Thrown)
              /\ Thrown # {} => Len(m_msg) = QueueLen
              /\ \A m \in Thrown, k \in Range(Waiting') :
                   \/ Priority[k] < Priority[m]
                   \/ Priority[k] = Priority[m] /\ Before(handed', k, m)]_vars
  <2> SUFFICES ASSUME QueueInv, [Next]_vars
               PROVE  IF handed' = handed THEN Lost' = Lost /\ m_stat_drop' = m_stat_drop
                      ELSE /\ m_stat_drop' - m_stat_drop = Cardinality(Thrown)
                           /\ Thrown # {} => Len(m_msg) = QueueLen
                           /\ \A m \in Thrown, k \in Range(Waiting') :
                                \/ Priority[k] < Priority[m]
                                \/ Priority[k] = Priority[m] /\ Before(handed', k, m)
    OBVIOUS
  <2>1. CASE \A m \in Message : ~SendMessage(m)
    BY <2>1, OtherLoses
  <2>2. CASE \E m \in Message : SendMessage(m)
    <3>1. PICK m \in Message : SendMessage(m)
      BY <2>2
    <3>2. handed' # handed
      <4>1. handed \in Seq(Message) /\ handed' = Append(handed, m)
        BY <3>1 DEF QueueInv, TypeOK, SendMessage
      <4>2. Len(handed') = Len(handed) + 1 /\ Len(handed) \in Nat
        BY <4>1, AppendProperties
      <4> QED BY <4>2
    <3> QED BY <3>1, <3>2, SendLoses
  <2> QED BY <2>1, <2>2
<1> QED BY <1>1, QueueInvariant, PTL DEF Spec, LosesLeastUrgent

-----------------------------------------------------------------------------
(* The stream while nothing is damaged                                     *)

LEMMA Induct ==
  ASSUME NEW S \in SUBSET Nat, 0 \in S, \A i \in S : i + 1 \in S
  PROVE  S = Nat
<1> SUFFICES ASSUME Nat \ S # {} PROVE FALSE
  OBVIOUS
<1>1. PICK x \in Nat \ S : \A y \in Nat \ S : x <= y
  BY LeastOf
<1>2. x # 0 /\ x - 1 \in Nat
  BY <1>1
<1>3. x - 1 \in S
  BY <1>1, <1>2
<1>4. x - 1 + 1 = x
  BY <1>1
<1> QED BY <1>1, <1>3, <1>4

\* Unit i of buf is unit A[i] of message K[i] of those written, and the one behind it is
\* the next of that message or the first of the message after.
Follows(K, A, buf, wr) ==
  /\ K \in [1..(Len(buf) + 1) -> Nat] /\ A \in [1..(Len(buf) + 1) -> Nat]
  /\ \A i \in 1..Len(buf) :
       LET end == HeaderUnits + Units[wr[K[i]]]
       IN  /\ K[i] \in 1..Len(wr) /\ 1 <= A[i] /\ A[i] <= end
           /\ buf[i] = [msg |-> wr[K[i]], at |-> A[i]]
           /\ K[i + 1] = IF A[i] < end THEN K[i] ELSE K[i] + 1
           /\ A[i + 1] = IF A[i] < end THEN A[i] + 1 ELSE 1

\* rest is buf without its first n units; buf2 is buf and n units of m behind unit a; the
\* i-th unit is the one behind unit a of message k, or the first of the next when k has no
\* more; wr2 goes on where wr ends.
Cut(rest, buf, n) ==
  n <= Len(buf) /\ Len(rest) = Len(buf) - n /\ \A i \in 1..Len(rest) : rest[i] = buf[n + i]
Longer(buf2, buf, m, a, n) ==
  /\ Len(buf2) = Len(buf) + n
  /\ \A i \in 1..Len(buf) : buf2[i] = buf[i]
  /\ \A i \in 1..n : buf2[Len(buf) + i] = [msg |-> m, at |-> a + i]
Stands(K, A, i, k, a) == K[i] = k /\ A[i] = a + 1
Fits(a, m) == a <= HeaderUnits + Units[m]
Begun(a, m) == a < HeaderUnits + Units[m]
Turned(K, A, i, k, a, m) ==
  IF a = HeaderUnits + Units[m] THEN K[i] = k + 1 /\ A[i] = 1 ELSE Stands(K, A, i, k, a)
GoesOn(wr2, wr) == Len(wr) <= Len(wr2) /\ \A i \in 1..Len(wr) : wr2[i] = wr[i]

\* The first n units, as long as they are of one message.
LEMMA Reads ==
  ASSUME NEW buf \in Seq(Cell), NEW wr \in Seq(AnyMessage), NEW K, NEW A, Follows(K, A, buf, wr),
         NEW k \in 1..Len(wr), NEW a \in Nat, NEW n \in Nat, Stands(K, A, 1, k, a),
         n <= Len(buf), Fits(a + n, wr[k])
  PROVE  /\ \A i \in 1..n : buf[i] = [msg |-> wr[k], at |-> a + i]
         /\ n >= 1 /\ a + n = HeaderUnits + Units[wr[k]] => K[n + 1] = k + 1 /\ A[n + 1] = 1
         /\ a + n < HeaderUnits + Units[wr[k]] => K[n + 1] = k /\ A[n + 1] = a + n + 1
<1> DEFINE end == HeaderUnits + Units[wr[k]]
           At(i) == /\ i >= 1 /\ a + i = end => K[i + 1] = k + 1 /\ A[i + 1] = 1
                    /\ a + i < end => K[i + 1] = k /\ A[i + 1] = a + i + 1
           S == {i \in Nat : i <= n => At(i)}
<1>1. end \in Nat /\ wr[k] \in AnyMessage /\ Len(buf) \in Nat /\ a + n <= end
  BY Types DEF Fits
<1>0. K[1] = k /\ A[1] = a + 1
  BY DEF Stands
<1>2. ASSUME NEW i \in 1..Len(buf), K[i] = k
      PROVE  /\ 1 <= A[i] /\ A[i] <= end
             /\ buf[i] = [msg |-> wr[k], at |-> A[i]]
             /\ K[i + 1] = IF A[i] < end THEN K[i] ELSE K[i] + 1
             /\ A[i + 1] = IF A[i] < end THEN A[i] + 1 ELSE 1
  BY <1>2 DEF Follows
<1> HIDE DEF end
<1>3. 0 \in S
  BY <1>0, <1>1
<1>4. ASSUME NEW i \in S PROVE i + 1 \in S
  <2> SUFFICES ASSUME i + 1 <= n PROVE At(i + 1)
    OBVIOUS
  <2>0. i \in Nat /\ (i <= n => At(i))
    OBVIOUS
  <2> HIDE DEF S
  <2>1. i <= n /\ i + 1 \in 1..Len(buf) /\ a + i < end /\ i \in Nat
    <3> HIDE DEF At
    <3> QED BY <1>1, <2>0
  <2>2. K[i + 1] = k /\ A[i + 1] = a + i + 1
    BY <2>0, <2>1
  <2>3. /\ K[i + 1 + 1] = IF a + i + 1 < end THEN k ELSE k + 1
        /\ A[i + 1 + 1] = IF a + i + 1 < end THEN a + i + 1 + 1 ELSE 1
    BY <1>2, <2>1, <2>2
  <2>4. a + (i + 1) = a + i + 1
    BY <2>1
  <2>5. i + 1 >= 1 /\ (a + (i + 1) = end => ~(a + i + 1 < end))
    BY <1>1, <2>1, <2>4
  <2> QED BY <2>3, <2>4, <2>5
<1>5. S = Nat
  <2> HIDE DEF At
  <2> QED BY <1>3, <1>4, Induct
<1>6. ASSUME NEW i \in 1..n PROVE buf[i] = [msg |-> wr[k], at |-> a + i]
  <2>0. i - 1 \in Nat /\ i - 1 <= n
    OBVIOUS
  <2>1. At(i - 1)
    <3> HIDE DEF At
    <3>1. i - 1 \in S
      <4> HIDE DEF S
      <4> QED BY <1>5, <2>0
    <3> QED BY <2>0, <3>1
  <2>2. i \in 1..Len(buf) /\ a + (i - 1) < end /\ i - 1 + 1 = i /\ a + (i - 1) + 1 = a + i
    <3> HIDE DEF At, S
    <3> QED BY <1>1
  <2>3. K[i] = k /\ A[i] = a + i
    BY <2>1, <2>2
  <2> QED BY <1>2, <2>2, <2>3
<1>7. At(n)
  <2> HIDE DEF At
  <2>1. n \in S
    <3> HIDE DEF S
    <3> QED BY <1>5
  <2>2. n <= n
    OBVIOUS
  <2> QED BY <2>1, <2>2
<1> QED BY <1>6, <1>7 DEF end

\* What is left when n units were read.
LEMMA Leaves ==
  ASSUME NEW buf \in Seq(Cell), NEW wr \in Seq(AnyMessage), NEW K, NEW A, Follows(K, A, buf, wr),
         NEW n \in Nat, NEW rest \in Seq(Cell), Cut(rest, buf, n)
  PROVE  \E K2, A2 : /\ Follows(K2, A2, rest, wr)
                     /\ K2[1] = K[n + 1] /\ A2[1] = A[n + 1]
                     /\ K2[Len(rest) + 1] = K[Len(buf) + 1] /\ A2[Len(rest) + 1] = A[Len(buf) + 1]
<1> DEFINE K2 == [i \in 1..(Len(rest) + 1) |-> K[n + i]]
           A2 == [i \in 1..(Len(rest) + 1) |-> A[n + i]]
<1>1. Len(buf) \in Nat /\ Len(rest) \in Nat /\ n + (Len(rest) + 1) = Len(buf) + 1
      /\ \A i \in 1..Len(rest) : rest[i] = buf[n + i]
  BY DEF Cut
<1>2. K \in [1..(Len(buf) + 1) -> Nat] /\ A \in [1..(Len(buf) + 1) -> Nat]
  BY DEF Follows
<1>3. ASSUME NEW i \in 1..(Len(rest) + 1)
      PROVE  n + i \in 1..(Len(buf) + 1) /\ K2[i] = K[n + i] /\ A2[i] = A[n + i]
  BY <1>1
<1>4. K2 \in [1..(Len(rest) + 1) -> Nat] /\ A2 \in [1..(Len(rest) + 1) -> Nat]
  BY <1>2, <1>3
<1> HIDE DEF K2, A2
<1>5. ASSUME NEW i \in 1..Len(rest)
      PROVE  LET end == HeaderUnits + Units[wr[K2[i]]]
             IN  /\ K2[i] \in 1..Len(wr) /\ 1 <= A2[i] /\ A2[i] <= end
                 /\ rest[i] = [msg |-> wr[K2[i]], at |-> A2[i]]
                 /\ K2[i + 1] = IF A2[i] < end THEN K2[i] ELSE K2[i] + 1
                 /\ A2[i + 1] = IF A2[i] < end THEN A2[i] + 1 ELSE 1
  <2>1. n + i \in 1..Len(buf) /\ n + (i + 1) = n + i + 1
    BY <1>1
  <2>2. K2[i] = K[n + i] /\ A2[i] = A[n + i] /\ rest[i] = buf[n + i]
    <3>1. i \in 1..(Len(rest) + 1)
      BY <1>1
    <3>2. K2[i] = K[n + i] /\ A2[i] = A[n + i]
      BY <1>3, <3>1
    <3> QED BY <1>1, <3>2
  <2>3. i + 1 \in 1..(Len(rest) + 1)
    BY <1>1
  <2>4. K2[i + 1] = K[n + i + 1] /\ A2[i + 1] = A[n + i + 1]
    BY <1>3, <2>1, <2>3
  <2> QED BY <2>1, <2>2, <2>4 DEF Follows
<1>6. Follows(K2, A2, rest, wr)
  BY <1>4, <1>5 DEF Follows
<1>7. /\ K2[1] = K[n + 1] /\ A2[1] = A[n + 1]
      /\ K2[Len(rest) + 1] = K[Len(buf) + 1] /\ A2[Len(rest) + 1] = A[Len(buf) + 1]
  <2>1. 1 \in 1..(Len(rest) + 1) /\ Len(rest) + 1 \in 1..(Len(rest) + 1)
    BY <1>1
  <2>2. K2[1] = K[n + 1] /\ A2[1] = A[n + 1]
    BY <1>3, <2>1
  <2>3. /\ K2[Len(rest) + 1] = K[n + (Len(rest) + 1)]
        /\ A2[Len(rest) + 1] = A[n + (Len(rest) + 1)]
    BY <1>3, <2>1
  <2> QED BY <1>1, <2>2, <2>3
<1> QED BY <1>6, <1>7

\* n more units of message k, the last one written, behind its unit a.
LEMMA Writes ==
  ASSUME NEW buf \in Seq(Cell), NEW wr \in Seq(AnyMessage), NEW K, NEW A, Follows(K, A, buf, wr),
         NEW wr2 \in Seq(AnyMessage), GoesOn(wr2, wr),
         NEW k \in 1..Len(wr2), NEW a \in Nat, NEW n \in Nat,
         Stands(K, A, Len(buf) + 1, k, a),
         Begun(a, wr2[k]), Fits(a + n, wr2[k]),
         NEW buf2 \in Seq(Cell), Longer(buf2, buf, wr2[k], a, n)
  PROVE  \E K2, A2 : /\ Follows(K2, A2, buf2, wr2)
                     /\ K2[1] = K[1] /\ A2[1] = A[1]
                     /\ Turned(K2, A2, Len(buf2) + 1, k, a + n, wr2[k])
<1> DEFINE l == Len(buf)  end == HeaderUnits + Units[wr2[k]]
           K2 == [i \in 1..(Len(buf2) + 1) |->
                    IF i <= l THEN K[i] ELSE IF a + (i - l - 1) = end THEN k + 1 ELSE k]
           A2 == [i \in 1..(Len(buf2) + 1) |->
                    IF i <= l THEN A[i] ELSE IF a + (i - l - 1) = end THEN 1 ELSE a + (i - l)]
<1>1. l \in Nat /\ end \in Nat /\ Len(buf2) = l + n /\ wr2[k] \in AnyMessage /\ k \in Nat
  BY Types DEF Longer
<1>2. K \in [1..(l + 1) -> Nat] /\ A \in [1..(l + 1) -> Nat] /\ K[l + 1] = k /\ A[l + 1] = a + 1
  BY DEF Follows, Stands
<1>3. ASSUME NEW i \in 1..l
      PROVE  LET e == HeaderUnits + Units[wr2[K[i]]]
             IN  /\ K[i] \in 1..Len(wr) /\ K[i] \in 1..Len(wr2) /\ 1 <= A[i] /\ A[i] <= e
                 /\ buf2[i] = [msg |-> wr2[K[i]], at |-> A[i]]
                 /\ K[i + 1] = IF A[i] < e THEN K[i] ELSE K[i] + 1
                 /\ A[i + 1] = IF A[i] < e THEN A[i] + 1 ELSE 1
  <2>1. K[i] \in 1..Len(wr) /\ wr2[K[i]] = wr[K[i]] /\ buf2[i] = buf[i]
    BY DEF Follows, GoesOn, Longer
  <2>2. K[i] \in 1..Len(wr2)
    BY <2>1 DEF GoesOn
  <2> QED BY <2>1, <2>2 DEF Follows
<1>4. ASSUME NEW i \in 1..n PROVE buf2[l + i] = [msg |-> wr2[k], at |-> a + i]
  BY DEF Longer
<1>5. a < end /\ a + n <= end
  BY DEF Begun, Fits
<1> HIDE DEF l, end
<1>6. ASSUME NEW i \in 1..(Len(buf2) + 1)
      PROVE  /\ K2[i] = IF i <= l THEN K[i] ELSE IF a + (i - l - 1) = end THEN k + 1 ELSE k
             /\ A2[i] = IF i <= l THEN A[i] ELSE IF a + (i - l - 1) = end THEN 1 ELSE a + (i - l)
             /\ K2[i] \in Nat /\ A2[i] \in Nat
  <2>1. i <= l => K[i] \in Nat /\ A[i] \in Nat
    <3>1. i <= l => i \in 1..(l + 1)
      BY <1>1
    <3> HIDE DEF K2, A2
    <3> QED BY <1>2, <3>1
  <2>2. ~(i <= l) => a + (i - l) \in Nat
    BY <1>1
  <2>3. K2[i] = IF i <= l THEN K[i] ELSE IF a + (i - l - 1) = end THEN k + 1 ELSE k
    OBVIOUS
  <2>4. A2[i] = IF i <= l THEN A[i] ELSE IF a + (i - l - 1) = end THEN 1 ELSE a + (i - l)
    OBVIOUS
  <2> HIDE DEF K2, A2
  <2>5. K2[i] \in Nat /\ A2[i] \in Nat
    <3>1. CASE i <= l
      BY <2>1, <2>3, <2>4, <3>1
    <3>2. CASE ~(i <= l)
      <4>1. k \in Nat /\ k + 1 \in Nat /\ 1 \in Nat
        BY <1>1
      <4> QED BY <2>2, <2>3, <2>4, <3>2, <4>1
    <3> QED BY <3>1, <3>2
  <2> QED BY <2>3, <2>4, <2>5
<1>7. K2 \in [1..(Len(buf2) + 1) -> Nat] /\ A2 \in [1..(Len(buf2) + 1) -> Nat]
  BY <1>6
<1> HIDE DEF K2, A2
<1>8. K2[l + 1] = k /\ A2[l + 1] = a + 1
  <2>1. l + 1 \in 1..(Len(buf2) + 1) /\ ~(l + 1 <= l) /\ l + 1 - l - 1 = 0 /\ l + 1 - l = 1
        /\ a + 0 # end
    BY <1>1, <1>5
  <2> DEFINE i == l + 1
  <2>2. /\ i \in 1..(Len(buf2) + 1) /\ ~(i <= l) /\ a + (i - l - 1) # end /\ i - l = 1
    BY <1>1, <2>1
  <2> HIDE DEF i
  <2>3. K2[i] = k /\ A2[i] = a + 1
    BY <1>6, <2>2
  <2> QED BY <2>3 DEF i
<1>9. ASSUME NEW i \in 1..Len(buf2)
      PROVE  LET e == HeaderUnits + Units[wr2[K2[i]]]
             IN  /\ K2[i] \in 1..Len(wr2) /\ 1 <= A2[i] /\ A2[i] <= e
                 /\ buf2[i] = [msg |-> wr2[K2[i]], at |-> A2[i]]
                 /\ K2[i + 1] = IF A2[i] < e THEN K2[i] ELSE K2[i] + 1
                 /\ A2[i + 1] = IF A2[i] < e THEN A2[i] + 1 ELSE 1
  <2>1. CASE i <= l
    <3>0. i \in 1..l /\ i \in 1..(Len(buf2) + 1)
      BY <1>1, <2>1
    <3>1. i \in 1..l /\ K2[i] = K[i] /\ A2[i] = A[i]
      BY <1>6, <2>1, <3>0
    <3>2. K2[i + 1] = K[i + 1] /\ A2[i + 1] = A[i + 1]
      <4>1. CASE i = l
        BY <1>2, <1>8, <4>1
      <4>2. CASE i # l
        <5>1. i + 1 \in 1..(Len(buf2) + 1) /\ i + 1 <= l
          BY <1>1, <2>1, <4>2
        <5> QED BY <1>6, <5>1
      <4> QED BY <4>1, <4>2
    <3> QED BY <1>3, <3>1, <3>2
  <2>2. CASE i > l
    <3>1. PICK c \in 1..n : i = l + c
      <4>1. i - l \in 1..n /\ i = l + (i - l)
        BY <1>1, <2>2
      <4> QED BY <4>1
    <3>2. /\ c \in Nat /\ 1 <= c /\ c <= n /\ ~(i <= l) /\ i - l - 1 = c - 1 /\ i - l = c
          /\ i \in 1..(Len(buf2) + 1)
      BY <1>1, <3>1
    <3>3. 1 <= a + c /\ a + c <= end /\ a + (c - 1) # end /\ a + c \in Nat
      BY <1>1, <1>5, <3>2
    <3>4. K2[i] = k /\ A2[i] = a + c
      BY <1>6, <3>2, <3>3
    <3>5. buf2[i] = [msg |-> wr2[k], at |-> a + c]
      BY <1>4, <3>1
    <3>6. K2[i + 1] = (IF a + c = end THEN k + 1 ELSE k)
          /\ A2[i + 1] = (IF a + c = end THEN 1 ELSE a + (c + 1))
      <4> DEFINE j == i + 1
      <4>1. j \in 1..(Len(buf2) + 1) /\ ~(j <= l) /\ j - l - 1 = c /\ j - l = c + 1
        BY <1>1, <3>1, <3>2
      <4> HIDE DEF j
      <4>2. K2[j] = (IF a + c = end THEN k + 1 ELSE k)
            /\ A2[j] = (IF a + c = end THEN 1 ELSE a + (c + 1))
        BY <1>6, <4>1
      <4> QED BY <4>2 DEF j
    <3>7. a + (c + 1) = a + c + 1 /\ (a + c = end <=> ~(a + c < end))
      BY <1>1, <3>2, <3>3
    <3> DEFINE x == a + c
    <3>8. /\ K2[i + 1] = IF x < end THEN k ELSE k + 1
          /\ A2[i + 1] = IF x < end THEN x + 1 ELSE 1
      BY <3>6, <3>7
    <3>9. K2[i] = k /\ A2[i] = x /\ 1 <= x /\ x <= end /\ buf2[i] = [msg |-> wr2[k], at |-> x]
      BY <3>3, <3>4, <3>5
    <3> HIDE DEF x
    <3> QED BY <3>8, <3>9 DEF end
  <2> QED BY <1>1, <2>1, <2>2
<1>10. Follows(K2, A2, buf2, wr2)
  BY <1>7, <1>9 DEF Follows
<1>11. K2[1] = K[1] /\ A2[1] = A[1]
  <2>1. CASE l = 0
    <3>1. l + 1 = 1
      BY <2>1
    <3> QED BY <1>2, <1>8, <3>1
  <2>2. CASE l # 0
    <3>1. 1 \in 1..(Len(buf2) + 1) /\ 1 <= l
      BY <1>1, <2>2
    <3> QED BY <1>6, <3>1
  <2> QED BY <2>1, <2>2
<1>12. /\ K2[Len(buf2) + 1] = IF a + n = end THEN k + 1 ELSE k
       /\ A2[Len(buf2) + 1] = IF a + n = end THEN 1 ELSE a + (n + 1)
  <2> DEFINE i == Len(buf2) + 1
  <2>1. i \in 1..(Len(buf2) + 1) /\ ~(i <= l) /\ i - l - 1 = n /\ i - l = n + 1
    BY <1>1
  <2> HIDE DEF i
  <2>2. /\ K2[i] = IF a + n = end THEN k + 1 ELSE k
        /\ A2[i] = IF a + n = end THEN 1 ELSE a + (n + 1)
    BY <1>6, <2>1
  <2> QED BY <2>2 DEF i
<1>13. a + (n + 1) = a + n + 1
  OBVIOUS
<1>14. Turned(K2, A2, Len(buf2) + 1, k, a + n, wr2[k])
  BY <1>12, <1>13 DEF Turned, Stands, end
<1> QED BY <1>10, <1>11, <1>14

LEMMA StreamIs ==
  ASSUME NEW r \in Seq(Cell), NEW s \in Seq(Cell)
  PROVE  /\ r \o s \in Seq(Cell) /\ Len(r \o s) = Len(r) + Len(s)
         /\ Len(r) \in Nat /\ Len(s) \in Nat
         /\ \A i \in 1..Len(r) : (r \o s)[i] = r[i]
         /\ \A i \in 1..Len(s) : (r \o s)[Len(r) + i] = s[i]
<1>1. /\ r \o s \in Seq(Cell) /\ Len(r \o s) = Len(r) + Len(s)
      /\ Len(r) \in Nat /\ Len(s) \in Nat
      /\ \A i \in 1..Len(r \o s) : (r \o s)[i] = IF i <= Len(r) THEN r[i] ELSE s[i - Len(r)]
  BY ConcatProperties
<1>2. ASSUME NEW i \in 1..Len(r) PROVE (r \o s)[i] = r[i]
  BY <1>1
<1>3. ASSUME NEW i \in 1..Len(s) PROVE (r \o s)[Len(r) + i] = s[i]
  <2> DEFINE j == Len(r) + i
  <2>1. j \in 1..Len(r \o s) /\ ~(j <= Len(r)) /\ j - Len(r) = i
    BY <1>1
  <2> HIDE DEF j
  <2>2. (r \o s)[j] = s[i]
    BY <1>1, <2>1
  <2> QED BY <2>2 DEF j
<1> QED BY <1>1, <1>2, <1>3

LEMMA CutFront ==
  ASSUME NEW r \in Seq(Cell), NEW r2 \in Seq(Cell), NEW s \in Seq(Cell), NEW n \in Nat,
         Cut(r2, r, n)
  PROVE  Cut(r2 \o s, r \o s, n)
<1> DEFINE f == r \o s  f2 == r2 \o s
<1>1. /\ f \in Seq(Cell) /\ Len(f) = Len(r) + Len(s) /\ Len(r) \in Nat /\ Len(s) \in Nat
      /\ \A i \in 1..Len(r) : f[i] = r[i]
      /\ \A i \in 1..Len(s) : f[Len(r) + i] = s[i]
  BY StreamIs
<1>2. /\ f2 \in Seq(Cell) /\ Len(f2) = Len(r2) + Len(s) /\ Len(r2) \in Nat
      /\ \A i \in 1..Len(r2) : f2[i] = r2[i]
      /\ \A i \in 1..Len(s) : f2[Len(r2) + i] = s[i]
  BY StreamIs
<1>3. n <= Len(r) /\ Len(r2) = Len(r) - n /\ \A i \in 1..Len(r2) : r2[i] = r[n + i]
  BY DEF Cut
<1> HIDE DEF f, f2
<1>4. ASSUME NEW i \in 1..Len(f2) PROVE f2[i] = f[n + i]
  <2>1. CASE i <= Len(r2)
    <3>1. i \in 1..Len(r2) /\ n + i \in 1..Len(r)
      BY <1>1, <1>2, <1>3, <2>1
    <3> QED BY <1>1, <1>2, <1>3, <3>1
  <2>2. CASE i > Len(r2)
    <3>1. PICK j \in 1..Len(s) : i = Len(r2) + j
      <4>1. i - Len(r2) \in 1..Len(s) /\ i = Len(r2) + (i - Len(r2))
        BY <1>1, <1>2, <2>2
      <4> QED BY <4>1
    <3>2. n + i = Len(r) + j
      BY <1>1, <1>2, <1>3, <3>1
    <3>3. f2[i] = s[j] /\ f[n + i] = s[j]
      BY <1>1, <1>2, <3>1, <3>2
    <3> QED BY <3>3
  <2> QED BY <1>1, <1>2, <2>1, <2>2
<1>5. n <= Len(f) /\ Len(f2) = Len(f) - n
  BY <1>1, <1>2, <1>3
<1> QED BY <1>4, <1>5 DEF Cut, f, f2

\* What is between the two ends of the link.
Stream == recvbuf \o sendbuf

\* It begins where the receiver is and ends where the sender is.
Between(K, A) ==
  /\ Follows(K, A, Stream, written)
  /\ K[1] = Len(got) + 1
  /\ A[1] = IF m_newmsg_pos < 0 THEN 1 ELSE HeaderUnits + m_newmsg_pos + 1
  /\ K[Len(Stream) + 1] = IF m_msg_bsent < 0 THEN Len(written) + 1 ELSE Len(written)
  /\ A[Len(Stream) + 1] = IF m_msg_bsent < 0 THEN 1 ELSE HeaderUnits + m_msg_bsent + 1

\* The receiver returned what was written up to the message it is in.
InStep ==
  /\ ~closed
  /\ Len(got) <= Len(written) /\ \A i \in 1..Len(got) : got[i] = written[i]
  /\ m_newmsg_pos >= 0 =>
       LET m == written[Len(got) + 1]
       IN  Len(got) < Len(written) /\ m_newmsg = [msg |-> m, units |-> Units[m], good |-> TRUE]
  /\ \E K, A : Between(K, A)

StreamTypes ==
  /\ recvbuf \in Seq(Cell) /\ sendbuf \in Seq(Cell) /\ Stream \in Seq(Cell)
  /\ written \in Seq(AnyMessage) /\ got \in Seq(AnyMessage \cup {Junk})
  /\ Len(recvbuf) \in Nat /\ Len(sendbuf) \in Nat /\ Len(Stream) = Len(recvbuf) + Len(sendbuf)
  /\ Len(written) \in Nat /\ Len(got) \in Nat
  /\ m_newmsg_pos \in Nat \cup {-1} /\ m_msg_bsent \in Nat \cup {-1}
  /\ m_newmsg \in Incoming /\ closed \in BOOLEAN

LEMMA StreamTyped == TypeOK => StreamTypes
<1> SUFFICES ASSUME TypeOK PROVE StreamTypes
  OBVIOUS
<1>1. /\ recvbuf \in Seq(Cell) /\ sendbuf \in Seq(Cell)
      /\ written \in Seq(AnyMessage) /\ got \in Seq(AnyMessage \cup {Junk})
      /\ m_newmsg_pos \in Nat \cup {-1} /\ m_msg_bsent \in Nat \cup {-1}
      /\ m_newmsg \in Incoming /\ closed \in BOOLEAN
  BY DEF TypeOK
<1>2. Stream \in Seq(Cell) /\ Len(Stream) = Len(recvbuf) + Len(sendbuf)
  BY <1>1, StreamIs DEF Stream
<1> QED BY <1>1, <1>2 DEF StreamTypes

\* The header the receiver finds is that of the message it is due.
LEMMA HeaderKnown ==
  ASSUME StreamTypes, InStep, m_newmsg_pos = -1, HeaderUnits <= Len(recvbuf)
  PROVE  Len(got) + 1 \in 1..Len(written) /\ HeaderOf(written[Len(got) + 1])
<1>1. PICK K, A : Between(K, A)
  BY DEF InStep
<1> DEFINE k == Len(got) + 1  z == 0
<1>2. /\ Follows(K, A, Stream, written) /\ K[1] = k /\ A[1] = z + 1 /\ z \in Nat
      /\ HeaderUnits \in Nat \ {0} /\ HeaderUnits <= Len(Stream)
  BY <1>1, Types DEF Between, StreamTypes
<1>3. k \in 1..Len(written)
  <2>1. 1 \in 1..Len(Stream)
    BY <1>2 DEF StreamTypes
  <2> QED BY <1>2, <2>1 DEF Follows
<1>4. Fits(z + HeaderUnits, written[k])
  BY <1>2, <1>3, Types DEF StreamTypes, Fits
<1>5. \A i \in 1..HeaderUnits : z + i = i /\ i \in 1..Len(recvbuf)
  BY <1>2 DEF StreamTypes
<1> HIDE DEF k, z
<1>6. \A i \in 1..HeaderUnits : Stream[i] = [msg |-> written[k], at |-> z + i]
  <2>1. /\ Stream \in Seq(Cell) /\ written \in Seq(AnyMessage) /\ HeaderUnits \in Nat
        /\ Follows(K, A, Stream, written) /\ Stands(K, A, 1, k, z) /\ z \in Nat
        /\ HeaderUnits <= Len(Stream)
    BY <1>2 DEF StreamTypes, Stands
  <2> QED BY <1>3, <1>4, <2>1, Reads
<1>7. \A i \in 1..Len(recvbuf) : Stream[i] = recvbuf[i]
  BY StreamIs DEF Stream, StreamTypes
<1>8. HeaderOf(written[k])
  BY <1>5, <1>6, <1>7 DEF HeaderOf
<1> QED BY <1>3, <1>8 DEF k

LEMMA RecvInStep ==
  ASSUME QueueInv, QueueInv', InStep, RecvMessage
  PROVE  InStep'
<1>1. StreamTypes /\ HeaderUnits \in Nat \ {0}
  BY StreamTyped, Types DEF QueueInv
<1>2. PICK new \in Incoming, pos, c, n \in Nat :
           /\ Taken(new, pos, c, n)
           /\ \/ /\ m_newmsg_pos = -1 /\ pos = 0 /\ c = HeaderUnits
                 /\ \/ /\ new.good /\ new.msg \in AnyMessage /\ new.units = Units[new.msg]
                       /\ HeaderOf(new.msg)
                    \/ ~new.good /\ new.msg = Junk /\ \A m \in AnyMessage : ~HeaderOf(m)
              \/ /\ m_newmsg_pos >= 0 /\ pos = m_newmsg_pos /\ c = 0 /\ new = m_newmsg
                 /\ pos < new.units
  BY RecvIs DEF QueueInv
<1>3. PICK K, A : Between(K, A)
  BY DEF InStep
<1> DEFINE k == Len(got) + 1
           m == written[k]
           a == IF m_newmsg_pos < 0 THEN 0 ELSE HeaderUnits + m_newmsg_pos
<1>4. /\ Follows(K, A, Stream, written) /\ K[1] = k /\ A[1] = a + 1 /\ a \in Nat
      /\ a + c = HeaderUnits + pos
  BY <1>1, <1>2, <1>3 DEF Between, StreamTypes
<1>5. /\ c + n <= Len(recvbuf) /\ pos + n <= new.units
      /\ recvbuf' \in Seq(Cell) /\ Cut(recvbuf', recvbuf, c + n)
      /\ UNCHANGED <<sendbuf, written, m_msg_bsent>>
  BY <1>1, <1>2 DEF Taken, Cut, RecvMessage, sendvars, StreamTypes
<1>6. \A i \in 1..Len(recvbuf) : Stream[i] = recvbuf[i] /\ i \in 1..Len(Stream)
  BY <1>1, StreamIs DEF Stream, StreamTypes
<1>7. k \in 1..Len(written) /\ m \in AnyMessage /\ Units[m] \in Nat
  <2>1. k \in 1..Len(written)
    <3>1. CASE m_newmsg_pos = -1
      <4>1. HeaderUnits <= Len(recvbuf)
        BY <1>1, <1>2, <1>5, <3>1 DEF StreamTypes
      <4> QED BY <1>1, <3>1, <4>1, HeaderKnown
    <3>2. CASE m_newmsg_pos >= 0
      BY <1>1, <3>2 DEF InStep, StreamTypes
    <3> QED BY <1>1, <3>1, <3>2 DEF StreamTypes
  <2> QED BY <1>1, <2>1, Types DEF StreamTypes
<1> HIDE DEF k, a
<1>8. new = [msg |-> m, units |-> Units[m], good |-> TRUE]
  <2>1. CASE m_newmsg_pos = -1
    <3>1. HeaderUnits <= Len(recvbuf)
      BY <1>1, <1>2, <1>5, <2>1 DEF StreamTypes
    <3>3. HeaderOf(m)
      BY <1>1, <2>1, <3>1, HeaderKnown DEF k
    <3>4. new.good /\ new.msg \in AnyMessage /\ new.units = Units[new.msg] /\ HeaderOf(new.msg)
      BY <1>2, <1>7, <2>1, <3>3
    <3>5. new.msg = m
      <4>1. 1 \in 1..HeaderUnits
        BY <1>1
      <4>2. [msg |-> m, at |-> 1] = [msg |-> new.msg, at |-> 1]
        BY <3>3, <3>4, <4>1 DEF HeaderOf
      <4> QED BY <4>2
    <3> QED BY <3>4, <3>5 DEF Incoming
  <2>2. CASE m_newmsg_pos >= 0
    BY <1>2, <2>2 DEF InStep, k
  <2> QED BY <1>1, <2>1, <2>2 DEF StreamTypes
<1>9. new.msg = m /\ new.units = Units[m] /\ new.good = TRUE
  BY <1>8
<1> DEFINE t == c + n
<1>10. t \in Nat /\ t <= Len(Stream) /\ a + t = HeaderUnits + pos + n
       /\ a + t <= HeaderUnits + Units[m]
       /\ (pos + n = Units[m] => t >= 1 /\ a + t = HeaderUnits + Units[m])
       /\ (pos + n < Units[m] => a + t < HeaderUnits + Units[m])
  <2>1. t \in Nat /\ t <= Len(Stream) /\ a + t = HeaderUnits + pos + n
    BY <1>1, <1>4, <1>5 DEF StreamTypes
  <2>2. pos + n = Units[m] => t >= 1
    BY <1>1, <1>2, <1>9
  <2> QED BY <1>1, <1>5, <1>7, <1>9, <2>1, <2>2
<1> HIDE DEF t
<1>11. /\ \A i \in 1..t : Stream[i] = [msg |-> m, at |-> a + i]
       /\ t >= 1 /\ a + t = HeaderUnits + Units[m] => K[t + 1] = k + 1 /\ A[t + 1] = 1
       /\ a + t < HeaderUnits + Units[m] => K[t + 1] = k /\ A[t + 1] = a + t + 1
  <2>1. /\ Stream \in Seq(Cell) /\ written \in Seq(AnyMessage)
        /\ Follows(K, A, Stream, written) /\ Stands(K, A, 1, k, a) /\ a \in Nat
        /\ k \in 1..Len(written) /\ t \in Nat /\ t <= Len(Stream)
        /\ Fits(a + t, written[k])
    BY <1>1, <1>4, <1>7, <1>10 DEF StreamTypes, Stands, Fits
  <2> DEFINE s == Stream
             e == written[k]
  <2> HIDE DEF s
  <2>2. s \in Seq(Cell) /\ Follows(K, A, s, written) /\ Stands(K, A, 1, k, a) /\ t <= Len(s)
    BY <2>1 DEF s
  <2>3. /\ \A i \in 1..t : s[i] = [msg |-> e, at |-> a + i]
        /\ t >= 1 /\ a + t = HeaderUnits + Units[e] => K[t + 1] = k + 1 /\ A[t + 1] = 1
        /\ a + t < HeaderUnits + Units[e] => K[t + 1] = k /\ A[t + 1] = a + t + 1
    BY <2>1, <2>2, Reads
  <2> QED BY <2>3, Zenon DEF s
<1>12. ASSUME NEW i \in 1..n PROVE recvbuf[c + i] = [msg |-> m, at |-> HeaderUnits + pos + i]
  <2>1. c + i \in 1..t /\ c + i \in 1..Len(recvbuf) /\ a + (c + i) = HeaderUnits + pos + i
    BY <1>1, <1>4, <1>5 DEF t, StreamTypes
  <2>2. Stream[c + i] = [msg |-> m, at |-> a + (c + i)]
    BY <1>11, <2>1
  <2> QED BY <1>6, <2>1, <2>2
<1>13. closed' = closed /\ \/ /\ pos + n < Units[m] /\ m_newmsg_pos' = pos + n
                              /\ m_newmsg' = [msg |-> m, units |-> Units[m], good |-> TRUE]
                              /\ got' = got
                           \/ /\ pos + n = Units[m] /\ m_newmsg_pos' = -1 /\ got' = Append(got, m)
  BY <1>2, <1>9, <1>12 DEF Taken
<1>14. Cut(Stream', Stream, t) /\ Stream' \in Seq(Cell)
  <2>1. Stream' = recvbuf' \o sendbuf
    BY <1>5 DEF Stream
  <2> QED BY <1>1, <1>5, <1>10, <2>1, CutFront, StreamIs DEF Stream, StreamTypes, t
<1>15. PICK K2, A2 : /\ Follows(K2, A2, Stream', written)
                     /\ K2[1] = K[t + 1] /\ A2[1] = A[t + 1]
                     /\ K2[Len(Stream') + 1] = K[Len(Stream) + 1]
                     /\ A2[Len(Stream') + 1] = A[Len(Stream) + 1]
  <2> DEFINE rest == Stream'
  <2>1. rest \in Seq(Cell) /\ Cut(rest, Stream, t)
    BY <1>14
  <2> HIDE DEF rest
  <2>2. \E K2, A2 : /\ Follows(K2, A2, rest, written)
                    /\ K2[1] = K[t + 1] /\ A2[1] = A[t + 1]
                    /\ K2[Len(rest) + 1] = K[Len(Stream) + 1] /\ A2[Len(rest) + 1] = A[Len(Stream) + 1]
    <3>1. /\ Stream \in Seq(Cell) /\ written \in Seq(AnyMessage)
          /\ Follows(K, A, Stream, written) /\ t \in Nat
      BY <1>1, <1>4, <1>10 DEF StreamTypes
    <3> QED BY <2>1, <3>1, Leaves
  <2> QED BY <2>2 DEF rest
<1>16. /\ K2[Len(Stream') + 1] = IF m_msg_bsent' < 0 THEN Len(written') + 1 ELSE Len(written')
       /\ A2[Len(Stream') + 1] = IF m_msg_bsent' < 0 THEN 1 ELSE HeaderUnits + m_msg_bsent' + 1
  BY <1>3, <1>5, <1>15 DEF Between
<1>17. CASE pos + n < Units[m] /\ m_newmsg_pos' = pos + n /\ got' = got
            /\ m_newmsg' = [msg |-> m, units |-> Units[m], good |-> TRUE]
  <2>1. K2[1] = k /\ A2[1] = HeaderUnits + (pos + n) + 1
    BY <1>1, <1>10, <1>11, <1>15, <1>17
  <2>2. ~(m_newmsg_pos' < 0)
    BY <1>17
  <2>3. (\E K3, A3 : Between(K3, A3))'
    BY <1>5, <1>15, <1>16, <1>17, <2>1, <2>2 DEF Between, k
  <2> QED BY <1>1, <1>5, <1>7, <1>13, <1>17, <2>3 DEF InStep, StreamTypes, k
<1>18. CASE pos + n = Units[m] /\ m_newmsg_pos' = -1 /\ got' = Append(got, m)
  <2>1. K2[1] = k + 1 /\ A2[1] = 1
    BY <1>10, <1>11, <1>15, <1>18
  <2>2. Len(got') = k /\ \A i \in 1..k : got'[i] = written[i]
    <3>1. /\ Len(got') = Len(got) + 1 /\ got'[Len(got) + 1] = m
          /\ \A i \in 1..Len(got) : got'[i] = got[i]
      BY <1>1, <1>7, <1>18, AppendProperties DEF StreamTypes
    <3>2. \A i \in 1..k : i \in 1..Len(got) \/ i = k
      BY <1>1 DEF StreamTypes, k
    <3> QED BY <3>1, <3>2 DEF k, InStep
  <2>3. (\E K3, A3 : Between(K3, A3))'
    BY <1>5, <1>15, <1>16, <1>18, <2>1, <2>2 DEF Between
  <2> QED BY <1>1, <1>5, <1>7, <1>13, <1>18, <2>2, <2>3 DEF InStep, StreamTypes, k
<1> QED BY <1>13, <1>17, <1>18

LEMMA LongerBack ==
  ASSUME NEW r \in Seq(Cell), NEW s \in Seq(Cell), NEW m \in AnyMessage,
         NEW a \in Nat, NEW n \in Nat
  PROVE  LET s2 == s \o Cells(m, a + 1, a + n)
         IN  s2 \in Seq(Cell) /\ Longer(r \o s2, r \o s, m, a, n)
<1> DEFINE c == Cells(m, a + 1, a + n)  s2 == s \o c  f == r \o s  f2 == r \o s2
<1>1. c \in Seq(Cell) /\ Len(c) = n /\ \A i \in 1..n : c[i] = [msg |-> m, at |-> a + i]
  BY CellsAre
<1> HIDE DEF c
<1>2. /\ s2 \in Seq(Cell) /\ Len(s2) = Len(s) + n
      /\ \A i \in 1..Len(s) : s2[i] = s[i]
      /\ \A i \in 1..n : s2[Len(s) + i] = c[i]
  BY <1>1, StreamIs
<1> HIDE DEF s2
<1>3. /\ Len(f) = Len(r) + Len(s) /\ Len(r) \in Nat /\ Len(s) \in Nat
      /\ \A i \in 1..Len(r) : f[i] = r[i]
      /\ \A i \in 1..Len(s) : f[Len(r) + i] = s[i]
  BY StreamIs
<1>4. /\ Len(f2) = Len(r) + Len(s2)
      /\ \A i \in 1..Len(r) : f2[i] = r[i]
      /\ \A i \in 1..Len(s2) : f2[Len(r) + i] = s2[i]
  BY <1>2, StreamIs
<1> HIDE DEF f, f2
<1>5. ASSUME NEW i \in 1..Len(f) PROVE f2[i] = f[i]
  <2>1. CASE i <= Len(r)
    <3>1. i \in 1..Len(r)
      BY <1>3, <2>1
    <3> QED BY <1>3, <1>4, <3>1
  <2>2. CASE i > Len(r)
    <3>1. PICK j \in 1..Len(s) : i = Len(r) + j
      <4>1. i - Len(r) \in 1..Len(s) /\ i = Len(r) + (i - Len(r))
        BY <1>3, <2>2
      <4> QED BY <4>1
    <3>2. j \in 1..Len(s2)
      BY <1>2, <1>3
    <3>3. f2[i] = s2[j] /\ f[i] = s[j]
      BY <1>3, <1>4, <3>1, <3>2
    <3> QED BY <1>2, <3>3
  <2> QED BY <1>3, <2>1, <2>2
<1>6. ASSUME NEW i \in 1..n PROVE f2[Len(f) + i] = [msg |-> m, at |-> a + i]
  <2>1. Len(s) + i \in 1..Len(s2) /\ Len(f) + i = Len(r) + (Len(s) + i)
    BY <1>2, <1>3
  <2>2. f2[Len(f) + i] = s2[Len(s) + i]
    BY <1>4, <2>1
  <2> QED BY <1>1, <1>2, <2>2
<1>7. Len(f2) = Len(f) + n
  BY <1>2, <1>3, <1>4
<1> QED BY <1>2, <1>5, <1>6, <1>7 DEF Longer, f, f2, s2, c

LEMMA TurnInStep ==
  ASSUME QueueInv, QueueInv', InStep, RunSendTurn
  PROVE  InStep'
<1>1. StreamTypes /\ StreamTypes' /\ HeaderUnits \in Nat \ {0}
  <2>1. (TypeOK => StreamTypes)'
    BY StreamTyped, PTL
  <2> QED BY <2>1, StreamTyped, Types DEF QueueInv
<1>0. PICK m : m = Head(m_msg)
  OBVIOUS
<1>2. PICK a, n \in Nat :
         /\ m \in AnyMessage
         /\ a = IF m_msg_bsent < 0 THEN 0 ELSE HeaderUnits + m_msg_bsent
         /\ HeaderUnits <= a + n /\ a + n <= HeaderUnits + Units[m]
         /\ sendbuf' = sendbuf \o Cells(m, a + 1, a + n)
         /\ written' = IF m_msg_bsent < 0 THEN Append(written, m) ELSE written
         /\ m_msg_bsent' = IF a + n = HeaderUnits + Units[m] THEN -1 ELSE a + n - HeaderUnits
  BY <1>0, TurnIs DEF QueueInv
<1>3. PICK K, A : Between(K, A)
  BY DEF InStep
<1> DEFINE k == Len(written')
<1>4. /\ k \in 1..Len(written') /\ written'[k] = m /\ GoesOn(written', written)
      /\ K[Len(Stream) + 1] = k /\ A[Len(Stream) + 1] = a + 1
      /\ a < HeaderUnits + Units[m] /\ Units[m] \in Nat
  <2>1. CASE m_msg_bsent < 0
    <3>1. /\ Len(written') = Len(written) + 1 /\ written'[Len(written) + 1] = m
          /\ \A i \in 1..Len(written) : written'[i] = written[i]
      BY <1>1, <1>2, <2>1, AppendProperties DEF StreamTypes
    <3>2. k = Len(written) + 1 /\ a = 0 /\ Units[m] \in Nat /\ Len(written) \in Nat
      BY <1>1, <1>2, <2>1, <3>1, Types DEF StreamTypes
    <3>3. K[Len(Stream) + 1] = k /\ A[Len(Stream) + 1] = a + 1
      BY <1>3, <2>1, <3>2 DEF Between
    <3>4. GoesOn(written', written) /\ k \in 1..Len(written') /\ written'[k] = m
      BY <3>1, <3>2 DEF GoesOn
    <3> HIDE DEF k
    <3>5. a < HeaderUnits + Units[m]
      BY <1>1, <3>2
    <3> QED BY <3>2, <3>3, <3>4, <3>5
  <2>2. CASE ~(m_msg_bsent < 0)
    <3>1. /\ m_msg_bsent >= 0 /\ written # <<>> /\ m = written[Len(written)]
          /\ m_msg_bsent < Units[m]
      BY <1>0, <1>1, <2>2 DEF QueueInv, InFlight, StreamTypes
    <3>2. Len(written) # 0
      BY <1>1, <3>1, EmptySeq DEF StreamTypes
    <3>3. /\ written' = written /\ k = Len(written) /\ a = HeaderUnits + m_msg_bsent
          /\ Units[m] \in Nat /\ m_msg_bsent \in Nat
      BY <1>1, <1>2, <2>2, <3>1, Types DEF StreamTypes
    <3>4. K[Len(Stream) + 1] = k /\ A[Len(Stream) + 1] = a + 1
      BY <1>3, <2>2, <3>3 DEF Between
    <3>5. GoesOn(written', written) /\ k \in 1..Len(written') /\ written'[k] = m
      BY <1>1, <3>1, <3>2, <3>3 DEF GoesOn, StreamTypes
    <3> HIDE DEF k
    <3>6. a < HeaderUnits + Units[m]
      BY <1>1, <3>1, <3>3
    <3> QED BY <3>3, <3>4, <3>5, <3>6
  <2> QED BY <2>1, <2>2
<1> HIDE DEF k
<1>5. UNCHANGED <<recvbuf, m_newmsg, m_newmsg_pos, closed, got>>
  BY DEF RunSendTurn, recvvars
<1>6. Longer(Stream', Stream, m, a, n)
  <2>1. Stream' = recvbuf \o (sendbuf \o Cells(m, a + 1, a + n))
    BY <1>2, <1>5 DEF Stream
  <2> QED BY <1>1, <1>2, <2>1, LongerBack DEF Stream, StreamTypes
<1>7. PICK K2, A2 : /\ Follows(K2, A2, Stream', written')
                    /\ K2[1] = K[1] /\ A2[1] = A[1]
                    /\ Turned(K2, A2, Len(Stream') + 1, k, a + n, m)
  <2> DEFINE buf2 == Stream'  wr2 == written'
  <2>1. /\ buf2 \in Seq(Cell) /\ wr2 \in Seq(AnyMessage) /\ Stream \in Seq(Cell)
        /\ written \in Seq(AnyMessage) /\ wr2[k] = m /\ Longer(buf2, Stream, wr2[k], a, n)
        /\ GoesOn(wr2, written) /\ k \in 1..Len(wr2)
    BY <1>1, <1>4, <1>6 DEF StreamTypes
  <2> HIDE DEF buf2, wr2
  <2>2. Follows(K, A, Stream, written) /\ Begun(a, wr2[k]) /\ Fits(a + n, wr2[k])
    BY <1>2, <1>3, <1>4, <2>1 DEF Between, Begun, Fits
  <2>3. \E K2, A2 : /\ Follows(K2, A2, buf2, wr2)
                    /\ K2[1] = K[1] /\ A2[1] = A[1]
                    /\ Turned(K2, A2, Len(buf2) + 1, k, a + n, wr2[k])
    <3>1. Stands(K, A, Len(Stream) + 1, k, a) /\ a \in Nat /\ n \in Nat
      BY <1>4 DEF Stands
    <3>2. k \in 1..Len(wr2) /\ Follows(K, A, Stream, written) /\ GoesOn(wr2, written)
          /\ Begun(a, wr2[k]) /\ Fits(a + n, wr2[k]) /\ Longer(buf2, Stream, wr2[k], a, n)
      BY <2>1, <2>2
    <3> HIDE DEF k
    <3> QED BY <2>1, <3>1, <3>2, Writes
  <2> QED BY <2>1, <2>3 DEF buf2, wr2
<1>8. /\ K2[Len(Stream') + 1] = IF m_msg_bsent' < 0 THEN Len(written') + 1 ELSE Len(written')
      /\ A2[Len(Stream') + 1] = IF m_msg_bsent' < 0 THEN 1 ELSE HeaderUnits + m_msg_bsent' + 1
  <2>1. CASE a + n = HeaderUnits + Units[m]
    BY <1>2, <1>7, <2>1 DEF k, Turned
  <2>2. CASE a + n # HeaderUnits + Units[m]
    <3>1. m_msg_bsent' = a + n - HeaderUnits /\ HeaderUnits <= a + n
      BY <1>2, <2>2
    <3>2. ~(m_msg_bsent' < 0) /\ HeaderUnits + m_msg_bsent' + 1 = a + n + 1
      BY <1>1, <3>1
    <3> QED BY <1>7, <2>2, <3>1, <3>2 DEF k, Turned, Stands
  <2> QED BY <2>1, <2>2
<1>9. (\E K3, A3 : Between(K3, A3))'
  BY <1>3, <1>5, <1>7, <1>8 DEF Between
<1>10. Len(got) \in Nat /\ Len(written) \in Nat /\ Len(written') \in Nat /\ m_newmsg_pos \in Int
  BY <1>1 DEF StreamTypes
<1>11. Len(got') <= Len(written') /\ \A i \in 1..Len(got') : got'[i] = written'[i]
  BY <1>4, <1>5, <1>10 DEF InStep, GoesOn
<1>12. ASSUME m_newmsg_pos >= 0
       PROVE  /\ Len(got') < Len(written')
              /\ written'[Len(got') + 1] = written[Len(got) + 1]
  <2>1. Len(got) < Len(written) /\ Len(got) + 1 \in 1..Len(written)
    BY <1>10, <1>12 DEF InStep
  <2> QED BY <1>4, <1>5, <1>10, <2>1 DEF GoesOn
<1> QED BY <1>5, <1>9, <1>11, <1>12 DEF InStep

LEMMA RefuseNever ==
  ASSUME QueueInv, InStep
  PROVE  ~RefuseHeader
<1> SUFFICES ASSUME RefuseHeader PROVE FALSE
  OBVIOUS
<1>1. StreamTypes
  BY StreamTyped DEF QueueInv
<1>2. m_newmsg_pos = -1 /\ HeaderUnits <= Len(recvbuf) /\ \A m \in AnyMessage : ~HeaderOf(m)
  BY RefuseIs DEF QueueInv
<1>3. Len(got) + 1 \in 1..Len(written) /\ HeaderOf(written[Len(got) + 1])
  BY <1>1, <1>2, HeaderKnown
<1> QED BY <1>1, <1>2, <1>3 DEF StreamTypes

LEMMA TransmitKeepsStream ==
  ASSUME TypeOK, Transmit
  PROVE  Stream' = Stream
<1>1. StreamTypes
  BY StreamTyped
<1> DEFINE r == recvbuf  s == sendbuf  r2 == Append(r, Head(s))  s2 == Tail(s)
<1>2. s # <<>> /\ recvbuf' = r2 /\ sendbuf' = s2 /\ r \in Seq(Cell) /\ s \in Seq(Cell)
  BY <1>1 DEF Transmit, StreamTypes
<1>3. /\ s2 \in Seq(Cell) /\ Len(s2) = Len(s) - 1 /\ Head(s) = s[1] /\ Head(s) \in Cell
      /\ Len(s) \in Nat /\ Len(s) # 0
      /\ \A i \in 1..Len(s2) : s2[i] = s[i + 1]
  BY <1>2, HeadTailProperties, EmptySeq
<1>4. /\ r2 \in Seq(Cell) /\ Len(r2) = Len(r) + 1 /\ r2[Len(r) + 1] = s[1]
      /\ \A i \in 1..Len(r) : r2[i] = r[i]
  BY <1>2, <1>3, AppendProperties
<1> HIDE DEF r, s, r2, s2
<1> DEFINE f == r \o s  f2 == r2 \o s2
<1>5. /\ f \in Seq(Cell) /\ Len(f) = Len(r) + Len(s) /\ Len(r) \in Nat
      /\ \A i \in 1..Len(r) : f[i] = r[i]
      /\ \A i \in 1..Len(s) : f[Len(r) + i] = s[i]
  BY <1>2, StreamIs
<1>6. /\ f2 \in Seq(Cell) /\ Len(f2) = Len(r2) + Len(s2)
      /\ \A i \in 1..Len(r2) : f2[i] = r2[i]
      /\ \A i \in 1..Len(s2) : f2[Len(r2) + i] = s2[i]
  BY <1>3, <1>4, StreamIs
<1> HIDE DEF f, f2
<1>7. ASSUME NEW i \in 1..Len(f) PROVE f2[i] = f[i]
  <2>1. CASE i <= Len(r)
    <3>1. i \in 1..Len(r) /\ i \in 1..Len(r2)
      BY <1>4, <1>5, <2>1
    <3> QED BY <1>4, <1>5, <1>6, <3>1
  <2>2. CASE i = Len(r) + 1
    <3>1. i \in 1..Len(r2) /\ 1 \in 1..Len(s)
      BY <1>3, <1>4, <1>5, <2>2
    <3>2. f2[i] = r2[i] /\ f[Len(r) + 1] = s[1]
      BY <1>5, <1>6, <3>1
    <3> QED BY <1>4, <2>2, <3>2
  <2>3. CASE i > Len(r) + 1
    <3>1. PICK j \in 1..Len(s2) : i = Len(r) + (j + 1)
      <4>1. i - Len(r) - 1 \in 1..Len(s2) /\ i = Len(r) + ((i - Len(r) - 1) + 1)
        BY <1>3, <1>5, <2>3
      <4> QED BY <4>1
    <3>2. j + 1 \in 1..Len(s) /\ i = Len(r2) + j
      BY <1>3, <1>4, <1>5, <3>1
    <3>3. f2[i] = s2[j] /\ f[i] = s[j + 1]
      BY <1>5, <1>6, <3>1, <3>2
    <3> QED BY <1>3, <3>3
  <2>4. i \in Nat
    BY <1>5
  <2> QED BY <1>5, <2>1, <2>2, <2>3, <2>4
<1>8. f2 = f
  <2>1. Len(f2) = Len(f)
    BY <1>3, <1>4, <1>5, <1>6
  <2> QED BY <1>5, <1>6, <1>7, <2>1, SeqEqual
<1> QED BY <1>2, <1>8 DEF f, f2, r, s, r2, s2, Stream

LEMMA InStepStarts == Init => InStep
<1> SUFFICES ASSUME Init PROVE InStep
  OBVIOUS
<1>1. Stream = <<>> /\ Len(Stream) = 0 /\ Len(written) = 0 /\ Len(got) = 0 /\ Stream \in Seq(Cell)
  BY DEF Init, Stream
<1> DEFINE K == [i \in 1..1 |-> 1]
<1>2. Follows(K, K, Stream, written)
  BY <1>1 DEF Follows
<1>3. Between(K, K)
  BY <1>1, <1>2 DEF Between, Init
<1> HIDE DEF K
<1> QED BY <1>1, <1>3 DEF InStep, Init

LEMMA InStepStep ==
  ASSUME QueueInv, QueueInv', spoiled = {} => InStep, [Next]_vars
  PROVE  (spoiled = {} => InStep)'
<1> SUFFICES ASSUME spoiled' = {} PROVE InStep'
  OBVIOUS
<1>1. CASE Damage
  <2>1. \E c : spoiled' = spoiled \cup {c}
    BY <1>1 DEF Damage
  <2> QED BY <2>1
<1>2. CASE ~Damage
  <2>1. spoiled = {} /\ InStep
    BY <1>2 DEF Next, SendMessage, RunSend, RunSendStop, RunSendTurn, Transmit, RefuseHeader,
                RecvMessage, vars
  <2>2. CASE RunSendTurn
    BY <2>1, <2>2, TurnInStep
  <2>3. CASE RecvMessage
    BY <2>1, <2>3, RecvInStep
  <2>4. CASE RefuseHeader
    BY <2>1, <2>4, RefuseNever
  <2>5. CASE Stream' = Stream /\ UNCHANGED <<written, m_msg_bsent, recvvars>>
    BY <2>1, <2>5 DEF InStep, Between, recvvars
  <2>6. CASE Transmit
    <3>1. Stream' = Stream /\ UNCHANGED <<written, m_msg_bsent, recvvars>>
      BY <2>6, TransmitKeepsStream DEF Transmit, QueueInv, sendvars, recvvars
    <3> QED BY <2>5, <3>1
  <2>7. CASE UNCHANGED <<written, m_msg_bsent, recvvars, sendbuf, recvbuf>>
    <3>1. Stream' = Stream
      BY <2>7 DEF Stream
    <3> QED BY <2>5, <2>7, <3>1
  <2> QED BY <1>2, <2>2, <2>3, <2>4, <2>6, <2>7
        DEF Next, SendMessage, RunSend, RunSendStop, vars, sendvars, recvvars
<1> QED BY <1>1, <1>2

-----------------------------------------------------------------------------
(* What becomes of a damaged message                                       *)

\* Unit x of m was given to the connection; it is on its way; it is on its way no more.
Out(m, x) ==
  /\ x >= 1
  /\ \E k \in 1..Len(written) :
       /\ written[k] = m
       /\ x <= HeaderUnits +
               (IF k = Len(written) /\ m_msg_bsent >= 0 THEN m_msg_bsent ELSE Units[m])
OnTheWay(m, x) == \E i \in 1..Len(Stream) : Stream[i] = [msg |-> m, at |-> x]
Past(m, x) == Out(m, x) /\ ~OnTheWay(m, x)

\* The receiver is in m, and what came of it was whole.
Whole(m) == m_newmsg_pos >= 0 /\ m_newmsg.good /\ m_newmsg.msg = m

\* A unit is on its way once, and only when it was sent.
WayInv ==
  /\ \A i \in 1..Len(Stream) :
       Stream[i].msg \in Message => Out(Stream[i].msg, Stream[i].at)
  /\ \A i, j \in 1..Len(Stream) :
       Stream[i].msg \in Message /\ Stream[i] = Stream[j] => i = j

\* All of a message that was returned is past, and the part that was received of one that
\* is still whole.
PastInv ==
  /\ m_newmsg_pos >= 0 /\ m_newmsg.good =>
       m_newmsg.msg \in AnyMessage /\ m_newmsg.units = Units[m_newmsg.msg]
  /\ \A m \in Message, x \in Nat :
       Whole(m) /\ 1 <= x /\ x <= HeaderUnits + m_newmsg_pos => Past(m, x)
  /\ \A m \in Message, x \in Nat :
       m \in Range(got) /\ 1 <= x /\ x <= HeaderUnits + Units[m] => Past(m, x)

\* Of a damaged message there is a unit that is past and that the receiver did not find
\* where it reads it.
Missing(m) ==
  /\ m \notin Range(got)
  /\ \E x \in Nat : /\ x <= HeaderUnits + Units[m] /\ Past(m, x)
                    /\ Whole(m) => x > HeaderUnits + m_newmsg_pos
SpoiledInv == \A m \in spoiled : Missing(m)

LEMMA CellOf ==
  ASSUME NEW s \in Seq(Cell), NEW i \in 1..Len(s)
  PROVE  s[i] \in Cell /\ s[i].at \in Nat /\ s[i] = [msg |-> s[i].msg, at |-> s[i].at]
<1>1. s[i] \in Cell
  OBVIOUS
<1> QED BY <1>1 DEF Cell

LEMMA OutStays ==
  ASSUME QueueInv, [Next]_vars, NEW m \in Message, NEW x \in Nat, Out(m, x)
  PROVE  Out(m, x)'
<1>1. StreamTypes /\ HeaderUnits \in Nat \ {0} /\ Units[m] \in Nat
  BY StreamTyped, Types DEF QueueInv
<1>2. CASE RunSendTurn
  <2> DEFINE h == Head(m_msg)
  <2>1. PICK a, n \in Nat :
         /\ h \in AnyMessage
         /\ a = IF m_msg_bsent < 0 THEN 0 ELSE HeaderUnits + m_msg_bsent
         /\ HeaderUnits <= a + n /\ a + n <= HeaderUnits + Units[h]
         /\ written' = IF m_msg_bsent < 0 THEN Append(written, h) ELSE written
         /\ m_msg_bsent' = IF a + n = HeaderUnits + Units[h] THEN -1 ELSE a + n - HeaderUnits
    BY <1>2, TurnIs DEF QueueInv
  <2>2. PICK k \in 1..Len(written) :
          /\ x >= 1 /\ written[k] = m
          /\ x <= HeaderUnits +
                  (IF k = Len(written) /\ m_msg_bsent >= 0 THEN m_msg_bsent ELSE Units[m])
    BY DEF Out
  <2>3. CASE m_msg_bsent < 0
    <3>1. /\ Len(written') = Len(written) + 1
          /\ \A i \in 1..Len(written) : written'[i] = written[i]
      BY <1>1, <2>1, <2>3, AppendProperties DEF StreamTypes
    <3>2. k \in 1..Len(written') /\ written'[k] = m /\ k # Len(written')
      BY <1>1, <2>2, <3>1 DEF StreamTypes
    <3>3. x <= HeaderUnits + Units[m]
      BY <1>1, <2>2, <2>3 DEF StreamTypes
    <3> QED BY <2>2, <3>2, <3>3 DEF Out
  <2>4. CASE ~(m_msg_bsent < 0) /\ k # Len(written)
    <3>1. written' = written /\ x <= HeaderUnits + Units[m]
      BY <2>1, <2>2, <2>4
    <3> QED BY <2>2, <2>4, <3>1 DEF Out
  <2>5. CASE ~(m_msg_bsent < 0) /\ k = Len(written)
    <3>1. m_msg_bsent >= 0 /\ m_msg_bsent \in Nat /\ written' = written
      BY <1>1, <2>1, <2>5 DEF StreamTypes
    <3>2. h = m
      BY <2>2, <2>5, <3>1 DEF QueueInv, InFlight
    <3>3. x <= HeaderUnits + (IF m_msg_bsent' >= 0 THEN m_msg_bsent' ELSE Units[m])
      <4>1. a = HeaderUnits + m_msg_bsent /\ x <= HeaderUnits + m_msg_bsent
        BY <2>1, <2>2, <2>5, <3>1
      <4>2. /\ a + n <= HeaderUnits + Units[m]
            /\ m_msg_bsent' = IF a + n = HeaderUnits + Units[m] THEN -1 ELSE a + n - HeaderUnits
        BY <2>1, <3>2
      <4>3. HeaderUnits \in Nat /\ Units[m] \in Nat /\ m_msg_bsent \in Nat /\ a \in Nat /\ n \in Nat
        BY <1>1, <2>1, <3>1
      <4> QED BY <4>1, <4>2, <4>3
    <3> QED BY <2>2, <2>5, <3>1, <3>3 DEF Out
  <2> QED BY <2>3, <2>4, <2>5
<1>3. CASE ~RunSendTurn
  <2>1. UNCHANGED <<written, m_msg_bsent>>
    BY <1>3 DEF Next, SendMessage, RunSend, RunSendStop, Transmit, Damage, RefuseHeader,
                RecvMessage, vars, sendvars
  <2> QED BY <2>1 DEF Out
<1> QED BY <1>2, <1>3

\* s2 is s without its first t units, some of the others damaged.
Thins(s2, s, t) ==
  \A i \in 1..Len(s2) : t + i \in 1..Len(s) /\ (s2[i] = s[t + i] \/ s2[i] = NoCell)

LEMMA CutThins ==
  ASSUME NEW s \in Seq(Cell), NEW s2 \in Seq(Cell), NEW t \in Nat, Cut(s2, s, t)
  PROVE  Thins(s2, s, t)
<1>1. Len(s) \in Nat /\ Len(s2) = Len(s) - t
  BY DEF Cut
<1>2. \A i \in 1..Len(s2) : t + i \in 1..Len(s)
  BY <1>1
<1> QED BY <1>2 DEF Cut, Thins

LEMMA SameThins ==
  ASSUME NEW s \in Seq(Cell), NEW t \in Nat, t = 0
  PROVE  Thins(s, s, t)
<1>1. \A i \in 1..Len(s) : t + i = i
  OBVIOUS
<1> QED BY <1>1 DEF Thins

LEMMA DamageThins ==
  ASSUME TypeOK, Damage
  PROVE  \E d \in 1..Len(recvbuf) :
           /\ recvbuf[d].msg \in Message \ spoiled /\ spoiled' = spoiled \cup {recvbuf[d].msg}
           /\ Len(Stream') = Len(Stream) /\ Stream[d] = recvbuf[d]
           /\ Stream'[d] = NoCell
           /\ \A i \in 1..Len(Stream) : i # d => Stream'[i] = Stream[i]
<1>1. StreamTypes
  BY StreamTyped
<1> DEFINE d == Len(recvbuf)  r2 == [recvbuf EXCEPT ![d] = NoCell]
<1>2. recvbuf # <<>> /\ recvbuf' = r2 /\ UNCHANGED sendbuf
      /\ recvbuf[d].msg \in Message \ spoiled /\ spoiled' = spoiled \cup {recvbuf[d].msg}
  BY DEF Damage
<1>3. d \in 1..Len(recvbuf)
  BY <1>1, <1>2, EmptySeq DEF StreamTypes
<1>4. NoCell \in Cell
  BY DEF NoCell, Cell
<1>5. /\ r2 \in Seq(Cell) /\ Len(r2) = Len(recvbuf)
      /\ \A i \in 1..Len(recvbuf) : r2[i] = IF i = d THEN NoCell ELSE recvbuf[i]
  BY <1>1, <1>3, <1>4, ExceptSeq DEF StreamTypes
<1> HIDE DEF r2
<1>6. /\ Len(Stream) = Len(recvbuf) + Len(sendbuf)
      /\ \A i \in 1..Len(recvbuf) : Stream[i] = recvbuf[i]
      /\ \A i \in 1..Len(sendbuf) : Stream[Len(recvbuf) + i] = sendbuf[i]
  BY <1>1, StreamIs DEF Stream, StreamTypes
<1> DEFINE f2 == r2 \o sendbuf
<1>7. /\ Len(f2) = Len(r2) + Len(sendbuf)
      /\ \A i \in 1..Len(r2) : f2[i] = r2[i]
      /\ \A i \in 1..Len(sendbuf) : f2[Len(r2) + i] = sendbuf[i]
  BY <1>1, <1>5, StreamIs DEF StreamTypes
<1>8. Stream' = f2
  BY <1>2 DEF Stream
<1> HIDE DEF f2, d
<1>9. ASSUME NEW i \in 1..Len(Stream), i # d PROVE f2[i] = Stream[i]
  <2>1. CASE i <= Len(recvbuf)
    <3>1. i \in 1..Len(recvbuf)
      BY <1>1, <2>1 DEF StreamTypes
    <3> QED BY <1>5, <1>6, <1>7, <1>9, <3>1
  <2>2. CASE i > Len(recvbuf)
    <3>1. PICK j \in 1..Len(sendbuf) : i = Len(recvbuf) + j
      <4>1. i - Len(recvbuf) \in 1..Len(sendbuf) /\ i = Len(recvbuf) + (i - Len(recvbuf))
        BY <1>1, <2>2 DEF StreamTypes
      <4> QED BY <4>1
    <3> QED BY <1>5, <1>6, <1>7, <3>1
  <2> QED BY <1>1, <2>1, <2>2 DEF StreamTypes
<1>10. f2[d] = NoCell /\ Len(f2) = Len(Stream)
  BY <1>3, <1>5, <1>6, <1>7
<1> QED BY <1>2, <1>3, <1>6, <1>8, <1>9, <1>10 DEF d

LEMMA StreamThins ==
  ASSUME QueueInv, [Next]_vars, ~RunSendTurn
  PROVE  \E t \in Nat : Thins(Stream', Stream, t)
<1>1. StreamTypes /\ StreamTypes' /\ HeaderUnits \in Nat
  <2>1. (TypeOK => StreamTypes)'
    BY StreamTyped, PTL
  <2>2. QueueInv'
    BY QueueStep
  <2> QED BY <2>1, <2>2, StreamTyped, Types DEF QueueInv
<1>2. ASSUME Stream' = Stream PROVE \E t \in Nat : Thins(Stream', Stream, t)
  <2> DEFINE z == 0
  <2>1. z \in Nat /\ z = 0
    OBVIOUS
  <2> HIDE DEF z
  <2>2. Thins(Stream, Stream, z)
    BY <1>1, <2>1, SameThins DEF StreamTypes
  <2> QED BY <1>2, <2>1, <2>2
<1>3. ASSUME NEW t \in Nat, Cut(recvbuf', recvbuf, t), UNCHANGED sendbuf
      PROVE  \E u \in Nat : Thins(Stream', Stream, u)
  <2> DEFINE r2 == recvbuf'
  <2>1. r2 \in Seq(Cell) /\ Stream' = r2 \o sendbuf /\ r2 \o sendbuf \in Seq(Cell)
    BY <1>1, <1>3, StreamIs DEF Stream, StreamTypes
  <2> HIDE DEF r2
  <2>2. Cut(r2 \o sendbuf, Stream, t)
    BY <1>1, <1>3, <2>1, CutFront DEF Stream, StreamTypes, r2
  <2>3. Thins(r2 \o sendbuf, Stream, t)
    BY <1>1, <2>1, <2>2, CutThins DEF StreamTypes
  <2> QED BY <2>1, <2>3
<1>4. CASE RecvMessage
  <2>1. \E new \in Incoming, pos, c, n \in Nat : Taken(new, pos, c, n)
    BY <1>4, RecvIs DEF QueueInv
  <2>2. PICK new \in Incoming, pos, c, n \in Nat : Taken(new, pos, c, n)
    BY <2>1
  <2>3. Cut(recvbuf', recvbuf, c + n)
    BY <2>2 DEF Taken, Cut
  <2>4. UNCHANGED sendbuf /\ c + n \in Nat
    BY <1>4 DEF RecvMessage
  <2> QED BY <1>3, <2>3, <2>4
<1>5. CASE RefuseHeader
  <2>1. Cut(recvbuf', recvbuf, HeaderUnits) /\ UNCHANGED sendbuf
    BY <1>1, <1>5, RefuseIs DEF QueueInv, Cut, RefuseHeader, StreamTypes
  <2> QED BY <1>1, <1>3, <2>1
<1>6. CASE Damage
  <2>1. PICK d \in 1..Len(recvbuf) :
           /\ Len(Stream') = Len(Stream)
           /\ Stream'[d] = NoCell
           /\ \A i \in 1..Len(Stream) : i # d => Stream'[i] = Stream[i]
    BY <1>6, DamageThins DEF QueueInv
  <2> DEFINE z == 0
  <2>2. z \in Nat /\ \A i \in 1..Len(Stream) : z + i = i
    OBVIOUS
  <2> HIDE DEF z
  <2>3. Thins(Stream', Stream, z)
    BY <2>1, <2>2 DEF Thins
  <2> QED BY <2>2, <2>3
<1>7. CASE Transmit
  BY <1>2, <1>7, TransmitKeepsStream DEF QueueInv
<1>8. CASE UNCHANGED <<sendbuf, recvbuf>>
  BY <1>2, <1>8 DEF Stream
<1> QED BY <1>4, <1>5, <1>6, <1>7, <1>8
      DEF Next, SendMessage, RunSend, RunSendStop, vars

\* What a turn of run(0) sends was not sent before.
LEMMA TurnSends ==
  ASSUME QueueInv, RunSendTurn
  PROVE  \E m \in AnyMessage, a, n \in Nat :
           /\ Longer(Stream', Stream, m, a, n)
           /\ m \in Message => /\ \A x \in Nat : x > a => ~Out(m, x)
                               /\ \A x \in Nat : a < x /\ x <= a + n => Out(m, x)'
<1>1. StreamTypes /\ HeaderUnits \in Nat \ {0} /\ m_msg \in Seq(AnyMessage)
  BY StreamTyped, Types DEF QueueInv, TypeOK
<1>0. PICK m : m = Head(m_msg)
  OBVIOUS
<1>2. PICK a, n \in Nat :
         /\ m \in AnyMessage
         /\ a = IF m_msg_bsent < 0 THEN 0 ELSE HeaderUnits + m_msg_bsent
         /\ HeaderUnits <= a + n /\ a + n <= HeaderUnits + Units[m]
         /\ sendbuf' = sendbuf \o Cells(m, a + 1, a + n)
         /\ written' = IF m_msg_bsent < 0 THEN Append(written, m) ELSE written
         /\ m_msg_bsent' = IF a + n = HeaderUnits + Units[m] THEN -1 ELSE a + n - HeaderUnits
  BY <1>0, TurnIs DEF QueueInv
<1>3. Longer(Stream', Stream, m, a, n)
  <2>1. Stream' = recvbuf \o (sendbuf \o Cells(m, a + 1, a + n))
    BY <1>2 DEF Stream, RunSendTurn
  <2> QED BY <1>1, <1>2, <2>1, LongerBack DEF Stream, StreamTypes
<1>4. ASSUME m \in Message, NEW x \in Nat, x > a, Out(m, x) PROVE FALSE
  <2>1. PICK k \in 1..Len(written) :
          /\ written[k] = m
          /\ x <= HeaderUnits +
                  (IF k = Len(written) /\ m_msg_bsent >= 0 THEN m_msg_bsent ELSE Units[m])
    BY <1>4 DEF Out
  <2>2. m # Filler /\ Once(Flow)
    BY <1>4, Types DEF QueueInv, FlowInv
  <2>3. /\ DOMAIN Flow = 1..(Len(written) + Len(Waiting)) /\ Flow \in Seq(AnyMessage)
        /\ \A i \in 1..(Len(written) + Len(Waiting)) :
             Flow[i] = IF i <= Len(written) THEN written[i] ELSE Waiting[i - Len(written)]
        /\ Len(Waiting) \in Nat
    <3>1. Waiting \in Seq(AnyMessage)
      BY WaitingNow DEF QueueInv
    <3> QED BY <1>1, <3>1, FlowIs DEF Flow, StreamTypes
  <2>4. Len(Flow) = Len(written) + Len(Waiting)
    BY <1>1, <2>3 DEF StreamTypes
  <2>5. k \in 1..Len(Flow) /\ Flow[k] = m
    BY <1>1, <2>1, <2>3, <2>4 DEF StreamTypes
  <2>6. CASE m_msg_bsent < 0
    <3>1. m_msg_bsent = -1 /\ m_msg # <<>> /\ ~(m_msg_bsent >= 0)
      BY <1>1, <2>6 DEF StreamTypes, RunSendTurn
    <3>2. Len(Waiting) = Len(m_msg) /\ \A i \in 1..Len(Waiting) : Waiting[i] = m_msg[i]
      <4>1. LET w == SubSeq(m_msg, FirstFree(m_msg_bsent), Len(m_msg))
                off == IF m_msg_bsent >= 0 THEN 1 ELSE 0
            IN  Len(w) = Len(m_msg) - off /\ \A i \in 1..Len(w) : w[i] = m_msg[i + off]
        BY <1>1, <3>1, WaitingIs DEF StreamTypes
      <4>2. Len(Waiting) = Len(m_msg) - 0 /\ \A i \in 1..Len(Waiting) : Waiting[i] = m_msg[i + 0]
        BY <3>1, <4>1 DEF Waiting
      <4> QED BY <1>1, <4>2
    <3>3. Len(m_msg) >= 1 /\ m = m_msg[1]
      BY <1>0, <1>1, <3>1, EmptySeq
    <3>4. Waiting[1] = m
      BY <3>2, <3>3
    <3> DEFINE l == Len(written) + 1
    <3>5. l \in 1..Len(Flow) /\ Flow[l] = m /\ k # l
      <4>1. l \in 1..(Len(written) + Len(Waiting)) /\ ~(l <= Len(written)) /\ l - Len(written) = 1
            /\ k # l
        BY <1>1, <2>3, <3>2, <3>3 DEF StreamTypes
      <4> HIDE DEF l
      <4> QED BY <2>3, <2>4, <3>4, <4>1
    <3> QED BY <2>2, <2>5, <3>5 DEF Once
  <2>7. CASE ~(m_msg_bsent < 0)
    <3>1. m_msg_bsent >= 0 /\ m_msg_bsent \in Nat /\ a = HeaderUnits + m_msg_bsent
      BY <1>1, <1>2, <2>7 DEF StreamTypes
    <3>2. written # <<>> /\ m = written[Len(written)]
      BY <1>0, <3>1 DEF QueueInv, InFlight
    <3>3. Len(written) \in 1..Len(Flow) /\ Flow[Len(written)] = m
      <4>1. Len(written) \in 1..(Len(written) + Len(Waiting))
        BY <1>1, <2>3, <3>2, EmptySeq DEF StreamTypes
      <4> QED BY <1>1, <2>3, <2>4, <3>2, <4>1 DEF StreamTypes
    <3>4. k = Len(written)
      BY <2>2, <2>5, <3>3 DEF Once
    <3> QED BY <1>1, <1>4, <2>1, <3>1, <3>4
  <2> QED BY <2>6, <2>7
<1>5. ASSUME NEW x \in Nat, a < x, x <= a + n PROVE Out(m, x)'
  <2>1. Len(written') \in 1..Len(written') /\ written'[Len(written')] = m
    <3>1. CASE m_msg_bsent < 0
      <4>1. Len(written') = Len(written) + 1 /\ written'[Len(written) + 1] = m
        BY <1>1, <1>2, <3>1, AppendProperties DEF StreamTypes
      <4> QED BY <1>1, <4>1 DEF StreamTypes
    <3>2. CASE ~(m_msg_bsent < 0)
      <4>1. m_msg_bsent >= 0 /\ written' = written
        BY <1>1, <1>2, <3>2 DEF StreamTypes
      <4>2. written # <<>> /\ m = written[Len(written)]
        BY <1>0, <4>1 DEF QueueInv, InFlight
      <4>3. Len(written) # 0
        BY <1>1, <4>2, EmptySeq DEF StreamTypes
      <4> QED BY <1>1, <4>1, <4>2, <4>3 DEF StreamTypes
    <3> QED BY <3>1, <3>2
  <2>2. x <= HeaderUnits + (IF m_msg_bsent' >= 0 THEN m_msg_bsent' ELSE Units[m])
    <3>1. Units[m] \in Nat
      BY <1>2, Types
    <3>2. CASE a + n = HeaderUnits + Units[m]
      <4>1. m_msg_bsent' = -1
        BY <1>2, <3>2
      <4> QED BY <1>5, <3>2, <4>1
    <3>3. CASE a + n # HeaderUnits + Units[m]
      <4>1. m_msg_bsent' = a + n - HeaderUnits /\ m_msg_bsent' >= 0
            /\ HeaderUnits + m_msg_bsent' = a + n
        <5>1. m_msg_bsent' = a + n - HeaderUnits /\ HeaderUnits <= a + n
          BY <1>2, <3>3
        <5> QED BY <1>1, <5>1
      <4> QED BY <1>5, <4>1
    <3> QED BY <3>2, <3>3
  <2>3. x >= 1
    BY <1>5
  <2> QED BY <2>1, <2>2, <2>3 DEF Out
<1> QED BY <1>2, <1>3, <1>4, <1>5

LEMMA PastStays ==
  ASSUME QueueInv, [Next]_vars, NEW m \in Message, NEW x \in Nat, Past(m, x)
  PROVE  Past(m, x)'
<1>1. StreamTypes /\ m \in AnyMessage /\ m # Junk
  BY StreamTyped, Types DEF QueueInv
<1>2. Out(m, x)'
  BY OutStays DEF Past
<1>3. ~OnTheWay(m, x)'
  <2> SUFFICES ASSUME NEW i \in 1..Len(Stream'), Stream'[i] = [msg |-> m, at |-> x]
               PROVE  FALSE
    BY DEF OnTheWay
  <2>1. CASE RunSendTurn
    <3>1. PICK h \in AnyMessage, a, n \in Nat :
            /\ Longer(Stream', Stream, h, a, n)
            /\ h \in Message => \A y \in Nat : y > a => ~Out(h, y)
      BY <2>1, TurnSends
    <3>2. CASE i <= Len(Stream)
      <4>1. i \in 1..Len(Stream)
        BY <1>1, <3>2 DEF StreamTypes
      <4> QED BY <3>1, <4>1 DEF Longer, Past, OnTheWay
    <3>3. CASE i > Len(Stream)
      <4>1. PICK j \in 1..n : i = Len(Stream) + j
        <5>1. i - Len(Stream) \in 1..n /\ i = Len(Stream) + (i - Len(Stream))
          BY <1>1, <3>1, <3>3 DEF StreamTypes, Longer
        <5> QED BY <5>1
      <4>2. [msg |-> m, at |-> x] = [msg |-> h, at |-> a + j]
        BY <3>1, <4>1 DEF Longer
      <4>3. m = h /\ x = a + j
        BY <4>2
      <4>4. x > a
        BY <4>3
      <4> QED BY <3>1, <4>3, <4>4 DEF Past
    <3> QED BY <1>1, <3>2, <3>3 DEF StreamTypes
  <2>2. CASE ~RunSendTurn
    <3>1. PICK t \in Nat : Thins(Stream', Stream, t)
      BY <2>2, StreamThins
    <3>2. t + i \in 1..Len(Stream) /\ (Stream'[i] = Stream[t + i] \/ Stream'[i] = NoCell)
      BY <3>1 DEF Thins
    <3>3. Stream'[i] # NoCell
      BY <1>1 DEF NoCell
    <3> QED BY <3>2, <3>3 DEF Past, OnTheWay
  <2> QED BY <2>1, <2>2
<1> QED BY <1>2, <1>3 DEF Past

LEMMA WayStep ==
  ASSUME QueueInv, WayInv, [Next]_vars
  PROVE  WayInv'
<1>1. StreamTypes /\ StreamTypes' /\ Message \subseteq AnyMessage /\ Junk \notin AnyMessage
  <2>1. (TypeOK => StreamTypes)'
    BY StreamTyped, PTL
  <2>2. QueueInv'
    BY QueueStep
  <2> QED BY <2>1, <2>2, StreamTyped, Types DEF QueueInv
<1>2. \A i \in 1..Len(Stream) : Stream[i].at \in Nat
  BY <1>1, CellOf DEF StreamTypes
<1>3. ASSUME NEW i \in 1..Len(Stream), NEW u, u = Stream[i], u.msg \in Message
      PROVE  Out(u.msg, u.at)'
  <2>1. u.at \in Nat /\ Out(u.msg, u.at)
    BY <1>2, <1>3 DEF WayInv
  <2> QED BY <1>3, <2>1, OutStays
<1>4. CASE RunSendTurn
  <2>1. PICK h \in AnyMessage, a, n \in Nat :
          /\ Longer(Stream', Stream, h, a, n)
          /\ h \in Message => /\ \A x \in Nat : x > a => ~Out(h, x)
                              /\ \A x \in Nat : a < x /\ x <= a + n => Out(h, x)'
    BY <1>4, TurnSends
  <2>2. ASSUME NEW i \in 1..Len(Stream')
        PROVE  \/ i \in 1..Len(Stream) /\ Stream'[i] = Stream[i]
               \/ \E j \in 1..n : /\ i = Len(Stream) + j
                                  /\ Stream'[i] = [msg |-> h, at |-> a + j]
    <3>1. CASE i <= Len(Stream)
      <4>1. i \in 1..Len(Stream)
        BY <1>1, <3>1 DEF StreamTypes
      <4> QED BY <2>1, <4>1 DEF Longer
    <3>2. CASE i > Len(Stream)
      <4>1. i - Len(Stream) \in 1..n /\ i = Len(Stream) + (i - Len(Stream))
        BY <1>1, <2>1, <3>2 DEF StreamTypes, Longer
      <4>2. PICK j \in 1..n : i = Len(Stream) + j
        BY <4>1
      <4> QED BY <2>1, <4>2 DEF Longer
    <3>3. i \in Nat /\ Len(Stream) \in Nat
      BY <1>1 DEF StreamTypes
    <3> QED BY <3>1, <3>2, <3>3
  <2>3. \A j \in 1..n : /\ [msg |-> h, at |-> a + j].msg = h /\ [msg |-> h, at |-> a + j].at = a + j
                        /\ a + j \in Nat /\ a < a + j /\ a + j <= a + n
    OBVIOUS
  <2>4. ASSUME NEW i \in 1..Len(Stream'), NEW u, u = Stream'[i], u.msg \in Message
        PROVE  Out(u.msg, u.at)'
    <3>1. CASE i \in 1..Len(Stream) /\ Stream'[i] = Stream[i]
      BY <1>3, <2>4, <3>1
    <3>2. CASE \E j \in 1..n : i = Len(Stream) + j /\ Stream'[i] = [msg |-> h, at |-> a + j]
      <4>1. PICK j \in 1..n : Stream'[i] = [msg |-> h, at |-> a + j]
        BY <3>2
      <4>2. u.msg = h /\ u.at = a + j
        BY <2>4, <4>1
      <4>3. Out(h, a + j)'
        BY <2>1, <2>3, <2>4, <4>2
      <4> QED BY <4>2, <4>3
    <3> QED BY <2>2, <3>1, <3>2
  <2>5. ASSUME NEW i \in 1..Len(Stream), NEW j \in 1..n,
               Stream[i] = [msg |-> h, at |-> a + j], h \in Message
        PROVE  FALSE
    <3>1. Stream[i].msg = h /\ Stream[i].at = a + j
      BY <2>5
    <3>2. Out(h, a + j)
      BY <2>5, <3>1 DEF WayInv
    <3> QED BY <2>1, <2>3, <2>5, <3>2
  <2>6. ASSUME NEW i \in 1..Len(Stream'), NEW j \in 1..Len(Stream'),
               Stream'[i].msg \in Message, Stream'[i] = Stream'[j]
        PROVE  i = j
    <3>1. CASE i \in 1..Len(Stream) /\ Stream'[i] = Stream[i]
      <4>1. CASE j \in 1..Len(Stream) /\ Stream'[j] = Stream[j]
        BY <2>6, <3>1, <4>1 DEF WayInv
      <4>2. CASE \E b \in 1..n : j = Len(Stream) + b /\ Stream'[j] = [msg |-> h, at |-> a + b]
        <5>1. PICK b \in 1..n : Stream'[j] = [msg |-> h, at |-> a + b]
          BY <4>2
        <5>2. Stream[i] = [msg |-> h, at |-> a + b]
          BY <2>6, <3>1, <5>1
        <5>3. h \in Message
          BY <2>6, <3>1, <5>2
        <5> QED BY <2>5, <3>1, <5>2, <5>3
      <4> QED BY <2>2, <4>1, <4>2
    <3>2. CASE \E b \in 1..n : i = Len(Stream) + b /\ Stream'[i] = [msg |-> h, at |-> a + b]
      <4>1. CASE j \in 1..Len(Stream) /\ Stream'[j] = Stream[j]
        BY <2>5, <2>6, <3>2, <4>1
      <4>2. CASE \E b \in 1..n : j = Len(Stream) + b /\ Stream'[j] = [msg |-> h, at |-> a + b]
        <5>1. PICK b \in 1..n : i = Len(Stream) + b /\ Stream'[i] = [msg |-> h, at |-> a + b]
          BY <3>2
        <5>2. PICK c \in 1..n : j = Len(Stream) + c /\ Stream'[j] = [msg |-> h, at |-> a + c]
          BY <4>2
        <5>3. [msg |-> h, at |-> a + b].at = [msg |-> h, at |-> a + c].at
          BY <2>6, <5>1, <5>2
        <5>4. a + b = a + c
          BY <5>3
        <5> QED BY <5>1, <5>2, <5>4
      <4> QED BY <2>2, <4>1, <4>2
    <3> QED BY <2>2, <3>1, <3>2
  <2> QED BY <2>4, <2>6 DEF WayInv
<1>5. CASE ~RunSendTurn
  <2>1. PICK t \in Nat : Thins(Stream', Stream, t)
    BY <1>5, StreamThins
  <2>2. NoCell.msg \notin Message
    BY <1>1 DEF NoCell
  <2>3. \A i \in 1..Len(Stream') :
          Stream'[i].msg \in Message => t + i \in 1..Len(Stream) /\ Stream'[i] = Stream[t + i]
    BY <2>1, <2>2 DEF Thins
  <2>4. ASSUME NEW i \in 1..Len(Stream'), NEW u, u = Stream'[i], u.msg \in Message
        PROVE  Out(u.msg, u.at)'
    <3>1. t + i \in 1..Len(Stream) /\ u = Stream[t + i]
      BY <2>3, <2>4
    <3> QED BY <1>3, <2>4, <3>1
  <2>5. ASSUME NEW i \in 1..Len(Stream'), NEW j \in 1..Len(Stream'),
               Stream'[i].msg \in Message, Stream'[i] = Stream'[j]
        PROVE  i = j
    <3>1. t + i = t + j
      BY <2>3, <2>5 DEF WayInv
    <3> QED BY <3>1
  <2> QED BY <2>4, <2>5 DEF WayInv
<1> QED BY <1>4, <1>5

\* What one call of the receiver reads: t units; of a message w that stays whole, all
\* units up to the p-th of the body, the ones read before included.
ReadsUnits(w, t, p, ok) ==
  /\ t <= Len(Stream) /\ Cut(Stream', Stream, t)
  /\ ok => /\ w \in AnyMessage
           /\ \A x \in Nat : 1 <= x /\ x <= HeaderUnits + p =>
                \/ Whole(w) /\ x <= HeaderUnits + m_newmsg_pos
                \/ \E i \in 1..t : Stream[i] = [msg |-> w, at |-> x]
  /\ \/ /\ m_newmsg_pos' = p /\ got' = got
        /\ m_newmsg' = [msg |-> w, units |-> m_newmsg'.units, good |-> ok]
        /\ ok => m_newmsg'.units = Units[w]
     \/ m_newmsg_pos' = -1 /\ got' = got
     \/ /\ m_newmsg_pos' = -1 /\ got' = Append(got, w)
        /\ (w = Junk \/ (ok /\ p = Units[w]))

LEMMA RecvReads ==
  ASSUME QueueInv, PastInv, RecvMessage
  PROVE  \E w \in AnyMessage \cup {Junk}, t, p \in Nat, ok \in BOOLEAN : ReadsUnits(w, t, p, ok)
<1>1. StreamTypes /\ HeaderUnits \in Nat \ {0} /\ Junk \notin AnyMessage
  BY StreamTyped, Types DEF QueueInv
<1>2. PICK new \in Incoming, pos, c, n \in Nat :
           /\ Taken(new, pos, c, n)
           /\ \/ /\ m_newmsg_pos = -1 /\ pos = 0 /\ c = HeaderUnits
                 /\ \/ /\ new.good /\ new.msg \in AnyMessage /\ new.units = Units[new.msg]
                       /\ HeaderOf(new.msg)
                    \/ ~new.good /\ new.msg = Junk /\ \A m \in AnyMessage : ~HeaderOf(m)
              \/ /\ m_newmsg_pos >= 0 /\ pos = m_newmsg_pos /\ c = 0 /\ new = m_newmsg
                 /\ pos < new.units
  BY RecvIs DEF QueueInv
<1> DEFINE t == c + n  p == pos + n  w == new.msg
           ok == /\ new.good
                 /\ \A i \in 1..n : recvbuf[c + i] = [msg |-> new.msg, at |-> HeaderUnits + pos + i]
<1>3. w \in AnyMessage \cup {Junk} /\ t \in Nat /\ p \in Nat /\ ok \in BOOLEAN /\ new.units \in Nat
  BY DEF Incoming
<1>4. /\ t <= Len(recvbuf) /\ p <= new.units /\ Cut(recvbuf', recvbuf, t)
      /\ recvbuf' \in Seq(Cell) /\ UNCHANGED sendbuf
      /\ \/ /\ p < new.units /\ m_newmsg_pos' = p /\ got' = got
            /\ m_newmsg' = [msg |-> w, units |-> new.units, good |-> ok]
         \/ /\ p = new.units /\ m_newmsg_pos' = -1
            /\ \/ got' = got
               \/ (pos = new.units \/ ok) /\ got' = Append(got, w)
  BY <1>1, <1>2 DEF Taken, Cut, RecvMessage, StreamTypes
<1>5. /\ \A i \in 1..Len(recvbuf) : Stream[i] = recvbuf[i]
      /\ t <= Len(Stream)
  BY <1>1, <1>3, <1>4, StreamIs DEF Stream, StreamTypes
<1>6. Cut(Stream', Stream, t)
  <2> DEFINE r2 == recvbuf'
  <2>1. r2 \in Seq(Cell) /\ Stream' = r2 \o sendbuf /\ Cut(r2, recvbuf, t)
    BY <1>4 DEF Stream
  <2> HIDE DEF r2, t
  <2>2. Cut(r2 \o sendbuf, recvbuf \o sendbuf, t)
    BY <1>1, <1>3, <2>1, CutFront DEF StreamTypes
  <2> QED BY <2>1, <2>2 DEF Stream
<1>7. new.good => w \in AnyMessage /\ new.units = Units[w]
  <2>1. CASE m_newmsg_pos = -1
    BY <1>1, <1>2, <2>1
  <2>2. CASE m_newmsg_pos >= 0
    BY <1>2, <2>2 DEF PastInv
  <2> QED BY <1>1, <2>1, <2>2 DEF StreamTypes
<1>8. ASSUME ok, NEW x \in Nat, 1 <= x, x <= HeaderUnits + p
      PROVE  \/ Whole(w) /\ x <= HeaderUnits + m_newmsg_pos
             \/ \E i \in 1..t : Stream[i] = [msg |-> w, at |-> x]
  <2>1. CASE x > HeaderUnits + pos
    <3>1. PICK i \in 1..n : x = HeaderUnits + pos + i
      <4>1. x - HeaderUnits - pos \in 1..n /\ x = HeaderUnits + pos + (x - HeaderUnits - pos)
        BY <1>1, <1>8, <2>1
      <4> QED BY <4>1
    <3>2. recvbuf[c + i] = [msg |-> w, at |-> x]
      BY <1>8, <3>1
    <3>3. c + i \in 1..t /\ c + i \in 1..Len(recvbuf)
      <4>1. c + n <= Len(recvbuf) /\ Len(recvbuf) \in Nat /\ c \in Nat /\ n \in Nat /\ i \in 1..n
        BY <1>1, <1>4 DEF StreamTypes
      <4> QED BY <4>1
    <3> QED BY <1>5, <3>2, <3>3
  <2>2. CASE x <= HeaderUnits + pos /\ m_newmsg_pos = -1
    <3>1. c = HeaderUnits /\ HeaderOf(w) /\ x \in 1..HeaderUnits /\ HeaderUnits <= t
      BY <1>1, <1>2, <1>8, <2>2
    <3>2. recvbuf[x] = [msg |-> w, at |-> x] /\ x \in 1..t /\ x \in 1..Len(recvbuf)
      <4>1. recvbuf[x] = [msg |-> w, at |-> x]
        BY <3>1 DEF HeaderOf
      <4>2. x \in Int /\ 1 <= x /\ x <= t /\ t <= Len(recvbuf) /\ t \in Nat /\ Len(recvbuf) \in Nat
        <5>1. Len(recvbuf) \in Nat /\ HeaderUnits \in Nat
          BY <1>1 DEF StreamTypes
        <5> QED BY <1>3, <1>4, <3>1, <5>1
      <4> HIDE DEF t, w
      <4> QED BY <4>1, <4>2
    <3> QED BY <1>5, <3>2
  <2>3. CASE x <= HeaderUnits + pos /\ m_newmsg_pos >= 0
    BY <1>1, <1>2, <1>8, <2>3 DEF Whole
  <2>4. HeaderUnits + pos \in Nat /\ (m_newmsg_pos = -1 \/ m_newmsg_pos >= 0)
    BY <1>1 DEF StreamTypes
  <2>5. x > HeaderUnits + pos \/ x <= HeaderUnits + pos
    BY <2>4
  <2> QED BY <2>1, <2>2, <2>3, <2>4, <2>5
<1>9. ASSUME pos = new.units, got' = Append(got, w), p = new.units
      PROVE  w = Junk \/ (ok /\ p = Units[w])
  <2>1. m_newmsg_pos = -1 /\ n = 0
    BY <1>2, <1>3, <1>9
  <2>2. new.good \/ w = Junk
    BY <1>1, <1>2, <2>1
  <2>3. \A i \in 1..n : FALSE
    BY <2>1
  <2> QED BY <1>7, <1>9, <2>2, <2>3
<1>10. ASSUME ok PROVE w \in AnyMessage /\ new.units = Units[w]
  BY <1>7, <1>10
<1> HIDE DEF t, p, w, ok
<1>11. \/ /\ m_newmsg_pos' = p /\ got' = got
          /\ m_newmsg' = [msg |-> w, units |-> m_newmsg'.units, good |-> ok]
          /\ ok => m_newmsg'.units = Units[w]
       \/ m_newmsg_pos' = -1 /\ got' = got
       \/ /\ m_newmsg_pos' = -1 /\ got' = Append(got, w)
          /\ (w = Junk \/ (ok /\ p = Units[w]))
  <2>1. CASE /\ p < new.units /\ m_newmsg_pos' = p /\ got' = got
             /\ m_newmsg' = [msg |-> w, units |-> new.units, good |-> ok]
    <3>1. m_newmsg'.units = new.units
      BY <2>1
    <3> QED BY <1>10, <2>1, <3>1
  <2>2. CASE p = new.units /\ m_newmsg_pos' = -1 /\ got' = got
    BY <2>2
  <2>3. CASE p = new.units /\ m_newmsg_pos' = -1 /\ (pos = new.units \/ ok) /\ got' = Append(got, w)
    BY <1>9, <1>10, <2>3
  <2> QED BY <1>4, <2>1, <2>2, <2>3
<1>12. ReadsUnits(w, t, p, ok)
  BY <1>5, <1>6, <1>8, <1>10, <1>11 DEF ReadsUnits
<1> QED BY <1>3, <1>12

\* What was read is past.
LEMMA ReadIsPast ==
  ASSUME QueueInv, WayInv, [Next]_vars, NEW t \in Nat, t <= Len(Stream), Cut(Stream', Stream, t),
         NEW m \in Message, NEW x \in Nat, NEW i \in 1..t, Stream[i] = [msg |-> m, at |-> x]
  PROVE  Past(m, x)'
<1>1. StreamTypes
  BY StreamTyped DEF QueueInv
<1>2. i \in 1..Len(Stream) /\ Stream[i].msg = m /\ Stream[i].at = x
  BY <1>1 DEF StreamTypes
<1>3. Out(m, x)'
  BY <1>2, OutStays DEF WayInv
<1>4. ASSUME NEW j \in 1..Len(Stream'), Stream'[j] = [msg |-> m, at |-> x] PROVE FALSE
  <2>1. Stream'[j] = Stream[t + j] /\ t + j \in 1..Len(Stream) /\ t + j # i
    BY <1>1, <1>2 DEF Cut, StreamTypes
  <2> QED BY <1>2, <1>4, <2>1 DEF WayInv
<1> QED BY <1>3, <1>4 DEF Past, OnTheWay

LEMMA RecvKeepsPast ==
  ASSUME QueueInv, WayInv, PastInv, RecvMessage
  PROVE  PastInv'
<1>1. StreamTypes /\ HeaderUnits \in Nat \ {0} /\ Junk \notin AnyMessage /\ Message \subseteq AnyMessage
  BY StreamTyped, Types DEF QueueInv
<1>2. PICK w \in AnyMessage \cup {Junk}, t, p \in Nat, ok \in BOOLEAN : ReadsUnits(w, t, p, ok)
  BY RecvReads
<1>3. [Next]_vars
  BY DEF Next
<1>4. ASSUME ok, w \in Message, NEW x \in Nat, 1 <= x, x <= HeaderUnits + p PROVE Past(w, x)'
  <2>1. CASE Whole(w) /\ x <= HeaderUnits + m_newmsg_pos
    <3>1. Past(w, x)
      BY <1>4, <2>1 DEF PastInv
    <3> QED BY <1>3, <1>4, <3>1, PastStays
  <2>2. CASE \E i \in 1..t : Stream[i] = [msg |-> w, at |-> x]
    BY <1>2, <1>3, <1>4, <2>2, ReadIsPast DEF ReadsUnits
  <2> QED BY <1>2, <1>4, <2>1, <2>2 DEF ReadsUnits
<1>5. ASSUME NEW m \in Message, NEW x \in Nat, Past(m, x) PROVE Past(m, x)'
  BY <1>3, <1>5, PastStays
<1>6. CASE /\ m_newmsg_pos' = p /\ got' = got
           /\ m_newmsg' = [msg |-> w, units |-> m_newmsg'.units, good |-> ok]
           /\ ok => m_newmsg'.units = Units[w]
  <2>1. m_newmsg'.msg = w /\ m_newmsg'.good = ok
    BY <1>6
  <2>2. ok => w \in AnyMessage
    BY <1>2 DEF ReadsUnits
  <2>3. ASSUME NEW m \in Message, Whole(m)' PROVE m = w /\ ok
    BY <2>1, <2>3 DEF Whole
  <2>4. ASSUME NEW m \in Message, NEW x \in Nat, Whole(m)', 1 <= x, x <= HeaderUnits + m_newmsg_pos'
        PROVE  Past(m, x)'
    BY <1>4, <1>6, <2>3, <2>4
  <2>5. ASSUME NEW m \in Message, NEW x \in Nat, m \in Range(got'), 1 <= x, x <= HeaderUnits + Units[m]
        PROVE  Past(m, x)'
    BY <1>5, <1>6, <2>5 DEF PastInv
  <2> QED BY <1>6, <2>1, <2>2, <2>4, <2>5 DEF PastInv
<1>7. CASE m_newmsg_pos' = -1
  <2>1. ~(m_newmsg_pos' >= 0)
    BY <1>7
  <2>2. ASSUME NEW m \in Message, NEW x \in Nat, m \in Range(got'), 1 <= x, x <= HeaderUnits + Units[m]
        PROVE  Past(m, x)'
    <3>1. CASE m \in Range(got)
      BY <1>5, <2>2, <3>1 DEF PastInv
    <3>2. CASE m \notin Range(got)
      <4>1. got' = Append(got, w) /\ (w = Junk \/ (ok /\ p = Units[w]))
        BY <1>1, <1>2, <1>7, <2>2, <3>2 DEF ReadsUnits
      <4>2. m = w
        <5>1. /\ Len(got') = Len(got) + 1 /\ got'[Len(got) + 1] = w
              /\ \A i \in 1..Len(got) : got'[i] = got[i]
              /\ DOMAIN got' = 1..Len(got') /\ DOMAIN got = 1..Len(got)
          BY <1>1, <1>2, <4>1, AppendProperties DEF StreamTypes
        <5>2. \A i \in 1..Len(got') : i \in 1..Len(got) \/ i = Len(got) + 1
          BY <1>1, <5>1 DEF StreamTypes
        <5> QED BY <2>2, <3>2, <5>1, <5>2 DEF Range
      <4>3. ok /\ p = Units[m] /\ w \in Message
        BY <1>1, <4>1, <4>2
      <4> QED BY <1>4, <2>2, <4>2, <4>3
    <3> QED BY <3>1, <3>2
  <2> QED BY <2>1, <2>2 DEF PastInv, Whole
<1> QED BY <1>2, <1>6, <1>7 DEF ReadsUnits

LEMMA RecvKeepsMissing ==
  ASSUME QueueInv, WayInv, PastInv, RecvMessage, NEW m \in Message, Missing(m)
  PROVE  Missing(m)'
<1>1. StreamTypes /\ HeaderUnits \in Nat \ {0} /\ Junk \notin AnyMessage
      /\ m \in AnyMessage /\ Units[m] \in Nat
  BY StreamTyped, Types DEF QueueInv
<1>2. PICK w \in AnyMessage \cup {Junk}, t, p \in Nat, ok \in BOOLEAN : ReadsUnits(w, t, p, ok)
  BY RecvReads
<1>3. [Next]_vars
  BY DEF Next
<1>4. PICK x \in Nat : /\ x <= HeaderUnits + Units[m] /\ Past(m, x)
                       /\ Whole(m) => x > HeaderUnits + m_newmsg_pos
  BY DEF Missing
<1>5. m \notin Range(got) /\ Past(m, x)' /\ 1 <= x
  BY <1>3, <1>4, PastStays DEF Missing, Past, Out
<1>6. ASSUME ok, w = m, x <= HeaderUnits + p PROVE FALSE
  <2>1. CASE Whole(w) /\ x <= HeaderUnits + m_newmsg_pos
    <3>1. HeaderUnits + m_newmsg_pos \in Int
      BY <1>1 DEF StreamTypes
    <3> QED BY <1>4, <1>6, <2>1, <3>1
  <2>2. CASE \E i \in 1..t : Stream[i] = [msg |-> w, at |-> x]
    <3>1. PICK i \in 1..t : Stream[i] = [msg |-> m, at |-> x]
      BY <1>6, <2>2
    <3>2. i \in 1..Len(Stream)
      BY <1>1, <1>2 DEF ReadsUnits, StreamTypes
    <3> QED BY <1>4, <3>1, <3>2 DEF Past, OnTheWay
  <2> QED BY <1>2, <1>5, <1>6, <2>1, <2>2 DEF ReadsUnits
<1>7. m \notin Range(got')
  <2>1. CASE got' = got
    BY <1>5, <2>1
  <2>2. CASE got' = Append(got, w) /\ (w = Junk \/ (ok /\ p = Units[w]))
    <3>1. w # m
      BY <1>1, <1>4, <1>6, <2>2
    <3>2. /\ Len(got') = Len(got) + 1 /\ got'[Len(got) + 1] = w
          /\ \A i \in 1..Len(got) : got'[i] = got[i]
          /\ DOMAIN got' = 1..Len(got') /\ DOMAIN got = 1..Len(got)
      BY <1>1, <1>2, <2>2, AppendProperties DEF StreamTypes
    <3>3. \A i \in 1..Len(got') : i \in 1..Len(got) \/ i = Len(got) + 1
      BY <1>1, <3>2 DEF StreamTypes
    <3> QED BY <1>5, <3>1, <3>2, <3>3 DEF Range
  <2> QED BY <1>2, <2>1, <2>2 DEF ReadsUnits
<1>8. ASSUME Whole(m)' PROVE x > HeaderUnits + m_newmsg_pos'
  <2>1. m_newmsg_pos' = p /\ m_newmsg' = [msg |-> w, units |-> m_newmsg'.units, good |-> ok]
    BY <1>2, <1>8 DEF ReadsUnits, Whole
  <2>2. m = w /\ ok
    BY <1>8, <2>1 DEF Whole
  <2> QED BY <1>1, <1>6, <2>1, <2>2
<1> QED BY <1>4, <1>5, <1>7, <1>8 DEF Missing

LEMMA PastStep ==
  ASSUME QueueInv, WayInv, PastInv, [Next]_vars
  PROVE  PastInv'
<1>1. CASE RecvMessage
  BY <1>1, RecvKeepsPast
<1>2. CASE ~RecvMessage
  <2>1. got' = got /\ (UNCHANGED <<m_newmsg, m_newmsg_pos>> \/ RefuseHeader)
    BY <1>2 DEF Next, SendMessage, RunSend, RunSendStop, RunSendTurn, Transmit, Damage,
                RefuseHeader, vars, recvvars
  <2>2. RefuseHeader => ~(m_newmsg_pos' >= 0)
    BY DEF RefuseHeader
  <2>3. ASSUME NEW m \in Message, NEW x \in Nat, Past(m, x) PROVE Past(m, x)'
    BY <2>3, PastStays
  <2>4. CASE UNCHANGED <<m_newmsg, m_newmsg_pos>>
    BY <2>1, <2>3, <2>4 DEF PastInv, Whole
  <2>5. CASE RefuseHeader
    BY <2>1, <2>2, <2>3, <2>5 DEF PastInv, Whole
  <2> QED BY <2>1, <2>4, <2>5
<1> QED BY <1>1, <1>2

\* A unit that is damaged was not received, and comes no second time.
LEMMA DamageMissing ==
  ASSUME QueueInv, WayInv, PastInv, Damage
  PROVE  \A m \in spoiled' \ spoiled : m \in Message /\ Missing(m)'
<1>1. StreamTypes /\ HeaderUnits \in Nat \ {0} /\ Junk \notin Message /\ Message \subseteq AnyMessage
      /\ \A m \in AnyMessage : Units[m] \in Nat
  BY StreamTyped, Types DEF QueueInv, AnyMessage
<1>2. PICK d \in 1..Len(recvbuf) :
           /\ recvbuf[d].msg \in Message \ spoiled /\ spoiled' = spoiled \cup {recvbuf[d].msg}
           /\ Len(Stream') = Len(Stream) /\ Stream[d] = recvbuf[d]
           /\ Stream'[d] = NoCell
           /\ \A i \in 1..Len(Stream) : i # d => Stream'[i] = Stream[i]
  BY DamageThins DEF QueueInv
<1>0. PICK m, x : m = recvbuf[d].msg /\ x = recvbuf[d].at
  OBVIOUS
<1>3. m \in Message /\ x \in Nat /\ recvbuf[d] = [msg |-> m, at |-> x] /\ spoiled' \ spoiled = {m}
      /\ d \in 1..Len(Stream) /\ Stream[d] = [msg |-> m, at |-> x]
  <2>1. d \in 1..Len(Stream)
    BY <1>1 DEF StreamTypes
  <2>2. recvbuf[d].at \in Nat /\ recvbuf[d] = [msg |-> recvbuf[d].msg, at |-> recvbuf[d].at]
    BY <1>1, CellOf DEF StreamTypes
  <2> QED BY <1>0, <1>2, <2>1, <2>2
<1>4. OnTheWay(m, x) /\ Out(m, x)
  BY <1>0, <1>2, <1>3 DEF OnTheWay, WayInv
<1>5. UNCHANGED <<written, m_msg_bsent, m_newmsg, m_newmsg_pos, got>>
  BY DEF Damage, sendvars, recvvars
<1>6. Past(m, x)'
  <2>1. Out(m, x)'
    BY <1>4, <1>5 DEF Out
  <2>2. ASSUME NEW i \in 1..Len(Stream'), Stream'[i] = [msg |-> m, at |-> x] PROVE FALSE
    <3>1. CASE i = d
      <4>1. [msg |-> m, at |-> x].msg = NoCell.msg
        BY <1>2, <2>2, <3>1
      <4> QED BY <1>1, <1>3, <4>1 DEF NoCell
    <3>2. CASE i # d
      <4>1. i \in 1..Len(Stream) /\ Stream[i] = Stream[d]
        BY <1>2, <1>3, <2>2, <3>2
      <4>2. Stream[i].msg \in Message
        BY <1>3, <4>1
      <4> QED BY <1>3, <3>2, <4>1, <4>2 DEF WayInv
    <3> QED BY <3>1, <3>2
  <2> QED BY <2>1, <2>2 DEF Past, OnTheWay
<1>7. x <= HeaderUnits + Units[m] /\ 1 <= x
  <2>1. PICK k \in 1..Len(written) :
          /\ written[k] = m
          /\ x <= HeaderUnits +
                  (IF k = Len(written) /\ m_msg_bsent >= 0 THEN m_msg_bsent ELSE Units[m])
    BY <1>4 DEF Out
  <2>2. CASE k = Len(written) /\ m_msg_bsent >= 0
    <3>1. m_msg_bsent < Units[m] /\ m_msg_bsent \in Nat
      BY <1>1, <2>1, <2>2 DEF QueueInv, InFlight, StreamTypes
    <3> QED BY <1>1, <1>3, <1>4, <2>1, <2>2, <3>1 DEF Out
  <2>3. CASE ~(k = Len(written) /\ m_msg_bsent >= 0)
    BY <1>4, <2>1, <2>3 DEF Out
  <2> QED BY <2>2, <2>3
<1>8. m \notin Range(got')
  BY <1>3, <1>4, <1>5, <1>7 DEF PastInv, Past
<1>9. ASSUME Whole(m) PROVE x > HeaderUnits + m_newmsg_pos
  <2>1. ~(x <= HeaderUnits + m_newmsg_pos)
    BY <1>3, <1>4, <1>7, <1>9 DEF PastInv, Past
  <2> QED BY <1>1, <1>3, <2>1 DEF StreamTypes
<1>10. Whole(m)' => x > HeaderUnits + m_newmsg_pos'
  BY <1>5, <1>9 DEF Whole
<1>11. Missing(m)'
  BY <1>3, <1>6, <1>7, <1>8, <1>10 DEF Missing
<1> QED BY <1>3, <1>11

LEMMA SpoiledStep ==
  ASSUME QueueInv, WayInv, PastInv, SpoiledInv, [Next]_vars
  PROVE  SpoiledInv'
<1>1. spoiled \subseteq Message
  BY DEF QueueInv, TypeOK
<1>2. CASE RecvMessage
  <2>1. spoiled' = spoiled
    BY <1>2 DEF RecvMessage
  <2> QED BY <1>1, <1>2, <2>1, RecvKeepsMissing DEF SpoiledInv
<1>3. CASE ~RecvMessage
  <2>1. got' = got /\ (UNCHANGED <<m_newmsg, m_newmsg_pos>> \/ RefuseHeader)
        /\ (spoiled' = spoiled \/ Damage)
    BY <1>3 DEF Next, SendMessage, RunSend, RunSendStop, RunSendTurn, Transmit, Damage,
                RefuseHeader, vars, recvvars
  <2>2. ASSUME NEW m \in spoiled PROVE Missing(m)'
    <3>1. PICK x \in Nat : /\ x <= HeaderUnits + Units[m] /\ Past(m, x)
                           /\ Whole(m) => x > HeaderUnits + m_newmsg_pos
      BY <2>2 DEF SpoiledInv, Missing
    <3>2. Past(m, x)'
      BY <1>1, <3>1, PastStays
    <3>3. m \notin Range(got')
      BY <2>1, <2>2 DEF SpoiledInv, Missing
    <3>4. Whole(m)' => x > HeaderUnits + m_newmsg_pos'
      <4>1. CASE UNCHANGED <<m_newmsg, m_newmsg_pos>>
        BY <3>1, <4>1 DEF Whole
      <4>2. CASE RefuseHeader
        <5>1. ~(m_newmsg_pos' >= 0)
          BY <4>2 DEF RefuseHeader
        <5> QED BY <5>1 DEF Whole
      <4> QED BY <2>1, <4>1, <4>2
    <3> QED BY <3>1, <3>2, <3>3, <3>4 DEF Missing
  <2>3. CASE spoiled' = spoiled
    BY <2>2, <2>3 DEF SpoiledInv
  <2>4. CASE Damage
    <3>1. \A m \in spoiled' : m \in spoiled \/ m \in spoiled' \ spoiled
      OBVIOUS
    <3> QED BY <2>2, <2>4, <3>1, DamageMissing DEF SpoiledInv
  <2> QED BY <2>1, <2>3, <2>4
<1> QED BY <1>2, <1>3

LinkInv == (spoiled = {} => InStep) /\ WayInv /\ PastInv /\ SpoiledInv

LEMMA LinkStarts == Init => LinkInv
<1> SUFFICES ASSUME Init PROVE LinkInv
  OBVIOUS
<1>1. Len(Stream) = 0 /\ got = <<>> /\ Range(got) = {} /\ spoiled = {} /\ m_newmsg_pos = -1
  BY DEF Init, Stream, Range
<1>2. ~(m_newmsg_pos >= 0) /\ \A i \in 1..Len(Stream) : FALSE
  BY <1>1
<1> QED BY <1>1, <1>2, InStepStarts DEF LinkInv, WayInv, PastInv, SpoiledInv, Whole

LEMMA LinkStep == QueueInv /\ LinkInv /\ [Next]_vars => LinkInv'
<1> SUFFICES ASSUME QueueInv, LinkInv, [Next]_vars PROVE LinkInv'
  OBVIOUS
<1>1. QueueInv'
  BY QueueStep
<1>2. (spoiled = {} => InStep)'
  BY <1>1, InStepStep DEF LinkInv
<1> QED BY <1>2, WayStep, PastStep, SpoiledStep DEF LinkInv

\* The receiver returns what was written, in the order in which it was written, as long
\* as nothing was damaged, and closes nothing; a damaged message it returns never.
THEOREM StreamIsDelivered == Spec => []DeliveredInOrder
<1>1. Spec => [](QueueInv /\ LinkInv)
  BY QueueInvariant, LinkStarts, LinkStep, PTL DEF Spec
<1>2. QueueInv /\ LinkInv => DeliveredInOrder
  <2> SUFFICES ASSUME QueueInv, LinkInv PROVE DeliveredInOrder
    OBVIOUS
  <2>1. StreamTypes
    BY StreamTyped DEF QueueInv
  <2>2. ASSUME spoiled = {}
        PROVE  ~closed /\ Len(got) <= Len(written) /\ got = SubSeq(written, 1, Len(got))
    <3>1. /\ ~closed /\ Len(got) <= Len(written)
          /\ \A i \in 1..Len(got) : got[i] = written[i]
      BY <2>2 DEF LinkInv, InStep
    <3> DEFINE s == SubSeq(written, 1, Len(got))
    <3>2. /\ s \in Seq(AnyMessage) /\ Len(s) = Len(got)
          /\ \A i \in 1..Len(got) : s[i] = written[i]
      BY <2>1, <3>1, CutIs DEF StreamTypes
    <3> HIDE DEF s
    <3>3. s \in Seq(AnyMessage \cup {Junk})
      BY <2>1, <3>2, SeqOf DEF StreamTypes
    <3>4. got = s
      BY <2>1, <3>1, <3>2, <3>3, SeqEqual DEF StreamTypes
    <3> QED BY <3>1, <3>4 DEF s
  <2>3. spoiled \cap Range(got) = {}
    BY DEF LinkInv, SpoiledInv, Missing
  <2> QED BY <2>2, <2>3 DEF DeliveredInOrder
<1> QED BY <1>1, <1>2, PTL
=============================================================================
