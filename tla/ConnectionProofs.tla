-------------------------- MODULE ConnectionProofs --------------------------
(***************************************************************************)
(* Proofs about Connection, for every size of the three parts, every set of *)
(* nonces, network names and half keys, and every pair of ends.             *)
(***************************************************************************)
EXTENDS Connection, SequenceTheorems, FiniteSetTheorems, TLAPS

Unit == {"hello", "blank", "key", "plain", "sealed", "noise"}
ConnRecord ==
  [m_state : {"resolving", "connecting", "connected", "closing", "closed", "error"},
   m_cansend : BOOLEAN, bf_initted : SUBSET {1, 2, 4, 8},
   m_send_buffer : [1 .. Total -> Unit],
   m_send_pos : 0 .. Total, received : 0 .. Total,
   m_mykeyinfo : Secret \cup {None}, echo : Nonce \cup {"none"},
   m_fish : SUBSET (Secret \cup {None})]

\* What e checks of the hello of the other end.
Knows(e) ==
  /\ setup[Peer(e)].nonce # setup[e].nonce
  /\ setup[e].trusts
  /\ setup[Peer(e)].net = setup[e].net

\* What the send buffer of e holds, as far as e has come with the other end.
Laid(e, c) ==
  Parts("hello", IF 1 \in c.bf_initted /\ Knows(e) THEN "key" ELSE "blank",
        IF 4 \notin c.bf_initted THEN "plain"
        ELSE IF c.m_fish = {} THEN "noise" ELSE "sealed")

\* How far e has sent, against what it has received: nothing of a part before it is
\* ready, and nothing behind the hello unless the other end is known.
SentInOrder(e, c) ==
  /\ c.bf_initted \cap {4, 8} # {} => 1 \in c.bf_initted
  /\ 8 \in c.bf_initted => c.m_send_pos >= KeyAt
  /\ HelloPhase(c) => c.m_send_pos <= HelloUnits
  /\ c.m_send_pos > HelloUnits => 1 \in c.bf_initted /\ Knows(e)
  /\ c.m_send_pos > KeyAt => Ready(c)

\* An end that does not know the other has given up.
KnownOrClosed(e, c) ==
  1 \in c.bf_initted =>
    /\ Knows(e) \/ c.m_state \in {"closed", "error"}
    /\ Knows(e) => c.echo = setup[Peer(e)].nonce

ConnFacts(e, c) ==
  /\ c.m_send_buffer = Laid(e, c)
  /\ SentInOrder(e, c)
  /\ KnownOrClosed(e, c)
  /\ 4 \notin c.bf_initted => c.m_fish = {}

\* What was received is what the flags say.
Counted(c) ==
  /\ 1 \in c.bf_initted <=> c.received >= HelloUnits
  /\ 4 \in c.bf_initted <=> c.received >= KeyAt

\* What lies on the wire is what the buffer holds, up to what was sent.
OnWire(e) ==
  /\ Len(wire[e]) = conn[e].m_send_pos
  /\ conn[e].received <= conn[Peer(e)].m_send_pos
  /\ \A i \in 1 .. conn[e].m_send_pos : wire[e][i] = conn[e].m_send_buffer[i]

\* The session key two half keys make, the same for both ends; none if they clash.
SessionOf(k, l) == IF k.key # l.key /\ k.iv # l.iv THEN {k, l} ELSE {}
SameSession(e) ==
  4 \in conn[e].bf_initted =>
    /\ 1 \in conn[Peer(e)].bf_initted
    /\ conn[e].m_fish = SessionOf(conn[e].m_mykeyinfo, conn[Peer(e)].m_mykeyinfo)

\* What netkern says of a connection it has looked at.
JudgedRight(e) ==
  /\ place[e] \in {"queue", "rejected"} => Ready(conn[e]) /\ conn[e].received = Total
  /\ place[e] = "queue" => conn[e].m_fish # {}
  /\ place[e] = "rejected" => conn[e].m_fish = {}

EndInv(e) ==
  ConnFacts(e, conn[e]) /\ Counted(conn[e]) /\ OnWire(e) /\ SameSession(e) /\ JudgedRight(e)
Frame ==
  /\ setup \in Setups /\ faulty \in BOOLEAN
  /\ conn \in [Ends -> ConnRecord]
  /\ wire \in [Ends -> Seq(Unit)]
  /\ link \in {"down", "pending", "up", "refused"}
  /\ place \in [Ends -> {"none", "new_net", "queue", "gone", "rejected", "denied"}]
  /\ overdue \subseteq Ends
ConnInv == Frame /\ \A e \in Ends : EndInv(e)

-----------------------------------------------------------------------------

LEMMA Ranges ==
  /\ HelloUnits \in Nat \ {0} /\ KeyAt \in Nat /\ Total \in Nat
  /\ HelloUnits < KeyAt /\ KeyAt < Total
BY UnitsAssumption DEF KeyAt, Total

LEMMA TwoEnds ==
  ASSUME NEW e \in Ends
  PROVE  Peer(e) \in Ends /\ Peer(e) # e /\ Peer(Peer(e)) = e /\ Ends = {e, Peer(e)}
BY DEF Ends, Peer

LEMMA LaidUnits ==
  ASSUME NEW e, NEW c, c.m_send_buffer = Laid(e, c), NEW i \in 1 .. Total
  PROVE  /\ c.m_send_buffer[i] \in Unit
         /\ i <= HelloUnits => c.m_send_buffer[i] = "hello"
         /\ i > HelloUnits /\ i <= KeyAt =>
              c.m_send_buffer[i] =
                IF 1 \in c.bf_initted /\ Knows(e) THEN "key" ELSE "blank"
         /\ i > KeyAt =>
              c.m_send_buffer[i] =
                IF 4 \notin c.bf_initted THEN "plain"
                ELSE IF c.m_fish = {} THEN "noise" ELSE "sealed"
BY Ranges DEF Laid, Parts, Unit

LEMMA TwoOfThem ==
  ASSUME NEW a, NEW b, a # b
  PROVE  Cardinality({a, b}) = 2
<1>1. IsFiniteSet({a}) /\ Cardinality({a}) = 1 /\ b \notin {a}
  BY FS_Singleton
<1>2. Cardinality({a} \cup {b}) = Cardinality({a}) + 1
  BY <1>1, FS_AddElement
<1>3. {a} \cup {b} = {a, b}
  OBVIOUS
<1> QED BY <1>1, <1>2, <1>3

LEMMA SameFunction ==
  ASSUME NEW S, NEW T, NEW f \in [S -> T], NEW g \in [S -> T], \A x \in S : f[x] = g[x]
  PROVE  f = g
OBVIOUS

LEMMA PartsType ==
  ASSUME NEW h \in Unit, NEW k \in Unit, NEW s \in Unit
  PROVE  Parts(h, k, s) \in [1 .. Total -> Unit]
BY DEF Parts

\* A run sends what lies ready, and no more of it than that.
LEMMA SentStep ==
  ASSUME NEW e \in Ends, NEW c \in ConnRecord, ConnFacts(e, c),
         c.m_state \notin {"closed", "error"}, NEW n \in 0 .. SendRoom(c)
  PROVE  /\ Sent(c, n) \in ConnRecord
         /\ ConnFacts(e, Sent(c, n))
         /\ Sent(c, n).m_send_pos = c.m_send_pos + n
         /\ Sent(c, n).m_state = c.m_state
         /\ Sent(c, n).received = c.received
         /\ Sent(c, n).m_mykeyinfo = c.m_mykeyinfo
         /\ Sent(c, n).m_fish = c.m_fish
         /\ Sent(c, n).m_send_buffer = c.m_send_buffer
         /\ c.bf_initted \subseteq Sent(c, n).bf_initted
         /\ Sent(c, n).bf_initted \subseteq c.bf_initted \cup {2, 8}
         /\ \A i \in c.m_send_pos + 1 .. c.m_send_pos + n :
              c.m_send_buffer[i] \notin {"blank", "plain"}
<1> DEFINE d == Sent(c, n)
           pos == c.m_send_pos + n
           hello == IF HelloPhase(c) /\ pos >= HelloUnits THEN {2} ELSE {}
           key == IF ~Ready(c) /\ pos >= KeyAt THEN {8} ELSE {}
<1>1. CASE n = 0
  <2>1. d = c
    BY <1>1 DEF Sent
  <2> QED BY <1>1, <2>1 DEF ConnRecord
<1>2. CASE n # 0
  <2>1. /\ c.m_send_pos \in 0 .. Total /\ pos \in Nat /\ n \in Nat
        /\ pos > c.m_send_pos /\ pos <= SendLimit(c) /\ SendLimit(c) \in Nat
    BY <1>2, Ranges DEF ConnRecord, SendRoom, SendLimit
  <2>2. /\ d = [c EXCEPT !.m_send_pos = pos, !.bf_initted = @ \cup hello \cup key]
        /\ pos \in 0 .. Total
    BY <1>2, <2>1, Ranges DEF Sent, SendLimit
  <2>3. c.bf_initted \subseteq {1, 2, 4, 8}
    BY DEF ConnRecord
  <2>4. d.bf_initted = c.bf_initted \cup hello \cup key
    BY <2>2 DEF ConnRecord
  <2>5. d.bf_initted \subseteq {1, 2, 4, 8}
    BY <2>3, <2>4
  <2>6. /\ d.m_send_pos = pos /\ d.m_state = c.m_state /\ d.received = c.received
        /\ d.m_mykeyinfo = c.m_mykeyinfo /\ d.m_fish = c.m_fish /\ d.echo = c.echo
        /\ d.m_send_buffer = c.m_send_buffer
    BY <2>2 DEF ConnRecord
  <2>7. d \in ConnRecord
    <3>1. c.bf_initted \cup hello \cup key \in SUBSET {1, 2, 4, 8}
      BY <2>4, <2>5
    <3> HIDE DEF hello, key, pos, d
    <3> QED BY <2>2, <3>1 DEF ConnRecord
  <2>8. (1 \in d.bf_initted <=> 1 \in c.bf_initted) /\ (4 \in d.bf_initted <=> 4 \in c.bf_initted)
    BY <2>4
  <2>9. d.m_send_buffer = Laid(e, d)
    BY <2>6, <2>8 DEF ConnFacts, Laid
  <2>10. ~HelloPhase(c) => 1 \in c.bf_initted /\ Knows(e)
    BY DEF HelloPhase, ConnFacts, SentInOrder, KnownOrClosed
  <2>11. SentInOrder(e, d)
    <3>1. d.bf_initted \cap {4, 8} # {} => 1 \in d.bf_initted
      BY <2>1, <2>4, <2>8, <2>10, Ranges DEF SendLimit, ConnFacts, SentInOrder
    <3>2. 8 \in d.bf_initted => pos >= KeyAt
      BY <2>1, <2>4, Ranges DEF ConnFacts, SentInOrder
    <3>3. HelloPhase(d) => HelloPhase(c)
      BY <2>4, <2>3, <2>5 DEF HelloPhase
    <3>4. HelloPhase(d) => pos <= HelloUnits
      BY <2>1, <3>3 DEF SendLimit
    <3>5. pos > HelloUnits => 1 \in d.bf_initted /\ Knows(e)
      BY <2>1, <2>8, <2>10, Ranges DEF SendLimit
    <3>6. pos > KeyAt => Ready(d)
      BY <2>1, <2>4, Ranges DEF SendLimit, Ready
    <3> QED BY <2>6, <3>1, <3>2, <3>4, <3>5, <3>6 DEF SentInOrder
  <2>12. ConnFacts(e, d)
    BY <2>6, <2>8, <2>9, <2>11 DEF ConnFacts, KnownOrClosed
  <2>13. \A i \in c.m_send_pos + 1 .. pos : c.m_send_buffer[i] \notin {"blank", "plain"}
    <3> SUFFICES ASSUME NEW i \in c.m_send_pos + 1 .. pos
                 PROVE  c.m_send_buffer[i] \notin {"blank", "plain"}
      OBVIOUS
    <3>1. i \in 1 .. Total /\ i <= SendLimit(c)
      <4>1. i \in Int /\ c.m_send_pos + 1 <= i /\ i <= pos
        BY <2>1
      <4> HIDE DEF pos
      <4> QED BY <2>1, <2>2, <4>1, Ranges
    <3>2. i > HelloUnits => ~HelloPhase(c)
      BY <3>1, Ranges DEF SendLimit
    <3>3. i > KeyAt => 4 \in c.bf_initted
      BY <3>1, Ranges DEF SendLimit, Ready
    <3> QED BY <2>10, <3>1, <3>2, <3>3, LaidUnits, Ranges DEF ConnFacts
  <2> HIDE DEF d, pos, hello, key
  <2>14. c.bf_initted \subseteq d.bf_initted /\ d.bf_initted \subseteq c.bf_initted \cup {2, 8}
    BY <2>4 DEF hello, key
  <2> QED BY <2>6, <2>7, <2>12, <2>13, <2>14 DEF d, pos
<1> QED BY <1>1, <1>2

-----------------------------------------------------------------------------

\* The other hello: either the half key is laid into the buffer, or the end closes.
LEMMA GotPkeyStep ==
  ASSUME NEW e \in Ends, setup \in Setups, NEW c \in ConnRecord, ConnFacts(e, c),
         HelloPhase(c), 1 \notin c.bf_initted, NEW s \in Secret,
         NEW g, g = GotPkey(c, setup[e], setup[Peer(e)], s)
  PROVE  /\ g \in ConnRecord /\ ConnFacts(e, g)
         /\ g.bf_initted = c.bf_initted \cup {1}
         /\ g.m_send_pos = c.m_send_pos /\ g.received = c.received
         /\ g.m_fish = c.m_fish
         /\ \A i \in 1 .. c.m_send_pos : g.m_send_buffer[i] = c.m_send_buffer[i]
<1> DEFINE open == [c EXCEPT !.m_cansend = TRUE, !.bf_initted = @ \cup {1}]
           filled == [i \in DOMAIN c.m_send_buffer |->
                        IF c.m_send_buffer[i] = "blank" THEN "key" ELSE c.m_send_buffer[i]]
           nonce == setup[Peer(e)].nonce
<1>1. c.m_send_pos \in 0 .. Total /\ c.m_send_pos <= HelloUnits
  BY DEF ConnRecord, ConnFacts, SentInOrder
<1>2. nonce \in Nonce
  BY TwoEnds, SetupsAssumption DEF Setup
<1>3. c.bf_initted \cup {1} \in SUBSET {1, 2, 4, 8}
  BY DEF ConnRecord
<1>4. 4 \notin c.bf_initted /\ 8 \notin c.bf_initted /\ c.m_fish = {}
  BY DEF HelloPhase, ConnFacts
<1>5. CASE ~Knows(e)
  <2>1. g = [open EXCEPT !.m_state = "closed"]
    BY <1>5 DEF GotPkey, Knows
  <2>2. g \in ConnRecord
    BY <1>3, <2>1 DEF ConnRecord
  <2>3. /\ g.bf_initted = c.bf_initted \cup {1} /\ g.m_send_pos = c.m_send_pos
        /\ g.received = c.received /\ g.m_fish = c.m_fish /\ g.m_state = "closed"
        /\ g.m_send_buffer = c.m_send_buffer
    BY <2>1 DEF ConnRecord
  <2>4. g.m_send_buffer = Laid(e, g)
    BY <1>5, <2>3 DEF ConnFacts, Laid
  <2>5. SentInOrder(e, g)
    BY <1>1, <1>4, <2>3, Ranges DEF SentInOrder
  <2> QED BY <1>4, <1>5, <2>2, <2>3, <2>4, <2>5 DEF ConnFacts, KnownOrClosed
<1>6. CASE Knows(e)
  <2>1. g = [open EXCEPT !.m_mykeyinfo = s, !.echo = nonce, !.m_send_buffer = filled]
    BY <1>6 DEF GotPkey, Knows
  <2>2. filled \in [1 .. Total -> Unit]
    BY DEF ConnRecord, Unit
  <2>3. g \in ConnRecord
    BY <1>2, <1>3, <2>1, <2>2 DEF ConnRecord
  <2>4. /\ g.bf_initted = c.bf_initted \cup {1} /\ g.m_send_pos = c.m_send_pos
        /\ g.received = c.received /\ g.m_fish = c.m_fish /\ g.echo = nonce
        /\ g.m_send_buffer = filled
    BY <2>1 DEF ConnRecord
  <2>5. c.m_send_buffer = Parts("hello", "blank", "plain")
    BY <1>4 DEF ConnFacts, Laid
  <2>6. Laid(e, g) = Parts("hello", "key", "plain")
    BY <1>4, <1>6, <2>4 DEF Laid
  <2>7. g.m_send_buffer = Laid(e, g)
    BY <2>4, <2>5, <2>6 DEF Parts
  <2>8. SentInOrder(e, g)
    BY <1>1, <1>4, <1>6, <2>4, Ranges DEF SentInOrder
  <2>9. \A i \in 1 .. c.m_send_pos : g.m_send_buffer[i] = c.m_send_buffer[i]
    BY <1>1, <2>4, <2>5, Ranges DEF Parts
  <2> QED BY <1>4, <1>6, <2>3, <2>4, <2>7, <2>8, <2>9 DEF ConnFacts, KnownOrClosed
<1> QED BY <1>5, <1>6

LEMMA KeyedRecord ==
  ASSUME NEW c \in ConnRecord, NEW flags \in SUBSET {1, 2, 4, 8},
         NEW state \in {"resolving", "connecting", "connected", "closing", "closed", "error"},
         NEW fish \in SUBSET (Secret \cup {None}), NEW buffer \in [1 .. Total -> Unit]
  PROVE  [c EXCEPT !.bf_initted = flags, !.m_state = state, !.m_fish = fish,
                   !.m_send_buffer = buffer] \in ConnRecord
BY DEF ConnRecord

\* The other half key: it fits when the halves differ, and what is pending is sealed.
LEMMA DecodeKeyStep ==
  ASSUME NEW e \in Ends, NEW c \in ConnRecord, ConnFacts(e, c),
         1 \in c.bf_initted, 4 \notin c.bf_initted,
         NEW q \in ConnRecord, q.echo = setup[e].nonce,
         NEW units, \A i \in DOMAIN units : units[i] = "key",
         NEW d, d = DecodeKey(c, setup[e], q, units)
  PROVE  /\ d \in ConnRecord /\ ConnFacts(e, d)
         /\ d.bf_initted = c.bf_initted \cup {4}
         /\ d.m_send_pos = c.m_send_pos /\ d.received = c.received
         /\ d.m_mykeyinfo = c.m_mykeyinfo
         /\ d.m_fish = SessionOf(c.m_mykeyinfo, q.m_mykeyinfo)
         /\ \A i \in 1 .. c.m_send_pos : d.m_send_buffer[i] = c.m_send_buffer[i]
<1> DEFINE fits == KeyFits(c, setup[e], q, units)
           state == IF fits THEN c.m_state ELSE "closed"
           fish == IF fits THEN {q.m_mykeyinfo, c.m_mykeyinfo} ELSE c.m_fish
           buffer == [i \in DOMAIN c.m_send_buffer |->
                        IF i > KeyAt /\ i > c.m_send_pos
                        THEN (IF fits THEN "sealed" ELSE "noise") ELSE c.m_send_buffer[i]]
<1>1. d = [c EXCEPT !.bf_initted = @ \cup {4}, !.m_state = state, !.m_fish = fish,
                    !.m_send_buffer = buffer]
  BY DEF DecodeKey
<1>2. c.m_fish = {}
  BY DEF ConnFacts
<1>3. c.bf_initted \cup {4} \in SUBSET {1, 2, 4, 8}
  BY DEF ConnRecord
<1>4. fish = SessionOf(c.m_mykeyinfo, q.m_mykeyinfo) /\ (fish = {} <=> ~fits)
  BY <1>2 DEF KeyFits, SessionOf
<1>5. fish \in SUBSET (Secret \cup {None})
  BY <1>2 DEF ConnRecord
<1>6. buffer \in [1 .. Total -> Unit] /\ DOMAIN c.m_send_buffer = 1 .. Total
  <2>1. c.m_send_buffer \in [1 .. Total -> Unit]
    BY DEF ConnRecord
  <2> HIDE DEF fits
  <2> QED BY <2>1 DEF Unit
<1>7. c.m_send_pos \in 0 .. Total /\ c.m_send_pos <= KeyAt
  BY Ranges DEF ConnRecord, ConnFacts, SentInOrder, Ready
<1>8. /\ state = c.m_state \/ state = "closed"
      /\ \A i \in 1 .. Total : buffer[i] =
           IF i > KeyAt THEN (IF fish = {} THEN "noise" ELSE "sealed") ELSE c.m_send_buffer[i]
  BY <1>4, <1>6, <1>7, Ranges
<1> HIDE DEF fits, state, fish, buffer
<1>9. d \in ConnRecord
  <2>1. state \in {"resolving", "connecting", "connected", "closing", "closed", "error"}
    BY <1>8 DEF ConnRecord
  <2> DEFINE flags == c.bf_initted \cup {4}
  <2>2. d = [c EXCEPT !.bf_initted = flags, !.m_state = state, !.m_fish = fish,
                      !.m_send_buffer = buffer]
    BY <1>1
  <2>3. flags \in SUBSET {1, 2, 4, 8}
    BY <1>3
  <2> HIDE DEF flags
  <2>4. [c EXCEPT !.bf_initted = flags, !.m_state = state, !.m_fish = fish,
                  !.m_send_buffer = buffer] \in ConnRecord
    BY <1>5, <1>6, <2>1, <2>3, KeyedRecord, Zenon
  <2> QED BY <2>2, <2>4, Zenon
<1>10. /\ d.bf_initted = c.bf_initted \cup {4} /\ d.m_send_pos = c.m_send_pos
       /\ d.received = c.received /\ d.m_mykeyinfo = c.m_mykeyinfo /\ d.echo = c.echo
       /\ d.m_fish = fish /\ d.m_state = state /\ d.m_send_buffer = buffer
  BY <1>1 DEF ConnRecord
<1>11. d.m_send_buffer = Laid(e, d)
  <2> DEFINE mid == IF Knows(e) THEN "key" ELSE "blank"
             end == IF fish = {} THEN "noise" ELSE "sealed"
             whole == Parts("hello", mid, end)
  <2>1. Laid(e, d) = Parts("hello", mid, end)
    BY <1>10 DEF Laid
  <2>2. c.m_send_buffer = Parts("hello", mid, "plain")
    BY DEF ConnFacts, Laid
  <2>3. \A i \in 1 .. Total : buffer[i] = whole[i]
    BY <1>8, <2>2, Ranges DEF Parts
  <2>4. whole \in [1 .. Total -> Unit]
    BY PartsType DEF Unit
  <2>5. Laid(e, d) = whole
    BY <2>1
  <2> HIDE DEF mid, end, whole
  <2>6. buffer = whole
    <3> DEFINE places == 1 .. Total
    <3>1. buffer \in [places -> Unit] /\ whole \in [places -> Unit]
      BY <1>6, <2>4
    <3>2. \A i \in places : buffer[i] = whole[i]
      BY <2>3
    <3> HIDE DEF places
    <3> QED BY <3>1, <3>2, SameFunction
  <2> QED BY <1>10, <2>5, <2>6
<1>12. SentInOrder(e, d)
  BY <1>7, <1>10, Ranges DEF ConnFacts, SentInOrder, HelloPhase
<1>13. ConnFacts(e, d)
  BY <1>8, <1>10, <1>11, <1>12 DEF ConnFacts, KnownOrClosed
<1> QED BY <1>4, <1>7, <1>8, <1>9, <1>10, <1>13, Ranges

\* When all of the other half key has come, the other end knows this one, and nothing
\* of what came was still blank.
LEMMA HalfKeyCame ==
  ASSUME ConnInv, NEW e \in Ends, Len(wire[Peer(e)]) >= KeyAt
  PROVE  /\ 1 \in conn[Peer(e)].bf_initted
         /\ conn[Peer(e)].echo = setup[e].nonce
         /\ \A i \in DOMAIN SubSeq(wire[Peer(e)], HelloUnits + 1, KeyAt) :
              SubSeq(wire[Peer(e)], HelloUnits + 1, KeyAt)[i] = "key"
<1> DEFINE p == Peer(e)
           q == conn[p]
           units == SubSeq(wire[p], HelloUnits + 1, KeyAt)
<1>1. p \in Ends /\ Peer(p) = e
  BY TwoEnds
<1>2. /\ q \in ConnRecord /\ ConnFacts(p, q) /\ OnWire(p)
      /\ wire[p] \in Seq(Unit)
  BY <1>1 DEF ConnInv, Frame, EndInv
<1>3. q.m_send_pos \in 0 .. Total /\ q.m_send_pos >= KeyAt /\ q.m_send_pos > HelloUnits
  BY <1>2, Ranges DEF ConnRecord, OnWire
<1>4. 1 \in q.bf_initted /\ Knows(p) /\ q.echo = setup[e].nonce
  BY <1>1, <1>2, <1>3 DEF ConnFacts, SentInOrder, KnownOrClosed
<1>5. \A i \in HelloUnits + 1 .. KeyAt : wire[p][i] = "key"
  <2> SUFFICES ASSUME NEW i \in HelloUnits + 1 .. KeyAt PROVE wire[p][i] = "key"
    OBVIOUS
  <2>1. i \in 1 .. Total /\ i \in 1 .. q.m_send_pos /\ i > HelloUnits /\ i <= KeyAt
    BY <1>3, Ranges
  <2>2. q.m_send_buffer = Laid(p, q)
    BY <1>2 DEF ConnFacts
  <2> HIDE DEF q, p
  <2>3. q.m_send_buffer[i] = "key"
    BY <1>4, <2>1, <2>2, LaidUnits
  <2> QED BY <1>2, <2>1, <2>3 DEF OnWire, q, p
<1>6. /\ Len(units) = IF HelloUnits + 1 <= KeyAt THEN KeyAt - (HelloUnits + 1) + 1 ELSE 0
      /\ units \in Seq(Unit)
      /\ \A i \in 1 .. KeyAt - (HelloUnits + 1) + 1 : units[i] = wire[p][HelloUnits + 1 + i - 1]
  <2>1. HelloUnits + 1 \in Int /\ KeyAt \in Int
    BY Ranges
  <2>2. \A i \in HelloUnits + 1 .. KeyAt : wire[p][i] \in Unit
    BY <1>5 DEF Unit
  <2> HIDE DEF p
  <2> QED BY <2>1, <2>2, SubSeqProperties
<1>7. \A i \in DOMAIN units : units[i] = "key"
  <2> SUFFICES ASSUME NEW i \in DOMAIN units PROVE units[i] = "key"
    OBVIOUS
  <2>1. i \in 1 .. KeyAt - (HelloUnits + 1) + 1
    BY <1>6, Ranges
  <2>2. HelloUnits + 1 + i - 1 \in HelloUnits + 1 .. KeyAt
    BY <2>1, Ranges
  <2> HIDE DEF units, p
  <2> QED BY <1>5, <1>6, <2>1, <2>2
<1> QED BY <1>4, <1>7

\* What a run receives, the two handlers of the handshake included.
LEMMA ReceivedStep ==
  ASSUME ConnInv, NEW e \in Ends, NEW c \in ConnRecord, ConnFacts(e, c), Counted(c),
         NEW m \in 0 .. Len(wire[Peer(e)]) - c.received, NEW s \in Secret,
         4 \in c.bf_initted =>
           1 \in conn[Peer(e)].bf_initted
             /\ c.m_fish = SessionOf(c.m_mykeyinfo, conn[Peer(e)].m_mykeyinfo),
         NEW r, r = Received(c, e, m, s)
  PROVE  /\ r \in ConnRecord /\ ConnFacts(e, r) /\ Counted(r)
         /\ r.m_send_pos = c.m_send_pos /\ r.received = c.received + m
         /\ c.bf_initted \subseteq r.bf_initted
         /\ 1 \in c.bf_initted => r.m_mykeyinfo = c.m_mykeyinfo
         /\ 4 \in c.bf_initted => r.m_fish = c.m_fish
         /\ 4 \in r.bf_initted =>
              1 \in conn[Peer(e)].bf_initted
                /\ r.m_fish = SessionOf(r.m_mykeyinfo, conn[Peer(e)].m_mykeyinfo)
         /\ \A i \in 1 .. c.m_send_pos : r.m_send_buffer[i] = c.m_send_buffer[i]
<1> DEFINE p == Peer(e)
           got == [c EXCEPT !.received = @ + m]
           greeted == HelloPhase(c) /\ 1 \notin c.bf_initted /\ got.received >= HelloUnits
           one == IF greeted THEN GotPkey(got, setup[e], setup[p], s) ELSE got
           units == SubSeq(wire[p], HelloUnits + 1, KeyAt)
           keyed == ~Ready(one) /\ 4 \notin one.bf_initted /\ got.received >= KeyAt
<1>1. CASE m = 0
  <2>1. r = c
    BY <1>1 DEF Received
  <2> QED BY <1>1, <2>1 DEF ConnRecord
<1>2. CASE m # 0
  <2>1. /\ r = IF keyed THEN DecodeKey(one, setup[e], conn[p], units) ELSE one
    BY <1>2 DEF Received
  <2>2. /\ p \in Ends /\ conn[p] \in ConnRecord /\ wire[p] \in Seq(Unit)
        /\ Len(wire[p]) = conn[p].m_send_pos /\ setup \in Setups
    BY TwoEnds DEF ConnInv, Frame, EndInv, OnWire
  <2>3. /\ c.received \in 0 .. Total /\ c.received + m \in 0 .. Total
        /\ c.received + m >= c.received /\ c.received + m <= Len(wire[p])
        /\ Len(wire[p]) \in Nat
    <3>1. c.received \in 0 .. Total /\ Len(wire[p]) \in 0 .. Total /\ m \in Nat
      BY <2>2 DEF ConnRecord
    <3>2. c.received + m <= Len(wire[p])
      BY <3>1
    <3> QED BY <3>1, <3>2, Ranges
  <2>4. /\ got \in ConnRecord /\ got.received = c.received + m
        /\ got.bf_initted = c.bf_initted /\ got.m_send_pos = c.m_send_pos
        /\ got.m_fish = c.m_fish /\ got.m_mykeyinfo = c.m_mykeyinfo
        /\ got.m_send_buffer = c.m_send_buffer
        /\ got.m_state = c.m_state /\ got.echo = c.echo
    BY <2>3 DEF ConnRecord
  <2>5. ConnFacts(e, got) /\ (HelloPhase(got) <=> HelloPhase(c))
    <3> HIDE DEF got
    <3>1. HelloPhase(got) <=> HelloPhase(c)
      BY <2>4 DEF HelloPhase
    <3>2. Laid(e, got) = Laid(e, c)
      BY <2>4 DEF Laid
    <3>3. Ready(got) <=> Ready(c)
      BY <2>4 DEF Ready
    <3> QED BY <2>4, <3>1, <3>2, <3>3 DEF ConnFacts, SentInOrder, KnownOrClosed
  <2> HIDE DEF got
  <2>6. /\ one \in ConnRecord /\ ConnFacts(e, one)
        /\ one.received = c.received + m /\ one.m_send_pos = c.m_send_pos
        /\ one.m_fish = c.m_fish
        /\ c.bf_initted \subseteq one.bf_initted
        /\ one.bf_initted \subseteq c.bf_initted \cup {1}
        /\ 1 \in c.bf_initted => one.m_mykeyinfo = c.m_mykeyinfo
        /\ 1 \in one.bf_initted <=> one.received >= HelloUnits
        /\ \A i \in 1 .. c.m_send_pos : one.m_send_buffer[i] = c.m_send_buffer[i]
    <3>1. CASE greeted
      <4>1. one = GotPkey(got, setup[e], setup[p], s)
        BY <3>1
      <4> HIDE DEF one, p
      <4>2. /\ one \in ConnRecord /\ ConnFacts(e, one)
            /\ one.bf_initted = got.bf_initted \cup {1}
            /\ one.m_send_pos = got.m_send_pos /\ one.received = got.received
            /\ one.m_fish = got.m_fish
            /\ \A i \in 1 .. got.m_send_pos : one.m_send_buffer[i] = got.m_send_buffer[i]
        BY <2>2, <2>4, <2>5, <3>1, <4>1, GotPkeyStep DEF p
      <4> QED BY <2>4, <3>1, <4>2
    <3>2. CASE ~greeted
      <4>1. one = got
        BY <3>2
      <4>2. ~HelloPhase(c) => 1 \in c.bf_initted
        BY DEF HelloPhase, ConnFacts, SentInOrder
      <4>3. 1 \in c.bf_initted <=> c.received + m >= HelloUnits
        BY <2>3, <2>4, <3>2, <4>2, Ranges DEF Counted
      <4> HIDE DEF one, greeted
      <4> QED BY <2>4, <2>5, <4>1, <4>3
    <3> QED BY <3>1, <3>2
  <2>7. 4 \in one.bf_initted <=> 4 \in c.bf_initted
    BY <2>6
  <2> HIDE DEF one, greeted
  <2>8. CASE keyed
    <3>1. Len(wire[p]) >= KeyAt /\ c.received + m >= KeyAt
      BY <2>3, <2>4, <2>8, Ranges
    <3>2. /\ 1 \in conn[p].bf_initted /\ conn[p].echo = setup[e].nonce
          /\ \A i \in DOMAIN units : units[i] = "key"
      BY <3>1, HalfKeyCame
    <3>3. 1 \in one.bf_initted /\ 4 \notin one.bf_initted
      BY <2>3, <2>6, <2>8, <3>1, Ranges
    <3>4. r = DecodeKey(one, setup[e], conn[p], units)
      BY <2>1, <2>8
    <3> HIDE DEF units, p, keyed
    <3>5. /\ r \in ConnRecord /\ ConnFacts(e, r)
          /\ r.bf_initted = one.bf_initted \cup {4}
          /\ r.m_send_pos = one.m_send_pos /\ r.received = one.received
          /\ r.m_mykeyinfo = one.m_mykeyinfo
          /\ r.m_fish = SessionOf(one.m_mykeyinfo, conn[p].m_mykeyinfo)
          /\ \A i \in 1 .. one.m_send_pos : r.m_send_buffer[i] = one.m_send_buffer[i]
      <4>1. one \in ConnRecord /\ ConnFacts(e, one) /\ conn[p] \in ConnRecord
        BY <2>2, <2>6
      <4> QED BY <3>2, <3>3, <3>4, <4>1, DecodeKeyStep
    <3>6. Counted(r)
      BY <2>3, <2>6, <3>1, <3>3, <3>5, Ranges DEF Counted
    <3> QED BY <2>6, <2>7, <3>2, <3>3, <3>5, <3>6 DEF p
  <2>9. CASE ~keyed
    <3>1. r = one
      BY <2>1, <2>9
    <3>2. 4 \in one.bf_initted <=> one.received >= KeyAt
      BY <2>3, <2>4, <2>6, <2>7, <2>9, Ranges DEF Counted, Ready
    <3>3. Counted(r)
      BY <2>6, <3>1, <3>2 DEF Counted
    <3>4. 4 \in c.bf_initted => 1 \in c.bf_initted
      BY DEF ConnFacts, SentInOrder
    <3> HIDE DEF keyed
    <3> QED BY <2>6, <2>7, <3>1, <3>3, <3>4
  <2> QED BY <2>8, <2>9
<1> QED BY <1>1, <1>2

-----------------------------------------------------------------------------

\* What a step of e has to show: its own facts, and that it took back nothing the other
\* end rests on.
LEMMA EndStep ==
  ASSUME ConnInv, Frame', UNCHANGED setup, NEW e \in Ends,
         conn'[Peer(e)] = conn[Peer(e)], wire'[Peer(e)] = wire[Peer(e)],
         place'[Peer(e)] = place[Peer(e)],
         ConnFacts(e, conn'[e]), Counted(conn'[e]), OnWire(e)', SameSession(e)',
         JudgedRight(e)',
         conn[e].m_send_pos <= conn'[e].m_send_pos,
         1 \in conn[e].bf_initted =>
           1 \in conn'[e].bf_initted /\ conn'[e].m_mykeyinfo = conn[e].m_mykeyinfo
  PROVE  ConnInv'
<1> DEFINE p == Peer(e)
<1>1. p \in Ends /\ Peer(p) = e /\ Ends = {e, p}
  BY TwoEnds
<1>2. EndInv(p)
  BY <1>1 DEF ConnInv
<1>3. \A f : Knows(f)' = Knows(f)
  BY DEF Knows
<1>4. \A f, c : Laid(f, c)' = Laid(f, c)
  BY <1>3 DEF Laid
<1>5. \A f : ConnFacts(f, conn'[f]) => ConnFacts(f, conn[f])'
  BY <1>3, <1>4 DEF ConnFacts, SentInOrder, KnownOrClosed
<1>6. EndInv(e)'
  BY <1>5 DEF EndInv
<1>7. EndInv(p)'
  <2>1. ConnFacts(p, conn[p])' /\ Counted(conn[p])'
    BY <1>2, <1>5 DEF EndInv
  <2>2. OnWire(p)'
    <3>1. conn[p].received \in Nat /\ conn[e].m_send_pos \in Nat /\ conn'[e].m_send_pos \in Nat
      BY <1>1, Ranges DEF ConnInv, Frame, ConnRecord
    <3>2. conn[p].received <= conn'[e].m_send_pos
      BY <1>1, <1>2, <3>1 DEF EndInv, OnWire
    <3> QED BY <1>1, <1>2, <3>2 DEF EndInv, OnWire
  <2>3. SameSession(p)'
    BY <1>1, <1>2 DEF EndInv, SameSession
  <2>4. JudgedRight(p)'
    BY <1>2 DEF EndInv, JudgedRight
  <2> QED BY <2>1, <2>2, <2>3, <2>4 DEF EndInv
<1> QED BY <1>1, <1>6, <1>7 DEF ConnInv

\* Steps that change nothing of a connection but its state.
LEMMA StateStep ==
  ASSUME ConnInv, Frame', UNCHANGED <<setup, wire>>, NEW e \in Ends,
         NEW s \in {"resolving", "connecting", "connected", "closing", "closed", "error"},
         s \in {"closed", "error"} \/ conn[e].m_state \notin {"closed", "error"},
         conn' = [conn EXCEPT ![e].m_state = s],
         place'[Peer(e)] = place[Peer(e)],
         place'[e] = place[e] \/ place'[e] \notin {"queue", "rejected"}
  PROVE  ConnInv'
<1> DEFINE x == conn[e]
           y == conn'[e]
<1>1. EndInv(e) /\ Peer(e) \in Ends /\ Peer(e) # e /\ x \in ConnRecord
  BY TwoEnds DEF ConnInv, Frame
<1>2. y = [x EXCEPT !.m_state = s] /\ conn'[Peer(e)] = conn[Peer(e)]
  BY <1>1 DEF ConnInv, Frame
<1>3. /\ y.m_state = s /\ y.m_send_pos = x.m_send_pos /\ y.received = x.received
      /\ y.bf_initted = x.bf_initted /\ y.m_send_buffer = x.m_send_buffer
      /\ y.m_fish = x.m_fish /\ y.m_mykeyinfo = x.m_mykeyinfo /\ y.echo = x.echo
  BY <1>1, <1>2 DEF ConnRecord
<1>4. x.m_send_pos \in Nat
  BY <1>1, Ranges DEF ConnRecord
<1>5. ConnFacts(e, x) /\ Counted(x)
  BY <1>1 DEF EndInv
<1> HIDE DEF x, y
<1>6. ConnFacts(e, y) /\ Counted(y)
  <2>1. Laid(e, y) = Laid(e, x)
    BY <1>3 DEF Laid
  <2>2. (HelloPhase(y) <=> HelloPhase(x)) /\ (Ready(y) <=> Ready(x))
    BY <1>3 DEF HelloPhase, Ready
  <2>3. s \in {"closed", "error"} \/ x.m_state \notin {"closed", "error"}
    BY DEF x
  <2>4. KnownOrClosed(e, y)
    BY <1>3, <1>5, <2>3 DEF ConnFacts, KnownOrClosed
  <2> QED BY <1>3, <1>5, <2>1, <2>2, <2>4 DEF ConnFacts, Counted, SentInOrder
<1>7. OnWire(e)'
  BY <1>1, <1>2, <1>3 DEF EndInv, OnWire, x, y
<1>8. SameSession(e)'
  BY <1>1, <1>2, <1>3 DEF EndInv, SameSession, x, y
<1>9. JudgedRight(e)'
  BY <1>1, <1>3 DEF EndInv, JudgedRight, Ready, x, y
<1>10. x.m_send_pos <= y.m_send_pos
  BY <1>3, <1>4
<1> QED BY <1>2, <1>3, <1>6, <1>7, <1>8, <1>9, <1>10, EndStep DEF x, y

\* Once everything has been received, the sync string matches if there is a session.
LEMMA SyncTells ==
  ASSUME ConnInv, NEW e \in Ends, NEW c, Len(wire[Peer(e)]) = Total,
         c.m_fish = SessionOf(c.m_mykeyinfo, conn[Peer(e)].m_mykeyinfo),
         1 \in conn[e].bf_initted => c.m_mykeyinfo = conn[e].m_mykeyinfo
  PROVE  SyncMatches(c, e) <=> c.m_fish # {}
<1> DEFINE p == Peer(e)
           q == conn[p]
<1>1. p \in Ends /\ Peer(p) = e
  BY TwoEnds
<1>2. ConnFacts(p, q) /\ OnWire(p) /\ SameSession(p)
  BY <1>1 DEF ConnInv, EndInv
<1>3. q.m_send_pos = Total /\ 4 \in q.bf_initted
  BY <1>2, Ranges DEF OnWire, ConnFacts, SentInOrder, Ready
<1>4. c.m_fish = q.m_fish
  BY <1>1, <1>2, <1>3 DEF SameSession, SessionOf
<1>5. \A i \in KeyAt + 1 .. Total :
        wire[p][i] = IF q.m_fish = {} THEN "noise" ELSE "sealed"
  <2> SUFFICES ASSUME NEW i \in KeyAt + 1 .. Total
               PROVE  wire[p][i] = IF q.m_fish = {} THEN "noise" ELSE "sealed"
    OBVIOUS
  <2>1. i \in 1 .. Total /\ i > KeyAt
    BY Ranges
  <2>2. q.m_send_buffer = Laid(p, q)
    BY <1>2 DEF ConnFacts
  <2> HIDE DEF p, q
  <2>3. q.m_send_buffer[i] = IF q.m_fish = {} THEN "noise" ELSE "sealed"
    BY <1>3, <2>1, <2>2, LaidUnits
  <2> QED BY <1>2, <1>3, <2>1, <2>3 DEF OnWire, q
<1>6. Total \in KeyAt + 1 .. Total
  BY Ranges
<1> QED BY <1>4, <1>5, <1>6 DEF SyncMatches

LEMMA BufferPart ==
  ASSUME NEW b \in [1 .. Total -> Unit], NEW k \in Nat, NEW n \in Nat, k + n <= Total
  PROVE  /\ SubSeq(b, k + 1, k + n) \in Seq(Unit)
         /\ Len(SubSeq(b, k + 1, k + n)) = n
         /\ \A i \in 1 .. n : SubSeq(b, k + 1, k + n)[i] = b[k + i]
<1>1. k + 1 \in Int /\ k + n \in Int
  OBVIOUS
<1>2. \A i \in k + 1 .. k + n : b[i] \in Unit
  BY Ranges
<1> DEFINE from == k + 1
           upto == k + n
           part == SubSeq(b, from, upto)
<1> HIDE DEF from, upto
<1>3. /\ part \in Seq(Unit) /\ Len(part) = IF from <= upto THEN upto - from + 1 ELSE 0
      /\ \A i \in 1 .. upto - from + 1 : part[i] = b[from + i - 1]
  BY <1>1, <1>2, SubSeqProperties DEF from, upto
<1> HIDE DEF part
<1>4. Len(part) = n
  BY <1>3 DEF from, upto
<1>5. ASSUME NEW i \in 1 .. n PROVE part[i] = b[k + i]
  <2>1. i \in 1 .. upto - from + 1 /\ from + i - 1 = k + i
    BY DEF from, upto
  <2> QED BY <1>3, <2>1
<1> QED BY <1>3, <1>4, <1>5 DEF part, from, upto

LEMMA Appended ==
  ASSUME NEW s \in Seq(Unit), NEW t \in Seq(Unit)
  PROVE  /\ s \o t \in Seq(Unit) /\ Len(s \o t) = Len(s) + Len(t)
         /\ \A i \in 1 .. Len(s) : (s \o t)[i] = s[i]
         /\ \A i \in Len(s) + 1 .. Len(s) + Len(t) : (s \o t)[i] = t[i - Len(s)]
<1>1. /\ s \o t \in Seq(Unit) /\ Len(s \o t) = Len(s) + Len(t)
      /\ \A i \in 1 .. Len(s) + Len(t) : (s \o t)[i] =
           IF i <= Len(s) THEN s[i] ELSE t[i - Len(s)]
  BY ConcatProperties
<1>2. Len(s) \in Nat /\ Len(t) \in Nat
  BY LenProperties
<1> QED BY <1>1, <1>2

LEMMA TransferStep ==
  ASSUME ConnInv, NEW e \in Ends, RunTransfer(e)
  PROVE  ConnInv' /\ (NothingSentEarly => NothingSentEarly')
<1> DEFINE p == Peer(e)
           x == conn[e]
           open == [x EXCEPT !.m_state = IF @ = "connecting" THEN "connected" ELSE @]
<1>1. PICK n \in 0 .. SendRoom(x), m \in 0 .. Len(wire[p]) - x.received, s \in Secret :
        LET out == Sent(open, n)
            c == Settled(Received(out, e, m, s))
        IN  /\ conn' = [conn EXCEPT ![e] = c]
            /\ wire' = [wire EXCEPT ![e] = @ \o SubSeq(x.m_send_buffer,
                           x.m_send_pos + 1, x.m_send_pos + n)]
            /\ place' = [place EXCEPT ![e] = Judge(c, e)]
  BY DEF RunTransfer
<1> DEFINE out == Sent(open, n)
           r == Received(out, e, m, s)
           c == Settled(r)
           new == SubSeq(x.m_send_buffer, x.m_send_pos + 1, x.m_send_pos + n)
<1>2. /\ conn' = [conn EXCEPT ![e] = c] /\ wire' = [wire EXCEPT ![e] = @ \o new]
      /\ place' = [place EXCEPT ![e] = Judge(c, e)]
      /\ UNCHANGED <<setup, faulty, link, overdue>>
      /\ Held(e) /\ x.m_state \in {"connected", "closing", "connecting"}
  BY <1>1 DEF RunTransfer
<1>3. /\ p \in Ends /\ p # e /\ x \in ConnRecord /\ conn[p] \in ConnRecord
      /\ EndInv(e) /\ EndInv(p) /\ wire[e] \in Seq(Unit) /\ wire[p] \in Seq(Unit)
  BY TwoEnds DEF ConnInv, Frame
<1>4. /\ open \in ConnRecord /\ open.m_state \notin {"closed", "error"}
      /\ open.m_send_pos = x.m_send_pos /\ open.received = x.received
      /\ open.bf_initted = x.bf_initted /\ open.m_send_buffer = x.m_send_buffer
      /\ open.m_fish = x.m_fish /\ open.m_mykeyinfo = x.m_mykeyinfo
      /\ open.echo = x.echo /\ open.m_cansend = x.m_cansend
  BY <1>2, <1>3 DEF ConnRecord
<1> HIDE DEF open, x, p
<1>5. ConnFacts(e, open) /\ Counted(open) /\ SendRoom(open) = SendRoom(x)
  <2>1. ConnFacts(e, x) /\ Counted(x) /\ x.m_state \notin {"closed", "error"}
    BY <1>2, <1>3 DEF EndInv, x
  <2>2. Laid(e, open) = Laid(e, x)
    BY <1>4 DEF Laid
  <2>3. /\ HelloPhase(open) <=> HelloPhase(x)
        /\ Ready(open) <=> Ready(x)
        /\ SendLimit(open) = SendLimit(x)
    BY <1>4 DEF HelloPhase, Ready, SendLimit
  <2>4. KnownOrClosed(e, open)
    BY <1>4, <2>1 DEF ConnFacts, KnownOrClosed
  <2>5. SentInOrder(e, open)
    BY <1>4, <2>1, <2>3 DEF ConnFacts, SentInOrder
  <2>6. SendRoom(open) = SendRoom(x)
    BY <1>4, <2>3 DEF SendRoom
  <2> QED BY <1>4, <2>1, <2>2, <2>4, <2>5, <2>6 DEF ConnFacts, Counted
<1>6. /\ out \in ConnRecord /\ ConnFacts(e, out)
      /\ out.m_send_pos = x.m_send_pos + n /\ out.received = x.received
      /\ out.m_mykeyinfo = x.m_mykeyinfo /\ out.m_fish = x.m_fish
      /\ out.m_send_buffer = x.m_send_buffer
      /\ x.bf_initted \subseteq out.bf_initted
      /\ out.bf_initted \subseteq x.bf_initted \cup {2, 8}
      /\ \A i \in x.m_send_pos + 1 .. x.m_send_pos + n :
           x.m_send_buffer[i] \notin {"blank", "plain"}
  BY <1>4, <1>5, SentStep
<1> HIDE DEF out
<1>7. /\ 1 \in out.bf_initted <=> 1 \in x.bf_initted
      /\ 4 \in out.bf_initted <=> 4 \in x.bf_initted
  BY <1>6
<1>8. Counted(out)
  BY <1>4, <1>5, <1>6, <1>7 DEF Counted
<1>9. /\ r \in ConnRecord /\ ConnFacts(e, r) /\ Counted(r)
      /\ r.m_send_pos = out.m_send_pos /\ r.received = out.received + m
      /\ out.bf_initted \subseteq r.bf_initted
      /\ 1 \in out.bf_initted => r.m_mykeyinfo = out.m_mykeyinfo
      /\ 4 \in out.bf_initted => r.m_fish = out.m_fish
      /\ 4 \in r.bf_initted =>
           1 \in conn[p].bf_initted
             /\ r.m_fish = SessionOf(r.m_mykeyinfo, conn[p].m_mykeyinfo)
      /\ \A i \in 1 .. out.m_send_pos : r.m_send_buffer[i] = out.m_send_buffer[i]
  <2>1. m \in 0 .. Len(wire[Peer(e)]) - out.received
    BY <1>6 DEF p
  <2>2. 4 \in out.bf_initted =>
          1 \in conn[p].bf_initted
            /\ out.m_fish = SessionOf(out.m_mykeyinfo, conn[p].m_mykeyinfo)
    BY <1>3, <1>6, <1>7 DEF EndInv, SameSession, x, p
  <2> HIDE DEF r
  <2>3. r = Received(out, e, m, s)
    BY DEF r
  <2> QED BY <1>6, <1>8, <2>1, <2>2, <2>3, ReceivedStep DEF p
<1> HIDE DEF r
<1>10. /\ c \in ConnRecord /\ ConnFacts(e, c) /\ Counted(c)
       /\ c.m_send_pos = r.m_send_pos /\ c.received = r.received
       /\ c.bf_initted = r.bf_initted /\ c.m_mykeyinfo = r.m_mykeyinfo
       /\ c.m_fish = r.m_fish /\ c.m_send_buffer = r.m_send_buffer
  <2>1. CASE c = r
    BY <1>9, <2>1
  <2>2. CASE c # r
    <3>1. c = [r EXCEPT !.m_state = "closed"]
      BY <2>2 DEF Settled
    <3>2. /\ c \in ConnRecord /\ c.m_state = "closed"
          /\ c.m_send_pos = r.m_send_pos /\ c.received = r.received
          /\ c.bf_initted = r.bf_initted /\ c.m_mykeyinfo = r.m_mykeyinfo
          /\ c.m_fish = r.m_fish /\ c.m_send_buffer = r.m_send_buffer /\ c.echo = r.echo
      BY <1>9, <3>1 DEF ConnRecord
    <3> HIDE DEF c
    <3>3. Laid(e, c) = Laid(e, r) /\ (HelloPhase(c) <=> HelloPhase(r)) /\ (Ready(c) <=> Ready(r))
      BY <3>2 DEF Laid, HelloPhase, Ready
    <3> QED BY <1>9, <3>2, <3>3 DEF ConnFacts, Counted, SentInOrder, KnownOrClosed
  <2> QED BY <2>1, <2>2
<1> HIDE DEF c
<1>11. /\ x.m_send_pos \in Nat /\ n \in Nat /\ c.m_send_pos = x.m_send_pos + n
       /\ c.m_send_pos \in 0 .. Total /\ Len(wire[e]) = x.m_send_pos
       /\ x.received \in Nat /\ m \in Nat /\ c.received = x.received + m
       /\ c.received \in 0 .. Total
       /\ c.received <= Len(wire[p]) /\ Len(wire[p]) = conn[p].m_send_pos
       /\ conn[p].m_send_pos \in 0 .. Total
  <2>1. x.m_send_pos \in 0 .. Total /\ x.received \in 0 .. Total
    BY <1>3 DEF ConnRecord
  <2>2. SendRoom(x) \in Nat
    BY <2>1, Ranges DEF SendRoom, SendLimit
  <2>3. Len(wire[e]) = x.m_send_pos /\ Len(wire[p]) = conn[p].m_send_pos
    BY <1>3 DEF EndInv, OnWire, x
  <2>4. conn[p].m_send_pos \in 0 .. Total /\ c.m_send_pos \in 0 .. Total /\ c.received \in 0 .. Total
    BY <1>3, <1>10 DEF ConnRecord
  <2>5. /\ x.m_send_pos \in Nat /\ x.received \in Nat
        /\ c.m_send_pos \in 0 .. Total /\ c.received \in 0 .. Total
        /\ conn[p].m_send_pos \in 0 .. Total
    BY <2>1, <2>4, Ranges
  <2>6. /\ n \in Nat /\ m \in Nat /\ c.m_send_pos = x.m_send_pos + n
        /\ c.received = x.received + m /\ c.received <= Len(wire[p])
    BY <1>6, <1>9, <1>10, <2>1, <2>2, <2>3, <2>5
  <2> QED BY <2>3, <2>5, <2>6
<1>12. /\ new \in Seq(Unit) /\ Len(new) = n
       /\ \A i \in 1 .. n : new[i] = x.m_send_buffer[x.m_send_pos + i]
  <2>1. x.m_send_buffer \in [1 .. Total -> Unit] /\ x.m_send_pos + n <= Total
    BY <1>3, <1>11, Ranges DEF ConnRecord
  <2> QED BY <1>11, <2>1, BufferPart
<1> HIDE DEF new
<1>13. /\ wire[e] \o new \in Seq(Unit) /\ Len(wire[e] \o new) = c.m_send_pos
       /\ \A i \in 1 .. x.m_send_pos : (wire[e] \o new)[i] = wire[e][i]
       /\ \A i \in x.m_send_pos + 1 .. c.m_send_pos : (wire[e] \o new)[i] = x.m_send_buffer[i]
  <2> DEFINE k == x.m_send_pos
             b == x.m_send_buffer
             w == wire[e]
  <2>1. k \in Nat /\ n \in Nat /\ w \in Seq(Unit) /\ Len(w) = k /\ c.m_send_pos = k + n
    BY <1>3, <1>11
  <2>2. \A i \in 1 .. n : new[i] = b[k + i]
    BY <1>12
  <2>3. new \in Seq(Unit) /\ Len(new) = n
    BY <1>12
  <2> HIDE DEF k, b, w
  <2>4. /\ w \o new \in Seq(Unit) /\ Len(w \o new) = k + n
        /\ \A i \in 1 .. k : (w \o new)[i] = w[i]
        /\ \A i \in k + 1 .. k + n : (w \o new)[i] = new[i - k]
    BY <2>1, <2>3, Appended
  <2>5. ASSUME NEW i \in k + 1 .. k + n PROVE (w \o new)[i] = b[i]
    <3>1. i - k \in 1 .. n /\ k + (i - k) = i
      BY <2>1
    <3> QED BY <2>2, <2>4, <3>1
  <2> QED BY <2>1, <2>4, <2>5 DEF k, b, w
<1>14. conn'[e] = c /\ conn'[p] = conn[p] /\ wire'[e] = wire[e] \o new /\ wire'[p] = wire[p]
  BY <1>2, <1>3 DEF ConnInv, Frame
<1>15. place'[e] = Judge(c, e) /\ place'[p] = place[p] /\ Judge(c, e) \in {"new_net", "queue", "rejected", "denied"}
  BY <1>2, <1>3 DEF ConnInv, Frame, Judge, Held
<1>16. Frame'
  <2>1. wire' \in [Ends -> Seq(Unit)]
    BY <1>2, <1>13 DEF ConnInv, Frame
  <2>2. conn' \in [Ends -> ConnRecord]
    BY <1>2, <1>10 DEF ConnInv, Frame
  <2>3. place' \in [Ends -> {"none", "new_net", "queue", "gone", "rejected", "denied"}]
    BY <1>2, <1>15 DEF ConnInv, Frame
  <2> QED BY <1>2, <2>1, <2>2, <2>3 DEF ConnInv, Frame
<1>17. OnWire(e)'
  <2>1. \A i \in 1 .. c.m_send_pos : wire'[e][i] = c.m_send_buffer[i]
    <3> SUFFICES ASSUME NEW i \in 1 .. c.m_send_pos PROVE wire'[e][i] = c.m_send_buffer[i]
      OBVIOUS
    <3>1. c.m_send_buffer[i] = x.m_send_buffer[i]
      BY <1>6, <1>9, <1>10
    <3>2. CASE i \in 1 .. x.m_send_pos
      BY <1>3, <1>13, <1>14, <3>1, <3>2 DEF EndInv, OnWire, x
    <3>3. CASE i \notin 1 .. x.m_send_pos
      <4>1. i \in x.m_send_pos + 1 .. c.m_send_pos
        BY <1>11, <3>3
      <4> QED BY <1>13, <1>14, <3>1, <4>1
    <3> QED BY <3>2, <3>3
  <2> QED BY <1>11, <1>13, <1>14, <2>1 DEF OnWire, p
<1>18. SameSession(e)'
  BY <1>9, <1>10, <1>14 DEF SameSession, p
<1>19. JudgedRight(e)'
  <2>1. CASE place[e] # "new_net"
    <3>1. place[e] = "queue" /\ place'[e] = "queue"
      BY <1>2, <1>15, <2>1 DEF Held, Judge
    <3>2. Ready(x) /\ x.received = Total /\ x.m_fish # {}
      BY <1>3, <3>1 DEF EndInv, JudgedRight, x
    <3>3. Ready(c)
      BY <1>6, <1>9, <1>10, <3>2 DEF Ready
    <3>4. c.received = Total
      BY <1>11, <3>2, Ranges
    <3>5. c.m_fish # {}
      BY <1>6, <1>7, <1>9, <1>10, <3>2 DEF Ready
    <3> QED BY <1>14, <3>1, <3>3, <3>4, <3>5 DEF JudgedRight
  <2>2. CASE place[e] = "new_net"
    <3>1. CASE place'[e] \in {"queue", "rejected"}
      <4>1. Ready(c) /\ ~(c.received < Total)
        BY <1>15, <2>2, <3>1 DEF Judge
      <4>2. c.received = Total /\ Len(wire[p]) = Total
        BY <1>11, <4>1, Ranges
      <4>3. c.m_fish = SessionOf(c.m_mykeyinfo, conn[p].m_mykeyinfo)
        BY <1>9, <1>10, <4>1 DEF Ready
      <4>4. 1 \in conn[e].bf_initted => c.m_mykeyinfo = conn[e].m_mykeyinfo
        BY <1>6, <1>7, <1>9, <1>10 DEF x
      <4>5. SyncMatches(c, e) <=> c.m_fish # {}
        BY <4>2, <4>3, <4>4, SyncTells DEF p
      <4>6. /\ place'[e] = "queue" => SyncMatches(c, e)
            /\ place'[e] = "rejected" => ~SyncMatches(c, e)
        BY <1>15, <2>2, <4>1 DEF Judge
      <4> QED BY <1>14, <4>1, <4>2, <4>5, <4>6 DEF JudgedRight
    <3>2. CASE place'[e] \notin {"queue", "rejected"}
      BY <3>2 DEF JudgedRight
    <3> QED BY <3>1, <3>2
  <2> QED BY <2>1, <2>2
<1>20. ConnInv'
  <2>1. x.m_send_pos <= c.m_send_pos
    BY <1>11
  <2>2. 1 \in x.bf_initted => 1 \in c.bf_initted /\ c.m_mykeyinfo = x.m_mykeyinfo
    BY <1>6, <1>7, <1>9, <1>10
  <2> QED BY <1>2, <1>10, <1>14, <1>15, <1>16, <1>17, <1>18, <1>19, <2>1, <2>2, EndStep
          DEF x, p
<1>21. ASSUME NothingSentEarly PROVE NothingSentEarly'
  <2> SUFFICES ASSUME NEW f \in Ends, NEW i \in DOMAIN wire'[f]
               PROVE  wire'[f][i] \notin {"blank", "plain"}
    BY DEF NothingSentEarly
  <2>1. CASE f = e
    <3>1. i \in 1 .. c.m_send_pos
      BY <1>13, <1>14, <2>1
    <3>2. CASE i \in 1 .. x.m_send_pos
      <4>1. wire'[f][i] = wire[f][i]
        BY <1>13, <1>14, <2>1, <3>2
      <4>2. i \in DOMAIN wire[f]
        BY <1>3, <1>11, <2>1, <3>2
      <4> QED BY <1>21, <4>1, <4>2 DEF NothingSentEarly
    <3>3. CASE i \notin 1 .. x.m_send_pos
      <4>1. i \in x.m_send_pos + 1 .. c.m_send_pos
        BY <1>11, <3>1, <3>3
      <4> QED BY <1>6, <1>11, <1>13, <1>14, <2>1, <4>1
    <3> QED BY <3>2, <3>3
  <2>2. CASE f # e
    BY <1>14, <1>21, <2>2, TwoEnds DEF NothingSentEarly, p
  <2> QED BY <2>1, <2>2
<1> QED BY <1>20, <1>21

\* Steps that leave the connections alone.
LEMMA OutsideStep ==
  ASSUME ConnInv, Frame', UNCHANGED <<setup, conn, wire>>,
         \A f \in Ends : place'[f] = place[f] \/ place'[f] \notin {"queue", "rejected"}
  PROVE  ConnInv'
<1>1. \A f : Knows(f)' = Knows(f)
  BY DEF Knows
<1>2. \A f \in Ends : ConnFacts(f, conn[f])'
  BY <1>1 DEF ConnInv, EndInv, ConnFacts, SentInOrder, KnownOrClosed, Laid
<1>3. \A f \in Ends : Counted(conn[f])' /\ OnWire(f)' /\ SameSession(f)'
  BY DEF ConnInv, EndInv, Counted, OnWire, SameSession
<1>4. \A f \in Ends : JudgedRight(f)'
  BY DEF ConnInv, EndInv, JudgedRight
<1> QED BY <1>2, <1>3, <1>4 DEF ConnInv, EndInv

LEMMA OtherSteps ==
  ASSUME ConnInv, NEW e \in Ends,
         \/ RunOverdue(e) \/ RunResolving(e) \/ RunRefused(e) \/ RunBroken(e)
         \/ RunClosed(e) \/ Close(e) \/ TenSeconds(e) \/ Accept \/ Establish
  PROVE  ConnInv' /\ UNCHANGED wire
<1>1. Peer(e) \in Ends /\ Peer(e) # e /\ conn[e] \in ConnRecord
  BY TwoEnds DEF ConnInv, Frame
<1>2. ASSUME NEW s \in {"error", "closed"}, conn' = [conn EXCEPT ![e].m_state = s], Drop(e)
      PROVE  ConnInv' /\ UNCHANGED wire
  <2>1. conn' \in [Ends -> ConnRecord]
    BY <1>1, <1>2 DEF ConnInv, Frame, ConnRecord
  <2>2. Frame' /\ UNCHANGED <<setup, wire>>
    BY <1>2, <2>1 DEF Drop, ConnInv, Frame
  <2>3. place'[Peer(e)] = place[Peer(e)] /\ place'[e] = "gone"
    BY <1>1, <1>2 DEF Drop, ConnInv, Frame
  <2> QED BY <1>2, <2>2, <2>3, StateStep
<1>3. CASE RunOverdue(e) \/ RunRefused(e) \/ RunBroken(e)
  BY <1>2, <1>3 DEF RunOverdue, RunRefused, RunBroken
<1>4. CASE RunResolving(e)
  <2>1. PICK s \in {"connected", "connecting", "error"} :
          /\ conn' = [conn EXCEPT ![e].m_state = s]
          /\ IF s = "error" THEN Drop(e)
             ELSE /\ link' = IF s = "connected" THEN "up" ELSE "pending"
                  /\ UNCHANGED <<setup, faulty, wire, place, overdue>>
    BY <1>4 DEF RunResolving
  <2>2. CASE s = "error"
    BY <1>2, <2>1, <2>2
  <2>3. CASE s # "error"
    <3>1. conn' \in [Ends -> ConnRecord]
      BY <1>1, <2>1 DEF ConnInv, Frame, ConnRecord
    <3>2. Frame' /\ UNCHANGED <<setup, wire, place>>
      BY <2>1, <2>3, <3>1 DEF ConnInv, Frame
    <3>3. conn[e].m_state \notin {"closed", "error"}
      BY <1>4 DEF RunResolving
    <3> QED BY <2>1, <3>2, <3>3, StateStep
  <2> QED BY <2>2, <2>3
<1>5. CASE Close(e)
  <2>1. conn' \in [Ends -> ConnRecord]
    BY <1>1, <1>5 DEF Close, ConnInv, Frame, ConnRecord
  <2>2. Frame' /\ UNCHANGED <<setup, wire, place>>
    BY <1>5, <2>1 DEF Close, ConnInv, Frame
  <2>3. /\ conn' = [conn EXCEPT ![e].m_state = "closing"]
        /\ conn[e].m_state \notin {"closed", "error"}
    BY <1>5 DEF Close
  <2> QED BY <2>2, <2>3, StateStep
<1>6. CASE RunClosed(e)
  <2>1. Frame' /\ UNCHANGED <<setup, conn, wire>>
    BY <1>6 DEF RunClosed, Drop, ConnInv, Frame
  <2>2. \A f \in Ends : place'[f] = place[f] \/ place'[f] = "gone"
    BY <1>6 DEF RunClosed, Drop, ConnInv, Frame
  <2> QED BY <2>1, <2>2, OutsideStep
<1>7. CASE TenSeconds(e) \/ Establish
  <2>1. Frame' /\ UNCHANGED <<setup, conn, wire, place>>
    BY <1>7 DEF TenSeconds, Establish, ConnInv, Frame
  <2> QED BY <2>1, OutsideStep
<1>8. CASE Accept
  <2>1. Frame' /\ UNCHANGED <<setup, conn, wire>>
    BY <1>8 DEF Accept, ConnInv, Frame
  <2>2. \A f \in Ends : place'[f] = place[f] \/ place'[f] \in {"new_net", "gone"}
    BY <1>8 DEF Accept, ConnInv, Frame
  <2> QED BY <2>1, <2>2, OutsideStep
<1> QED BY <1>3, <1>4, <1>5, <1>6, <1>7, <1>8

LEMMA InitConn == Init => ConnInv /\ NothingSentEarly
<1> SUFFICES ASSUME Init PROVE ConnInv /\ NothingSentEarly
  OBVIOUS
<1>1. ASSUME NEW e \in Ends
      PROVE  /\ conn[e] \in ConnRecord /\ conn[e].bf_initted = {}
             /\ conn[e].m_send_buffer = Parts("hello", "blank", "plain")
             /\ conn[e].m_send_pos = 0 /\ conn[e].received = 0 /\ conn[e].m_fish = {}
             /\ wire[e] = <<>> /\ place[e] \in {"new_net", "none"}
  <2>1. Parts("hello", "blank", "plain") \in [1 .. Total -> Unit]
    BY PartsType DEF Unit
  <2>2. 0 \in 0 .. Total
    BY Ranges
  <2>3. PICK state \in {"resolving", "connected"}, cansend \in BOOLEAN : conn[e] = Fresh(state, cansend)
    BY DEF Init
  <2> HIDE DEF Parts
  <2>4. conn[e] \in ConnRecord
    BY <2>1, <2>2, <2>3 DEF Fresh, ConnRecord
  <2> QED BY <2>3, <2>4 DEF Fresh, Init
<1>2. Frame
  <2>1. <<>> \in Seq(Unit)
    OBVIOUS
  <2>2. conn \in [Ends -> ConnRecord]
    BY <1>1 DEF Init
  <2> QED BY <2>1, <2>2 DEF Init, Frame
<1>3. ASSUME NEW e \in Ends PROVE EndInv(e)
  <2>1. Peer(e) \in Ends
    BY TwoEnds
  <2>2. ConnFacts(e, conn[e])
    BY <1>1, Ranges DEF ConnFacts, Laid, SentInOrder, KnownOrClosed
  <2>3. Counted(conn[e]) /\ OnWire(e) /\ SameSession(e) /\ JudgedRight(e)
    BY <1>1, <2>1, Ranges DEF Counted, OnWire, SameSession, JudgedRight
  <2> QED BY <2>2, <2>3 DEF EndInv
<1>4. NothingSentEarly
  BY <1>1 DEF NothingSentEarly
<1> QED BY <1>2, <1>3, <1>4 DEF ConnInv

LEMMA NextConn ==
  ConnInv /\ NothingSentEarly /\ [Next]_vars => (ConnInv /\ NothingSentEarly)'
<1> SUFFICES ASSUME ConnInv, NothingSentEarly, [Next]_vars PROVE (ConnInv /\ NothingSentEarly)'
  OBVIOUS
<1>1. ASSUME UNCHANGED wire PROVE NothingSentEarly'
  BY <1>1 DEF NothingSentEarly
<1>2. ASSUME NEW e \in Ends, Run(e) \/ Close(e) \/ TenSeconds(e)
      PROVE  (ConnInv /\ NothingSentEarly)'
  BY <1>1, <1>2, TransferStep, OtherSteps DEF Run
<1>3. CASE Accept \/ Establish
  <2>1. "out" \in Ends
    BY DEF Ends
  <2> QED BY <1>1, <1>3, <2>1, OtherSteps
<1>4. CASE UNCHANGED vars
  <2>1. Frame' /\ UNCHANGED <<setup, conn, wire, place>>
    BY <1>4 DEF vars, ConnInv, Frame
  <2> QED BY <1>1, <2>1, OutsideStep
<1> QED BY <1>2, <1>3, <1>4 DEF Next

\* The inductive invariant of a handshake, whatever is sent, received and broken off in
\* whatever order (connection.cpp:120-560, netkern.cpp:309-401).
THEOREM ConnectionInvariant == Spec => []ConnInv
BY InitConn, NextConn, PTL DEF Spec

\* NothingSentEarly: no half key leaves blank and no sync string in the clear.
THEOREM NothingIsSentEarly == Spec => []NothingSentEarly
BY InitConn, NextConn, PTL DEF Spec

LEMMA ConnType == ConnInv => TypeOK
<1> SUFFICES ASSUME ConnInv PROVE TypeOK
  OBVIOUS
<1>1. \A e \in Ends : Len(wire[e]) = conn[e].m_send_pos /\ conn[e].received <= Len(wire[Peer(e)])
  BY TwoEnds DEF ConnInv, EndInv, OnWire
<1>2. conn \in [Ends -> ConnRecord]
  BY DEF ConnInv, Frame
<1> QED BY <1>1, <1>2 DEF ConnInv, Frame, TypeOK, ConnRecord, Unit

\* Types, and units are received only after they were sent.
THEOREM ConnectionTypeCorrect == Spec => []TypeOK
BY ConnType, ConnectionInvariant, PTL

\* QueueIsAgreed: a queue is made only between ends that know each other, and of two
\* halves that give both of them the same session key.
THEOREM QueueIsOfBothEnds == Spec => []QueueIsAgreed
<1>1. ConnInv => QueueIsAgreed
  <2> SUFFICES ASSUME ConnInv, NEW e \in Ends, place[e] = "queue"
               PROVE  /\ Mutual
                      /\ conn[e].m_fish = conn[Peer(e)].m_fish
                      /\ conn[e].m_fish = {conn["out"].m_mykeyinfo, conn["in"].m_mykeyinfo}
                      /\ Cardinality(conn[e].m_fish) = 2
    BY ConnType DEF QueueIsAgreed
  <2> DEFINE p == Peer(e)
             k == conn[e].m_mykeyinfo
             l == conn[p].m_mykeyinfo
  <2>1. p \in Ends /\ Peer(p) = e /\ Ends = {e, p} /\ EndInv(e) /\ EndInv(p)
    BY TwoEnds DEF ConnInv
  <2>2. Ready(conn[e]) /\ conn[e].received = Total /\ conn[e].m_fish # {}
    BY <2>1 DEF EndInv, JudgedRight
  <2>3. conn[e].m_send_pos \in 0 .. Total /\ conn[p].m_send_pos \in 0 .. Total
    BY <2>1 DEF ConnInv, Frame, ConnRecord
  <2>4. conn[p].m_send_pos = Total
    BY <2>1, <2>2, <2>3, Ranges DEF EndInv, OnWire
  <2>5. Ready(conn[p]) /\ Knows(p)
    BY <2>1, <2>4, Ranges DEF EndInv, ConnFacts, SentInOrder
  <2>6. Knows(e)
    BY <2>1, <2>2, <2>3, Ranges DEF EndInv, ConnFacts, SentInOrder, Ready
  <2>7. Mutual
    BY <2>1, <2>5, <2>6 DEF Mutual, Knows
  <2>8. conn[e].m_fish = SessionOf(k, l) /\ conn[p].m_fish = SessionOf(l, k)
    BY <2>1, <2>2, <2>5 DEF EndInv, SameSession, Ready
  <2>9. k # l /\ conn[e].m_fish = {k, l} /\ conn[p].m_fish = {k, l}
    BY <2>2, <2>8 DEF SessionOf
  <2>10. {k, l} = {conn["out"].m_mykeyinfo, conn["in"].m_mykeyinfo}
    BY DEF Ends, Peer
  <2>11. Cardinality({k, l}) = 2
    <3> HIDE DEF k, l
    <3> QED BY <2>9, TwoOfThem
  <2> QED BY <2>7, <2>9, <2>10, <2>11
<1> QED BY <1>1, ConnectionInvariant, PTL

\* RejectedForCause: "failed auth" is said only where there is no session key.
THEOREM RejectedOnlyForCause == Spec => []RejectedForCause
<1>1. ConnInv => RejectedForCause
  BY DEF ConnInv, EndInv, JudgedRight, RejectedForCause
<1> QED BY <1>1, ConnectionInvariant, PTL
=============================================================================
