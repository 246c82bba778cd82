---------------------------- MODULE NetworkProofs ----------------------------
(***************************************************************************)
(* Proofs about how messages find their way: the mesh of hosts (Mesh), for *)
(* every network, set of ids and m_max_ttl; the table of routes of one     *)
(* connection (RouteTable), for every size that halves down to a step of   *)
(* one; the turns of the queues (QueuePass), for any number of them; and   *)
(* the cache of resolved names (AsyncDNS), for every set of hosts and      *)
(* every size.                                                             *)
(***************************************************************************)
EXTENDS Mesh, RouteTable, QueuePass, AsyncDNS, FiniteSetTheorems, SequenceTheorems, WellFoundedInduction, TLAPS

-----------------------------------------------------------------------------
(* Mesh *)

Drawn(g) == \E o \in Node : g \in m_local_route[o]

\* An id has one origin, and nobody speaks of it before it is drawn.
Origins ==
  /\ \A n, o \in Node : m_local_route[n] \cap m_local_route[o] # {} => n = o
  /\ \A n, p \in Node : \A m \in chan[n][p] : Drawn(m.guid)
  /\ \A n, p \in Node : \A g \in routes[n][p] : Drawn(g)
  /\ \A n \in Node, g \in Guid : heard[n][g] > 0 => Drawn(g)

\* A queue holds routes only while it exists.
LiveRoutes == \A n, p \in Node : routes[n][p] # {} => p \in up[n]

\* A node that heard a broadcast did not draw it, and a reply names such a node.
Heard ==
  /\ OwnNotHeard
  /\ \A n, p \in Node : \A m \in chan[n][p] :
       m.kind = "reply" => heard[m.from][m.guid] > 0
  /\ \A r \in replied : heard[r[1]][r[2]] > 0

\* What the ttl of a message says about the links behind it.
Ttls ==
  \A n, p \in Node : \A m \in chan[n][p] :
    /\ m.ttl \in 1..DefaultTtl
    /\ m.hops \in Nat \ {0}
    /\ m.kind = "bcast" =>
         m.ttl = IF m.hops = 1 THEN DefaultTtl ELSE MaxTtl + 1 - m.hops

\* What a node is handed as an answer is one to its own broadcast, from a node that got it.
Answered ==
  \A a \in answers : a.guid \in m_local_route[a.at] /\ heard[a.from][a.guid] > 0

\* Each time a node was handed a broadcast but for the last, if its route still stands,
\* the route went with its queue.
Forgets ==
  \A n \in Node, g \in Guid :
    /\ heard[n][g] <= forgotten[n][g] + 1
    /\ (\A p \in Node : g \notin routes[n][p]) => heard[n][g] <= forgotten[n][g]

RouteFacts ==
  /\ Origins /\ LiveRoutes /\ UniqueRoute /\ Heard /\ Ttls /\ ReachBounded
  /\ Answered /\ Forgets
RouteInv == TypeOK /\ RouteFacts

\* While no queue is deleted: the links stand, what a node heard it knows, routes
\* lead home, a broadcast comes from a node that knows it, a reply goes where the
\* route of its sender points, and none has been without a route.
LinksStand == up = [n \in Node |-> Peers(n)]
HeardKnown ==
  \A n \in Node, g \in Guid :
    /\ heard[n][g] <= 1
    /\ heard[n][g] > 0 => Knows(n, g)
    /\ heard[n][g] = 0 => depth[n][g] = 0
HomeRoutes ==
  \A n, p \in Node : \A g \in routes[n][p] :
    depth[n][g] = depth[p][g] + 1 /\ Knows(p, g) /\ heard[n][g] > 0
BroadcastsKnown ==
  \A n, p \in Node : \A m \in chan[n][p] :
    m.kind = "bcast" => Knows(n, m.guid) /\ m.hops = depth[n][m.guid] + 1
RepliesOnRoute ==
  \A n, p \in Node : \A m \in chan[n][p] : m.kind = "reply" => m.guid \in routes[n][p]
NoRouteErrors == \A n \in Node : m_stat_route_errors[n] = 0

UnbrokenFacts ==
  LinksStand /\ HeardKnown /\ HomeRoutes /\ BroadcastsKnown /\ RepliesOnRoute
    /\ NoRouteErrors
Unbroken == breaks = 0 => UnbrokenFacts

-----------------------------------------------------------------------------
(* Every action, written pointwise.                                        *)

\* What may be in a channel after a step: what was there, and m on the queues of n
\* to the peers in to.
Sends(n, to, m) ==
  \A a, b \in Node : \A x \in chan'[a][b] :
    x \in chan[a][b] \/ (a = n /\ b \in to /\ x = m)
SendsNone == \A a, b \in Node : chan'[a][b] \subseteq chan[a][b]

LEMMA PutType ==
  ASSUME TypeOK, NEW n \in Node, NEW to, NEW m \in Message
  PROVE  Put(n, to, m) \in [Node -> SUBSET Message]
BY DEF Put, TypeOK

LEMMA TakenType ==
  ASSUME TypeOK, NEW n \in Node, NEW p \in Node, NEW m
  PROVE  /\ Taken(n, p, m) \in [Node -> [Node -> SUBSET Message]]
         /\ \A a, b \in Node : Taken(n, p, m)[a][b] \subseteq chan[a][b]
BY DEF Taken, TypeOK

LEMMA StampedType ==
  ASSUME NEW m \in Message, NEW t \in 0..255
  PROVE  /\ Stamped(m, t) \in Message
         /\ Stamped(m, t).kind = m.kind /\ Stamped(m, t).guid = m.guid
         /\ Stamped(m, t).from = m.from /\ Stamped(m, t).hops = m.hops + 1
         /\ Stamped(m, t).ttl = t
<1> m.hops + 1 \in Nat
  BY DEF Message
<1> QED BY DEF Message, Stamped

LEMMA RelayedType ==
  ASSUME NEW m \in Message, m.ttl > 1
  PROVE  /\ Relayed(m) \in Message
         /\ Relayed(m).kind = m.kind /\ Relayed(m).guid = m.guid
         /\ Relayed(m).from = m.from /\ Relayed(m).hops = m.hops + 1
         /\ Relayed(m).ttl = (IF m.ttl > MaxTtl THEN MaxTtl ELSE m.ttl) - 1
<1> DEFINE t == (IF m.ttl > MaxTtl THEN MaxTtl ELSE m.ttl) - 1
<1>1. t \in 0..255
  BY TtlAssumption DEF Message, DefaultTtl
<1>2. Relayed(m) = Stamped(m, t)
  BY DEF Relayed
<1> HIDE DEF t
<1>3. /\ Stamped(m, t) \in Message
      /\ Stamped(m, t).kind = m.kind /\ Stamped(m, t).guid = m.guid
      /\ Stamped(m, t).from = m.from /\ Stamped(m, t).hops = m.hops + 1
      /\ Stamped(m, t).ttl = t
  BY <1>1, StampedType
<1> QED BY <1>2, <1>3 DEF t

LEMMA PassedType ==
  ASSUME NEW m \in Message
  PROVE  /\ Passed(m) \in Message
         /\ Passed(m).kind = m.kind /\ Passed(m).guid = m.guid
         /\ Passed(m).from = m.from /\ Passed(m).hops = m.hops + 1
         /\ Passed(m).ttl = (m.ttl - 1) % 256
<1> DEFINE t == (m.ttl - 1) % 256
<1>1. t \in 0..255
  BY DEF Message
<1>2. Passed(m) = Stamped(m, t)
  BY DEF Passed
<1> HIDE DEF t
<1>3. /\ Stamped(m, t) \in Message
      /\ Stamped(m, t).kind = m.kind /\ Stamped(m, t).guid = m.guid
      /\ Stamped(m, t).from = m.from /\ Stamped(m, t).hops = m.hops + 1
      /\ Stamped(m, t).ttl = t
  BY <1>1, StampedType
<1> QED BY <1>2, <1>3 DEF t

LEMMA BroadcastStep ==
  ASSUME TypeOK, NEW n \in Node, NEW g \in Guid, Broadcast(n, g)
  PROVE  /\ chan' \in [Node -> [Node -> SUBSET Message]]
         /\ Sends(n, up[n], [kind |-> "bcast", guid |-> g, from |-> n,
                             ttl |-> DefaultTtl, hops |-> 1])
<1> DEFINE m == [kind |-> "bcast", guid |-> g, from |-> n, ttl |-> DefaultTtl, hops |-> 1]
<1>1. m \in Message
  BY DEF Message, DefaultTtl
<1>2. Put(n, up[n], m) \in [Node -> SUBSET Message]
  BY <1>1, PutType
<1>3. chan' = [chan EXCEPT ![n] = Put(n, up[n], m)]
  BY DEF Broadcast
<1> HIDE DEF m
<1>4. chan' \in [Node -> [Node -> SUBSET Message]]
  BY <1>2, <1>3 DEF TypeOK
<1>5. Sends(n, up[n], m)
  BY <1>3 DEF Sends, Put, TypeOK
<1> QED BY <1>4, <1>5 DEF m

LEMMA ReplyStep ==
  ASSUME TypeOK, NEW n \in Node, NEW g \in Guid, Reply(n, g)
  PROVE  /\ chan' \in [Node -> [Node -> SUBSET Message]]
         /\ \/ SendsNone
            \/ \E r \in Via(n, g) :
                 Sends(n, {r}, [kind |-> "reply", guid |-> g, from |-> n,
                                ttl |-> DefaultTtl, hops |-> 1])
<1> DEFINE m == [kind |-> "reply", guid |-> g, from |-> n, ttl |-> DefaultTtl, hops |-> 1]
<1>1. m \in Message
  BY DEF Message, DefaultTtl
<1>2. CASE Via(n, g) = {}
  BY <1>2 DEF Reply, SendsNone, TypeOK
<1>3. CASE Via(n, g) # {}
  <2>1. PICK r \in Via(n, g) : chan' = [chan EXCEPT ![n] = Put(n, {r}, m)]
    BY <1>3 DEF Reply
  <2>2. Put(n, {r}, m) \in [Node -> SUBSET Message]
    BY <1>1, PutType
  <2> HIDE DEF m
  <2>3. chan' \in [Node -> [Node -> SUBSET Message]]
    BY <2>1, <2>2 DEF TypeOK
  <2>4. Sends(n, {r}, m)
    BY <2>1 DEF Sends, Put, TypeOK
  <2> QED BY <2>3, <2>4 DEF m
<1> QED BY <1>2, <1>3

LEMMA GotBroadcastStep ==
  ASSUME TypeOK, NEW n \in Node, NEW p \in Node, NEW m \in Message,
         GotBroadcast(n, p, m)
  PROVE  /\ chan' \in [Node -> [Node -> SUBSET Message]]
         /\ SendsNone \/ (m.ttl > 1 /\ Sends(n, up[n] \ {p}, Relayed(m)))
<1>1. /\ Taken(n, p, m) \in [Node -> [Node -> SUBSET Message]]
      /\ \A a, b \in Node : Taken(n, p, m)[a][b] \subseteq chan[a][b]
  BY TakenType
<1>2. CASE m.ttl > 1 /\ n \in Relays
  <2>1. chan' = [Taken(n, p, m) EXCEPT ![n] = Put(n, up[n] \ {p}, Relayed(m))]
    BY <1>2 DEF GotBroadcast
  <2>2. Put(n, up[n] \ {p}, Relayed(m)) \in [Node -> SUBSET Message]
    BY <1>2, RelayedType, PutType
  <2>3. chan' \in [Node -> [Node -> SUBSET Message]]
    BY <1>1, <2>1, <2>2
  <2>4. Sends(n, up[n] \ {p}, Relayed(m))
    BY <1>1, <2>1 DEF Sends, Put
  <2> QED BY <1>2, <2>3, <2>4
<1>3. CASE ~(m.ttl > 1 /\ n \in Relays)
  BY <1>1, <1>3 DEF GotBroadcast, SendsNone
<1> QED BY <1>2, <1>3

LEMMA ForwardReplyStep ==
  ASSUME TypeOK, NEW n \in Node, NEW p \in Node, NEW m \in Message,
         ForwardReply(n, p, m)
  PROVE  /\ chan' \in [Node -> [Node -> SUBSET Message]]
         /\ \/ SendsNone
            \/ /\ Passed(m).ttl > 0
               /\ \E r \in Via(n, m.guid) : Sends(n, {r}, Passed(m))
<1>1. /\ Taken(n, p, m) \in [Node -> [Node -> SUBSET Message]]
      /\ \A a, b \in Node : Taken(n, p, m)[a][b] \subseteq chan[a][b]
  BY TakenType
<1>2. CASE n \in Forwards /\ Passed(m).ttl > 0
  <2>1. PICK r \in Via(n, m.guid) :
           chan' = [Taken(n, p, m) EXCEPT ![n] = Put(n, {r}, Passed(m))]
    BY <1>2 DEF ForwardReply
  <2>2. Put(n, {r}, Passed(m)) \in [Node -> SUBSET Message]
    BY PassedType, PutType
  <2>3. chan' \in [Node -> [Node -> SUBSET Message]]
    BY <1>1, <2>1, <2>2
  <2>4. Sends(n, {r}, Passed(m))
    BY <1>1, <2>1 DEF Sends, Put
  <2> QED BY <1>2, <2>3, <2>4
<1>3. CASE ~(n \in Forwards /\ Passed(m).ttl > 0)
  BY <1>1, <1>3 DEF ForwardReply, SendsNone
<1> QED BY <1>2, <1>3

\* The remaining actions put nothing in a channel.
LEMMA QuietStep ==
  ASSUME TypeOK, NEW n \in Node, NEW p \in Node, NEW m,
         \/ DropDuplicate(n, p, m) \/ GotReply(n, p, m) \/ StrayReply(n, p, m)
         \/ Lose(n, p, m) \/ DeleteQueue(n, p) \/ AddQueue(n, p)
  PROVE  chan' \in [Node -> [Node -> SUBSET Message]] /\ SendsNone
<1>1. CASE DropDuplicate(n, p, m) \/ GotReply(n, p, m) \/ StrayReply(n, p, m)
  BY <1>1, TakenType DEF DropDuplicate, GotReply, StrayReply, SendsNone
<1>2. CASE Lose(n, p, m)
  BY <1>2 DEF Lose, SendsNone, TypeOK
<1>3. CASE DeleteQueue(n, p)
  <2>1. PICK sent \in SUBSET chan[n][p] :
           chan' = [chan EXCEPT ![n][p] = sent, ![p][n] = {}]
    BY <1>3 DEF DeleteQueue
  <2>2. sent \subseteq Message
    BY DEF TypeOK
  <2> QED BY <2>1, <2>2 DEF SendsNone, TypeOK
<1>4. CASE AddQueue(n, p)
  BY <1>4 DEF AddQueue, SendsNone, TypeOK
<1> QED BY <1>1, <1>2, <1>3, <1>4
-----------------------------------------------------------------------------
(* Type correctness.                                                       *)

LEMMA InitType == Init => TypeOK
<1> SUFFICES ASSUME Init PROVE TypeOK
  OBVIOUS
<1>1. \A n \in Node : Peers(n) \subseteq Node
  BY DEF Peers
<1> QED BY <1>1 DEF Init, TypeOK

LEMMA ReceiveMember ==
  ASSUME TypeOK, NEW n \in Node, NEW p \in Node, NEW m \in chan[p][n]
  PROVE  m \in Message /\ m.guid \in Guid /\ m.from \in Node /\ m.hops \in Nat
BY DEF TypeOK, Message

\* What Forget counts.
LEMMA ForgetStep ==
  ASSUME TypeOK, NEW n \in Node, NEW ids, Forget(n, ids)
  PROVE  /\ forgotten' \in [Node -> [Guid -> Nat]]
         /\ \A a \in Node, i \in Guid :
              forgotten'[a][i] = IF a = n /\ i \in ids THEN forgotten[a][i] + 1
                                                     ELSE forgotten[a][i]
<1> DEFINE f == [g \in Guid |-> forgotten[n][g] + IF g \in ids THEN 1 ELSE 0]
<1>1. forgotten \in [Node -> [Guid -> Nat]]
  BY DEF TypeOK
<1>2. forgotten' = [forgotten EXCEPT ![n] = f]
  BY DEF Forget
<1>3. f \in [Guid -> Nat]
  BY <1>1
<1>4. \A i \in Guid : f[i] = IF i \in ids THEN forgotten[n][i] + 1 ELSE forgotten[n][i]
  BY <1>1
<1> HIDE DEF f
<1>5. \A a \in Node : forgotten'[a] = IF a = n THEN f ELSE forgotten[a]
  BY <1>1, <1>2
<1>6. \A a \in Node, i \in Guid :
        forgotten'[a][i] = IF a = n /\ i \in ids THEN forgotten[a][i] + 1 ELSE forgotten[a][i]
  BY <1>4, <1>5
<1> QED BY <1>1, <1>2, <1>3, <1>6

LEMMA NextType == TypeOK /\ [Next]_vars => TypeOK'
<1> SUFFICES ASSUME TypeOK, [Next]_vars PROVE TypeOK'
  OBVIOUS
<1>1. ASSUME NEW n \in Node, NEW g \in Guid, Broadcast(n, g) PROVE TypeOK'
  <2>1. chan' \in [Node -> [Node -> SUBSET Message]]
    BY <1>1, BroadcastStep
  <2> QED BY <1>1, <2>1 DEF Broadcast, TypeOK, history
<1>2. ASSUME NEW n \in Node, NEW g \in Guid, Reply(n, g) PROVE TypeOK'
  <2>1. chan' \in [Node -> [Node -> SUBSET Message]]
    BY <1>2, ReplyStep
  <2>2. m_stat_route_errors' \in [Node -> Nat]
    <3>1. m_stat_route_errors \in [Node -> Nat]
      BY DEF TypeOK
    <3>2. \/ m_stat_route_errors' = m_stat_route_errors
          \/ m_stat_route_errors' = [m_stat_route_errors EXCEPT ![n] = @ + 1]
      BY <1>2 DEF Reply
    <3> QED BY <3>1, <3>2
  <2>3. replied' \subseteq Node \X Guid
    BY <1>2 DEF Reply, TypeOK
  <2> QED BY <1>2, <2>1, <2>2, <2>3 DEF Reply, TypeOK
<1>3. ASSUME NEW n \in Node, NEW p \in Node, NEW m \in chan[p][n], GotBroadcast(n, p, m)
      PROVE TypeOK'
  <2>1. m \in Message /\ m.guid \in Guid /\ m.hops \in Nat
    BY ReceiveMember
  <2>2. chan' \in [Node -> [Node -> SUBSET Message]]
    BY <1>3, <2>1, GotBroadcastStep
  <2>3. heard' \in [Node -> [Guid -> Nat]]
    BY <1>3, <2>1 DEF GotBroadcast, TypeOK
  <2>4. depth' \in [Node -> [Guid -> Nat]]
    BY <1>3, <2>1 DEF GotBroadcast, TypeOK
  <2>5. routes' \in [Node -> [Node -> SUBSET Guid]]
    BY <1>3, <2>1 DEF GotBroadcast, TypeOK
  <2> QED BY <1>3, <2>2, <2>3, <2>4, <2>5 DEF GotBroadcast, TypeOK
<1>4. ASSUME NEW n \in Node, NEW p \in Node, NEW m \in chan[p][n], ForwardReply(n, p, m)
      PROVE TypeOK'
  <2>1. chan' \in [Node -> [Node -> SUBSET Message]]
    BY <1>4, ReceiveMember, ForwardReplyStep
  <2> QED BY <1>4, <2>1 DEF ForwardReply, TypeOK, history
<1>5. ASSUME NEW n \in Node, NEW p \in Node, NEW m \in chan[p][n], GotReply(n, p, m)
      PROVE TypeOK'
  <2>1. chan' \in [Node -> [Node -> SUBSET Message]]
    BY <1>5, QuietStep
  <2> QED BY <1>5, <2>1, ReceiveMember DEF GotReply, TypeOK
<1>6. ASSUME NEW n \in Node, NEW p \in Node, NEW m,
             DropDuplicate(n, p, m) \/ StrayReply(n, p, m) \/ Lose(n, p, m)
      PROVE TypeOK'
  <2>1. chan' \in [Node -> [Node -> SUBSET Message]]
    BY <1>6, QuietStep
  <2>2. m_stat_route_errors' \in [Node -> Nat]
    <3>1. m_stat_route_errors \in [Node -> Nat]
      BY DEF TypeOK
    <3>2. \/ m_stat_route_errors' = m_stat_route_errors
          \/ m_stat_route_errors' = [m_stat_route_errors EXCEPT ![n] = @ + 1]
      BY <1>6 DEF DropDuplicate, StrayReply, Lose
    <3> QED BY <3>1, <3>2
  <2>3. UNCHANGED <<up, m_local_route, routes, heard, depth, answers, replied, breaks, forgotten>>
    BY <1>6 DEF DropDuplicate, StrayReply, Lose, history
  <2> QED BY <2>1, <2>2, <2>3 DEF TypeOK
<1>7. ASSUME NEW n \in Node, NEW p \in Node, DeleteQueue(n, p) PROVE TypeOK'
  <2>1. chan' \in [Node -> [Node -> SUBSET Message]]
    BY <1>7, QuietStep
  <2>2. up' \in [Node -> SUBSET Node]
    BY <1>7 DEF DeleteQueue, TypeOK
  <2>3. routes' \in [Node -> [Node -> SUBSET Guid]] /\ breaks' \in Nat
    BY <1>7 DEF DeleteQueue, TypeOK
  <2>4. forgotten' \in [Node -> [Guid -> Nat]]
    BY <1>7, ForgetStep DEF DeleteQueue
  <2> QED BY <1>7, <2>1, <2>2, <2>3, <2>4 DEF DeleteQueue, TypeOK, history
<1>8. ASSUME NEW n \in Node, NEW p \in Node, AddQueue(n, p) PROVE TypeOK'
  <2>1. chan' \in [Node -> [Node -> SUBSET Message]]
    BY <1>8, QuietStep
  <2>2. up' \in [Node -> SUBSET Node]
    BY <1>8 DEF AddQueue, TypeOK
  <2> QED BY <1>8, <2>1, <2>2 DEF AddQueue, TypeOK, history
<1>9. CASE UNCHANGED vars
  BY <1>9 DEF vars, TypeOK
<1> QED BY <1>1, <1>2, <1>3, <1>4, <1>5, <1>6, <1>7, <1>8, <1>9 DEF Next, Receive

\* Every variable keeps its type: no message, route or history entry names a node
\* or id the network does not have.
THEOREM TypeCorrect == Spec => []TypeOK
BY InitType, NextType, PTL DEF Spec
-----------------------------------------------------------------------------
(* Routes, whatever connections break and whatever messages are lost.       *)

LEMMA InitRoutes == Init => RouteFacts
<1> SUFFICES ASSUME Init PROVE RouteFacts
  OBVIOUS
<1>1. \A n, p \in Node : chan[n][p] = {} /\ routes[n][p] = {}
  BY DEF Init
<1>2. \A n \in Node : m_local_route[n] = {}
  BY DEF Init
<1>3. \A n \in Node, g \in Guid : heard[n][g] = 0 /\ depth[n][g] = 0
  BY DEF Init
<1>4. answers = {} /\ replied = {}
  BY DEF Init
<1>5. Origins /\ LiveRoutes /\ UniqueRoute
  BY <1>1, <1>2, <1>3, InitType DEF Origins, LiveRoutes, UniqueRoute, Via, TypeOK
<1>6. Heard /\ Ttls /\ Answered
  BY <1>1, <1>2, <1>4 DEF Heard, OwnNotHeard, Ttls, Answered
<1>7. ReachBounded
  BY <1>3, TtlAssumption DEF ReachBounded, DefaultTtl
<1>8. Forgets
  BY DEF Init, Forgets
<1> QED BY <1>5, <1>6, <1>7, <1>8 DEF RouteFacts

\* Steps by which no node is handed a broadcast and no route is learnt or goes.
LEMMA ForgetsStays ==
  ASSUME Forgets, UNCHANGED <<routes, heard, forgotten>>
  PROVE  Forgets'
BY DEF Forgets

LEMMA BroadcastRoutes ==
  ASSUME RouteInv, NEW n \in Node, NEW g \in Guid, Broadcast(n, g)
  PROVE  RouteFacts'
<1> DEFINE m == [kind |-> "bcast", guid |-> g, from |-> n, ttl |-> DefaultTtl, hops |-> 1]
<1> USE DEF RouteInv, RouteFacts
<1>1. Sends(n, up[n], m)
  BY BroadcastStep
<1>2. /\ m_local_route' = [m_local_route EXCEPT ![n] = @ \cup {g}]
      /\ \A o \in Node : g \notin m_local_route[o]
      /\ UNCHANGED <<up, routes, heard, depth, answers, replied, forgotten>>
  BY DEF Broadcast, history
<1>3. \A o \in Node : m_local_route'[o] = IF o = n THEN m_local_route[o] \cup {g}
                                                ELSE m_local_route[o]
  BY <1>2 DEF TypeOK
<1>4. /\ m.kind = "bcast" /\ m.guid = g /\ m.ttl = DefaultTtl /\ m.hops = 1
  OBVIOUS
<1> HIDE DEF m
<1>5. ~Drawn(g)
  BY <1>2 DEF Drawn
<1>6. Origins'
  <2>1. \A i \in Guid : Drawn(i) \/ i = g => Drawn(i)'
    BY <1>3 DEF Drawn
  <2>2. \A a, o \in Node : m_local_route'[a] \cap m_local_route'[o] # {} => a = o
    BY <1>2, <1>3 DEF Origins
  <2>3. \A a, b \in Node : \A x \in chan'[a][b] : Drawn(x.guid)'
    <3> SUFFICES ASSUME NEW a \in Node, NEW b \in Node, NEW x \in chan'[a][b]
                 PROVE  Drawn(x.guid)'
      OBVIOUS
    <3>1. CASE x \in chan[a][b]
      BY <2>1, <3>1, ReceiveMember DEF Origins
    <3>2. CASE x = m
      BY <1>4, <2>1, <3>2
    <3> QED BY <1>1, <3>1, <3>2 DEF Sends
  <2>4. \A a, b \in Node : \A i \in routes'[a][b] : Drawn(i)'
    BY <1>2, <2>1 DEF Origins, TypeOK
  <2>5. \A a \in Node, i \in Guid : heard'[a][i] > 0 => Drawn(i)'
    BY <1>2, <2>1 DEF Origins
  <2> QED BY <2>2, <2>3, <2>4, <2>5 DEF Origins
<1>7. LiveRoutes'
  BY <1>2 DEF LiveRoutes
<1>8. UniqueRoute'
  <2>1. \A a \in Node : up[a] \subseteq Node
    BY DEF TypeOK
  <2>2. \A a \in Node, i \in Guid : Via(a, i)' = Via(a, i)
    BY <1>2 DEF Via
  <2>3. \A a \in Node : Via(a, g) = {}
    BY <1>5, <2>1 DEF Via, Origins
  <2>4. \A a \in Node, i \in Guid : i \in m_local_route'[a] => Via(a, i) = {}
    <3> SUFFICES ASSUME NEW a \in Node, NEW i \in Guid, i \in m_local_route'[a]
                 PROVE  Via(a, i) = {}
      OBVIOUS
    <3>1. i \in m_local_route[a] \/ i = g
      BY <1>3
    <3> QED BY <2>3, <3>1 DEF UniqueRoute
  <2>5. \A a \in Node, i \in Guid : \A p, q \in Via(a, i) : p = q
    BY DEF UniqueRoute
  <2>6. \A a \in Node, i \in Guid :
           (\A p, q \in Via(a, i)' : p = q) /\ (i \in m_local_route'[a] => Via(a, i)' = {})
    BY <2>2, <2>4, <2>5
  <2> QED BY <2>6 DEF UniqueRoute
<1>9. Heard'
  <2>1. \A i \in Node : heard[i][g] = 0
    BY <1>5 DEF Origins, TypeOK
  <2>2. OwnNotHeard'
    BY <1>2, <1>3, <2>1 DEF Heard, OwnNotHeard
  <2> QED BY <1>1, <1>2, <1>4, <2>2 DEF Heard, Sends
<1>10. Ttls'
  BY <1>1, <1>4 DEF Ttls, Sends, DefaultTtl
<1>11. ReachBounded' /\ Answered'
  <2>1. \A a \in answers : a.at \in Node
    BY DEF TypeOK
  <2> QED BY <1>2, <1>3, <2>1 DEF ReachBounded, Answered
<1>12. Forgets'
  BY <1>2, ForgetsStays
<1> QED BY <1>6, <1>7, <1>8, <1>9, <1>10, <1>11, <1>12

LEMMA ReplyRoutes ==
  ASSUME RouteInv, NEW n \in Node, NEW g \in Guid, Reply(n, g)
  PROVE  RouteFacts'
<1> DEFINE m == [kind |-> "reply", guid |-> g, from |-> n, ttl |-> DefaultTtl, hops |-> 1]
<1> USE DEF RouteInv, RouteFacts
<1>1. SendsNone \/ \E r \in Via(n, g) : Sends(n, {r}, m)
  BY ReplyStep
<1>2. /\ heard[n][g] > 0 /\ replied' = replied \cup {<<n, g>>}
      /\ UNCHANGED <<up, m_local_route, routes, heard, depth, answers, forgotten>>
  BY DEF Reply
<1>3. /\ m.kind = "reply" /\ m.guid = g /\ m.from = n /\ m.ttl = DefaultTtl /\ m.hops = 1
  OBVIOUS
<1> HIDE DEF m
<1>4. \A a, b \in Node : \A x \in chan'[a][b] : x \in chan[a][b] \/ x = m
  BY <1>1 DEF SendsNone, Sends
<1>5. \A i : Drawn(i)' <=> Drawn(i)
  BY <1>2 DEF Drawn
<1>6. Origins'
  BY <1>2, <1>3, <1>4, <1>5 DEF Origins
<1>7. LiveRoutes' /\ UniqueRoute'
  BY <1>2 DEF LiveRoutes, UniqueRoute, Via
<1>8. Heard'
  <2>1. OwnNotHeard'
    BY <1>2 DEF Heard, OwnNotHeard
  <2>2. \A r \in replied' : heard'[r[1]][r[2]] > 0
    BY <1>2 DEF Heard
  <2>3. \A a, b \in Node : \A x \in chan'[a][b] :
          x.kind = "reply" => heard'[x.from][x.guid] > 0
    BY <1>2, <1>3, <1>4 DEF Heard
  <2> QED BY <2>1, <2>2, <2>3 DEF Heard
<1>9. Ttls'
  BY <1>3, <1>4 DEF Ttls, DefaultTtl
<1>10. ReachBounded' /\ Answered' /\ Forgets'
  BY <1>2, ForgetsStays DEF ReachBounded, Answered
<1> QED BY <1>6, <1>7, <1>8, <1>9, <1>10

LEMMA GotBroadcastRoutes ==
  ASSUME RouteInv, NEW n \in Node, NEW p \in up[n], NEW m \in chan[p][n],
         GotBroadcast(n, p, m)
  PROVE  RouteFacts'
<1> USE DEF RouteInv, RouteFacts
<1>1. p \in Node
  BY DEF TypeOK
<1>2. m \in Message /\ m.guid \in Guid /\ m.from \in Node /\ m.hops \in Nat
  BY <1>1, ReceiveMember
<1>3. /\ m.kind = "bcast" /\ ~Knows(n, m.guid)
      /\ routes' = [routes EXCEPT ![n][p] = @ \cup {m.guid}]
      /\ heard' = [heard EXCEPT ![n][m.guid] = @ + 1]
      /\ depth' = [depth EXCEPT ![n][m.guid] = m.hops]
      /\ UNCHANGED <<up, m_local_route, answers, replied, forgotten>>
  BY DEF GotBroadcast
<1>4. \A a, b \in Node : routes'[a][b] =
         IF a = n /\ b = p THEN routes[a][b] \cup {m.guid} ELSE routes[a][b]
  BY <1>1, <1>3 DEF TypeOK
<1>5. \A a \in Node, i \in Guid :
         heard'[a][i] = IF a = n /\ i = m.guid THEN heard[a][i] + 1 ELSE heard[a][i]
  BY <1>2, <1>3 DEF TypeOK
<1>6. \A a \in Node, i \in Guid : heard[a][i] \in Nat
  BY DEF TypeOK
<1>7. \/ SendsNone
      \/ m.ttl > 1 /\ Sends(n, up[n] \ {p}, Relayed(m))
  BY <1>1, <1>2, GotBroadcastStep
<1>8. \A a, b \in Node : \A x \in chan'[a][b] :
         x \in chan[a][b] \/ (m.ttl > 1 /\ x = Relayed(m))
  BY <1>7 DEF SendsNone, Sends
<1>9. m.ttl > 1 =>
         /\ Relayed(m).kind = "bcast" /\ Relayed(m).guid = m.guid
         /\ Relayed(m).hops = m.hops + 1
         /\ Relayed(m).ttl = (IF m.ttl > MaxTtl THEN MaxTtl ELSE m.ttl) - 1
  BY <1>2, <1>3, RelayedType
<1>10. Drawn(m.guid) /\ \A i : Drawn(i)' <=> Drawn(i)
  BY <1>1, <1>3 DEF Drawn, Origins
<1>11. /\ m.ttl \in 1..DefaultTtl /\ m.hops \in Nat \ {0}
       /\ m.ttl = IF m.hops = 1 THEN DefaultTtl ELSE MaxTtl + 1 - m.hops
  BY <1>1, <1>3 DEF Ttls
<1>12. Origins'
  <2>1. \A a, b \in Node : \A x \in chan'[a][b] : Drawn(x.guid)'
    BY <1>8, <1>9, <1>10 DEF Origins
  <2>2. \A a, b \in Node : \A i \in routes'[a][b] : Drawn(i)'
    <3> SUFFICES ASSUME NEW a \in Node, NEW b \in Node, NEW i \in routes'[a][b]
                 PROVE  Drawn(i)
      BY <1>10
    <3>1. i \in routes[a][b] \/ i = m.guid
      BY <1>4
    <3> QED BY <1>10, <3>1 DEF Origins
  <2>3. \A a \in Node, i \in Guid : heard'[a][i] > 0 => Drawn(i)'
    BY <1>5, <1>10 DEF Origins
  <2>4. \A a, o \in Node : m_local_route'[a] \cap m_local_route'[o] # {} => a = o
    BY <1>3 DEF Origins
  <2> QED BY <2>1, <2>2, <2>3, <2>4 DEF Origins
<1>13. LiveRoutes'
  BY <1>3, <1>4 DEF LiveRoutes
<1>14. UniqueRoute'
  BY <1>3, <1>4 DEF UniqueRoute, Via, Knows
<1>15. Heard'
  <2>1. OwnNotHeard'
    <3> SUFFICES ASSUME NEW a \in Node, NEW i \in m_local_route[a] PROVE heard'[a][i] = 0
      BY <1>3 DEF OwnNotHeard
    <3>1. i \in Guid /\ heard[a][i] = 0
      BY DEF Heard, OwnNotHeard, TypeOK
    <3>2. ~(a = n /\ i = m.guid)
      BY <1>3 DEF Knows
    <3> QED BY <1>5, <3>1, <3>2
  <2>2. \A a \in Node, i \in Guid : heard[a][i] > 0 => heard'[a][i] > 0
    BY <1>5, <1>6
  <2>3. \A a, b \in Node : \A x \in chan'[a][b] :
          x.kind = "reply" => heard'[x.from][x.guid] > 0
    <3> SUFFICES ASSUME NEW a \in Node, NEW b \in Node, NEW x \in chan'[a][b],
                        x.kind = "reply"
                 PROVE  heard'[x.from][x.guid] > 0
      OBVIOUS
    <3>1. x \in chan[a][b]
      BY <1>8, <1>9
    <3> QED BY <2>2, <3>1, ReceiveMember DEF Heard
  <2>4. \A r \in replied' : heard'[r[1]][r[2]] > 0
    BY <1>3, <2>2 DEF Heard, TypeOK
  <2> QED BY <2>1, <2>3, <2>4 DEF Heard
<1>16. Ttls'
  <2>1. m.ttl > 1 =>
          /\ Relayed(m).ttl \in 1..DefaultTtl
          /\ Relayed(m).hops \in Nat \ {0} /\ Relayed(m).hops # 1
          /\ Relayed(m).ttl = MaxTtl + 1 - Relayed(m).hops
    <3>1. CASE m.hops = 1
      BY <1>9, <1>11, <3>1, TtlAssumption DEF DefaultTtl
    <3>2. CASE m.hops # 1
      <4>1. m.hops >= 2 /\ m.ttl = MaxTtl + 1 - m.hops /\ m.ttl <= MaxTtl
        BY <1>11, <3>2, TtlAssumption DEF DefaultTtl
      <4>2. m.ttl > 1 => Relayed(m).ttl = m.ttl - 1 /\ Relayed(m).hops = m.hops + 1
        BY <1>9, <1>11, <4>1, TtlAssumption DEF DefaultTtl
      <4>3. m.hops \in Nat /\ m.ttl \in Nat /\ MaxTtl \in Nat /\ m.ttl <= DefaultTtl
        BY <1>11, <4>1, TtlAssumption DEF DefaultTtl
      <4>4. m.ttl > 1 => m.ttl - 1 \in 1 .. DefaultTtl /\ m.ttl - 1 = MaxTtl + 1 - (m.hops + 1)
        BY <4>1, <4>3 DEF DefaultTtl
      <4>5. m.hops + 1 \in Nat \ {0} /\ m.hops + 1 # 1
        BY <4>1, <4>3
      <4> QED BY <4>2, <4>4, <4>5
    <3> QED BY <3>1, <3>2
  <2> QED BY <1>8, <2>1 DEF Ttls
<1>17. ReachBounded'
  <2>1. m.hops <= MaxTtl
    BY <1>11, TtlAssumption DEF DefaultTtl
  <2>2. \A a \in Node, i \in Guid :
           depth'[a][i] = IF a = n /\ i = m.guid THEN m.hops ELSE depth[a][i]
    BY <1>2, <1>3 DEF TypeOK
  <2> QED BY <2>1, <2>2 DEF ReachBounded
<1>18. Answered'
  <2>1. \A a \in answers : a.from \in Node /\ a.guid \in Guid
    BY DEF TypeOK
  <2> QED BY <1>3, <1>5, <1>6, <2>1 DEF Answered
<1>19. Forgets'
  <2>1. \A q \in Node : m.guid \notin routes[n][q]
    BY <1>3 DEF Knows, Via, LiveRoutes
  <2>2. heard[n][m.guid] <= forgotten[n][m.guid]
    BY <1>2, <2>1 DEF Forgets
  <2>3. \A a \in Node, i \in Guid : heard[a][i] \in Nat /\ forgotten[a][i] \in Nat
    BY DEF TypeOK
  <2>4. \A a \in Node, i \in Guid : heard'[a][i] <= forgotten[a][i] + 1
    BY <1>2, <1>5, <2>2, <2>3 DEF Forgets
  <2>5. \A a \in Node, i \in Guid :
          (\A q \in Node : i \notin routes'[a][q]) => heard'[a][i] <= forgotten[a][i]
    BY <1>1, <1>4, <1>5 DEF Forgets
  <2> QED BY <1>3, <2>4, <2>5 DEF Forgets
<1> QED BY <1>12, <1>13, <1>14, <1>15, <1>16, <1>17, <1>18, <1>19
LEMMA ForwardReplyRoutes ==
  ASSUME RouteInv, NEW n \in Node, NEW p \in Node, NEW m \in chan[p][n],
         ForwardReply(n, p, m)
  PROVE  RouteFacts'
<1> USE DEF RouteInv, RouteFacts
<1>1. m \in Message /\ m.guid \in Guid
  BY ReceiveMember
<1>2. /\ m.kind = "reply"
      /\ UNCHANGED <<up, m_local_route, routes, heard, depth, answers, replied, forgotten>>
  BY DEF ForwardReply, history
<1>3. \/ SendsNone
      \/ Passed(m).ttl > 0 /\ \E r \in Via(n, m.guid) : Sends(n, {r}, Passed(m))
  BY <1>1, ForwardReplyStep
<1>4. \A a, b \in Node : \A x \in chan'[a][b] :
         x \in chan[a][b] \/ (Passed(m).ttl > 0 /\ x = Passed(m))
  BY <1>3 DEF SendsNone, Sends
<1>5. /\ Passed(m).kind = "reply" /\ Passed(m).guid = m.guid
      /\ Passed(m).from = m.from /\ Passed(m).hops = m.hops + 1
      /\ Passed(m).ttl = (m.ttl - 1) % 256
  BY <1>1, <1>2, PassedType
<1>6. /\ Drawn(m.guid) /\ heard[m.from][m.guid] > 0
      /\ m.ttl \in 1..DefaultTtl /\ m.hops \in Nat \ {0}
  BY <1>2 DEF Origins, Heard, Ttls
<1>7. \A i : Drawn(i)' <=> Drawn(i)
  BY <1>2 DEF Drawn
<1>8. Origins'
  <2>1. \A a, b \in Node : \A x \in chan'[a][b] : Drawn(x.guid)'
    BY <1>4, <1>5, <1>6, <1>7 DEF Origins
  <2> QED BY <1>2, <1>7, <2>1 DEF Origins
<1>9. LiveRoutes' /\ UniqueRoute'
  BY <1>2 DEF LiveRoutes, UniqueRoute, Via
<1>10. Heard'
  <2>1. OwnNotHeard' /\ \A r \in replied' : heard'[r[1]][r[2]] > 0
    BY <1>2 DEF Heard, OwnNotHeard
  <2>2. \A a, b \in Node : \A x \in chan'[a][b] :
          x.kind = "reply" => heard'[x.from][x.guid] > 0
    BY <1>2, <1>4, <1>5, <1>6 DEF Heard
  <2> QED BY <2>1, <2>2 DEF Heard
<1>11. Ttls'
  <2>1. Passed(m).ttl = m.ttl - 1
    BY <1>5, <1>6 DEF DefaultTtl
  <2>2. Passed(m).ttl > 0 =>
          Passed(m).ttl \in 1..DefaultTtl /\ Passed(m).hops \in Nat \ {0}
    BY <1>5, <1>6, <2>1 DEF DefaultTtl
  <2> QED BY <1>4, <1>5, <2>2 DEF Ttls
<1>12. ReachBounded' /\ Answered' /\ Forgets'
  BY <1>2, ForgetsStays DEF ReachBounded, Answered
<1> QED BY <1>8, <1>9, <1>10, <1>11, <1>12

\* A step that sends nothing and leaves queues, routes and what was heard alone.
LEMMA PassiveRoutes ==
  ASSUME RouteInv, SendsNone,
         UNCHANGED <<up, m_local_route, routes, heard, depth, replied, forgotten>>,
         Answered'
  PROVE  RouteFacts'
<1> USE DEF RouteInv, RouteFacts
<1>1. \A i : Drawn(i)' <=> Drawn(i)
  BY DEF Drawn
<1>2. Origins'
  BY <1>1 DEF Origins, SendsNone
<1>3. LiveRoutes' /\ UniqueRoute'
  BY DEF LiveRoutes, UniqueRoute, Via
<1>4. Heard' /\ Ttls' /\ ReachBounded'
  BY DEF Heard, OwnNotHeard, Ttls, ReachBounded, SendsNone
<1>5. Forgets'
  BY ForgetsStays
<1> QED BY <1>2, <1>3, <1>4, <1>5

LEMMA DeleteQueueRoutes ==
  ASSUME RouteInv, NEW n \in Node, NEW p \in Node, DeleteQueue(n, p)
  PROVE  RouteFacts'
<1> USE DEF RouteInv, RouteFacts
<1>1. SendsNone
  BY QuietStep
<1>2. /\ up' = [up EXCEPT ![n] = @ \ {p}]
      /\ routes' = [routes EXCEPT ![n][p] = {}]
      /\ UNCHANGED <<m_local_route, heard, depth, answers, replied>>
  BY DEF DeleteQueue, history
<1>3. \A a, b \in Node : routes'[a][b] = IF a = n /\ b = p THEN {} ELSE routes[a][b]
  BY <1>2 DEF TypeOK
<1>4. \A a \in Node : up'[a] = IF a = n THEN up[a] \ {p} ELSE up[a]
  BY <1>2 DEF TypeOK
<1>5. \A i : Drawn(i)' <=> Drawn(i)
  BY <1>2 DEF Drawn
<1>6. Origins'
  BY <1>1, <1>2, <1>3, <1>5 DEF Origins, SendsNone
<1>7. LiveRoutes'
  BY <1>3, <1>4 DEF LiveRoutes
<1>8. UniqueRoute'
  <2>1. \A a \in Node, i \in Guid : Via(a, i)' \subseteq Via(a, i)
    BY <1>3, <1>4 DEF Via, TypeOK
  <2> QED BY <1>2, <2>1 DEF UniqueRoute
<1>9. Heard' /\ Ttls' /\ ReachBounded' /\ Answered'
  BY <1>1, <1>2 DEF Heard, OwnNotHeard, Ttls, ReachBounded, Answered, SendsNone
<1>10. Forgets'
  <2>1. \A a \in Node, i \in Guid :
          forgotten'[a][i] = IF a = n /\ i \in routes[n][p] THEN forgotten[a][i] + 1
                                                          ELSE forgotten[a][i]
    BY ForgetStep DEF DeleteQueue
  <2>2. \A a \in Node, i \in Guid : heard[a][i] \in Nat /\ forgotten[a][i] \in Nat
    BY DEF TypeOK
  <2>3. \A a \in Node, i \in Guid : heard[a][i] <= forgotten'[a][i] + 1
    BY <2>1, <2>2 DEF Forgets
  <2>4. ASSUME NEW a \in Node, NEW i \in Guid, \A q \in Node : i \notin routes'[a][q]
        PROVE  heard[a][i] <= forgotten'[a][i]
    <3>1. CASE a = n /\ i \in routes[n][p]
      BY <2>1, <2>2, <3>1 DEF Forgets
    <3>2. CASE ~(a = n /\ i \in routes[n][p])
      <4>1. \A q \in Node : i \notin routes[a][q]
        BY <1>3, <2>4, <3>2
      <4> QED BY <2>1, <3>2, <4>1 DEF Forgets
    <3> QED BY <3>1, <3>2
  <2> QED BY <1>2, <2>3, <2>4 DEF Forgets
<1> QED BY <1>6, <1>7, <1>8, <1>9, <1>10

LEMMA AddQueueRoutes ==
  ASSUME RouteInv, NEW n \in Node, NEW p \in Node, AddQueue(n, p)
  PROVE  RouteFacts'
<1> USE DEF RouteInv, RouteFacts
<1>1. SendsNone
  BY QuietStep
<1>2. /\ p \notin up[n] /\ n \notin up[p]
      /\ up' = [up EXCEPT ![n] = @ \cup {p}, ![p] = @ \cup {n}]
      /\ UNCHANGED <<m_local_route, routes, heard, depth, answers, replied, forgotten>>
  BY DEF AddQueue, history
<1>3. \A a \in Node : up[a] \subseteq up'[a]
  BY <1>2 DEF TypeOK
<1>4. \A a \in Node : up'[a] \subseteq Node
  BY <1>2 DEF TypeOK
<1>5. \A i : Drawn(i)' <=> Drawn(i)
  BY <1>2 DEF Drawn
<1>6. Origins'
  BY <1>1, <1>2, <1>5 DEF Origins, SendsNone
<1>7. LiveRoutes'
  BY <1>2, <1>3 DEF LiveRoutes
<1>8. UniqueRoute'
  <2>1. \A a \in Node, i \in Guid : Via(a, i)' = Via(a, i)
    BY <1>2, <1>3, <1>4 DEF Via, LiveRoutes
  <2> QED BY <1>2, <2>1 DEF UniqueRoute
<1>9. Heard' /\ Ttls' /\ ReachBounded' /\ Answered' /\ Forgets'
  BY <1>1, <1>2, ForgetsStays DEF Heard, OwnNotHeard, Ttls, ReachBounded, Answered, SendsNone
<1> QED BY <1>6, <1>7, <1>8, <1>9

LEMMA GotReplyRoutes ==
  ASSUME RouteInv, NEW n \in Node, NEW p \in Node, NEW m \in chan[p][n], GotReply(n, p, m)
  PROVE  RouteFacts'
<1> USE DEF RouteInv, RouteFacts
<1>1. SendsNone
  BY QuietStep
<1>2. /\ UNCHANGED <<up, m_local_route, routes, heard, depth, replied, forgotten>>
      /\ m.kind = "reply" /\ m.guid \in m_local_route[n]
      /\ answers' = answers \cup {[at |-> n, guid |-> m.guid, from |-> m.from]}
  BY DEF GotReply
<1>3. heard[m.from][m.guid] > 0
  BY <1>2 DEF Heard
<1>4. Answered'
  BY <1>2, <1>3 DEF Answered
<1> QED BY <1>1, <1>2, <1>4, PassiveRoutes

LEMMA NextRoutes == RouteInv /\ [Next]_vars => RouteInv'
<1> SUFFICES ASSUME RouteInv, [Next]_vars PROVE RouteFacts'
  BY NextType DEF RouteInv
<1>1. TypeOK
  BY DEF RouteInv
<1>2. ASSUME NEW n \in Node, NEW p \in Node, NEW m \in chan[p][n], Receive(n, p, m)
      PROVE  RouteFacts'
  <2>1. CASE GotBroadcast(n, p, m)
    BY <1>2, <2>1, GotBroadcastRoutes DEF Receive
  <2>2. CASE GotReply(n, p, m)
    BY <2>2, GotReplyRoutes
  <2>3. CASE ForwardReply(n, p, m)
    BY <2>3, ForwardReplyRoutes
  <2>4. CASE DropDuplicate(n, p, m) \/ StrayReply(n, p, m)
    <3>1. SendsNone
      BY <1>1, <2>4, QuietStep
    <3>2. UNCHANGED <<up, m_local_route, routes, heard, depth, replied, answers, forgotten>>
      BY <2>4 DEF DropDuplicate, StrayReply, history
    <3>3. Answered'
      BY <3>2 DEF Answered, RouteInv, RouteFacts
    <3> QED BY <3>1, <3>2, <3>3, PassiveRoutes
  <2> QED BY <1>2, <2>1, <2>2, <2>3, <2>4 DEF Receive
<1>3. ASSUME NEW n \in Node, NEW p \in Node, NEW m, Lose(n, p, m)
      PROVE  RouteFacts'
  <2>1. SendsNone
    BY <1>1, <1>3, QuietStep
  <2>2. UNCHANGED <<up, m_local_route, routes, heard, depth, replied, answers, forgotten>>
    BY <1>3 DEF Lose, history
  <2>3. Answered'
    BY <2>2 DEF Answered, RouteInv, RouteFacts
  <2> QED BY <2>1, <2>2, <2>3, PassiveRoutes
<1>4. CASE UNCHANGED vars
  <2>1. SendsNone
    BY <1>1, <1>4 DEF vars, SendsNone
  <2>2. Answered'
    BY <1>4 DEF vars, Answered, RouteInv, RouteFacts
  <2> QED BY <1>4, <2>1, <2>2, PassiveRoutes DEF vars
<1> QED
  BY <1>2, <1>3, <1>4, BroadcastRoutes, ReplyRoutes, DeleteQueueRoutes, AddQueueRoutes
  DEF Next

LEMMA RouteInvariant == Spec => []RouteInv
<1>1. Init => RouteInv
  BY InitType, InitRoutes DEF RouteInv
<1> QED BY <1>1, NextRoutes, PTL DEF Spec

\* Whatever queues are deleted and made again and whatever is lost, a node has one
\* route for an id and none for its own: find_route of mqueuelist.cpp never has to
\* choose between two queues.
THEOREM RouteIsUnique == Spec => []UniqueRoute
<1>1. RouteInv => UniqueRoute
  BY DEF RouteInv, RouteFacts
<1> QED BY <1>1, RouteInvariant, PTL

\* In every network, cycles included, no node is handed its own broadcast.
THEOREM OwnNeverHeard == Spec => []OwnNotHeard
<1>1. RouteInv => OwnNotHeard
  BY DEF RouteInv, RouteFacts, Heard
<1> QED BY <1>1, RouteInvariant, PTL

\* No conforming node puts a message on a link that its peer would take for a
\* malformed one: the ttl neither reaches 0 nor wraps.
THEOREM TtlStaysInRange == Spec => []TtlInRange
<1>1. RouteInv => TtlInRange
  <2> SUFFICES ASSUME RouteInv, NEW m \in InFlight PROVE m.ttl \in 1..DefaultTtl
    BY DEF TtlInRange
  <2>1. PICK n \in Node, p \in Node : m \in chan[n][p]
    BY DEF InFlight
  <2> QED BY <2>1 DEF RouteInv, RouteFacts, Ttls
<1> QED BY <1>1, RouteInvariant, PTL

\* A broadcast is handled at most m_max_ttl links from its origin.
THEOREM ReachIsBounded == Spec => []ReachBounded
<1>1. RouteInv => ReachBounded
  BY DEF RouteInv, RouteFacts
<1> QED BY <1>1, RouteInvariant, PTL

\* A node handles a broadcast once more only for each time its route went with its
\* queue: breaks elsewhere, queues that come back and duplicates do not repeat it.
THEOREM HeardAgainOnlyIfForgotten == Spec => []HeardAgainIfForgotten
<1>1. RouteInv => HeardAgainIfForgotten
  <2> SUFFICES ASSUME RouteInv PROVE HeardAgainIfForgotten
    OBVIOUS
  <2>1. \A n \in Node, g \in Guid : heard[n][g] \in Nat /\ forgotten[n][g] \in Nat
    BY DEF RouteInv, TypeOK
  <2> QED BY <2>1 DEF RouteInv, RouteFacts, Heard, Forgets, HeardAgainIfForgotten
<1> QED BY <1>1, RouteInvariant, PTL

-----------------------------------------------------------------------------
(* The network while no connection is lost.                                *)

LEMMA InitUnbroken == Init => UnbrokenFacts
<1> SUFFICES ASSUME Init PROVE UnbrokenFacts
  OBVIOUS
<1>1. LinksStand /\ NoRouteErrors
  BY DEF Init, LinksStand, NoRouteErrors
<1>2. HeardKnown
  BY DEF Init, HeardKnown
<1>3. HomeRoutes /\ BroadcastsKnown /\ RepliesOnRoute
  BY DEF Init, HomeRoutes, BroadcastsKnown, RepliesOnRoute
<1> QED BY <1>1, <1>2, <1>3 DEF UnbrokenFacts

\* Knowledge is not lost in a step that keeps the queues and their routes.
LEMMA KnowsStays ==
  ASSUME UNCHANGED up,
         \A n \in Node : m_local_route[n] \subseteq m_local_route'[n],
         \A n, p \in Node : routes[n][p] \subseteq routes'[n][p],
         TypeOK
  PROVE  \A n \in Node : \A g : Knows(n, g) => Knows(n, g)'
<1> SUFFICES ASSUME NEW n \in Node, NEW g, Knows(n, g) PROVE Knows(n, g)'
  OBVIOUS
<1>1. up[n] \subseteq Node
  BY DEF TypeOK
<1> QED BY <1>1 DEF Knows, Via

LEMMA BroadcastUnbroken ==
  ASSUME RouteInv, UnbrokenFacts, NEW n \in Node, NEW g \in Guid, Broadcast(n, g)
  PROVE  UnbrokenFacts'
<1> DEFINE m == [kind |-> "bcast", guid |-> g, from |-> n, ttl |-> DefaultTtl, hops |-> 1]
<1> USE DEF RouteInv, RouteFacts, UnbrokenFacts
<1>1. Sends(n, up[n], m)
  BY BroadcastStep
<1>2. /\ m_local_route' = [m_local_route EXCEPT ![n] = @ \cup {g}]
      /\ \A o \in Node : g \notin m_local_route[o]
      /\ UNCHANGED <<up, routes, heard, depth, m_stat_route_errors>>
  BY DEF Broadcast, history
<1>3. m.kind = "bcast" /\ m.guid = g /\ m.hops = 1
  OBVIOUS
<1> HIDE DEF m
<1>4. \A a \in Node : m_local_route[a] \subseteq m_local_route'[a]
  BY <1>2 DEF TypeOK
<1>5. g \in m_local_route'[n]
  BY <1>2 DEF TypeOK
<1>6. \A a \in Node : \A i : Knows(a, i) => Knows(a, i)'
  BY <1>2, <1>4, KnowsStays
<1>7. depth[n][g] = 0 /\ Knows(n, g)'
  <2>1. ~(heard[n][g] > 0)
    BY <1>2 DEF Origins, Drawn
  <2>2. heard[n][g] = 0
    BY <2>1 DEF TypeOK
  <2> QED BY <1>5, <2>2 DEF HeardKnown, Knows
<1>8. LinksStand' /\ NoRouteErrors'
  BY <1>2 DEF LinksStand, NoRouteErrors
<1>9. HeardKnown' /\ HomeRoutes'
  <2>1. HeardKnown'
    BY <1>2, <1>6 DEF HeardKnown
  <2>2. HomeRoutes'
    BY <1>2, <1>6 DEF HomeRoutes
  <2> QED BY <2>1, <2>2
<1>10. BroadcastsKnown'
  <2> SUFFICES ASSUME NEW a \in Node, NEW b \in Node, NEW x \in chan'[a][b],
                      x.kind = "bcast"
               PROVE  Knows(a, x.guid)' /\ x.hops = depth'[a][x.guid] + 1
    BY DEF BroadcastsKnown
  <2>1. CASE x \in chan[a][b]
    BY <1>2, <1>6, <2>1 DEF BroadcastsKnown
  <2>2. CASE a = n /\ x = m
    BY <1>2, <1>3, <1>7, <2>2
  <2> QED BY <1>1, <2>1, <2>2 DEF Sends
<1>11. RepliesOnRoute'
  BY <1>1, <1>2, <1>3 DEF RepliesOnRoute, Sends
<1> QED BY <1>8, <1>9, <1>10, <1>11

\* A node that heard a broadcast has a queue to reply on.
LEMMA ReplyUnbroken ==
  ASSUME RouteInv, UnbrokenFacts, NEW n \in Node, NEW g \in Guid, Reply(n, g)
  PROVE  UnbrokenFacts'
<1> DEFINE m == [kind |-> "reply", guid |-> g, from |-> n, ttl |-> DefaultTtl, hops |-> 1]
<1> USE DEF RouteInv, RouteFacts, UnbrokenFacts
<1>1. Via(n, g) # {}
  <2>1. heard[n][g] > 0
    BY DEF Reply
  <2>2. Knows(n, g)
    BY <2>1 DEF HeardKnown
  <2>3. g \notin m_local_route[n]
    BY <2>1 DEF Heard, OwnNotHeard
  <2> QED BY <2>2, <2>3 DEF Knows
<1>2. SendsNone \/ \E r \in Via(n, g) : Sends(n, {r}, m)
  BY ReplyStep
<1>3. UNCHANGED <<up, m_local_route, routes, heard, depth, m_stat_route_errors>>
  BY <1>1 DEF Reply
<1>4. m.kind = "reply" /\ m.guid = g
  OBVIOUS
<1> HIDE DEF m
<1>5. \A a, b \in Node : \A x \in chan'[a][b] :
         x \in chan[a][b] \/ (a = n /\ b \in Via(n, g) /\ x = m)
  BY <1>2 DEF SendsNone, Sends
<1>6. \A a \in Node : \A i : Knows(a, i)' <=> Knows(a, i)
  BY <1>3 DEF Knows, Via
<1>7. LinksStand' /\ NoRouteErrors'
  BY <1>3 DEF LinksStand, NoRouteErrors
<1>8. HeardKnown' /\ HomeRoutes'
  <2>1. HeardKnown'
    BY <1>3, <1>6 DEF HeardKnown
  <2>2. HomeRoutes'
    BY <1>3, <1>6 DEF HomeRoutes
  <2> QED BY <2>1, <2>2
<1>9. BroadcastsKnown'
  BY <1>3, <1>4, <1>5, <1>6 DEF BroadcastsKnown
<1>10. RepliesOnRoute'
  <2>1. \A b \in Via(n, g) : g \in routes[n][b]
    BY DEF Via
  <2> QED BY <1>3, <1>4, <1>5, <2>1 DEF RepliesOnRoute
<1> QED BY <1>7, <1>8, <1>9, <1>10

LEMMA GotBroadcastUnbroken ==
  ASSUME RouteInv, UnbrokenFacts, NEW n \in Node, NEW p \in up[n], NEW m \in chan[p][n],
         GotBroadcast(n, p, m)
  PROVE  UnbrokenFacts'
<1> USE DEF RouteInv, RouteFacts, UnbrokenFacts
<1>1. p \in Node /\ m \in Message /\ m.guid \in Guid /\ m.hops \in Nat
  <2>1. p \in Node
    BY DEF TypeOK
  <2> QED BY <2>1, ReceiveMember
<1>2. /\ m.kind = "bcast" /\ ~Knows(n, m.guid)
      /\ routes' = [routes EXCEPT ![n][p] = @ \cup {m.guid}]
      /\ heard' = [heard EXCEPT ![n][m.guid] = @ + 1]
      /\ depth' = [depth EXCEPT ![n][m.guid] = m.hops]
      /\ UNCHANGED <<up, m_local_route, m_stat_route_errors>>
  BY DEF GotBroadcast
<1>3. \A a, b \in Node : routes'[a][b] =
         IF a = n /\ b = p THEN routes[a][b] \cup {m.guid} ELSE routes[a][b]
  BY <1>1, <1>2 DEF TypeOK
<1>4. \A a \in Node, i \in Guid :
         /\ heard'[a][i] = IF a = n /\ i = m.guid THEN heard[a][i] + 1 ELSE heard[a][i]
         /\ depth'[a][i] = IF a = n /\ i = m.guid THEN m.hops ELSE depth[a][i]
  BY <1>1, <1>2 DEF TypeOK
<1>5. /\ Knows(p, m.guid) /\ m.hops = depth[p][m.guid] + 1 /\ p # n
  BY <1>1, <1>2 DEF BroadcastsKnown
<1>6. \A a \in Node : \A i : Knows(a, i) => Knows(a, i)'
  <2>1. \A a, b \in Node : routes[a][b] \subseteq routes'[a][b]
    BY <1>3
  <2> QED BY <1>2, <2>1, KnowsStays
<1>7. Knows(n, m.guid)'
  <2>1. m.guid \in routes'[n][p]
    BY <1>1, <1>3
  <2>2. p \in up'[n]
    BY <1>2
  <2> QED BY <2>1, <2>2 DEF Knows, Via
<1>8. heard[n][m.guid] = 0
  BY <1>1, <1>2 DEF HeardKnown, TypeOK
<1>9. m.hops > 0
  BY <1>1 DEF Ttls
<1>10. LinksStand' /\ NoRouteErrors'
  BY <1>2 DEF LinksStand, NoRouteErrors
<1>11. HeardKnown'
  <2> SUFFICES ASSUME NEW a \in Node, NEW i \in Guid
               PROVE  /\ heard'[a][i] <= 1
                      /\ heard'[a][i] > 0 => Knows(a, i)'
                      /\ heard'[a][i] = 0 => depth'[a][i] = 0
    BY DEF HeardKnown
  <2>1. CASE a = n /\ i = m.guid
    BY <1>4, <1>7, <1>8, <2>1
  <2>2. CASE ~(a = n /\ i = m.guid)
    BY <1>4, <1>6, <2>2 DEF HeardKnown
  <2> QED BY <2>1, <2>2
<1>12. HomeRoutes'
  <2> SUFFICES ASSUME NEW a \in Node, NEW b \in Node, NEW i \in routes'[a][b]
               PROVE  /\ depth'[a][i] = depth'[b][i] + 1
                      /\ Knows(b, i)' /\ heard'[a][i] > 0
    BY DEF HomeRoutes
  <2>0. i \in Guid
    <3>1. i \in routes[a][b] \/ i = m.guid
      BY <1>3
    <3> QED BY <1>1, <3>1 DEF TypeOK
  <2>1. CASE i \in routes[a][b]
    <3>1. Knows(b, i) /\ depth[a][i] = depth[b][i] + 1 /\ heard[a][i] > 0
      BY <2>1 DEF HomeRoutes
    <3>2. b \in up[a]
      BY <2>1 DEF LiveRoutes
    <3>3. Knows(a, i)
      BY <2>1, <3>2 DEF Knows, Via
    <3>4. ~(a = n /\ i = m.guid) /\ ~(b = n /\ i = m.guid)
      BY <1>2, <3>1, <3>3
    <3> QED BY <1>4, <1>6, <2>0, <3>1, <3>4
  <2>2. CASE a = n /\ b = p /\ i = m.guid
    <3>1. depth'[n][i] = m.hops /\ depth'[p][i] = depth[p][i]
      BY <1>1, <1>4, <1>5, <2>2
    <3>2. heard'[n][i] = 1
      BY <1>4, <1>8, <2>0, <2>2
    <3> QED BY <1>5, <1>6, <1>1, <2>2, <3>1, <3>2
  <2> QED BY <1>3, <2>1, <2>2
<1>13. \A a, b \in Node : \A x \in chan'[a][b] :
          x \in chan[a][b] \/ (a = n /\ x = Relayed(m) /\ m.ttl > 1)
  <2>1. SendsNone \/ (m.ttl > 1 /\ Sends(n, up[n] \ {p}, Relayed(m)))
    BY <1>1, GotBroadcastStep
  <2> QED BY <2>1 DEF SendsNone, Sends
<1>14. m.ttl > 1 => /\ Relayed(m).kind = "bcast" /\ Relayed(m).guid = m.guid
                    /\ Relayed(m).hops = m.hops + 1
  BY <1>1, <1>2, RelayedType
<1>15. BroadcastsKnown'
  <2> SUFFICES ASSUME NEW a \in Node, NEW b \in Node, NEW x \in chan'[a][b],
                      x.kind = "bcast"
               PROVE  Knows(a, x.guid)' /\ x.hops = depth'[a][x.guid] + 1
    BY DEF BroadcastsKnown
  <2>1. CASE x \in chan[a][b]
    <3>1. Knows(a, x.guid) /\ x.hops = depth[a][x.guid] + 1 /\ x.guid \in Guid
      BY <2>1, ReceiveMember DEF BroadcastsKnown
    <3>2. ~(a = n /\ x.guid = m.guid)
      BY <1>2, <3>1
    <3> QED BY <1>4, <1>6, <3>1, <3>2
  <2>2. CASE a = n /\ x = Relayed(m) /\ m.ttl > 1
    BY <1>1, <1>4, <1>7, <1>14, <2>2
  <2> QED BY <1>13, <2>1, <2>2
<1>16. RepliesOnRoute'
  <2> SUFFICES ASSUME NEW a \in Node, NEW b \in Node, NEW x \in chan'[a][b],
                      x.kind = "reply"
               PROVE  x.guid \in routes'[a][b]
    BY DEF RepliesOnRoute
  <2>1. x \in chan[a][b]
    BY <1>13, <1>14
  <2>2. x.guid \in routes[a][b]
    BY <2>1 DEF RepliesOnRoute
  <2> QED BY <1>3, <2>2
<1> QED BY <1>10, <1>11, <1>12, <1>15, <1>16

\* A step that leaves queues, routes and what was heard alone, and puts replies only
\* on a route of the node that sends them.
LEMMA PassiveUnbroken ==
  ASSUME UnbrokenFacts,
         UNCHANGED <<up, m_local_route, routes, heard, depth, m_stat_route_errors>>,
         \A a, b \in Node : \A x \in chan'[a][b] :
           x \in chan[a][b] \/ (x.kind = "reply" /\ x.guid \in routes[a][b])
  PROVE  UnbrokenFacts'
<1> USE DEF UnbrokenFacts
<1>1. \A a \in Node : \A i : Knows(a, i)' <=> Knows(a, i)
  BY DEF Knows, Via
<1>2. LinksStand' /\ NoRouteErrors'
  BY DEF LinksStand, NoRouteErrors
<1>3. HeardKnown'
  BY <1>1 DEF HeardKnown
<1>4. HomeRoutes'
  BY <1>1 DEF HomeRoutes
<1>5. BroadcastsKnown'
  BY <1>1 DEF BroadcastsKnown
<1>6. RepliesOnRoute'
  BY DEF RepliesOnRoute
<1> QED BY <1>2, <1>3, <1>4, <1>5, <1>6

LEMMA ForwardReplyUnbroken ==
  ASSUME RouteInv, UnbrokenFacts, NEW n \in Node, NEW p \in Node, NEW m \in chan[p][n],
         ForwardReply(n, p, m)
  PROVE  UnbrokenFacts'
<1>1. m \in Message /\ m.kind = "reply"
  BY ReceiveMember DEF RouteInv, ForwardReply
<1>2. SendsNone \/ \E r \in Via(n, m.guid) : Sends(n, {r}, Passed(m))
  BY <1>1, ForwardReplyStep DEF RouteInv
<1>3. Passed(m).kind = "reply" /\ Passed(m).guid = m.guid
  BY <1>1, PassedType
<1>4. \A a, b \in Node : \A x \in chan'[a][b] :
         x \in chan[a][b] \/ (x.kind = "reply" /\ x.guid \in routes[a][b])
  BY <1>2, <1>3 DEF SendsNone, Sends, Via
<1>5. UNCHANGED <<up, m_local_route, routes, heard, depth, m_stat_route_errors>>
  BY DEF ForwardReply, history
<1> QED BY <1>4, <1>5, PassiveUnbroken

\* No reply strays: it came along a route of p, so its next node knows the id by a
\* route that does not lead back to p.
LEMMA NoStray ==
  ASSUME RouteInv, UnbrokenFacts, NEW n \in Node, NEW p \in Node, NEW m \in chan[p][n],
         StrayReply(n, p, m)
  PROVE  FALSE
<1> USE DEF RouteInv, UnbrokenFacts
<1>1. m.kind = "reply" /\ m.guid \notin m_local_route[n] /\ Via(n, m.guid) \subseteq {p}
  BY DEF StrayReply
<1>2. m.guid \in Guid
  BY ReceiveMember
<1>3. m.guid \in routes[p][n]
  BY <1>1 DEF RepliesOnRoute
<1>4. Knows(n, m.guid) /\ depth[p][m.guid] = depth[n][m.guid] + 1
  BY <1>3 DEF HomeRoutes
<1>5. m.guid \in routes[n][p]
  BY <1>1, <1>4 DEF Knows, Via
<1>6. depth[n][m.guid] = depth[p][m.guid] + 1
  BY <1>5 DEF HomeRoutes
<1>7. depth[n][m.guid] \in Nat /\ depth[p][m.guid] \in Nat
  BY <1>2 DEF TypeOK
<1> QED BY <1>4, <1>6, <1>7

\* With every link up there is none to add.
LEMMA NoNewQueue ==
  ASSUME UnbrokenFacts, NEW n \in Node, NEW p \in Node, AddQueue(n, p)
  PROVE  FALSE
<1>1. <<n, p>> \in Link /\ p \notin up[n]
  BY DEF AddQueue
<1>2. up[n] = Peers(n)
  BY DEF UnbrokenFacts, LinksStand
<1> QED BY <1>1, <1>2 DEF Peers

LEMMA BreaksCounted ==
  ASSUME [Next]_vars
  PROVE  \/ breaks' = breaks
         \/ breaks' = breaks + 1 /\ breaks < MaxBreaks /\ \E n, p \in Node : DeleteQueue(n, p)
<1>1. (\E n, p \in Node : DeleteQueue(n, p)) => breaks' = breaks + 1 /\ breaks < MaxBreaks
  BY DEF DeleteQueue
<1>2. ASSUME NEW n \in Node, NEW p \in Node, NEW m, Receive(n, p, m)
      PROVE  breaks' = breaks
  BY <1>2 DEF Receive, DropDuplicate, GotBroadcast, GotReply, ForwardReply, StrayReply
<1>3. ASSUME NEW n \in Node, NEW p \in Node, NEW m, Lose(n, p, m) \/ AddQueue(n, p)
      PROVE  breaks' = breaks
  BY <1>3 DEF Lose, AddQueue
<1>4. ASSUME NEW n \in Node, NEW g \in Guid, Broadcast(n, g) \/ Reply(n, g)
      PROVE  breaks' = breaks
  BY <1>4 DEF Broadcast, Reply
<1>5. UNCHANGED vars => breaks' = breaks
  BY DEF vars
<1> QED BY <1>1, <1>2, <1>3, <1>4, <1>5 DEF Next

LEMMA NextUnbroken == RouteInv /\ Unbroken /\ [Next]_vars => Unbroken'
<1> SUFFICES ASSUME RouteInv, Unbroken, [Next]_vars, breaks' = 0 PROVE UnbrokenFacts'
  BY DEF Unbroken
<1>1. TypeOK /\ breaks \in Nat
  BY DEF RouteInv, TypeOK
<1>2. breaks = 0 /\ ~\E n, p \in Node : DeleteQueue(n, p)
  <2>1. (\E n, p \in Node : DeleteQueue(n, p)) => breaks' = breaks + 1
    BY DEF DeleteQueue
  <2> QED BY <1>1, <2>1, BreaksCounted
<1>3. UnbrokenFacts
  BY <1>2 DEF Unbroken
<1>4. ASSUME NEW n \in Node, NEW p \in Node, NEW m \in chan[p][n], Receive(n, p, m)
      PROVE  UnbrokenFacts'
  <2>1. CASE GotBroadcast(n, p, m)
    BY <1>3, <1>4, <2>1, GotBroadcastUnbroken DEF Receive
  <2>2. CASE ForwardReply(n, p, m)
    BY <1>3, <2>2, ForwardReplyUnbroken
  <2>3. CASE StrayReply(n, p, m)
    BY <1>3, <2>3, NoStray
  <2>4. CASE GotReply(n, p, m) \/ DropDuplicate(n, p, m)
    <3>1. SendsNone
      BY <1>1, <2>4, QuietStep
    <3>2. UNCHANGED <<up, m_local_route, routes, heard, depth, m_stat_route_errors>>
      BY <2>4 DEF GotReply, DropDuplicate, history
    <3> QED BY <1>3, <3>1, <3>2, PassiveUnbroken DEF SendsNone
  <2> QED BY <1>4, <2>1, <2>2, <2>3, <2>4 DEF Receive
<1>5. ASSUME NEW n \in Node, NEW p \in Node, NEW m, Lose(n, p, m) PROVE UnbrokenFacts'
  <2>1. SendsNone
    BY <1>1, <1>5, QuietStep
  <2>2. UNCHANGED <<up, m_local_route, routes, heard, depth, m_stat_route_errors>>
    BY <1>5 DEF Lose, history
  <2> QED BY <1>3, <2>1, <2>2, PassiveUnbroken DEF SendsNone
<1>6. CASE UNCHANGED vars
  BY <1>3, <1>6, PassiveUnbroken DEF vars
<1> QED
  BY <1>2, <1>3, <1>4, <1>5, <1>6, BroadcastUnbroken, ReplyUnbroken, NoNewQueue DEF Next

LEMMA UnbrokenInvariant == Spec => [](RouteInv /\ Unbroken)
<1>1. Init => RouteInv /\ Unbroken
  BY InitType, InitRoutes, InitUnbroken DEF RouteInv, Unbroken
<1>2. RouteInv /\ Unbroken /\ [Next]_vars => (RouteInv /\ Unbroken)'
  BY NextRoutes, NextUnbroken
<1> QED BY <1>1, <1>2, PTL DEF Spec

\* While no connection is lost, m_got_message gets a broadcast once, over however
\* many paths it comes.
THEOREM HeardAtMostOnce == Spec => []HeardOnceUnbroken
<1>1. RouteInv /\ Unbroken => HeardOnceUnbroken
  BY DEF Unbroken, UnbrokenFacts, HeardKnown, HeardOnceUnbroken, HeardOnce
<1> QED BY <1>1, UnbrokenInvariant, PTL

\* While no connection is lost, the routes for an id form a tree rooted at its
\* origin: following find_route leads one link nearer at every node.
THEOREM RoutesFormTree == Spec => []RoutesLeadHome
<1>1. RouteInv /\ Unbroken => RoutesLeadHome
  BY DEF Unbroken, UnbrokenFacts, HomeRoutes, RoutesLeadHome
<1> QED BY <1>1, UnbrokenInvariant, PTL

\* While no connection is lost, no reply is without a route, at its sender or on its
\* way.
THEOREM RepliesNeverStray == Spec => []NoStrayReplies
<1>1. RouteInv /\ Unbroken => NoStrayReplies
  BY DEF Unbroken, UnbrokenFacts, NoRouteErrors, NoStrayReplies
<1> QED BY <1>1, UnbrokenInvariant, PTL

-----------------------------------------------------------------------------
(* Refinement: without broken connections the mesh is a flood.             *)

Reached == [n \in Node |-> {g \in Guid : heard[n][g] > 0}]

LEMMA BroadcastIsOriginate ==
  ASSUME RouteInv, NEW n \in Node, NEW g \in Guid, Broadcast(n, g)
  PROVE  Flooding!Originate(n, g)
<1> USE DEF RouteInv, RouteFacts
<1>1. /\ \A o \in Node : g \notin m_local_route[o]
      /\ m_local_route' = [m_local_route EXCEPT ![n] = @ \cup {g}]
      /\ heard' = heard /\ answers' = answers
  BY DEF Broadcast, history
<1>2. \A o \in Node : ~(heard[o][g] > 0)
  BY <1>1 DEF Origins, Drawn
<1> QED BY <1>1, <1>2 DEF Flooding!Originate

LEMMA GotBroadcastIsReach ==
  ASSUME RouteInv, UnbrokenFacts, NEW n \in Node, NEW p \in up[n], NEW m \in chan[p][n],
         GotBroadcast(n, p, m)
  PROVE  p \in Node /\ Flooding!Reach(n, p, m.guid)
<1> USE DEF RouteInv, RouteFacts, UnbrokenFacts
<1>1. p \in Node /\ m.guid \in Guid
  <2>1. p \in Node
    BY DEF TypeOK
  <2> QED BY <2>1, ReceiveMember
<1>2. /\ m.kind = "bcast" /\ ~Knows(n, m.guid)
      /\ heard' = [heard EXCEPT ![n][m.guid] = @ + 1]
      /\ UNCHANGED <<m_local_route, answers>>
  BY DEF GotBroadcast
<1>3. <<n, p>> \in Link
  BY DEF LinksStand, Peers
<1>4. m.guid \in m_local_route[p] \/ heard[p][m.guid] > 0
  <2>1. Knows(p, m.guid) /\ up[p] \subseteq Node
    BY <1>1, <1>2 DEF BroadcastsKnown, TypeOK
  <2> QED BY <1>1, <2>1 DEF Knows, Via, HomeRoutes
<1>5. m.guid \notin m_local_route[n] /\ heard[n][m.guid] = 0
  <2>1. heard[n][m.guid] \in Nat
    BY <1>1 DEF TypeOK
  <2>2. ~(heard[n][m.guid] > 0)
    BY <1>1, <1>2 DEF HeardKnown
  <2> QED BY <1>2, <2>1, <2>2 DEF Knows
<1>6. \A a \in Node, i \in Guid :
         heard'[a][i] = IF a = n /\ i = m.guid THEN heard[a][i] + 1 ELSE heard[a][i]
  BY <1>1, <1>2 DEF TypeOK
<1>7. Reached' = [Reached EXCEPT ![n] = @ \cup {m.guid}]
  <2>1. \A a \in Node : {g \in Guid : heard'[a][g] > 0} =
           IF a = n THEN {g \in Guid : heard[a][g] > 0} \cup {m.guid}
                    ELSE {g \in Guid : heard[a][g] > 0}
    BY <1>1, <1>5, <1>6
  <2> QED BY <2>1 DEF Reached
<1> QED BY <1>1, <1>2, <1>3, <1>4, <1>5, <1>7 DEF Flooding!Reach, Reached

LEMMA GotReplyIsAnswer ==
  ASSUME RouteInv, NEW n \in Node, NEW p \in Node, NEW m \in chan[p][n], GotReply(n, p, m)
  PROVE  Flooding!Answer(n, m.guid, m.from)
<1>1. /\ m.kind = "reply" /\ m.guid \in m_local_route[n]
      /\ answers' = answers \cup {[at |-> n, guid |-> m.guid, from |-> m.from]}
      /\ UNCHANGED <<m_local_route, heard>>
  BY DEF GotReply
<1>2. m.guid \in Guid /\ m.from \in Node
  BY ReceiveMember DEF RouteInv
<1>3. heard[m.from][m.guid] > 0
  BY <1>1 DEF RouteInv, RouteFacts, Heard
<1> QED BY <1>1, <1>2, <1>3 DEF Flooding!Answer

LEMMA StepIsFlood ==
  ASSUME RouteInv, UnbrokenFacts, breaks = 0, MaxBreaks = 0, [Next]_vars
  PROVE  [Flooding!Next]_(Flooding!vars)
<1>1. ASSUME NEW n \in Node, NEW p \in Node, NEW m \in chan[p][n], Receive(n, p, m)
      PROVE  [Flooding!Next]_(Flooding!vars)
  <2>1. m.guid \in Guid /\ m.from \in Node
    BY ReceiveMember DEF RouteInv
  <2>2. CASE GotBroadcast(n, p, m)
    BY <1>1, <2>1, <2>2, GotBroadcastIsReach DEF Receive, Flooding!Next
  <2>3. CASE GotReply(n, p, m)
    BY <2>1, <2>3, GotReplyIsAnswer DEF Flooding!Next
  <2>4. CASE DropDuplicate(n, p, m) \/ ForwardReply(n, p, m) \/ StrayReply(n, p, m)
    BY <2>4 DEF DropDuplicate, ForwardReply, StrayReply, history, Flooding!vars
  <2> QED BY <1>1, <2>2, <2>3, <2>4 DEF Receive
<1>2. ASSUME NEW n \in Node, NEW g \in Guid, Broadcast(n, g)
      PROVE  [Flooding!Next]_(Flooding!vars)
  BY <1>2, BroadcastIsOriginate DEF Flooding!Next
<1>3. ASSUME NEW n \in Node, NEW g \in Guid, Reply(n, g)
      PROVE  [Flooding!Next]_(Flooding!vars)
  BY <1>3 DEF Reply, Flooding!vars
<1>4. ASSUME NEW n \in Node, NEW p \in Node, NEW m, Lose(n, p, m) \/ AddQueue(n, p)
      PROVE  [Flooding!Next]_(Flooding!vars)
  BY <1>4 DEF Lose, AddQueue, history, Flooding!vars
<1>5. ~\E n, p \in Node : DeleteQueue(n, p)
  BY DEF DeleteQueue
<1>6. CASE UNCHANGED vars
  BY <1>6 DEF vars, Flooding!vars
<1> QED BY <1>1, <1>2, <1>3, <1>4, <1>5, <1>6 DEF Next

LEMMA NoBreaks ==
  ASSUME MaxBreaks = 0 PROVE breaks = 0 /\ [Next]_vars => breaks' = 0
BY BreaksCounted

\* In a network whose connections last, every behaviour of the routing code is one
\* of Flood: at most one delivery per node, over a link from a node that has the
\* broadcast, never back to its origin, and answers handed to the origin alone.
THEOREM MeshImplementsFlood ==
  ASSUME MaxBreaks = 0 PROVE Spec => ImplementsFlood
<1>1. Init => RouteInv /\ Unbroken /\ breaks = 0
  BY InitType, InitRoutes, InitUnbroken DEF RouteInv, Unbroken, Init
<1>2. RouteInv /\ Unbroken /\ breaks = 0 /\ [Next]_vars => (RouteInv /\ Unbroken /\ breaks = 0)'
  BY NextRoutes, NextUnbroken, NoBreaks
<1>3. Init => Flooding!Init
  <2> SUFFICES ASSUME Init PROVE Flooding!Init
    OBVIOUS
  <2>1. \A n \in Node : {g \in Guid : heard[n][g] > 0} = {}
    BY DEF Init
  <2> QED BY <2>1 DEF Init, Flooding!Init
<1>4. RouteInv /\ Unbroken /\ breaks = 0 /\ [Next]_vars => [Flooding!Next]_(Flooding!vars)
  BY StepIsFlood DEF Unbroken
<1> QED BY <1>1, <1>2, <1>3, <1>4, PTL DEF Spec, ImplementsFlood, Flooding!Spec

-----------------------------------------------------------------------------
(* RouteTable *)

\* The table for itself; Mesh says who adds ids.
RouteSpec == RouteInit /\ [][RouteNext]_routeVars

Sorted(t) == \A i, j \in RouteSlot : i < j => t[i] < t[j]

\* r is the first slot of t that is not below id.
IsPlace(t, id, r) ==
  /\ r \in 0..NumRoutes
  /\ \A i \in RouteSlot : i < r <=> t[i] < id

\* The ring names no id twice: when one is overwritten it is gone.
RingDistinct == \A i, j \in RouteSlot : m_routes_order[i] = m_routes_order[j] => i = j

TableInv == RoutesTyped /\ TablesAgree /\ RingDistinct

LEMMA IdsAreNumbers == RouteId \subseteq Nat /\ RouteSlot \subseteq Nat /\ NumRoutes \in Nat \ (0..3)
BY NumRoutesAssumption, NewIdAssumption DEF RouteId, RouteSlot

-----------------------------------------------------------------------------
(* Numbers                                                                 *)

LEMMA LeastOf ==
  ASSUME NEW S \in SUBSET Nat, S # {}
  PROVE  \E x \in S : \A y \in S : x <= y
<1> DEFINE R == OpToRel(<, Nat)
<1>1. \A x, y \in Nat : x < y => <<x, y>> \in R
  BY DEF OpToRel
<1>2. IsWellFoundedOn(R, Nat)
  BY NatLessThanWellFounded
<1> HIDE DEF R
<1>3. PICK x \in S : \A y \in S : ~(<<y, x>> \in R)
  BY <1>2, WFMin
<1>4. \A y \in S : x <= y
  <2> SUFFICES ASSUME NEW y \in S, ~(x <= y) PROVE FALSE
    OBVIOUS
  <2>1. x \in Nat /\ y \in Nat /\ y < x
    OBVIOUS
  <2> QED BY <1>1, <1>3, <2>1
<1> QED BY <1>4

LEMMA MinIs ==
  ASSUME NEW S \in SUBSET Nat, S # {}
  PROVE  Min(S) \in S /\ \A y \in S : Min(S) <= y
BY LeastOf DEF Min

LEMMA GreatestOf ==
  ASSUME NEW b \in Nat, NEW S \in SUBSET (0..b), S # {}
  PROVE  \E x \in S : \A y \in S : x >= y
<1> DEFINE T == {b - i : i \in S}
<1>0. \A i \in S : i \in Int /\ b - i \in Nat
  <2> SUFFICES ASSUME NEW i \in S PROVE i \in Int /\ b - i \in Nat
    OBVIOUS
  <2>1. i \in 0..b
    OBVIOUS
  <2> QED BY <2>1
<1>1. T \in SUBSET Nat /\ T # {}
  BY <1>0
<1>2. PICK z \in T : \A y \in T : z <= y
  BY <1>1, LeastOf
<1>3. PICK x \in S : z = b - x
  BY <1>2
<1>4. \A y \in S : b - y \in T
  OBVIOUS
<1>5. \A y \in S : z <= b - y
  BY <1>2, <1>4
<1>6. ASSUME NEW y \in S PROVE x >= y
  <2>1. x \in Int /\ y \in Int /\ b \in Int /\ b - x <= b - y
    BY <1>0, <1>3, <1>5
  <2> QED BY <2>1
<1> QED BY <1>6

LEMMA MaxIs ==
  ASSUME NEW b \in Nat, NEW S \in SUBSET (0..b), S # {}
  PROVE  Max(S) \in S /\ \A y \in S : Max(S) >= y
BY GreatestOf DEF Max

\* Induction, with the property as a set.
LEMMA Induct ==
  ASSUME NEW S, 0 \in S, \A n \in Nat : n \in S => n + 1 \in S
  PROVE  Nat \subseteq S
<1> SUFFICES ASSUME ~(Nat \subseteq S) PROVE FALSE
  OBVIOUS
<1> DEFINE T == Nat \ S
<1>1. PICK x \in T : \A y \in T : x <= y
  BY LeastOf
<1>2. x - 1 \in Nat /\ x - 1 \in S
  BY <1>1
<1> QED BY <1>1, <1>2

-----------------------------------------------------------------------------
(* The lookup                                                              *)

LEMMA ScanLeftExact ==
  ASSUME NEW t \in [RouteSlot -> Int], Sorted(t), NEW id \in Int,
         NEW pos \in RouteSlot, id < t[pos]
  PROVE  IsPlace(t, id, ScanLeft(t, id, pos))
<1> DEFINE notBelow == {i \in 0..(pos - 1) : id >= t[i]}
<1> USE IdsAreNumbers DEF RouteSlot
<1>1. pos \in Nat /\ pos < NumRoutes
  OBVIOUS
<1>2. \A i \in RouteSlot : i >= pos => id < t[i]
  BY DEF Sorted
<1>3. CASE notBelow = {}
  <2>1. \A i \in RouteSlot : i < pos => ~(id >= t[i])
    BY <1>1, <1>3
  <2>2. \A i \in RouteSlot : ~(t[i] < id)
    BY <1>1, <1>2, <2>1
  <2> QED BY <1>3, <2>2 DEF IsPlace, ScanLeft
<1>4. CASE notBelow # {}
  <2> DEFINE k == Max(notBelow)
  <2>1. notBelow \in SUBSET (0..(pos - 1)) /\ pos - 1 \in Nat
    BY <1>1, <1>4
  <2>2. k \in notBelow /\ \A i \in notBelow : k >= i
    BY <1>4, <2>1, MaxIs
  <2> HIDE DEF k
  <2>3. k \in RouteSlot /\ k < pos /\ id >= t[k]
    BY <1>1, <2>2
  <2>4. \A i \in RouteSlot : i > k => id < t[i]
    BY <1>1, <1>2, <2>2, <2>3
  <2>5. \A i \in RouteSlot : i < k => t[i] < t[k]
    BY <2>3 DEF Sorted
  <2>6. ScanLeft(t, id, pos) = IF t[k] = id THEN k ELSE k + 1
    BY <1>4 DEF ScanLeft, k
  <2> HIDE DEF notBelow
  <2>7. CASE t[k] = id
    BY <2>3, <2>4, <2>5, <2>6, <2>7 DEF IsPlace
  <2>8. CASE t[k] # id
    BY <1>1, <2>3, <2>4, <2>5, <2>6, <2>8 DEF IsPlace
  <2> QED BY <2>7, <2>8
<1> QED BY <1>3, <1>4

LEMMA ScanRightExact ==
  ASSUME NEW t \in [RouteSlot -> Int], Sorted(t), NEW id \in Int,
         NEW pos \in RouteSlot, pos # NumRoutes - 1, id > t[pos]
  PROVE  IsPlace(t, id, ScanRight(t, id, pos))
<1> DEFINE notAbove == {i \in (pos + 1)..(NumRoutes - 1) : id <= t[i]}
<1> USE IdsAreNumbers DEF RouteSlot
<1>1. pos \in Nat /\ pos < NumRoutes - 1
  OBVIOUS
<1>2. \A i \in RouteSlot : i <= pos => t[i] < id
  BY DEF Sorted
<1>3. CASE notAbove = {}
  <2>1. \A i \in RouteSlot : i > pos => ~(id <= t[i])
    BY <1>1, <1>3
  <2>2. \A i \in RouteSlot : t[i] < id
    BY <1>1, <1>2, <2>1
  <2> QED BY <1>1, <1>3, <2>2 DEF IsPlace, ScanRight
<1>4. CASE notAbove # {}
  <2> DEFINE k == Min(notAbove)
  <2>1. notAbove \in SUBSET Nat
    BY <1>1
  <2>2. k \in notAbove /\ \A i \in notAbove : k <= i
    BY <1>4, <2>1, MinIs
  <2>3. ScanRight(t, id, pos) = k
    BY <1>1, <1>4 DEF ScanRight
  <2> HIDE DEF k
  <2>4. k \in RouteSlot /\ k > pos /\ id <= t[k]
    BY <1>1, <2>2
  <2>5. \A i \in RouteSlot : i < k => t[i] < id
    BY <1>1, <1>2, <2>2, <2>4
  <2>6. \A i \in RouteSlot : i >= k => ~(t[i] < id)
    BY <2>4 DEF Sorted
  <2> QED BY <2>3, <2>4, <2>5, <2>6 DEF IsPlace
<1> QED BY <1>3, <1>4

\* What a turn of the bisection gives, where f gives the answer of the next.
Turn(t, id, f, w) ==
  LET psize == w[1]
      pos == w[2]
  IN  IF pos < 0 THEN 0
      ELSE IF pos >= NumRoutes THEN NumRoutes
      ELSE IF t[pos] = id THEN pos
      ELSE IF psize < 2
           THEN IF id < t[pos] THEN ScanLeft(t, id, pos) ELSE ScanRight(t, id, pos)
      ELSE f[<<psize \div 2, IF id > t[pos] THEN pos + psize ELSE pos - psize>>]

Turns(n) == (0..n) \X Int

\* The recursion of find_route has a solution: the size of the steps goes down.
LEMMA BisectionEnds ==
  ASSUME NEW t, NEW id
  PROVE  \E f : f = [w \in Turns(NumRoutes) |-> Turn(t, id, f, w)]
<1> DEFINE S == {n \in Nat : \E f : f = [w \in Turns(n) |-> Turn(t, id, f, w)]}
<1>1. 0 \in S
  <2> DEFINE f == [w \in Turns(0) |-> Turn(t, id, <<>>, w)]
  <2>1. \A w \in Turns(0) : Turn(t, id, f, w) = Turn(t, id, <<>>, w)
    <3> SUFFICES ASSUME NEW w \in Turns(0) PROVE Turn(t, id, f, w) = Turn(t, id, <<>>, w)
      OBVIOUS
    <3>1. w[1] < 2
      BY DEF Turns
    <3> HIDE DEF f
    <3> QED BY <3>1 DEF Turn
  <2> QED BY <2>1
<1>2. ASSUME NEW n \in Nat, n \in S PROVE n + 1 \in S
  <2>1. PICK f : f = [w \in Turns(n) |-> Turn(t, id, f, w)]
    BY <1>2
  <2> DEFINE g == [w \in Turns(n + 1) |-> Turn(t, id, f, w)]
  <2>2. ASSUME NEW w \in Turns(n) PROVE w \in Turns(n + 1) /\ g[w] = f[w]
    <3>1. w \in Turns(n + 1)
      BY DEF Turns
    <3> QED BY <2>1, <3>1
  <2> HIDE DEF g
  <2>3. ASSUME NEW w \in Turns(n + 1) PROVE Turn(t, id, f, w) = Turn(t, id, g, w)
    <3> DEFINE next == <<w[1] \div 2, IF id > t[w[2]] THEN w[2] + w[1] ELSE w[2] - w[1]>>
    <3>1. w[1] \in 0..(n + 1) /\ w[2] \in Int
      BY DEF Turns
    <3>2. CASE w[1] < 2
      BY <3>2 DEF Turn
    <3>3. CASE ~(w[1] < 2)
      <4>1. w[1] \div 2 \in 0..n
        BY <3>1, <3>3
      <4>2. next \in Turns(n)
        BY <3>1, <4>1 DEF Turns
      <4>3. f[next] = g[next]
        BY <2>2, <4>2
      <4> QED BY <4>3 DEF Turn
    <3> QED BY <3>2, <3>3
  <2>4. g = [w \in Turns(n + 1) |-> Turn(t, id, g, w)]
    BY <2>3 DEF g
  <2> QED BY <2>4
<1>3. NumRoutes \in S
  <2> HIDE DEF S
  <2> QED BY <1>1, <1>2, Induct, IdsAreNumbers
<1> QED BY <1>3

Probe(t, id) == CHOOSE f : f = [w \in Turns(NumRoutes) |-> Turn(t, id, f, w)]

LEMMA ProbeTurns ==
  ASSUME NEW t, NEW id
  PROVE  Probe(t, id) = [w \in Turns(NumRoutes) |-> Turn(t, id, Probe(t, id), w)]
<1> DEFINE Solves(f) == f = [w \in Turns(NumRoutes) |-> Turn(t, id, f, w)]
<1>1. \E f : Solves(f)
  BY BisectionEnds
<1>2. Probe(t, id) = CHOOSE f : Solves(f)
  BY DEF Probe
<1> HIDE DEF Solves
<1>3. Solves(CHOOSE f : Solves(f))
  BY <1>1, Zenon
<1>4. Solves(Probe(t, id))
  BY <1>2, <1>3
<1> QED BY <1>4, Zenon DEF Solves

LEMMA FindRouteProbes ==
  ASSUME NEW t, NEW id
  PROVE  FindRoute(t, id) = Probe(t, id)[<<(NumRoutes \div 2) \div 2, NumRoutes \div 2>>]
BY DEF FindRoute, Probe, Turn, Turns

\* From every position that the steps to come cannot leave the table from, a bisection
\* with steps of psize finds the place.
Exact(t, id, psize) ==
  \A pos \in Int :
    2 * psize <= pos /\ pos <= NumRoutes - 2 * psize => IsPlace(t, id, Probe(t, id)[<<psize, pos>>])

LEMMA FoundIsPlace ==
  ASSUME NEW t \in [RouteSlot -> Int], Sorted(t), NEW pos \in RouteSlot
  PROVE  IsPlace(t, t[pos], pos)
<1>1. \A i \in RouteSlot : i < pos <=> t[i] < t[pos]
  BY IdsAreNumbers DEF Sorted, RouteSlot
<1> QED BY <1>1, IdsAreNumbers DEF IsPlace, RouteSlot

LEMMA ExactAtOne ==
  ASSUME NEW t \in [RouteSlot -> Int], Sorted(t), NEW id \in Int
  PROVE  Exact(t, id, 1)
<1> SUFFICES ASSUME NEW pos \in Int, 2 <= pos, pos <= NumRoutes - 2
             PROVE  IsPlace(t, id, Probe(t, id)[<<1, pos>>])
  BY IdsAreNumbers DEF Exact
<1>1. pos \in RouteSlot /\ pos # NumRoutes - 1 /\ ~(pos < 0) /\ ~(pos >= NumRoutes)
  BY IdsAreNumbers DEF RouteSlot
<1>2. <<1, pos>> \in Turns(NumRoutes)
  BY IdsAreNumbers DEF Turns
<1>3. Probe(t, id)[<<1, pos>>] = Turn(t, id, Probe(t, id), <<1, pos>>)
  BY <1>2, ProbeTurns
<1>4. @ = IF t[pos] = id THEN pos
          ELSE IF id < t[pos] THEN ScanLeft(t, id, pos) ELSE ScanRight(t, id, pos)
  BY <1>1 DEF Turn
<1>5. t[pos] \in Int
  BY <1>1
<1>6. CASE t[pos] = id
  BY <1>1, <1>3, <1>4, <1>6, FoundIsPlace
<1>7. CASE id < t[pos]
  BY <1>1, <1>3, <1>4, <1>5, <1>7, ScanLeftExact
<1>8. CASE id > t[pos]
  BY <1>1, <1>3, <1>4, <1>5, <1>8, ScanRightExact
<1> QED BY <1>5, <1>6, <1>7, <1>8

LEMMA ExactDoubles ==
  ASSUME NEW t \in [RouteSlot -> Int], Sorted(t), NEW id \in Int,
         NEW psize \in Nat \ {0}, 2 * psize <= NumRoutes, Exact(t, id, psize)
  PROVE  Exact(t, id, 2 * psize)
<1> SUFFICES ASSUME NEW pos \in Int, 4 * psize <= pos, pos <= NumRoutes - 4 * psize
             PROVE  IsPlace(t, id, Probe(t, id)[<<2 * psize, pos>>])
  BY IdsAreNumbers DEF Exact
<1> DEFINE next == IF id > t[pos] THEN pos + 2 * psize ELSE pos - 2 * psize
<1>1. pos \in RouteSlot /\ ~(pos < 0) /\ ~(pos >= NumRoutes)
  BY IdsAreNumbers DEF RouteSlot
<1>2. <<2 * psize, pos>> \in Turns(NumRoutes)
  BY IdsAreNumbers DEF Turns
<1>3. Probe(t, id)[<<2 * psize, pos>>] = Turn(t, id, Probe(t, id), <<2 * psize, pos>>)
  BY <1>2, ProbeTurns
<1>4. ~(2 * psize < 2) /\ (2 * psize) \div 2 = psize
  OBVIOUS
<1>5. Turn(t, id, Probe(t, id), <<2 * psize, pos>>)
        = IF t[pos] = id THEN pos ELSE Probe(t, id)[<<psize, next>>]
  BY <1>1, <1>4 DEF Turn
<1>6. next \in Int /\ 2 * psize <= next /\ next <= NumRoutes - 2 * psize
  BY IdsAreNumbers
<1>7. IsPlace(t, id, Probe(t, id)[<<psize, next>>])
  BY <1>6 DEF Exact
<1>8. CASE t[pos] = id
  BY <1>1, <1>3, <1>5, <1>8, FoundIsPlace
<1>9. CASE t[pos] # id
  <2> HIDE DEF next
  <2> QED BY <1>3, <1>5, <1>7, <1>9
<1> QED BY <1>8, <1>9

\* In a sorted table find_route finds the first slot that is not below the id: neither the
\* early ends of the bisection nor the scan at the last slot ever give another answer.
THEOREM FindRouteFindsPlace ==
  ASSUME NEW t \in [RouteSlot -> Int], Sorted(t), NEW id \in Int
  PROVE  IsPlace(t, id, FindRoute(t, id))
<1> DEFINE E(p) == Exact(t, id, p)
<1>0. E(1)
  BY ExactAtOne
<1>1. \A p \in Nat \ {0} : 2 * p <= NumRoutes /\ E(p) => E(2 * p)
  BY ExactDoubles
<1> HIDE DEF E
<1>2. NumRoutes >= 8 => E(2)
  BY <1>0, <1>1, IdsAreNumbers
<1>3. NumRoutes >= 16 => E(4)
  BY <1>1, <1>2, IdsAreNumbers
<1>4. NumRoutes >= 32 => E(8)
  BY <1>1, <1>3, IdsAreNumbers
<1>5. NumRoutes >= 64 => E(16)
  BY <1>1, <1>4, IdsAreNumbers
<1>6. NumRoutes >= 128 => E(32)
  BY <1>1, <1>5, IdsAreNumbers
<1>7. NumRoutes >= 256 => E(64)
  BY <1>1, <1>6, IdsAreNumbers
<1>8. NumRoutes >= 512 => E(128)
  BY <1>1, <1>7, IdsAreNumbers
<1>9. NumRoutes >= 1024 => E(256)
  BY <1>1, <1>8, IdsAreNumbers
<1>10. NumRoutes >= 2048 => E(512)
  BY <1>1, <1>9, IdsAreNumbers
<1>11. NumRoutes >= 4096 => E(1024)
  BY <1>1, <1>10, IdsAreNumbers
<1>12. NumRoutes >= 8192 => E(2048)
  BY <1>1, <1>11, IdsAreNumbers
<1>13. PICK p \in Nat \ {0} : NumRoutes = 4 * p /\ E(p)
  BY <1>0, <1>2, <1>3, <1>4, <1>5, <1>6, <1>7, <1>8, <1>9, <1>10, <1>11, <1>12,
     NumRoutesAssumption
<1>14. (NumRoutes \div 2) \div 2 = p /\ NumRoutes \div 2 = 2 * p
  BY <1>13
<1>15. FindRoute(t, id) = Probe(t, id)[<<p, 2 * p>>]
  BY <1>14, FindRouteProbes
<1>16. Exact(t, id, p)
  BY <1>13 DEF E
<1> QED BY <1>13, <1>15, <1>16 DEF Exact

-----------------------------------------------------------------------------
(* The table                                                               *)

LEMMA PlaceKnown ==
  ASSUME NEW t \in [RouteSlot -> Int], Sorted(t), NEW pos \in RouteSlot,
         NEW r, IsPlace(t, t[pos], r)
  PROVE  r = pos
<1> USE IdsAreNumbers DEF RouteSlot
<1>1. ~(pos < r)
  BY DEF IsPlace
<1>2. r < pos => t[r] < t[pos]
  BY DEF IsPlace, Sorted
<1>3. r < pos => ~(t[r] < t[pos])
  BY DEF IsPlace
<1> QED BY <1>1, <1>2, <1>3 DEF IsPlace

\* Where the array holds the id, is_route knows it, and otherwise it does not.
LEMMA IsRouteExact ==
  ASSUME RoutesTyped, TablesAgree, NEW id \in RouteId
  PROVE  IsRoute(id) <=> id \in RouteIds(m_routes)
<1>0. RouteId \subseteq Int
  BY IdsAreNumbers
<1>1. m_routes \in [RouteSlot -> Int] /\ Sorted(m_routes) /\ id \in Int
  BY <1>0 DEF RoutesTyped, TablesAgree, Sorted
<1>2. IsPlace(m_routes, id, FindRoute(m_routes, id))
  BY <1>1, FindRouteFindsPlace
<1>3. ASSUME IsRoute(id) PROVE id \in RouteIds(m_routes)
  BY <1>2, <1>3, IdsAreNumbers DEF IsRoute, RouteIds, IsPlace, RouteSlot
<1>4. ASSUME NEW pos \in RouteSlot, id = m_routes[pos] PROVE IsRoute(id)
  <2>1. FindRoute(m_routes, id) = pos
    BY <1>1, <1>2, <1>4, PlaceKnown
  <2> QED BY <1>4, <2>1, IdsAreNumbers DEF IsRoute, RouteSlot
<1> QED BY <1>3, <1>4 DEF RouteIds

\* The array with the id at maxi taken out and id put in where it belongs.
Moved(t, maxi, offs, id) ==
  [Shifted(t, maxi, offs) EXCEPT ![IF maxi < offs THEN offs - 1 ELSE offs] = id]

LEMMA MovedSorted ==
  ASSUME NEW t \in [RouteSlot -> Int], Sorted(t), NEW id \in Int, id \notin RouteIds(t),
         NEW maxi \in RouteSlot, NEW offs, IsPlace(t, id, offs)
  PROVE  /\ Moved(t, maxi, offs, id) \in [RouteSlot -> Int]
         /\ Sorted(Moved(t, maxi, offs, id))
         /\ RouteIds(Moved(t, maxi, offs, id)) = (RouteIds(t) \ {t[maxi]}) \cup {id}
<1> USE IdsAreNumbers DEF RouteSlot
<1> DEFINE u == Moved(t, maxi, offs, id)
           place == IF maxi < offs THEN offs - 1 ELSE offs
<1>1. offs \in Int /\ 0 <= offs /\ offs <= NumRoutes /\ maxi \in Int /\ 0 <= maxi /\ maxi < NumRoutes
  BY DEF IsPlace
<1>2. place \in RouteSlot
  BY <1>1
<1>3. \A i \in RouteSlot : i < offs <=> t[i] < id
  BY DEF IsPlace
<1>4. \A i \in RouteSlot : t[i] \in Int /\ t[i] # id
  BY DEF RouteIds
<1>5. \A i, j \in RouteSlot : i < j => t[i] < t[j]
  BY DEF Sorted
<1>6. \A r \in RouteSlot : u[r] = IF r = place THEN id
          ELSE IF offs < maxi /\ r \in (offs + 1)..maxi THEN t[r - 1]
          ELSE IF maxi < offs /\ r \in maxi..(offs - 2) THEN t[r + 1]
          ELSE t[r]
  BY <1>2 DEF Moved, Shifted
<1>7. DOMAIN u = RouteSlot
  BY DEF Moved, Shifted
<1>8. u = [r \in RouteSlot |-> u[r]]
  BY DEF Moved, Shifted
<1> HIDE DEF u
<1>9. \A r \in RouteSlot : u[r] \in Int
  BY <1>1, <1>4, <1>6
<1>10. u \in [RouteSlot -> Int]
  BY <1>8, <1>9
<1>11. Sorted(u)
  <2> SUFFICES ASSUME NEW i \in RouteSlot, NEW j \in RouteSlot, i < j PROVE u[i] < u[j]
    BY DEF Sorted
  <2> HIDE DEF place
  <2>1. \A r \in RouteSlot : (r < offs => t[r] < id) /\ (offs <= r => id < t[r])
    <3> SUFFICES ASSUME NEW r \in RouteSlot
                 PROVE  (r < offs => t[r] < id) /\ (offs <= r => id < t[r])
      OBVIOUS
    <3>1. r \in Int /\ t[r] \in Int /\ t[r] # id /\ (r < offs <=> t[r] < id)
      BY <1>3, <1>4
    <3> QED BY <1>1, <3>1
  <2>2. i \in Int /\ j \in Int /\ 0 <= i /\ j < NumRoutes
    OBVIOUS
  <2>3. CASE offs < maxi
    <3>1. \A r \in RouteSlot : u[r] = IF r = offs THEN id
                                     ELSE IF offs < r /\ r <= maxi THEN t[r - 1] ELSE t[r]
      BY <1>1, <1>6, <2>3 DEF place
    <3>2. j > 0 => j - 1 \in RouteSlot
      BY <2>2
    <3>3. i > 0 => i - 1 \in RouteSlot
      BY <2>2
    <3> QED BY <1>1, <1>4, <1>5, <2>1, <2>2, <2>3, <3>1, <3>2, <3>3
  <2>4. CASE maxi < offs
    <3>1. \A r \in RouteSlot : u[r] = IF r = offs - 1 THEN id
                                     ELSE IF maxi <= r /\ r < offs - 1 THEN t[r + 1] ELSE t[r]
      BY <1>1, <1>6, <2>4 DEF place
    <3>2. j + 1 < NumRoutes => j + 1 \in RouteSlot
      BY <2>2
    <3>3. i + 1 \in RouteSlot
      BY <2>2
    <3>4. CASE j = offs - 1
      <4>1. t[i + 1] < id \/ i + 1 >= offs
        BY <1>1, <2>1, <2>2, <3>3
      <4>2. t[i] < id
        BY <1>1, <2>1, <2>2, <3>4
      <4>3. u[j] = id
        BY <3>1, <3>4
      <4>4. u[i] = IF maxi <= i /\ i < offs - 1 THEN t[i + 1] ELSE t[i]
        BY <1>1, <2>2, <3>1, <3>4
      <4>5. i < offs - 1 => i + 1 < offs
        BY <1>1, <2>2
      <4> QED BY <1>1, <2>2, <3>4, <4>1, <4>2, <4>3, <4>4, <4>5
    <3>5. CASE i = offs - 1
      <4>1. id < t[j]
        BY <1>1, <2>1, <2>2, <3>5
      <4> QED BY <1>1, <2>2, <3>1, <3>5, <4>1
    <3>6. CASE i # offs - 1 /\ j # offs - 1
      <4>1. u[i] = IF maxi <= i /\ i < offs - 1 THEN t[i + 1] ELSE t[i]
        BY <3>1, <3>6
      <4>2. u[j] = IF maxi <= j /\ j < offs - 1 THEN t[j + 1] ELSE t[j]
        BY <3>1, <3>6
      <4>3. t[i] < t[j]
        BY <1>5
      <4>4. i + 1 < j => t[i + 1] < t[j]
        BY <1>5, <3>3
      <4>5. j + 1 < NumRoutes => t[i + 1] < t[j + 1] /\ t[i] < t[j + 1]
        BY <1>5, <2>2, <3>2, <3>3
      <4> QED BY <1>1, <2>2, <3>6, <4>1, <4>2, <4>3, <4>4, <4>5
    <3> QED BY <3>4, <3>5, <3>6
  <2>5. CASE maxi = offs
    <3>1. \A r \in RouteSlot : u[r] = IF r = offs THEN id ELSE t[r]
      BY <1>1, <1>6, <2>5 DEF place
    <3> QED BY <1>1, <1>4, <1>5, <2>1, <2>2, <2>5, <3>1
  <2> QED BY <1>1, <2>3, <2>4, <2>5
<1>12. ASSUME NEW r \in RouteSlot
       PROVE  u[r] \in (RouteIds(t) \ {t[maxi]}) \cup {id}
  <2>1. \A i \in RouteSlot : i # maxi => t[i] # t[maxi]
    BY <1>1, <1>4, <1>5
  <2>2. r # place => \E i \in RouteSlot : i # maxi /\ u[r] = t[i]
    BY <1>1, <1>6
  <2> QED BY <1>2, <1>6, <2>1, <2>2 DEF RouteIds
<1>13. ASSUME NEW i \in RouteSlot, i # maxi
       PROVE  \E r \in RouteSlot : u[r] = t[i]
  <2>1. CASE offs < maxi
    <3>1. CASE i < offs \/ i > maxi
      BY <1>1, <1>6, <2>1, <3>1
    <3>2. CASE offs <= i /\ i < maxi
      <4>1. i + 1 \in RouteSlot /\ u[i + 1] = t[i]
        BY <1>1, <1>6, <2>1, <3>2
      <4> QED BY <4>1
    <3> QED BY <1>1, <1>13, <3>1, <3>2
  <2>2. CASE maxi < offs
    <3>1. CASE i < maxi \/ i >= offs
      BY <1>1, <1>6, <2>2, <3>1
    <3>2. CASE maxi < i /\ i < offs
      <4>1. i - 1 \in RouteSlot /\ u[i - 1] = t[i]
        BY <1>1, <1>6, <2>2, <3>2
      <4> QED BY <4>1
    <3> QED BY <1>1, <1>13, <3>1, <3>2
  <2>3. CASE maxi = offs
    BY <1>1, <1>6, <1>13, <2>3
  <2> QED BY <1>1, <2>1, <2>2, <2>3
<1>14. u[place] = id
  BY <1>2, <1>6
<1>15. RouteIds(u) = (RouteIds(t) \ {t[maxi]}) \cup {id}
  <2>1. ASSUME NEW x \in RouteIds(u) PROVE x \in (RouteIds(t) \ {t[maxi]}) \cup {id}
    BY <1>12 DEF RouteIds
  <2>2. ASSUME NEW x \in RouteIds(t), x # t[maxi] PROVE x \in RouteIds(u)
    <3>1. PICK i \in RouteSlot : x = t[i] /\ i # maxi
      BY <2>2 DEF RouteIds
    <3> QED BY <1>13, <3>1 DEF RouteIds
  <2>3. id \in RouteIds(u)
    BY <1>2, <1>14 DEF RouteIds
  <2> QED BY <2>1, <2>2, <2>3
<1> QED BY <1>10, <1>11, <1>15 DEF u

LEMMA InitTable == RouteInit => TableInv
<1> SUFFICES ASSUME RouteInit PROVE TableInv
  OBVIOUS
<1>1. RouteSlot \subseteq RouteId /\ 0 \in RouteSlot
  BY IdsAreNumbers DEF RouteId, RouteSlot
<1>2. RoutesTyped
  BY <1>1 DEF RouteInit, RoutesTyped
<1>3. TablesAgree
  BY DEF RouteInit, TablesAgree, RouteIds
<1>4. RingDistinct
  BY DEF RouteInit, RingDistinct
<1> QED BY <1>2, <1>3, <1>4 DEF TableInv

LEMMA AddRouteKeeps ==
  ASSUME TableInv, NEW id \in NewId, ~IsRoute(id), AddRoute(id)
  PROVE  /\ TableInv'
         /\ m_routes_order' = [m_routes_order EXCEPT ![m_route_opos] = id]
         /\ m_route_opos' = NextPos(m_route_opos)
<1> DEFINE old == m_routes_order[m_route_opos]
           maxi == FindRoute(m_routes, old)
           offs == FindRoute(m_routes, id)
<1>0. RouteId \subseteq Int /\ id \in RouteId
  BY IdsAreNumbers DEF RouteId
<1>1. m_routes \in [RouteSlot -> Int] /\ Sorted(m_routes) /\ id \in Int /\ old \in RouteId
  BY <1>0 DEF TableInv, RoutesTyped, TablesAgree, Sorted
<1>2. id \notin RouteIds(m_routes)
  BY <1>0, IsRouteExact DEF TableInv
<1>3. IsPlace(m_routes, id, offs)
  BY <1>1, FindRouteFindsPlace
<1>4. PICK pos \in RouteSlot : old = m_routes[pos]
  BY DEF TableInv, TablesAgree, RoutesTyped, RouteIds
<1>5. maxi = pos
  BY <1>0, <1>1, <1>4, FindRouteFindsPlace, PlaceKnown
<1>6. m_routes' = Moved(m_routes, maxi, offs, id)
  BY DEF AddRoute, Moved
<1>7. /\ m_routes_order' = [m_routes_order EXCEPT ![m_route_opos] = id]
      /\ m_route_opos' = NextPos(m_route_opos)
  BY DEF AddRoute
<1> HIDE DEF maxi, offs, old
<1>8. /\ m_routes' \in [RouteSlot -> Int]
      /\ Sorted(m_routes')
      /\ RouteIds(m_routes') = (RouteIds(m_routes) \ {old}) \cup {id}
  BY <1>1, <1>2, <1>3, <1>4, <1>5, <1>6, MovedSorted
<1>9. RouteIds(m_routes) = RouteIds(m_routes_order)
  BY DEF TableInv, TablesAgree
<1>10. m_routes_order \in [RouteSlot -> RouteId] /\ m_route_opos \in RouteSlot
  BY DEF TableInv, RoutesTyped
<1>11. m_routes_order' \in [RouteSlot -> RouteId]
  BY <1>0, <1>7, <1>10
<1>12. m_route_opos' \in RouteSlot
  BY <1>7, <1>10, IdsAreNumbers DEF NextPos, RouteSlot
<1>13. \A i, j \in RouteSlot : m_routes_order[i] = m_routes_order[j] => i = j
  BY DEF TableInv, RingDistinct
<1>14. \A i \in RouteSlot : m_routes_order'[i] = IF i = m_route_opos THEN id ELSE m_routes_order[i]
  BY <1>7, <1>10
<1>15. \A i \in RouteSlot : m_routes_order[i] # id
  BY <1>2, <1>9 DEF RouteIds
<1>16. RingDistinct'
  BY <1>13, <1>14, <1>15 DEF RingDistinct
<1>17. RouteIds(m_routes_order') = (RouteIds(m_routes_order) \ {old}) \cup {id}
  BY <1>10, <1>13, <1>14 DEF RouteIds, old
<1>18. RouteIds(m_routes') \subseteq RouteId
  <2>1. RouteIds(m_routes_order) \subseteq RouteId
    BY <1>10 DEF RouteIds
  <2> QED BY <1>0, <1>8, <1>9, <2>1
<1>19. m_routes' \in [RouteSlot -> RouteId]
  BY <1>8, <1>18 DEF RouteIds
<1>20. RoutesTyped'
  BY <1>11, <1>12, <1>19 DEF RoutesTyped
<1>21. TablesAgree'
  BY <1>8, <1>9, <1>17 DEF TablesAgree, Sorted
<1> QED BY <1>7, <1>16, <1>20, <1>21 DEF TableInv

LEMMA NextTable == TableInv /\ [RouteNext]_routeVars => TableInv'
<1> SUFFICES ASSUME TableInv, [RouteNext]_routeVars PROVE TableInv'
  OBVIOUS
<1>1. CASE UNCHANGED routeVars
  BY <1>1 DEF routeVars, TableInv, RoutesTyped, TablesAgree, RingDistinct
<1>2. CASE RouteNext
  BY <1>2, AddRouteKeeps DEF RouteNext
<1> QED BY <1>1, <1>2

\* In a table that is as it should be, find_route gives the number of smaller ids.
LEMMA TableIsExact == TableInv => FindRouteExact
<1> SUFFICES ASSUME TableInv, NEW id \in RouteId
             PROVE  FindRoute(m_routes, id) = Cardinality({i \in RouteSlot : m_routes[i] < id})
  BY DEF TableInv, FindRouteExact
<1> DEFINE r == FindRoute(m_routes, id)
<1>0. RouteId \subseteq Int
  BY IdsAreNumbers
<1>1. IsPlace(m_routes, id, r)
  BY <1>0, FindRouteFindsPlace DEF TableInv, RoutesTyped, TablesAgree, Sorted
<1> HIDE DEF r
<1>2. r \in 0..NumRoutes /\ {i \in RouteSlot : m_routes[i] < id} = 0..(r - 1)
  BY <1>1, IdsAreNumbers DEF IsPlace, RouteSlot
<1>3. Cardinality(0..(r - 1)) = r
  BY <1>2, IdsAreNumbers, FS_Interval
<1> QED BY <1>2, <1>3 DEF r

\* Whatever ids come, the array stays sorted and holds the ids of the ring, and find_route
\* is exact (mqueue.cpp:300-377).
THEOREM TableStaysExact == RouteSpec => []FindRouteExact
BY InitTable, NextTable, TableIsExact, PTL DEF RouteSpec

-----------------------------------------------------------------------------
(* The memory                                                              *)

Recent == [i \in 1..NumRoutes |-> m_routes_order[(m_route_opos + i - 1) % NumRoutes]]

LEMMA RoundOnce ==
  ASSUME NEW n \in Nat \ {0}, NEW x \in Nat, x < 2 * n
  PROVE  x % n = IF x < n THEN x ELSE x - n
OBVIOUS

LEMMA AddRouteRemembers ==
  ASSUME TableInv, NEW id \in NewId, ~IsRoute(id), AddRoute(id)
  PROVE  Recent' = Append(Tail(Recent), id)
<1> DEFINE N == NumRoutes
           o == m_route_opos
<1>1. /\ m_routes_order' = [m_routes_order EXCEPT ![o] = id]
      /\ m_route_opos' = NextPos(o)
  BY AddRouteKeeps
<1>2. N \in Nat /\ N > 3 /\ o \in 0..(N - 1) /\ m_routes_order \in [0..(N - 1) -> RouteId]
  BY IdsAreNumbers DEF TableInv, RoutesTyped, RouteSlot
<1>3. Recent \in Seq(RouteId) /\ Len(Recent) = N
  <2>1. \A i \in 1..N : (o + i - 1) % N \in 0..(N - 1)
    BY <1>2
  <2>2. Recent \in [1..N -> RouteId]
    BY <1>2, <2>1 DEF Recent
  <2> QED BY <1>2, <2>2
<1>4. Tail(Recent) \in Seq(RouteId) /\ Len(Tail(Recent)) = N - 1
  BY <1>2, <1>3
<1>5. \A i \in 1..(N - 1) : Tail(Recent)[i] = Recent[i + 1]
  BY <1>2, <1>3
<1>6. Append(Tail(Recent), id) = [i \in 1..N |-> IF i = N THEN id ELSE Recent[i + 1]]
  <2> DEFINE s == Append(Tail(Recent), id)
             f == [i \in 1..N |-> IF i = N THEN id ELSE Recent[i + 1]]
  <2>1. id \in RouteId
    BY DEF RouteId
  <2>2. s \in Seq(RouteId) /\ Len(s) = N
    BY <1>2, <1>4, <2>1
  <2>3. \A i \in 1..N : s[i] = f[i]
    BY <1>2, <1>4, <1>5
  <2>4. \A i \in 1..N : f[i] \in RouteId
    BY <1>2, <1>3, <2>1
  <2>5. f \in Seq(RouteId) /\ Len(f) = N
    BY <1>2, <2>4
  <2> HIDE DEF s, f
  <2>6. s = f
    BY <2>2, <2>3, <2>5, SeqEqual
  <2> QED BY <2>6 DEF s, f
<1>7. Recent' = [i \in 1..N |-> m_routes_order'[(m_route_opos' + i - 1) % N]]
  BY DEF Recent
<1>8. ASSUME NEW i \in 1..N
      PROVE  m_routes_order'[(m_route_opos' + i - 1) % N] = IF i = N THEN id ELSE Recent[i + 1]
  <2> DEFINE place == (m_route_opos' + i - 1) % N
  <2>1. m_route_opos' = IF o + 1 >= N THEN 0 ELSE o + 1
    BY <1>1 DEF NextPos
  <2>2. m_route_opos' + i - 1 \in 0..(2 * N - 1)
    BY <1>2, <2>1
  <2>3. place = IF m_route_opos' + i - 1 < N THEN m_route_opos' + i - 1 ELSE m_route_opos' + i - 1 - N
    <3> DEFINE x == m_route_opos' + i - 1
    <3>1. x \in Nat /\ x < 2 * N /\ N \in Nat \ {0}
      BY <1>2, <2>2
    <3> HIDE DEF x, N
    <3>2. x % N = IF x < N THEN x ELSE x - N
      BY <3>1, RoundOnce
    <3> QED BY <1>2, <2>1, <3>1, <3>2 DEF x, N
  <2>4. CASE i = N
    <3>1. place = o
      BY <1>2, <2>1, <2>3, <2>4
    <3> QED BY <1>1, <1>2, <2>4, <3>1
  <2>5. CASE i # N
    <3>1. o + i \in Nat /\ o + i < 2 * N /\ N \in Nat \ {0}
      BY <1>2
    <3>2. (o + i) % N = IF o + i < N THEN o + i ELSE o + i - N
      <4> DEFINE x == o + i
      <4> HIDE DEF x, N
      <4>1. x % N = IF x < N THEN x ELSE x - N
        BY <3>1, RoundOnce DEF x
      <4> QED BY <1>2, <3>1, <4>1 DEF x, N
    <3>3. Recent[i + 1] = m_routes_order[(o + i) % N]
      BY <1>2, <2>5 DEF Recent
    <3>4. place = (o + i) % N /\ place # o /\ place \in 0..(N - 1)
      BY <1>2, <2>1, <2>3, <2>5, <3>2
    <3> QED BY <1>1, <1>2, <2>5, <3>3, <3>4
  <2> QED BY <2>4, <2>5
<1> QED BY <1>6, <1>7, <1>8

LEMMA StepRemembers ==
  ASSUME TableInv, [RouteNext]_routeVars
  PROVE  [\E id \in RouteId : Recent' = Append(Tail(Recent), id)]_Recent
<1>1. CASE UNCHANGED routeVars
  BY <1>1 DEF routeVars, Recent
<1>2. CASE RouteNext
  BY <1>2, AddRouteRemembers DEF RouteNext, RouteId
<1> QED BY <1>1, <1>2

\* Every add_route that the callers make forgets the id that came first, and no other,
\* for ever: the ring implements the memory of the last NumRoutes ids.
THEOREM RingForgetsOldest == RouteSpec => ForgetsOldest
<1>1. TableInv /\ [RouteNext]_routeVars => [Memory!Next]_(Recent)
  BY StepRemembers DEF Memory!Next, Memory!Remember, Recent
<1> QED BY <1>1, InitTable, NextTable, PTL DEF RouteSpec, ForgetsOldest, Memory!Spec, Recent


-----------------------------------------------------------------------------
(* The passes over the queues                                              *)

PassState(n) == [queues : Seq(1 .. n), runcnt : Nat, served : SUBSET (1 .. n)]
PassStart(n) == [queues |-> [i \in 1 .. n |-> i], runcnt |-> 0, served |-> {}]
Once(q) == \A i, j \in 1 .. Len(q) : q[i] = q[j] => i = j

\* The place of a count in a list of m, those still to come in the pass, and those reached by its end.
PlaceOf(count, m) == ((count + m_run_rr) % m) + 1
Window(q, runcnt) == {q[PlaceOf(count, Len(q))] : count \in runcnt .. Len(q) - 1}
ToReach(s) == (s.served \cap Range(s.queues)) \cup Window(s.queues, s.runcnt)

\* After `turn` turns of a pass over n queues.
TurnInv(s, n, turn) ==
  /\ s \in PassState(n) /\ Once(s.queues)
  /\ s.runcnt <= Len(s.queues) /\ Len(s.queues) - s.runcnt = n - turn

\* What each step is made of the one before: such a function exists.
StepsOf(n, X, base, G, f) ==
  f \in [0 .. n -> X] /\ \A k \in 0 .. n : f[k] = IF k = 0 THEN base ELSE G[k][f[k - 1]]

LEMMA StepwiseExists ==
  ASSUME NEW n \in Nat, NEW X, NEW base \in X, NEW G \in [1 .. n -> [X -> X]]
  PROVE  \E f : StepsOf(n, X, base, G, f)
<1> DEFINE Solves(f, m) == /\ f \in [0 .. m -> X]
                           /\ \A k \in 0 .. m : f[k] = IF k = 0 THEN base ELSE G[k][f[k - 1]]
           done == {m \in Nat : m <= n => \E f : Solves(f, m)}
<1>1. 0 \in done
  <2>1. Solves([k \in 0 .. 0 |-> base], 0)
    OBVIOUS
  <2> QED BY <2>1
<1>2. ASSUME NEW m \in Nat, m \in done PROVE m + 1 \in done
  <2> SUFFICES ASSUME m + 1 <= n PROVE \E f : Solves(f, m + 1)
    OBVIOUS
  <2>1. PICK f : Solves(f, m)
    BY <1>2
  <2>2. m + 1 \in 1 .. n /\ f[m] \in X /\ G[m + 1][f[m]] \in X
    BY <2>1
  <2> DEFINE g == [k \in 0 .. m + 1 |-> IF k <= m THEN f[k] ELSE G[m + 1][f[m]]]
  <2>3. g \in [0 .. m + 1 -> X]
    BY <2>1, <2>2
  <2>4. ASSUME NEW k \in 0 .. m + 1 PROVE g[k] = IF k = 0 THEN base ELSE G[k][g[k - 1]]
    <3>1. CASE k <= m
      <4>1. k \in 0 .. m /\ (k # 0 => k - 1 \in 0 .. m /\ k - 1 \in 0 .. m + 1 /\ k - 1 <= m)
        BY <3>1
      <4>2. g[k] = f[k] /\ (k # 0 => g[k - 1] = f[k - 1])
        BY <3>1, <4>1
      <4>3. f[k] = IF k = 0 THEN base ELSE G[k][f[k - 1]]
        BY <2>1, <4>1
      <4> QED BY <4>2, <4>3
    <3>2. CASE k = m + 1
      <4>1. m \in 0 .. m + 1 /\ ~(k <= m) /\ k # 0 /\ k - 1 = m
        BY <3>2
      <4>2. g[k] = G[m + 1][f[m]] /\ g[m] = f[m]
        BY <4>1
      <4> QED BY <3>2, <4>1, <4>2
    <3> QED BY <3>1, <3>2
  <2>5. Solves(g, m + 1)
    BY <2>3, <2>4
  <2> QED BY <2>5
<1> HIDE DEF done
<1>3. Nat \subseteq done
  BY <1>1, <1>2, Induct
<1>4. n \in done
  BY <1>3
<1>5. \E f : Solves(f, n)
  BY <1>4 DEF done
<1> QED BY <1>5 DEF StepsOf

LEMMA ModApart ==
  ASSUME NEW m \in Nat \ {0}, NEW a \in Nat, NEW b \in Nat, a < b, b - a < m
  PROVE  a % m # b % m
<1>1. a = m * (a \div m) + (a % m) /\ b = m * (b \div m) + (b % m) /\ a \div m \in Int /\ b \div m \in Int
  OBVIOUS
<1>2. ASSUME a % m = b % m PROVE FALSE
  <2> DEFINE d == (b \div m) - (a \div m)
  <2>1. d \in Int /\ b - a = m * d
    BY <1>1, <1>2
  <2>2. d <= 0 => m * d <= 0
    BY <2>1
  <2>3. d >= 1 => m * d >= m
    BY <2>1
  <2> QED BY <2>1, <2>2, <2>3
<1> QED BY <1>2

LEMMA PlaceTyped ==
  ASSUME m_run_rr \in Nat, NEW m \in Nat \ {0}, NEW count \in Nat
  PROVE  PlaceOf(count, m) \in 1 .. m
<1>1. count + m_run_rr \in Nat
  OBVIOUS
<1>2. (count + m_run_rr) % m \in 0 .. m - 1
  BY <1>1
<1> QED BY <1>2 DEF PlaceOf

\* Counts of one round are at different places.
LEMMA WindowCounts ==
  ASSUME m_run_rr \in Nat, NEW T, NEW q \in Seq(T), Once(q), NEW runcnt \in 0 .. Len(q)
  PROVE  /\ IsFiniteSet(Window(q, runcnt)) /\ Window(q, runcnt) \subseteq Range(q)
         /\ Cardinality(Window(q, runcnt)) = Len(q) - runcnt
<1> DEFINE m == Len(q)  C == runcnt .. m - 1
           g == [count \in C |-> q[PlaceOf(count, m)]]
<1>1. m \in Nat /\ runcnt \in Nat /\ C \subseteq Nat /\ (C # {} => m \in Nat \ {0})
  OBVIOUS
<1>2. \A count \in C : PlaceOf(count, m) \in 1 .. m
  BY <1>1, PlaceTyped
<1>3. Window(q, runcnt) = {g[count] : count \in C}
  BY DEF Window
<1>4. Window(q, runcnt) \subseteq Range(q)
  BY <1>2 DEF Window, Range
<1>5. ASSUME NEW a \in C, NEW b \in C, g[a] = g[b] PROVE a = b
  <2>1. PlaceOf(a, m) = PlaceOf(b, m)
    BY <1>2, <1>5 DEF Once
  <2>2. a \in Nat /\ b \in Nat /\ m \in Nat \ {0} /\ a < m /\ b < m
    BY <1>1
  <2>3. a + m_run_rr \in Nat /\ b + m_run_rr \in Nat
    BY <2>2
  <2>4. (a + m_run_rr) % m = (b + m_run_rr) % m
    <3>1. (a + m_run_rr) % m \in Int /\ (b + m_run_rr) % m \in Int
      BY <2>2, <2>3
    <3> QED BY <2>1, <3>1 DEF PlaceOf
  <2>5. CASE a < b
    <3>1. a + m_run_rr < b + m_run_rr /\ (b + m_run_rr) - (a + m_run_rr) < m
      BY <2>2, <2>5
    <3> QED BY <2>2, <2>3, <2>4, <3>1, ModApart
  <2>6. CASE b < a
    <3>1. b + m_run_rr < a + m_run_rr /\ (a + m_run_rr) - (b + m_run_rr) < m
      BY <2>2, <2>6
    <3> QED BY <2>2, <2>3, <2>4, <3>1, ModApart
  <2> QED BY <2>2, <2>5, <2>6
<1>6. g \in Bijection(C, Window(q, runcnt))
  <2>1. g \in [C -> Window(q, runcnt)]
    BY <1>3
  <2>2. \A t \in Window(q, runcnt) : \E count \in C : g[count] = t
    BY <1>3
  <2> HIDE DEF g
  <2> QED BY <1>5, <2>1, <2>2 DEF Bijection, Injection, IsInjective, Surjection
<1>7. IsFiniteSet(C) /\ Cardinality(C) = m - runcnt
  <2>1. runcnt \in Int /\ m - 1 \in Int
    BY <1>1
  <2>2. IsFiniteSet(C) /\ Cardinality(C) = IF runcnt > m - 1 THEN 0 ELSE (m - 1) - runcnt + 1
    BY <2>1, FS_Interval
  <2> QED BY <1>1, <2>2
<1> HIDE DEF g
<1>8. ExistsBijection(C, Window(q, runcnt))
  BY <1>6 DEF ExistsBijection
<1>9. IsFiniteSet(Window(q, runcnt)) /\ Cardinality(Window(q, runcnt)) = Cardinality(C)
  BY <1>7, <1>8, FS_Bijection
<1> QED BY <1>4, <1>7, <1>9

\* A list without its element at a place.
LEMMA ListWithout ==
  ASSUME NEW S, NEW s \in Seq(S), NEW i \in 1 .. Len(s)
  PROVE  /\ RemoveAt(s, i) \in Seq(S) /\ Len(RemoveAt(s, i)) = Len(s) - 1
         /\ \A j \in 1 .. Len(s) - 1 : RemoveAt(s, i)[j] = IF j < i THEN s[j] ELSE s[j + 1]
<1> DEFINE a == SubSeq(s, 1, i - 1)  b == SubSeq(s, i + 1, Len(s))
<1>1. Len(s) \in Nat /\ i \in Nat /\ 1 <= i /\ i <= Len(s)
  OBVIOUS
<1>2. a \in Seq(S) /\ Len(a) = i - 1 /\ \A j \in 1 .. i - 1 : a[j] = s[j]
  BY <1>1
<1>3. b \in Seq(S) /\ Len(b) = Len(s) - i /\ \A j \in 1 .. Len(s) - i : b[j] = s[i + j]
  BY <1>1
<1>4. RemoveAt(s, i) = a \o b
  BY DEF RemoveAt
<1> HIDE DEF a, b
<1>5. /\ a \o b \in Seq(S) /\ Len(a \o b) = Len(a) + Len(b)
      /\ \A j \in 1 .. Len(a) + Len(b) : (a \o b)[j] = IF j <= Len(a) THEN a[j] ELSE b[j - Len(a)]
  BY <1>2, <1>3, ConcatProperties
<1>6. Len(a) + Len(b) = Len(s) - 1
  BY <1>1, <1>2, <1>3
<1>7. ASSUME NEW j \in 1 .. Len(s) - 1 PROVE (a \o b)[j] = IF j < i THEN s[j] ELSE s[j + 1]
  <2>1. (a \o b)[j] = IF j <= i - 1 THEN a[j] ELSE b[j - (i - 1)]
    BY <1>2, <1>5, <1>6
  <2>2. CASE j < i
    BY <1>1, <1>2, <2>1, <2>2
  <2>3. CASE ~(j < i)
    <3>1. j - (i - 1) \in 1 .. Len(s) - i /\ i + (j - (i - 1)) = j + 1 /\ ~(j <= i - 1)
      BY <1>1, <2>3
    <3> QED BY <1>3, <2>1, <2>3, <3>1
  <2> QED BY <2>2, <2>3
<1> QED BY <1>4, <1>5, <1>6, <1>7

\* It names as few things twice as before, and all but one that it named.
LEMMA ListShortened ==
  ASSUME NEW S, NEW s \in Seq(S), Once(s), NEW i \in 1 .. Len(s)
  PROVE  Once(RemoveAt(s, i)) /\ Range(s) \ {s[i]} \subseteq Range(RemoveAt(s, i))
<1> DEFINE r == RemoveAt(s, i)
           was(j) == IF j < i THEN j ELSE j + 1
<1>1. /\ r \in Seq(S) /\ Len(r) = Len(s) - 1 /\ Len(s) \in Nat
      /\ \A j \in 1 .. Len(s) - 1 : r[j] = IF j < i THEN s[j] ELSE s[j + 1]
  BY ListWithout
<1> HIDE DEF r
<1>2. ASSUME NEW j \in 1 .. Len(r), NEW k \in 1 .. Len(r), r[j] = r[k] PROVE j = k
  <2>1. was(j) \in 1 .. Len(s) /\ was(k) \in 1 .. Len(s) /\ r[j] = s[was(j)] /\ r[k] = s[was(k)]
    BY <1>1
  <2>2. was(j) = was(k)
    BY <1>2, <2>1 DEF Once
  <2> QED BY <1>1, <2>2
<1>3. ASSUME NEW j \in 1 .. Len(s), j # i PROVE \E k \in 1 .. Len(r) : r[k] = s[j]
  <2>1. CASE j < i
    <3>1. j \in 1 .. Len(r) /\ r[j] = s[j]
      BY <1>1, <2>1
    <3> QED BY <3>1
  <2>2. CASE ~(j < i)
    <3>1. j - 1 \in 1 .. Len(r) /\ ~(j - 1 < i) /\ (j - 1) + 1 = j
      BY <1>1, <1>3, <2>2
    <3>2. r[j - 1] = s[j]
      BY <1>1, <3>1
    <3> QED BY <3>1, <3>2
  <2> QED BY <2>1, <2>2
<1>4. DOMAIN s = 1 .. Len(s) /\ DOMAIN r = 1 .. Len(r)
  BY <1>1
<1>5. ASSUME NEW x \in Range(s), x # s[i] PROVE x \in Range(r)
  <2>1. PICK j \in 1 .. Len(s) : s[j] = x
    BY <1>4 DEF Range
  <2>2. PICK k \in 1 .. Len(r) : r[k] = s[j]
    BY <1>3, <1>5, <2>1
  <2> QED BY <1>4, <2>1, <2>2 DEF Range
<1>6. Once(r)
  BY <1>2 DEF Once
<1>7. Range(s) \ {s[i]} \subseteq Range(r)
  BY <1>5
<1> QED BY <1>6, <1>7 DEF r

LEMMA ServeTyped ==
  ASSUME m_run_rr \in Nat, NEW n \in Nat, NEW s \in PassState(n), NEW ends \in BOOLEAN
  PROVE  ServeNext(ends, s) \in PassState(n)
<1> DEFINE m == Len(s.queues)  thisq == PlaceOf(s.runcnt, m)
<1>1. s.queues \in Seq(1 .. n) /\ s.runcnt \in Nat /\ s.served \in SUBSET (1 .. n) /\ m \in Nat
  BY DEF PassState
<1>2. CASE s.runcnt >= m
  BY <1>2 DEF ServeNext
<1>3. CASE ~(s.runcnt >= m)
  <2>1. m \in Nat \ {0}
    BY <1>1, <1>3
  <2>2. thisq \in 1 .. m
    BY <1>1, <2>1, PlaceTyped
  <2>4. ServeNext(ends, s) =
           [queues |-> IF ends THEN RemoveAt(s.queues, thisq) ELSE s.queues,
            runcnt |-> IF ends THEN s.runcnt ELSE s.runcnt + 1,
            served |-> s.served \cup {s.queues[thisq]}]
    BY <1>3 DEF ServeNext, PlaceOf
  <2> HIDE DEF thisq
  <2>3. s.queues[thisq] \in 1 .. n
    BY <1>1, <2>2
  <2>5. RemoveAt(s.queues, thisq) \in Seq(1 .. n)
    <3> DEFINE q == s.queues
    <3>1. q \in Seq(1 .. n) /\ thisq \in 1 .. Len(q)
      BY <1>1, <2>2
    <3> HIDE DEF q
    <3>2. RemoveAt(q, thisq) \in Seq(1 .. n)
      BY <3>1, ListWithout
    <3> QED BY <3>2 DEF q
  <2> QED BY <1>1, <2>3, <2>4, <2>5 DEF PassState
<1> QED BY <1>2, <1>3

\* A turn that is due: what is served, and what is left.
LEMMA ServeIs ==
  ASSUME m_run_rr \in Nat, NEW n \in Nat, NEW turn \in 0 .. n - 1, NEW s, TurnInv(s, n, turn),
         NEW ends \in BOOLEAN
  PROVE  LET thisq == PlaceOf(s.runcnt, Len(s.queues))
         IN  /\ thisq \in 1 .. Len(s.queues) /\ s.runcnt < Len(s.queues)
             /\ ServeNext(ends, s) =
                  [queues |-> IF ends THEN RemoveAt(s.queues, thisq) ELSE s.queues,
                   runcnt |-> IF ends THEN s.runcnt ELSE s.runcnt + 1,
                   served |-> s.served \cup {s.queues[thisq]}]
<1> DEFINE m == Len(s.queues)
<1>1. s.queues \in Seq(1 .. n) /\ s.runcnt \in Nat /\ m \in Nat
  BY DEF TurnInv, PassState
<1>2. s.runcnt < m
  BY <1>1 DEF TurnInv
<1>3. PlaceOf(s.runcnt, m) \in 1 .. m
  <2>1. m \in Nat \ {0}
    BY <1>1, <1>2
  <2> QED BY <1>1, <2>1, PlaceTyped
<1>4. ~(s.runcnt >= m)
  BY <1>1, <1>2
<1> QED BY <1>2, <1>3, <1>4 DEF ServeNext, PlaceOf

LEMMA ReachedIs ==
  ASSUME m_run_rr \in Nat, NEW n \in Nat, NEW turn \in 0 .. n, NEW s, TurnInv(s, n, turn)
  PROVE  /\ IsFiniteSet(ToReach(s)) /\ Cardinality(ToReach(s)) \in Nat
         /\ Window(s.queues, s.runcnt) \subseteq ToReach(s) /\ ToReach(s) \subseteq Range(s.queues)
         /\ IsFiniteSet(Window(s.queues, s.runcnt)) /\ Cardinality(Window(s.queues, s.runcnt)) = n - turn
<1>1. /\ s.queues \in Seq(1 .. n) /\ s.runcnt \in 0 .. Len(s.queues) /\ Once(s.queues)
      /\ s.served \in SUBSET (1 .. n) /\ Len(s.queues) - s.runcnt = n - turn
  BY DEF TurnInv, PassState
<1>2. /\ IsFiniteSet(Window(s.queues, s.runcnt)) /\ Window(s.queues, s.runcnt) \subseteq Range(s.queues)
      /\ Cardinality(Window(s.queues, s.runcnt)) = n - turn
  BY <1>1, WindowCounts
<1>3. Range(s.queues) \subseteq 1 .. n
  BY <1>1 DEF Range
<1>4. IsFiniteSet(1 .. n)
  BY FS_Interval
<1>5. ToReach(s) \subseteq Range(s.queues) /\ Window(s.queues, s.runcnt) \subseteq ToReach(s)
  BY <1>2 DEF ToReach
<1>6. IsFiniteSet(ToReach(s))
  BY <1>3, <1>4, <1>5, FS_Subset
<1> QED BY <1>2, <1>5, <1>6, FS_CardinalityType

\* A queue that is served and stays: as many are reached as before.
LEMMA ServedStays ==
  ASSUME m_run_rr \in Nat, NEW n \in Nat, NEW turn \in 0 .. n - 1, NEW s, TurnInv(s, n, turn)
  PROVE  LET t == ServeNext(FALSE, s)
         IN  /\ TurnInv(t, n, turn + 1) /\ Len(t.queues) = Len(s.queues)
             /\ Cardinality(ToReach(s)) <= Cardinality(ToReach(t))
<1> DEFINE q == s.queues  m == Len(q)  thisq == PlaceOf(s.runcnt, m)
           t == ServeNext(FALSE, s)
<1>1. thisq \in 1 .. m /\ s.runcnt < m
  BY ServeIs
<1>2. t = [queues |-> q, runcnt |-> s.runcnt + 1, served |-> s.served \cup {q[thisq]}]
  BY ServeIs
<1>3. q \in Seq(1 .. n) /\ m \in Nat /\ s.runcnt \in Nat /\ Once(q) /\ m - s.runcnt = n - turn
  BY DEF TurnInv, PassState
<1>4. t \in PassState(n)
  <2>1. s \in PassState(n)
    BY DEF TurnInv
  <2> QED BY <2>1, ServeTyped
<1> HIDE DEF t, thisq
<1>5. TurnInv(t, n, turn + 1)
  <2>1. t.queues = q /\ t.runcnt = s.runcnt + 1
    BY <1>2
  <2>2. s.runcnt + 1 <= m /\ m - (s.runcnt + 1) = n - (turn + 1)
    <3> DEFINE r == s.runcnt
    <3>1. r \in Nat /\ m \in Nat /\ r < m /\ m - r = n - turn /\ turn \in Int
      BY <1>1, <1>3
    <3> HIDE DEF r, m
    <3>2. r + 1 <= m /\ m - (r + 1) = n - (turn + 1)
      BY <3>1
    <3> QED BY <3>2 DEF r
  <2>3. Once(t.queues) /\ t.runcnt <= Len(t.queues) /\ Len(t.queues) - t.runcnt = n - (turn + 1)
    BY <1>3, <2>1, <2>2
  <2> QED BY <1>4, <2>3 DEF TurnInv
<1>6. Window(q, s.runcnt) \subseteq {q[thisq]} \cup Window(q, s.runcnt + 1)
  <2> USE DEF thisq
  <2> SUFFICES ASSUME NEW count \in s.runcnt .. m - 1
               PROVE  q[PlaceOf(count, m)] \in {q[thisq]} \cup Window(q, s.runcnt + 1)
    BY DEF Window
  <2>1. count = s.runcnt \/ count \in s.runcnt + 1 .. m - 1
    BY <1>3
  <2> QED BY <2>1 DEF Window
<1>7. q[thisq] \in Range(q)
  BY <1>1, <1>3 DEF Range
<1>8. ToReach(s) \subseteq ToReach(t)
  <2>1. t.queues = q /\ t.runcnt = s.runcnt + 1 /\ t.served = s.served \cup {q[thisq]}
    BY <1>2
  <2> QED BY <1>6, <1>7, <2>1 DEF ToReach
<1>9. IsFiniteSet(ToReach(t))
  <2>1. turn + 1 \in 0 .. n
    OBVIOUS
  <2> QED BY <1>5, <2>1, ReachedIs
<1>10. Cardinality(ToReach(s)) <= Cardinality(ToReach(t))
  <2> QED BY <1>8, <1>9, FS_Subset
<1>11. Len(t.queues) = Len(s.queues)
  BY <1>2
<1> QED BY <1>5, <1>10, <1>11 DEF t

\* A queue that ends: those to come may be others, but of those reached before at least half,
\* less the one that is gone, were served already or are as many as those to come.
LEMMA ServedLeaves ==
  ASSUME m_run_rr \in Nat, NEW n \in Nat, NEW turn \in 0 .. n - 1, NEW s, TurnInv(s, n, turn)
  PROVE  LET t == ServeNext(TRUE, s)
         IN  /\ TurnInv(t, n, turn + 1) /\ Len(t.queues) = Len(s.queues) - 1
             /\ Cardinality(ToReach(s)) <= 2 * Cardinality(ToReach(t)) + 1
<1> DEFINE q == s.queues  m == Len(q)  thisq == PlaceOf(s.runcnt, m)
           t == ServeNext(TRUE, s)
<1>1. thisq \in 1 .. m /\ s.runcnt < m
  BY ServeIs
<1>2. t = [queues |-> RemoveAt(q, thisq), runcnt |-> s.runcnt, served |-> s.served \cup {q[thisq]}]
  BY ServeIs
<1>3. q \in Seq(1 .. n) /\ m \in Nat /\ s.runcnt \in Nat /\ Once(q) /\ m - s.runcnt = n - turn
  BY DEF TurnInv, PassState
<1>4. t \in PassState(n)
  <2>1. s \in PassState(n)
    BY DEF TurnInv
  <2> QED BY <2>1, ServeTyped
<1> HIDE DEF t, thisq
<1>5. t.queues = RemoveAt(q, thisq) /\ t.runcnt = s.runcnt /\ t.served = s.served \cup {q[thisq]}
  BY <1>2
<1>6. Len(t.queues) = m - 1
  BY <1>1, <1>3, <1>5, ListWithout
<1>7. Once(t.queues) /\ Range(q) \ {q[thisq]} \subseteq Range(t.queues)
  BY <1>1, <1>3, <1>5, ListShortened
<1>8. TurnInv(t, n, turn + 1)
  <2>1. s.runcnt <= m - 1 /\ (m - 1) - s.runcnt = n - (turn + 1)
    BY <1>1, <1>3
  <2>2. t.runcnt <= Len(t.queues) /\ Len(t.queues) - t.runcnt = n - (turn + 1)
    BY <1>5, <1>6, <2>1
  <2> QED BY <1>4, <1>7, <2>2 DEF TurnInv
<1> DEFINE A == (s.served \cap Range(q)) \ {q[thisq]}  W == Window(q, s.runcnt)  B == W \ {q[thisq]}
<1>9. turn \in 0 .. n /\ turn + 1 \in 0 .. n
  OBVIOUS
<1>10. /\ IsFiniteSet(ToReach(t)) /\ Cardinality(ToReach(t)) \in Nat
       /\ Window(t.queues, t.runcnt) \subseteq ToReach(t)
       /\ Cardinality(Window(t.queues, t.runcnt)) = n - (turn + 1)
  <2> QED BY <1>8, <1>9, ReachedIs
<1>11. /\ IsFiniteSet(ToReach(s)) /\ Cardinality(ToReach(s)) \in Nat
       /\ IsFiniteSet(W) /\ Cardinality(W) = n - turn
  BY <1>9, ReachedIs
<1>12. A \subseteq ToReach(t)
  BY <1>5, <1>7 DEF ToReach
<1>13. IsFiniteSet(A) /\ Cardinality(A) <= Cardinality(ToReach(t)) /\ Cardinality(A) \in Nat
  BY <1>10, <1>12, FS_Subset, FS_CardinalityType
<1>14. q[thisq] \in W
  <2>1. s.runcnt \in s.runcnt .. m - 1
    BY <1>1, <1>3
  <2> QED BY <2>1 DEF Window, thisq
<1>15. IsFiniteSet(B) /\ Cardinality(B) = n - turn - 1
  <2> HIDE DEF W
  <2> QED BY <1>11, <1>14, FS_RemoveElement
<1>16. n - turn - 1 <= Cardinality(ToReach(t))
  <2>1. Cardinality(Window(t.queues, t.runcnt)) <= Cardinality(ToReach(t))
    BY <1>10, FS_Subset
  <2> QED BY <1>10, <2>1
<1>17. ToReach(s) \subseteq (A \cup B) \cup {q[thisq]}
  BY DEF ToReach
<1> HIDE DEF A, B, W
<1>18. IsFiniteSet(A \cup B) /\ Cardinality(A \cup B) <= Cardinality(A) + Cardinality(B)
  <2>1. /\ IsFiniteSet(A \cup B)
        /\ Cardinality(A \cup B) = Cardinality(A) + Cardinality(B) - Cardinality(A \cap B)
    BY <1>13, <1>15, FS_Union
  <2>2. IsFiniteSet(A \cap B)
    BY <1>13, FS_Intersection
  <2>3. Cardinality(A \cap B) \in Nat /\ Cardinality(B) \in Nat
    BY <1>15, <2>2, FS_CardinalityType
  <2> QED BY <1>13, <2>1, <2>3
<1> DEFINE All == (A \cup B) \cup {q[thisq]}
<1>19. IsFiniteSet(All) /\ Cardinality(All) <= Cardinality(A \cup B) + 1
  <2>1. Cardinality(A \cup B) \in Nat
    BY <1>18, FS_CardinalityType
  <2>2. IsFiniteSet(All) /\ Cardinality(All) = IF q[thisq] \in A \cup B THEN Cardinality(A \cup B) ELSE Cardinality(A \cup B) + 1
    BY <1>18, FS_AddElement
  <2> QED BY <2>1, <2>2
<1>20. Cardinality(ToReach(s)) <= Cardinality(All)
  BY <1>17, <1>19, FS_Subset
<1>21. Cardinality(All) \in Nat /\ Cardinality(A \cup B) \in Nat
  BY <1>18, <1>19, FS_CardinalityType
<1>22. Cardinality(ToReach(s)) <= 2 * Cardinality(ToReach(t)) + 1
  <2> DEFINE cs == Cardinality(ToReach(s))  ct == Cardinality(ToReach(t))  ca == Cardinality(A)
             cb == Cardinality(B)  cu == Cardinality(A \cup B)  cl == Cardinality(All)
  <2>1. cs \in Nat /\ ct \in Nat /\ ca \in Nat /\ cu \in Nat /\ cl \in Nat /\ cb \in Int
    BY <1>10, <1>11, <1>13, <1>15, <1>21
  <2>2. cs <= cl /\ cl <= cu + 1 /\ cu <= ca + cb /\ ca <= ct /\ cb <= ct
    BY <1>13, <1>15, <1>16, <1>18, <1>19, <1>20
  <2> HIDE DEF cs, ct, ca, cb, cu, cl
  <2>3. cs <= 2 * ct + 1
    BY <2>1, <2>2
  <2> QED BY <2>3 DEF cs, ct
<1>23. Len(t.queues) = Len(s.queues) - 1
  BY <1>6
<1> QED BY <1>8, <1>22, <1>23 DEF t

LEMMA PassStarts ==
  ASSUME m_run_rr \in Nat, NEW n \in Nat
  PROVE  /\ TurnInv(PassStart(n), n, 0) /\ Len(PassStart(n).queues) = n
         /\ Cardinality(ToReach(PassStart(n))) = n
<1> DEFINE s == PassStart(n)
<1>1. /\ s.queues = [i \in 1 .. n |-> i] /\ s.runcnt = 0 /\ s.served = {}
      /\ s.queues \in Seq(1 .. n) /\ Len(s.queues) = n /\ Once(s.queues)
  BY DEF PassStart, Once
<1>2. s \in PassState(n)
  BY <1>1 DEF PassState, PassStart
<1> HIDE DEF s
<1>3. TurnInv(s, n, 0)
  BY <1>1, <1>2 DEF TurnInv
<1>4. ToReach(s) = Window(s.queues, s.runcnt)
  BY <1>1 DEF ToReach
<1>5. Cardinality(Window(s.queues, s.runcnt)) = n - 0
  BY <1>3, ReachedIs
<1> QED BY <1>1, <1>3, <1>4, <1>5 DEF s

\* The functions that AllTurns and PassServes are values of.
TurnOf(ends, f, turn) == IF turn = 0 THEN PassStart(numqueues) ELSE ServeNext(ends[turn], f[turn - 1])
After(ends) == CHOOSE f : f = [turn \in 0 .. numqueues |-> TurnOf(ends, f, turn)]
HalfOf(b, f, n) == IF n = 0 THEN b ELSE f[n - 1] \div 2
Halves(b) == CHOOSE f : f = [n \in 0 .. b |-> HalfOf(b, f, n)]

LEMMA TurnsAre ==
  ASSUME NEW ends
  PROVE  AllTurns(ends) = After(ends)[numqueues]
BY DEF AllTurns, After, TurnOf, PassStart

LEMMA HalvesServe == PassServes <=> Halves(lastPass.before)[lastPass.gone] <= lastPass.served
BY DEF PassServes, Halves, HalfOf

LEMMA SameFunction ==
  ASSUME NEW S, NEW X, NEW f \in [S -> X], NEW g, g = [x \in S |-> g[x]], \A x \in S : f[x] = g[x]
  PROVE  f = g
OBVIOUS

LEMMA AfterIs ==
  ASSUME m_run_rr \in Nat, numqueues \in Nat, NEW ends \in [1 .. numqueues -> BOOLEAN]
  PROVE  \A turn \in 0 .. numqueues : After(ends)[turn] = TurnOf(ends, After(ends), turn)
<1> DEFINE n == numqueues  X == PassState(n)
           G == [turn \in 1 .. n |-> [s \in X |-> ServeNext(ends[turn], s)]]
           Solves(f) == f = [turn \in 0 .. n |-> TurnOf(ends, f, turn)]
<1>1. ASSUME NEW turn \in 1 .. n, NEW s \in X PROVE ServeNext(ends[turn], s) \in X
  BY ServeTyped
<1>2. G \in [1 .. n -> [X -> X]]
  BY <1>1
<1>3. PassStart(n) \in X
  BY PassStarts DEF TurnInv
<1>4. \E f : StepsOf(n, X, PassStart(n), G, f)
  <2> HIDE DEF G, X
  <2> QED BY <1>2, <1>3, StepwiseExists
<1>5. PICK f : f \in [0 .. n -> X] /\ \A k \in 0 .. n : f[k] = IF k = 0 THEN PassStart(n) ELSE G[k][f[k - 1]]
  BY <1>4, Zenon DEF StepsOf
<1>6. ASSUME NEW turn \in 0 .. n PROVE f[turn] = TurnOf(ends, f, turn)
  <2>1. CASE turn = 0
    BY <1>5, <2>1 DEF TurnOf
  <2>2. CASE turn # 0
    <3>1. turn \in 1 .. n /\ turn - 1 \in 0 .. n
      BY <2>2
    <3>2. f[turn - 1] \in X /\ f[turn] = G[turn][f[turn - 1]]
      BY <1>5, <2>2, <3>1
    <3>3. G[turn][f[turn - 1]] = ServeNext(ends[turn], f[turn - 1])
      BY <3>1, <3>2
    <3> QED BY <2>2, <3>2, <3>3 DEF TurnOf
  <2> QED BY <2>1, <2>2
<1>7. Solves(f)
  <2> DEFINE g == [turn \in 0 .. n |-> TurnOf(ends, f, turn)]
  <2>1. \A turn \in 0 .. n : f[turn] = g[turn]
    BY <1>6
  <2>2. f \in [0 .. n -> X] /\ g = [turn \in 0 .. n |-> g[turn]]
    BY <1>5
  <2> HIDE DEF g, X
  <2>3. f = g
    BY <2>1, <2>2, SameFunction
  <2> QED BY <2>3 DEF g
<1>8. Solves(CHOOSE h : Solves(h))
  <2> HIDE DEF Solves
  <2> QED BY <1>7, Zenon
<1>9. Solves(After(ends))
  BY <1>8 DEF After
<1> QED BY <1>9

LEMMA HalvesAre ==
  ASSUME NEW b \in Nat
  PROVE  /\ \A n \in 0 .. b : Halves(b)[n] = HalfOf(b, Halves(b), n)
         /\ \A n \in 0 .. b : Halves(b)[n] \in Nat
<1> DEFINE G == [n \in 1 .. b |-> [x \in Nat |-> x \div 2]]
           Solves(f) == f = [n \in 0 .. b |-> HalfOf(b, f, n)]
<1>1. \A x \in Nat : x \div 2 \in Nat
  OBVIOUS
<1>2. G \in [1 .. b -> [Nat -> Nat]]
  BY <1>1
<1>3. \E f : StepsOf(b, Nat, b, G, f)
  <2> HIDE DEF G
  <2> QED BY <1>2, StepwiseExists
<1>4. PICK f : f \in [0 .. b -> Nat] /\ \A k \in 0 .. b : f[k] = IF k = 0 THEN b ELSE G[k][f[k - 1]]
  BY <1>3, Zenon DEF StepsOf
<1>5. ASSUME NEW n \in 0 .. b PROVE f[n] = HalfOf(b, f, n)
  <2>1. CASE n = 0
    BY <1>4, <2>1 DEF HalfOf
  <2>2. CASE n # 0
    <3>1. n \in 1 .. b /\ n - 1 \in 0 .. b
      BY <2>2
    <3>2. f[n - 1] \in Nat /\ f[n] = G[n][f[n - 1]]
      BY <1>4, <2>2, <3>1
    <3>3. G[n][f[n - 1]] = f[n - 1] \div 2
      BY <3>1, <3>2
    <3> QED BY <2>2, <3>2, <3>3 DEF HalfOf
  <2> QED BY <2>1, <2>2
<1>6. Solves(f)
  <2> DEFINE g == [n \in 0 .. b |-> HalfOf(b, f, n)]
  <2>1. \A n \in 0 .. b : f[n] = g[n]
    BY <1>5
  <2>2. f \in [0 .. b -> Nat] /\ g = [n \in 0 .. b |-> g[n]]
    BY <1>4
  <2> HIDE DEF g
  <2>3. f = g
    BY <2>1, <2>2, SameFunction
  <2> QED BY <2>3 DEF g
<1>7. Solves(CHOOSE h : Solves(h))
  <2> HIDE DEF Solves
  <2> QED BY <1>6, Zenon
<1>8. Solves(Halves(b))
  BY <1>7 DEF Halves
<1> DEFINE h == Halves(b)
<1>9. \A n \in 0 .. b : h[n] = HalfOf(b, h, n)
  BY <1>8
<1> HIDE DEF h
<1> DEFINE typed == {n \in Nat : n <= b => h[n] \in Nat}
<1>10. 0 \in typed
  BY <1>9 DEF HalfOf
<1>11. ASSUME NEW n \in Nat, n \in typed PROVE n + 1 \in typed
  <2> SUFFICES ASSUME n + 1 <= b PROVE h[n + 1] \in Nat
    OBVIOUS
  <2>1. n + 1 \in 0 .. b /\ n + 1 # 0 /\ h[n] \in Nat
    BY <1>11
  <2>2. h[n + 1] = h[n] \div 2
    BY <1>9, <2>1 DEF HalfOf
  <2> QED BY <1>1, <2>1, <2>2
<1> HIDE DEF typed
<1>12. Nat \subseteq typed
  BY <1>10, <1>11, Induct
<1>13. \A n \in 0 .. b : h[n] \in Nat
  BY <1>12 DEF typed
<1> QED BY <1>9, <1>13 DEF h

\* What a pass comes to.
LEMMA PassEnds ==
  ASSUME m_run_rr \in Nat, numqueues \in Nat, NEW ends \in [1 .. numqueues -> BOOLEAN]
  PROVE  LET s == AllTurns(ends)
             served == Cardinality(s.served \cap Range(s.queues))
         IN  /\ Len(s.queues) \in 0 .. numqueues /\ served \in Nat
             /\ Halves(numqueues)[numqueues - Len(s.queues)] <= served
<1> DEFINE n == numqueues  a == After(ends)  h == Halves(n)
           Good(t) == /\ TurnInv(a[t], n, t) /\ Len(a[t].queues) \in 0 .. n
                      /\ h[n - Len(a[t].queues)] <= Cardinality(ToReach(a[t]))
           good == {t \in Nat : t <= n => Good(t)}
<1>1. \A t \in 0 .. n : a[t] = TurnOf(ends, a, t)
  BY AfterIs
<1>2. \A k \in 0 .. n : h[k] = HalfOf(n, h, k) /\ h[k] \in Nat
  BY HalvesAre
<1> HIDE DEF a, h
<1>3. 0 \in good
  <2>1. a[0] = PassStart(n)
    BY <1>1 DEF TurnOf
  <2>2. TurnInv(a[0], n, 0) /\ Len(a[0].queues) = n /\ Cardinality(ToReach(a[0])) = n
    BY <2>1, PassStarts
  <2>3. h[0] = n
    BY <1>2 DEF HalfOf
  <2>4. n - Len(a[0].queues) = 0
    BY <2>2
  <2> QED BY <2>2, <2>3, <2>4
<1>4. ASSUME NEW t \in Nat, t \in good PROVE t + 1 \in good
  <2> SUFFICES ASSUME t + 1 <= n PROVE Good(t + 1)
    OBVIOUS
  <2>1. Good(t) /\ t \in 0 .. n - 1 /\ t \in 0 .. n /\ t + 1 \in 0 .. n /\ t + 1 \in 1 .. n
    BY <1>4
  <2>2. a[t + 1] = ServeNext(ends[t + 1], a[t])
    BY <1>1, <2>1 DEF TurnOf
  <2>3. ends[t + 1] \in BOOLEAN
    BY <2>1
  <2>4. TurnInv(a[t], n, t) /\ Cardinality(ToReach(a[t])) \in Nat
    BY <2>1, ReachedIs
  <2> DEFINE k == n - Len(a[t].queues)
  <2>5. k \in 0 .. n
    BY <2>1
  <2>6. CASE ~ends[t + 1]
    <3>1. a[t + 1] = ServeNext(FALSE, a[t])
      BY <2>2, <2>3, <2>6
    <3>2. /\ TurnInv(a[t + 1], n, t + 1) /\ Len(a[t + 1].queues) = Len(a[t].queues)
          /\ Cardinality(ToReach(a[t])) <= Cardinality(ToReach(a[t + 1]))
      BY <2>1, <2>4, <3>1, ServedStays
    <3>3. Cardinality(ToReach(a[t + 1])) \in Nat
      BY <2>1, <3>2, ReachedIs
    <3> QED BY <1>2, <2>1, <2>4, <2>5, <3>2, <3>3
  <2>7. CASE ends[t + 1]
    <3>1. a[t + 1] = ServeNext(TRUE, a[t])
      BY <2>2, <2>3, <2>7
    <3>2. /\ TurnInv(a[t + 1], n, t + 1) /\ Len(a[t + 1].queues) = Len(a[t].queues) - 1
          /\ Cardinality(ToReach(a[t])) <= 2 * Cardinality(ToReach(a[t + 1])) + 1
      BY <2>1, <2>4, <3>1, ServedLeaves
    <3>3. Cardinality(ToReach(a[t + 1])) \in Nat
      BY <2>1, <3>2, ReachedIs
    <3>4. Len(a[t + 1].queues) \in Nat
      BY <3>2 DEF TurnInv, PassState
    <3>5. n - Len(a[t + 1].queues) = k + 1 /\ k + 1 \in 0 .. n /\ Len(a[t + 1].queues) \in 0 .. n
      BY <2>1, <3>2, <3>4
    <3>6. h[k + 1] = h[k] \div 2 /\ h[k] \in Nat
      <4>1. k + 1 # 0 /\ (k + 1) - 1 = k
        BY <2>5
      <4> HIDE DEF k
      <4> QED BY <1>2, <2>5, <3>5, <4>1 DEF HalfOf
    <3>7. h[k] <= 2 * Cardinality(ToReach(a[t + 1])) + 1
      BY <2>1, <2>4, <3>2, <3>3, <3>6
    <3>8. h[k] \div 2 <= Cardinality(ToReach(a[t + 1]))
      <4> DEFINE x == h[k]  y == Cardinality(ToReach(a[t + 1]))
      <4>1. x \in Nat /\ y \in Nat /\ x <= 2 * y + 1
        BY <3>3, <3>6, <3>7
      <4> HIDE DEF x, y
      <4>2. x \div 2 <= y
        BY <4>1
      <4> QED BY <4>2 DEF x, y
    <3> QED BY <3>2, <3>5, <3>6, <3>8
  <2> QED BY <2>3, <2>6, <2>7
<1> HIDE DEF good
<1>5. Nat \subseteq good
  BY <1>3, <1>4, Induct
<1>6. Good(n)
  BY <1>5 DEF good
<1> DEFINE s == a[n]
<1>7. AllTurns(ends) = s
  BY TurnsAre DEF a
<1>8. TurnInv(s, n, n) /\ n \in 0 .. n
  BY <1>6
<1>9. Window(s.queues, s.runcnt) = {}
  <2>1. s.runcnt = Len(s.queues) /\ Len(s.queues) \in Nat
    BY <1>8 DEF TurnInv, PassState
  <2> QED BY <2>1 DEF Window
<1>10. ToReach(s) = s.served \cap Range(s.queues)
  BY <1>9 DEF ToReach
<1>11. Cardinality(ToReach(s)) \in Nat
  BY <1>8, ReachedIs
<1>12. Len(s.queues) \in 0 .. n /\ h[n - Len(s.queues)] <= Cardinality(ToReach(s))
  BY <1>6
<1> HIDE DEF s
<1> QED BY <1>7, <1>10, <1>11, <1>12 DEF h

\* The numbers are numbers, no more leave than were there, and PassServes.
PassInv ==
  /\ numqueues \in Nat /\ m_run_rr \in Nat
  /\ lastPass \in [before : Nat, gone : Nat, served : Nat] /\ lastPass.gone <= lastPass.before
  /\ PassServes

LEMMA PassInitServes == PassInit => PassInv
<1> SUFFICES ASSUME PassInit PROVE PassInv
  OBVIOUS
<1>1. /\ numqueues = 0 /\ m_run_rr = 0 /\ lastPass \in [before : Nat, gone : Nat, served : Nat]
      /\ lastPass.before = 0 /\ lastPass.gone = 0 /\ lastPass.served = 0
  BY DEF PassInit
<1>2. Halves(0)[0] = 0
  BY HalvesAre DEF HalfOf
<1>3. PassServes
  BY <1>1, <1>2, HalvesServe
<1> QED BY <1>1, <1>3 DEF PassInv

LEMMA PassStep == PassInv /\ [PassNext]_passVars => PassInv'
<1> SUFFICES ASSUME PassInv, [PassNext]_passVars PROVE PassInv'
  OBVIOUS
<1>1. ASSUME NEW ends \in [1 .. numqueues -> BOOLEAN], RunQueues(ends) PROVE PassInv'
  <2> DEFINE s == AllTurns(ends)  served == Cardinality(s.served \cap Range(s.queues))
  <2>1. m_run_rr \in Nat /\ numqueues \in Nat
    BY DEF PassInv
  <2>2. /\ Len(s.queues) \in 0 .. numqueues /\ served \in Nat
        /\ Halves(numqueues)[numqueues - Len(s.queues)] <= served
    BY <2>1, PassEnds
  <2>3. /\ numqueues' = Len(s.queues) /\ m_run_rr' = (m_run_rr + 1) % Round
        /\ lastPass' = [before |-> numqueues, gone |-> numqueues - Len(s.queues), served |-> served]
    BY <1>1 DEF RunQueues
  <2>4. m_run_rr' \in Nat
    BY <2>1, <2>3, RoundAssumption
  <2> HIDE DEF s, served
  <2>5. numqueues - Len(s.queues) \in Nat /\ numqueues - Len(s.queues) <= numqueues /\ numqueues' \in Nat
    BY <2>1, <2>2, <2>3
  <2>6. /\ lastPass'.before = numqueues /\ lastPass'.gone = numqueues - Len(s.queues)
        /\ lastPass'.served = served /\ lastPass' \in [before : Nat, gone : Nat, served : Nat]
    BY <2>1, <2>2, <2>3, <2>5
  <2>7. PassServes'
    <3>1. Halves(lastPass'.before)[lastPass'.gone] <= lastPass'.served
      BY <2>2, <2>6
    <3> QED BY <3>1 DEF PassServes, Halves, HalfOf
  <2> QED BY <2>4, <2>5, <2>6, <2>7 DEF PassInv
<1>2. CASE AddMessageQueue
  <2>1. numqueues' \in Nat /\ m_run_rr' = m_run_rr /\ lastPass' = lastPass
    BY <1>2 DEF PassInv, AddMessageQueue
  <2> QED BY <2>1 DEF PassInv, PassServes
<1>3. CASE UNCHANGED passVars
  BY <1>3 DEF PassInv, PassServes, passVars
<1> QED BY <1>1, <1>2, <1>3 DEF PassNext

\* For any number of queues and wherever a pass begins (mqueuelist.cpp:143-254): PassServes.
THEOREM PassesServe == PassSpec => []PassServes
<1>1. PassInv => PassServes
  BY DEF PassInv
<1> QED BY <1>1, PassInitServes, PassStep, PTL DEF PassSpec

-----------------------------------------------------------------------------
(* AsyncDNS *)

\* No host sits in two entries, and an entry nobody asked for is never resolved.
OneEntryEach ==
  \A x, y \in Slot : m_cache[x].hostname = m_cache[y].hostname /\ x # y =>
    m_cache[x].hostname = NoHost
UnusedUnresolved == \A x \in Slot : m_cache[x].hostname = NoHost => ~m_cache[x].resolved

\* The entry the worker asks about is nobody else's to give away; once it is marked
\* resolved it may be given to another host, and is then unresolved again.
WorkerHolds ==
  /\ worker \in {"lookup", "publish"} => at \in Slot /\ m_cache[at].hostname # NoHost
  /\ worker = "lookup" =>
       ~m_cache[at].resolved /\ found = Address[m_cache[at].hostname]
  /\ worker = "publish" /\ m_cache[at].resolved =>
       found = Address[m_cache[at].hostname]

\* What is marked resolved is right, but for the entry between the worker's two writes.
RightBut ==
  \A x \in Slot :
    m_cache[x].resolved /\ ~(worker = "publish" /\ x = at) =>
      m_cache[x].addr = Address[m_cache[x].hostname]

CacheInv == DNSTypeOK /\ OneEntryEach /\ UnusedUnresolved /\ WorkerHolds /\ RightBut

-----------------------------------------------------------------------------

\* A caller of resolve starts at most one worker, and never moves one that runs.
LEMMA ThreadStarted ==
  ASSUME DNSTypeOK, m_thread_kill => ThreadGone, MakeSureThreadIsRunning
  PROVE  /\ m_thread_kill' \in BOOLEAN /\ at' \in 1..(CacheSize + 1)
         /\ \/ UNCHANGED <<worker, at>>
            \/ worker' = "scan" /\ ThreadGone
<1>1. 1 \in 1..(CacheSize + 1)
  BY CacheAssumption
<1>2. CASE m_thread_kill /\ m_thread_kill' = FALSE /\ worker' = "scan" /\ at' = 1
  BY <1>1, <1>2
<1>3. CASE UNCHANGED <<m_thread_kill, worker, at>>
  BY <1>3 DEF DNSTypeOK
<1> QED BY <1>2, <1>3 DEF MakeSureThreadIsRunning

LEMMA InitCache == DNSInit => CacheInv
<1> SUFFICES ASSUME DNSInit PROVE CacheInv
  OBVIOUS
<1>1. DNSTypeOK
  BY CacheAssumption DEF DNSInit, DNSTypeOK, IP
<1>2. OneEntryEach /\ UnusedUnresolved /\ WorkerHolds /\ RightBut
  BY DEF DNSInit, OneEntryEach, UnusedUnresolved, WorkerHolds, RightBut
<1> QED BY <1>1, <1>2 DEF CacheInv

LEMMA ResolveKnownKeeps ==
  ASSUME CacheInv, NEW h \in Host, NEW x \in Slot, m_thread_kill => ThreadGone,
         ResolveKnown(h, x), UNCHANGED <<found, main>>
  PROVE  CacheInv'
<1>1. UNCHANGED m_cache
  BY DEF ResolveKnown
<1>2. /\ m_thread_kill' \in BOOLEAN /\ at' \in 1..(CacheSize + 1)
      /\ UNCHANGED <<worker, at>> \/ (worker' = "scan" /\ ThreadGone)
  BY ThreadStarted DEF ResolveKnown, CacheInv, DNSTypeOK
<1>3. answer' \in [Host -> DNSReply \cup {None}]
  <2>1. m_cache[x].addr \in IP
    BY DEF CacheInv, DNSTypeOK
  <2>2. /\ Fail \in DNSReply /\ Wait \in DNSReply
        /\ Success(m_cache[x].addr) \in DNSReply
    BY <2>1 DEF Fail, Wait, Success, DNSReply
  <2> QED BY <2>2 DEF ResolveKnown, CacheInv, DNSTypeOK
<1>4. DNSTypeOK'
  BY <1>1, <1>2, <1>3 DEF CacheInv, DNSTypeOK
<1>5. OneEntryEach' /\ UnusedUnresolved'
  BY <1>1 DEF CacheInv, OneEntryEach, UnusedUnresolved
<1>6. WorkerHolds' /\ RightBut'
  BY <1>1, <1>2 DEF CacheInv, WorkerHolds, RightBut, ThreadGone
<1> QED BY <1>4, <1>5, <1>6 DEF CacheInv

LEMMA ResolveNewKeeps ==
  ASSUME CacheInv, NEW h \in Host, m_thread_kill => ThreadGone,
         ResolveNew(h), UNCHANGED <<found, main>>
  PROVE  CacheInv'
<1>1. CASE Victims = {}
  <2>1. answer' \in [Host -> DNSReply \cup {None}]
    <3>1. Fail \in DNSReply
      BY DEF Fail, DNSReply
    <3> QED BY <1>1, <3>1 DEF ResolveNew, CacheInv, DNSTypeOK
  <2>2. UNCHANGED <<m_cache, m_thread_kill, worker, at>>
    BY <1>1 DEF ResolveNew
  <2>3. DNSTypeOK'
    BY <2>1, <2>2 DEF CacheInv, DNSTypeOK
  <2> QED BY <2>2, <2>3
          DEF CacheInv, OneEntryEach, UnusedUnresolved, WorkerHolds, RightBut
<1>2. CASE Victims # {}
  <2> DEFINE fresh == [hostname |-> h, resolved |-> FALSE, addr |-> None]
  <2>1. PICK oi \in Victims : m_cache' = [m_cache EXCEPT ![oi] = fresh]
    BY <1>2 DEF ResolveNew
  <2>2. oi \in Slot /\ (m_cache[oi].hostname = NoHost \/ m_cache[oi].resolved)
    BY <2>1 DEF Victims, Unused
  <2>3. /\ m_thread_kill' \in BOOLEAN /\ at' \in 1..(CacheSize + 1)
        /\ UNCHANGED <<worker, at>> \/ (worker' = "scan" /\ ThreadGone)
    BY <1>2, ThreadStarted DEF ResolveNew, CacheInv
  <2>4. \A y \in Slot : m_cache[y].hostname # h
    BY DEF ResolveNew
  <2>5. h # NoHost
    BY CacheAssumption
  <2>6. m_cache'[oi] = fresh /\ \A y \in Slot \ {oi} : m_cache'[y] = m_cache[y]
    BY <2>1, <2>2 DEF CacheInv, DNSTypeOK
  <2>7. DNSTypeOK'
    <3>1. answer' \in [Host -> DNSReply \cup {None}]
      <4>1. Wait \in DNSReply
        BY DEF Wait, DNSReply
      <4> QED BY <1>2, <4>1 DEF ResolveNew, CacheInv, DNSTypeOK
    <3>2. None \in IP
      BY DEF IP
    <3>3. m_cache' \in [Slot -> [hostname : Host \cup {NoHost}, resolved : BOOLEAN, addr : IP]]
      BY <2>1, <3>2 DEF CacheInv, DNSTypeOK
    <3>4. worker' \in {"none", "scan", "lookup", "publish", "ended"}
      BY <2>3 DEF CacheInv, DNSTypeOK
    <3> QED BY <2>3, <3>1, <3>3, <3>4 DEF CacheInv, DNSTypeOK
  <2>8. OneEntryEach'
    BY <2>4, <2>6 DEF CacheInv, OneEntryEach
  <2>9. UnusedUnresolved'
    BY <2>5, <2>6 DEF CacheInv, UnusedUnresolved
  <2>10. WorkerHolds'
    BY <2>2, <2>3, <2>5, <2>6 DEF CacheInv, WorkerHolds, UnusedUnresolved, ThreadGone
  <2>11. RightBut'
    BY <2>3, <2>6 DEF CacheInv, RightBut, ThreadGone
  <2> QED BY <2>7, <2>8, <2>9, <2>10, <2>11 DEF CacheInv
<1> QED BY <1>1, <1>2

LEMMA MainKeeps ==
  ASSUME CacheInv, Destroy \/ Joined
  PROVE  CacheInv'
<1>1. UNCHANGED <<m_cache, worker, at, found>>
  BY DEF Destroy, Joined
<1>2. DNSTypeOK'
  BY DEF Destroy, Joined, CacheInv, DNSTypeOK
<1> QED BY <1>1, <1>2 DEF CacheInv, OneEntryEach, UnusedUnresolved, WorkerHolds, RightBut

\* The worker: only SetResolved and SetAddr write, and both to the entry it holds.
LEMMA WorkerKeeps ==
  ASSUME CacheInv, Worker
  PROVE  CacheInv'
<1>1. CASE Skip \/ ThreadEnd
  <2>1. UNCHANGED m_cache /\ worker = "scan" /\ worker' \in {"scan", "ended"}
    BY <1>1 DEF Skip, ThreadEnd
  <2>2. DNSTypeOK'
    <3>1. m_thread_kill' \in BOOLEAN
      BY <1>1 DEF Skip, ThreadEnd, CacheInv, DNSTypeOK
    <3>2. at' \in 1..(CacheSize + 1)
      BY <1>1, CacheAssumption DEF Skip, ThreadEnd, CacheInv, DNSTypeOK
    <3>3. UNCHANGED <<m_cache, found, answer, main>>
      BY <1>1 DEF Skip, ThreadEnd
    <3> QED BY <2>1, <3>1, <3>2, <3>3 DEF CacheInv, DNSTypeOK
  <2> QED BY <2>1, <2>2
          DEF CacheInv, OneEntryEach, UnusedUnresolved, WorkerHolds, RightBut
<1>2. CASE Lookup
  <2>1. at \in Slot /\ m_cache[at].hostname \in Host
    BY <1>2, CacheAssumption DEF Lookup, CacheInv, DNSTypeOK, Slot
  <2>2. found' \in IP
    BY <1>2, <2>1 DEF Lookup, IP
  <2>3. DNSTypeOK'
    BY <1>2, <2>2 DEF Lookup, CacheInv, DNSTypeOK
  <2>4. WorkerHolds'
    BY <1>2, <2>1 DEF Lookup, WorkerHolds
  <2> QED BY <1>2, <2>3, <2>4 DEF Lookup, CacheInv, OneEntryEach, UnusedUnresolved, RightBut
<1>3. CASE SetResolved
  <2>1. /\ at \in Slot /\ m_cache[at].hostname # NoHost
        /\ found = Address[m_cache[at].hostname]
    BY <1>3 DEF SetResolved, CacheInv, WorkerHolds
  <2>2. /\ \A y \in Slot \ {at} : m_cache'[y] = m_cache[y]
        /\ m_cache'[at] = [m_cache[at] EXCEPT !.resolved = TRUE]
    BY <1>3, <2>1 DEF SetResolved, CacheInv, DNSTypeOK
  <2>3. m_cache[at] \in [hostname : Host \cup {NoHost}, resolved : BOOLEAN, addr : IP]
    BY <2>1 DEF CacheInv, DNSTypeOK
  <2>4. /\ m_cache'[at].hostname = m_cache[at].hostname
        /\ m_cache'[at].resolved
    BY <2>2, <2>3
  <2>5. DNSTypeOK'
    BY <1>3, <2>1, <2>3 DEF SetResolved, CacheInv, DNSTypeOK
  <2>6. \A y \in Slot : m_cache'[y].hostname = m_cache[y].hostname
    BY <2>2, <2>4
  <2>7. OneEntryEach'
    BY <2>6 DEF CacheInv, OneEntryEach
  <2>8. UnusedUnresolved'
    BY <2>1, <2>2, <2>6 DEF CacheInv, UnusedUnresolved
  <2>9. WorkerHolds'
    BY <1>3, <2>1, <2>4 DEF SetResolved, WorkerHolds
  <2>10. RightBut'
    BY <1>3, <2>2 DEF SetResolved, CacheInv, RightBut
  <2> QED BY <2>5, <2>7, <2>8, <2>9, <2>10 DEF CacheInv
<1>4. CASE SetAddr
  <2>1. /\ at \in Slot
        /\ m_cache[at].resolved => found = Address[m_cache[at].hostname]
    BY <1>4 DEF SetAddr, CacheInv, WorkerHolds
  <2>2. /\ \A y \in Slot \ {at} : m_cache'[y] = m_cache[y]
        /\ m_cache'[at] = [m_cache[at] EXCEPT !.addr = found]
    BY <1>4, <2>1 DEF SetAddr, CacheInv, DNSTypeOK
  <2>3. m_cache[at] \in [hostname : Host \cup {NoHost}, resolved : BOOLEAN, addr : IP]
    BY <2>1 DEF CacheInv, DNSTypeOK
  <2>4. /\ m_cache'[at].hostname = m_cache[at].hostname
        /\ m_cache'[at].resolved = m_cache[at].resolved
        /\ m_cache'[at].addr = found
    BY <2>2, <2>3
  <2>5. DNSTypeOK'
    <3>1. at + 1 \in 1..(CacheSize + 1)
      BY <2>1, CacheAssumption DEF Slot
    <3> QED BY <1>4, <2>1, <2>3, <3>1 DEF SetAddr, CacheInv, DNSTypeOK
  <2>6. \A y \in Slot : m_cache'[y].hostname = m_cache[y].hostname
    BY <2>2, <2>4
  <2>7. OneEntryEach'
    BY <2>6 DEF CacheInv, OneEntryEach
  <2>8. UnusedUnresolved'
    <3>1. ASSUME NEW y \in Slot, m_cache'[y].hostname = NoHost PROVE ~m_cache'[y].resolved
      <4>1. y # at
        BY <3>1, <2>4, <1>4 DEF SetAddr, CacheInv, WorkerHolds
      <4>2. m_cache'[y] = m_cache[y]
        BY <2>2, <4>1
      <4> QED BY <3>1, <4>2 DEF CacheInv, UnusedUnresolved
    <3> QED BY <3>1 DEF UnusedUnresolved
  <2>9. WorkerHolds'
    BY <1>4 DEF SetAddr, WorkerHolds
  <2>10. RightBut'
    BY <1>4, <2>1, <2>2, <2>4 DEF SetAddr, CacheInv, RightBut
  <2> QED BY <2>5, <2>7, <2>8, <2>9, <2>10 DEF CacheInv
<1> QED BY <1>1, <1>2, <1>3, <1>4 DEF Worker

LEMMA NextCache == CacheInv /\ [DNSNext]_dnsVars => CacheInv'
<1> SUFFICES ASSUME CacheInv, [DNSNext]_dnsVars PROVE CacheInv'
  OBVIOUS
<1>1. ASSUME NEW h \in Host, Resolve(h) PROVE CacheInv'
  BY <1>1, ResolveKnownKeeps, ResolveNewKeeps DEF Resolve
<1>2. CASE Destroy \/ Joined
  BY <1>2, MainKeeps
<1>3. CASE Worker
  BY <1>3, WorkerKeeps
<1>4. CASE UNCHANGED dnsVars
  BY <1>4 DEF dnsVars, CacheInv, DNSTypeOK, OneEntryEach, UnusedUnresolved, WorkerHolds, RightBut
<1> QED BY <1>1, <1>2, <1>3, <1>4 DEF DNSNext

\* The inductive invariant of the cache and of the worker that fills it, kept by
\* every interleaving of resolve with the worker's two writes (asyncdns.cpp).
THEOREM CacheInvariant == DNSSpec => []CacheInv
BY InitCache, NextCache, PTL DEF DNSSpec

\* SettledCacheRight: with no worker running, what the cache holds as resolved is the
\* right address of the host it is held for, and no host is held twice.
THEOREM SettledCacheIsRight == DNSSpec => []SettledCacheRight
<1>1. CacheInv => SettledCacheRight
  BY DEF CacheInv, SettledCacheRight, OneEntryEach, RightBut, ThreadGone
<1> QED BY <1>1, CacheInvariant, PTL
=============================================================================
