-------------------------------- MODULE Mesh --------------------------------
(***************************************************************************)
(* The network of C_MessageQueueLists: broadcasts flood it, each node       *)
(* remembers on which queue it first saw an id, and a routed reply walks    *)
(* those routes back to the node that drew the id.                          *)
(*                                                                         *)
(* A queue, its connection and what the peer has not read yet are one set   *)
(* of messages per direction: message_prio reorders kinds of messages, so   *)
(* no order is assumed.  Route tables are sets of ids (RouteTable shows     *)
(* that a table is one as long as it does not overflow).                    *)
(***************************************************************************)
EXTENDS Integers, FiniteSets

CONSTANTS
  Node,
  Link,        \* pairs of nodes that may hold a connection
  Guid,        \* message ids
  MaxTtl,      \* m_max_ttl, 6 in the program
  Relays,      \* nodes that rebroadcast: doRouting, and g_keydist_flags&4 for keys
  Forwards,    \* nodes that pass replies on: all, but for KEYDIST_REPLY
  Lossy,       \* a full queue may drop messages
  MaxBreaks    \* bound: queues deleted in a behaviour

DefaultTtl == 96   \* G_DEFAULT_TTL, also G_MAX_TTL

ASSUME LinkAssumption ==
  /\ Link \subseteq Node \X Node
  /\ \A e \in Link : e[1] # e[2] /\ <<e[2], e[1]>> \in Link
ASSUME TtlAssumption == MaxTtl \in 2..DefaultTtl
ASSUME FlagAssumption ==
  Relays \subseteq Node /\ Forwards \subseteq Node /\ Lossy \in BOOLEAN /\ MaxBreaks \in Nat

VARIABLES
  up,           \* [Node -> SUBSET Node]: the peers a node has a queue for
  m_local_route,\* [Node -> SUBSET Guid]: ids the node drew itself
  routes,       \* [Node -> [Node -> SUBSET Guid]]: ids first seen on that queue
  chan,         \* [Node -> [Node -> SUBSET Message]]: on the way between two nodes
  heard,        \* history: how often m_got_message got the broadcast
  depth,        \* history: links the first copy had crossed
  answers,      \* history: replies that m_got_message got
  replied,      \* history: the replies sent; the bound is one per node and id
  m_stat_route_errors,
  breaks,       \* history: queues deleted
  forgotten     \* history: how often the route of an id went with its queue

vars == <<up, m_local_route, routes, chan, heard, depth, answers,
          replied, m_stat_route_errors, breaks, forgotten>>
history == <<heard, depth, answers, replied>>

\* from is the node that wrote the message, hops the links it has crossed on
\* arrival; the program carries neither.
Message ==
  [kind : {"bcast", "reply"}, guid : Guid, from : Node, ttl : 0..255, hops : Nat]

\* Every message under way is one that the header can carry (message_ttl is one
\* byte), and the tables hold ids of this network only.
TypeOK ==
  /\ up \in [Node -> SUBSET Node]
  /\ m_local_route \in [Node -> SUBSET Guid]
  /\ routes \in [Node -> [Node -> SUBSET Guid]]
  /\ chan \in [Node -> [Node -> SUBSET Message]]
  /\ heard \in [Node -> [Guid -> Nat]]
  /\ depth \in [Node -> [Guid -> Nat]]
  /\ answers \subseteq [at : Node, guid : Guid, from : Node]
  /\ replied \subseteq Node \X Guid
  /\ m_stat_route_errors \in [Node -> Nat]
  /\ breaks \in Nat
  /\ forgotten \in [Node -> [Guid -> Nat]]

Peers(n) == {p \in Node : <<n, p>> \in Link}

Init ==
  /\ up = [n \in Node |-> Peers(n)]
  /\ m_local_route = [n \in Node |-> {}]
  /\ routes = [n \in Node |-> [p \in Node |-> {}]]
  /\ chan = [n \in Node |-> [p \in Node |-> {}]]
  /\ heard = [n \in Node |-> [g \in Guid |-> 0]]
  /\ depth = [n \in Node |-> [g \in Guid |-> 0]]
  /\ answers = {}
  /\ replied = {}
  /\ m_stat_route_errors = [n \in Node |-> 0]
  /\ breaks = 0
  /\ forgotten = [n \in Node |-> [g \in Guid |-> 0]]

-----------------------------------------------------------------------------

\* find_route: -1 is g \in m_local_route[n], r >= 0 a queue of Via(n, g), -2 neither.
Via(n, g) == {p \in up[n] : g \in routes[n][p]}
\* Mutants of Knows: one of the two tables is not looked at.
KnowsOwn(n, g) == g \in m_local_route[n]
KnowsLearnt(n, g) == Via(n, g) # {}

Knows(n, g) == g \in m_local_route[n] \/ Via(n, g) # {}

\* Mutant of Put: the loop over the queues ends after the first.
PutFirst(n, to, m) ==
  [p \in Node |-> IF to # {} /\ p = CHOOSE q \in to : TRUE THEN chan[n][p] \cup {m}
                  ELSE chan[n][p]]

\* The queues of n as they are once m is put in those to the peers in to.
Put(n, to, m) == [p \in Node |-> IF p \in to THEN chan[n][p] \cup {m} ELSE chan[n][p]]

\* send() of a broadcast: a new id, which no node knows.
Broadcast(n, g) ==
  /\ \A o \in Node : g \notin m_local_route[o]
  /\ m_local_route' = [m_local_route EXCEPT ![n] = @ \cup {g}]
  /\ chan' = [chan EXCEPT ![n] =
       Put(n, up[n], [kind |-> "bcast", guid |-> g, from |-> n, ttl |-> DefaultTtl,
                   hops |-> 1])]
  /\ UNCHANGED <<up, routes, history, m_stat_route_errors, breaks, forgotten>>

\* send() of a reply to a broadcast that n got.
Reply(n, g) ==
  /\ heard[n][g] > 0 /\ <<n, g>> \notin replied
  /\ replied' = replied \cup {<<n, g>>}
  /\ LET m == [kind |-> "reply", guid |-> g, from |-> n, ttl |-> DefaultTtl, hops |-> 1]
     IN  IF Via(n, g) # {}
         THEN /\ \E r \in Via(n, g) : chan' = [chan EXCEPT ![n] = Put(n, {r}, m)]
              /\ UNCHANGED m_stat_route_errors
         ELSE /\ m_stat_route_errors' = [m_stat_route_errors EXCEPT ![n] = @ + 1]
              /\ UNCHANGED chan
  /\ UNCHANGED <<up, m_local_route, routes, heard, depth, answers, breaks, forgotten>>

-----------------------------------------------------------------------------
(* run(): node n handles message m of its queue for p.                     *)

Taken(n, p, m) == [chan EXCEPT ![p][n] = @ \ {m}]

\* Mutant of DropDuplicate: the route of a duplicate is recorded too.
DropDuplicateLearning(n, p, m) ==
  /\ m.kind = "bcast" /\ Knows(n, m.guid)
  /\ chan' = Taken(n, p, m)
  /\ routes' = [routes EXCEPT ![n][p] = @ \cup {m.guid}]
  /\ UNCHANGED <<up, m_local_route, history, m_stat_route_errors, breaks, forgotten>>

\* A broadcast whose id n knows already is a duplicate.
DropDuplicate(n, p, m) ==
  /\ m.kind = "bcast" /\ Knows(n, m.guid)
  /\ chan' = Taken(n, p, m)
  /\ UNCHANGED <<up, m_local_route, routes, history, m_stat_route_errors, breaks, forgotten>>

Stamped(m, ttl) == [m EXCEPT !.ttl = ttl, !.hops = @ + 1]

\* Mutant of Relayed: the ttl is not cut.
RelayedUncut(m) == Stamped(m, m.ttl - 1)

\* The copy n passes on: the ttl is first cut to m_max_ttl.
Relayed(m) == Stamped(m, (IF m.ttl > MaxTtl THEN MaxTtl ELSE m.ttl) - 1)

GotBroadcast(n, p, m) ==
  /\ m.kind = "bcast" /\ ~Knows(n, m.guid)
  /\ routes' = [routes EXCEPT ![n][p] = @ \cup {m.guid}]
  /\ chan' = IF m.ttl > 1 /\ n \in Relays
             THEN [Taken(n, p, m) EXCEPT ![n] = Put(n, up[n] \ {p}, Relayed(m))]
             ELSE Taken(n, p, m)
  /\ heard' = [heard EXCEPT ![n][m.guid] = @ + 1]
  /\ depth' = [depth EXCEPT ![n][m.guid] = m.hops]
  /\ UNCHANGED <<up, m_local_route, answers, replied, m_stat_route_errors, breaks, forgotten>>

\* A reply to a broadcast of n's own goes to m_got_message.
GotReply(n, p, m) ==
  /\ m.kind = "reply" /\ m.guid \in m_local_route[n]
  /\ chan' = Taken(n, p, m)
  /\ answers' = answers \cup {[at |-> n, guid |-> m.guid, from |-> m.from]}
  /\ UNCHANGED <<up, m_local_route, routes, heard, depth, replied, m_stat_route_errors,
                 breaks, forgotten>>

\* message_ttl is one byte: 0 becomes 255.
Passed(m) == Stamped(m, (m.ttl - 1) % 256)

\* Mutant of ForwardReply: the limit of broadcasts is applied to a reply.
ForwardReplyLimited(n, p, m) ==
  /\ m.kind = "reply" /\ m.guid \notin m_local_route[n]
  /\ \E r \in Via(n, m.guid) \ {p} :
       chan' = IF n \in Forwards /\ Passed(m).ttl \in 1..MaxTtl
               THEN [Taken(n, p, m) EXCEPT ![n] = Put(n, {r}, Passed(m))]
               ELSE Taken(n, p, m)
  /\ UNCHANGED <<up, m_local_route, routes, history, m_stat_route_errors, breaks, forgotten>>

ForwardReply(n, p, m) ==
  /\ m.kind = "reply" /\ m.guid \notin m_local_route[n]
  /\ \E r \in Via(n, m.guid) \ {p} :
       chan' = IF n \in Forwards /\ Passed(m).ttl > 0
               THEN [Taken(n, p, m) EXCEPT ![n] = Put(n, {r}, Passed(m))]
               ELSE Taken(n, p, m)
  /\ UNCHANGED <<up, m_local_route, routes, history, m_stat_route_errors, breaks, forgotten>>

StrayReply(n, p, m) ==
  /\ m.kind = "reply" /\ m.guid \notin m_local_route[n]
  /\ Via(n, m.guid) \subseteq {p}
  /\ chan' = Taken(n, p, m)
  /\ m_stat_route_errors' = [m_stat_route_errors EXCEPT ![n] = @ + 1]
  /\ UNCHANGED <<up, m_local_route, routes, history, breaks, forgotten>>

Receive(n, p, m) ==
  /\ p \in up[n] /\ m \in chan[p][n]
  /\ \/ DropDuplicate(n, p, m) \/ GotBroadcast(n, p, m)
     \/ GotReply(n, p, m) \/ ForwardReply(n, p, m) \/ StrayReply(n, p, m)

-----------------------------------------------------------------------------

\* send_message on a full queue loses a message.
Lose(n, p, m) ==
  /\ Lossy /\ m \in chan[n][p]
  /\ chan' = [chan EXCEPT ![n][p] = @ \ {m}]
  /\ UNCHANGED <<up, m_local_route, routes, history, m_stat_route_errors, breaks, forgotten>>

Forget(n, ids) ==
  forgotten' = [forgotten EXCEPT ![n] = [g \in Guid |-> @[g] + IF g \in ids THEN 1 ELSE 0]]

\* Mutant of DeleteQueue: all queues of n share the tables that go with it.
DeleteQueueAndTables(n, p) ==
  /\ p \in up[n] /\ breaks < MaxBreaks
  /\ up' = [up EXCEPT ![n] = @ \ {p}]
  /\ routes' = [routes EXCEPT ![n] = [q \in Node |-> {}]]
  /\ \E sent \in SUBSET chan[n][p] :
       chan' = [chan EXCEPT ![n][p] = sent, ![p][n] = {}]
  /\ breaks' = breaks + 1
  /\ Forget(n, routes[n][p])
  /\ UNCHANGED <<m_local_route, history, m_stat_route_errors>>

\* n finds its connection to p closed and deletes the queue, the routes learnt on
\* it and what it did not write; what is in the socket may still reach p.
DeleteQueue(n, p) ==
  /\ p \in up[n] /\ breaks < MaxBreaks
  /\ up' = [up EXCEPT ![n] = @ \ {p}]
  /\ routes' = [routes EXCEPT ![n][p] = {}]
  /\ \E sent \in SUBSET chan[n][p] :
       chan' = [chan EXCEPT ![n][p] = sent, ![p][n] = {}]
  /\ breaks' = breaks + 1
  /\ Forget(n, routes[n][p])
  /\ UNCHANGED <<m_local_route, history, m_stat_route_errors>>

\* A new connection, with empty queues and route tables, once both ends are gone.
AddQueue(n, p) ==
  /\ <<n, p>> \in Link /\ p \notin up[n] /\ n \notin up[p]
  /\ up' = [up EXCEPT ![n] = @ \cup {p}, ![p] = @ \cup {n}]
  /\ chan' = [chan EXCEPT ![n][p] = {}, ![p][n] = {}]
  /\ UNCHANGED <<m_local_route, routes, history, m_stat_route_errors, breaks, forgotten>>

Next ==
  \/ \E n \in Node, g \in Guid : Broadcast(n, g) \/ Reply(n, g)
  \/ \E n, p \in Node : \E m \in chan[p][n] : Receive(n, p, m)
  \/ \E n, p \in Node : \E m \in chan[n][p] : Lose(n, p, m)
  \/ \E n, p \in Node : DeleteQueue(n, p) \/ AddQueue(n, p)

Spec == Init /\ [][Next]_vars

\* Every event loop comes round and serves every queue of the node.
Fairness ==
  \A n, p \in Node, g \in Guid :
    WF_vars(\E m \in chan[p][n] : m.guid = g /\ Receive(n, p, m))
FairSpec == Spec /\ Fairness

-----------------------------------------------------------------------------
(* What the routing guarantees.                                            *)

InFlight == UNION {chan[n][p] : n, p \in Node}

\* A node has one route for an id: two queues never both claim it, and the route
\* for an id of its own is never a queue.
UniqueRoute ==
  \A n \in Node, g \in Guid :
    /\ \A p, q \in Via(n, g) : p = q
    /\ g \in m_local_route[n] => Via(n, g) = {}

\* No loop of the network brings a broadcast back to m_got_message of its origin.
OwnNotHeard == \A n \in Node : \A g \in m_local_route[n] : heard[n][g] = 0

\* "each node can track which broadcast messages it has seen" (waste design.doc):
\* m_got_message gets a broadcast once, over however many paths it comes.
HeardOnce == \A n \in Node, g \in Guid : heard[n][g] <= 1
HeardOnceUnbroken == breaks = 0 => HeardOnce

\* message_ttl stays in 1..G_MAX_TTL on every path, through the clamp to m_max_ttl
\* and the one-byte decrement: no peer closes the connection over it.
TtlInRange == \A m \in InFlight : m.ttl \in 1..DefaultTtl

\* No copy of a broadcast is handled farther than m_max_ttl links from its origin.
ReachBounded == \A n \in Node, g \in Guid : depth[n][g] <= MaxTtl

\* With a queue go the routes learnt on it, and a broadcast still under way elsewhere is
\* then new to the node: it is handled again, but only once for each time that very route
\* went, whatever other queues of the node or queues elsewhere end, come back with empty
\* tables and repeat it; and never at its origin.
HeardAgainIfForgotten ==
  /\ \A n \in Node, g \in Guid : heard[n][g] <= 1 + forgotten[n][g]
  /\ OwnNotHeard

\* While no connection is lost every route leads one link nearer to the origin ...
RoutesLeadHome ==
  breaks = 0 =>
    \A n, p \in Node : \A g \in routes[n][p] :
      /\ depth[n][g] = depth[p][g] + 1
      /\ Knows(p, g)

\* ... so no reply is ever without a route.
NoStrayReplies == breaks = 0 => \A n \in Node : m_stat_route_errors[n] = 0

\* Every reply arrives ("routed replies that follow the path of the broadcast
\* message back to the sender").
RepliesArrive ==
  \A n \in Node, g \in Guid :
    <<n, g>> \in replied ~> \E o \in Node : [at |-> o, guid |-> g, from |-> n] \in answers

\* Every node hears every broadcast ("As long as the user can connect to any other
\* host on the WASTE network, the user can access all of the services").
EveryoneHears ==
  \A n, o \in Node, g \in Guid : n # o /\ g \in m_local_route[o] ~> heard[n][g] > 0

\* Without broken connections the mesh is a flood.
Flooding == INSTANCE Flood WITH
  drawn <- m_local_route,
  reached <- [n \in Node |-> {g \in Guid : heard[n][g] > 0}],
  answered <- answers
ImplementsFlood == Flooding!Spec
=============================================================================
