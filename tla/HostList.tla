------------------------------ MODULE HostList ------------------------------
(***************************************************************************)
(* The hosts and the connections to them: the list of hosts g_lvnetcons,   *)
(* which netq.cpp, netkern.cpp, C_MessageQueueList::run and the Network    *)
(* window change on the main thread, with the access list of util.cpp.     *)
(* What happens on a connection is Connection; here it fails, is refused,  *)
(* is made, and ends.  A row holds a pointer to its connection.  Addresses *)
(* are numbers of Width bits, host names are larger numbers.  The list is  *)
(* the Windows program's; the server and the terminal program keep only    *)
(* the connections.                                                        *)
(***************************************************************************)
EXTENDS Integers, Sequences, SequencesExt, FiniteSetsExt

CONSTANTS Width,         \* bits of an address
          Private,       \* the private networks, sets of addresses
          Loopback,      \* 127.*
          Own,           \* the addresses of this host's interfaces
          Hosts,         \* the addresses hosts are heard of at
          Resolves,      \* what host names resolve to, or NoIp
          ForceIp,       \* g_forceip_addr, or NoIp
          AccessLists,   \* the access lists the user may set
          Best, Told, Middle, FailCost, BreakCost,  \* 100, 90, 50, 8 and 10
          Keepup,        \* g_keepup
          MaxRows, MaxCons, MaxPings, MaxUser   \* bounds on rows, connections, pings and keys

NoIp == -1
NoCon == 0
Incoming == 0     \* no port: "(incoming)"

\* An address is no name.
ASSUME HostsAssumption ==
    /\ MaxCons \in Nat /\ {Best, Told, Middle, FailCost, BreakCost} \subseteq Nat
    /\ (Hosts \cup Own \cup {NoIp} \cup Range(Resolves)) \cap DOMAIN Resolves = {}

VARIABLES
    rows,         \* g_lvnetcons: host, port, rating and connection
    g_new_net,    \* the connections being made
    queues,       \* the connections of the queues
    access,       \* is the access list used; its entries
    known,        \* the addresses that were put in the list and have no reason to be gone
    passedOver,   \* a host was tried in the place of another
    pings, inputs \* numbers of each

hostVars == <<rows, g_new_net, queues, access, known, passedOver, pings, inputs>>

Row(host, port, rat, con) == [host |-> host, port |-> port, rat |-> rat, con |-> con]
Remote(host) == IF host \in DOMAIN Resolves THEN Resolves[host] ELSE host
Live == Range(g_new_net) \cup Range(queues)
Ids == {c.id : c \in Live}
RowOf(con) == {x \in 1 .. Len(rows) : rows[x].con = con.id}
Clamped(rating) == IF rating > Best THEN Best ELSE IF rating < 0 THEN 0 ELSE rating

-----------------------------------------------------------------------------
(* util.cpp: the access list *)

\* 0xFFFFFFFF >> maskbits: a shift by the whole width, undefined in C++, leaves the number as
\* it is on x86.
FreeBits(maskbits) == Width - (maskbits % Width)
InNet(ip, item) == ip \div 2^FreeBits(item.maskbits) = item.ip \div 2^FreeBits(item.maskbits)
allowIP(ip) ==
    LET matching == {x \in 1 .. Len(access.list) : InNet(ip, access.list[x])}
    IN  access.used => \A x \in matching : x = Min(matching) => access.list[x].allow

isaccessable(ip, qs) ==
    \/ access.used
    \/ /\ ip \notin Loopback
       /\ \A net \in Private : ip \in net /\ qs # <<>> =>
              LET inside == {q \in 1 .. Len(qs) : qs[q].interface \in net}
              IN  IF inside # {} THEN qs[Min(inside)].interface # ip
                  ELSE ForceIp \in net /\ ForceIp # ip

-----------------------------------------------------------------------------
(* netq.cpp *)

May(ip, qs) == ip # NoIp /\ isaccessable(ip, qs) /\ allowIP(ip)

\* Mutant of AddToNetq: a host that belongs behind all others is not put there.
AddToNetqAhead(list, qs, ip, port, rated, replace) ==
    LET same == {x \in 1 .. Len(list) : list[x].host = ip /\ list[x].port = port}
        better == {x \in 1 .. Len(list) : Clamped(rated) > list[x].rat}
        rest == IF same = {} THEN list ELSE RemoveAt(list, Min(same))
    IN  IF ~May(ip, qs) \/ (same # {} /\ list[Min(same)].con # NoCon) THEN list
        ELSE IF list # <<>> /\ better = {} THEN rest
        ELSE InsertAt(rest, Min(better \cup {Len(rest) + 1}), Row(ip, port, Clamped(rated), NoCon))
\* A row of the host that has a connection stays as it is.  One without is rated one better at
\* a time, and only up to Middle; whatever its new rating, it goes where the one asked for
\* belongs, or to the end.
AddToNetq(list, qs, ip, port, rated, replace) ==
    LET rating == Clamped(rated)
        same == {x \in 1 .. Len(list) : list[x].host = ip /\ list[x].port = port}
        x0 == IF same = {} THEN Len(list) ELSE Min(same)
        better == {x \in 1 .. x0 : rating > list[x].rat}
        irat == list[x0].rat
        newrat == IF same = {} \/ irat >= rating THEN rating ELSE IF irat < Middle THEN irat + 1 ELSE irat
        rest == IF same = {} THEN list ELSE RemoveAt(list, x0)
        bestpos == IF better = {} THEN Len(rest) + 1 ELSE Min(better)
    IN  IF ~May(ip, qs) \/ (same # {} /\ list[x0].con # NoCon) THEN list
        ELSE IF same # {} /\ ~replace /\ newrat < (IF x0 = 1 THEN -1 ELSE list[x0 - 1].rat)
             THEN [list EXCEPT ![x0].rat = newrat]
        ELSE InsertAt(rest, bestpos, Row(ip, port, newrat, NoCon))

\* LoadNetQ reads what SaveNetQ wrote: addresses with ports, in their order, with their ratings.
Reloaded ==
    LET upTo[n \in 0 .. Len(rows)] ==
            IF n = 0 THEN <<>>
            ELSE IF rows[n].port = Incoming \/ rows[n].host \in DOMAIN Resolves THEN upTo[n - 1]
            ELSE AddToNetq(upTo[n - 1], <<>>, rows[n].host, rows[n].port, rows[n].rat, TRUE)
    IN  upTo[Len(rows)]

InList(list) == {list[x].host : x \in 1 .. Len(list)}

-----------------------------------------------------------------------------
(* Operations *)

HostsInit ==
    /\ rows = <<>> /\ g_new_net = <<>> /\ queues = <<>> /\ known = {} /\ passedOver = FALSE
    /\ access \in AccessLists /\ pings = 0 /\ inputs = 0

New(host, port) == [id |-> Min((1 .. MaxCons) \ Ids), host |-> host, port |-> port,
                    interface |-> NoIp, open |-> TRUE]
CanConnect == Cardinality(Ids) < MaxCons
Room == Len(rows) < MaxRows
\* AddConnection, into a list
AddConnection(list, host, port, rating) ==
    /\ CanConnect /\ g_new_net' = Append(g_new_net, New(host, port))
    /\ rows' = <<Row(host, port, rating, New(host, port).id)>> \o list

\* MESSAGE_PING of a host that listens, but for this host's side of the connection.
GotPing ==
    /\ pings < MaxPings /\ pings' = pings + 1 /\ Room /\ queues # <<>>
    /\ \E ip \in Hosts \cup Own, q \in 1 .. Len(queues) :
        /\ queues[q].interface # ip
        /\ rows' = AddToNetq(rows, queues, ip, 1, Told, FALSE)
        /\ known' = known \cup (IF May(ip, queues) THEN {ip} ELSE {})
    /\ UNCHANGED <<g_new_net, queues, access, passedOver, inputs>>

\* ListenToSocket
Accept ==
    /\ CanConnect /\ Room
    /\ \E ip \in Hosts :
        /\ allowIP(ip)
        /\ g_new_net' = Append(g_new_net, New(ip, Incoming))
        /\ rows' = <<Row(ip, Incoming, Best, New(ip, Incoming).id)>> \o rows
    /\ UNCHANGED <<queues, access, known, passedOver, pings, inputs>>

\* A file transfer asks for a connection to a peer that cannot connect to this one.
ConnectToHostIfOK ==
    /\ CanConnect /\ Room /\ inputs < MaxUser /\ inputs' = inputs + 1
    /\ \E ip \in Hosts \cup Own :
        LET of == {x \in 1 .. Len(rows) : rows[x].host = ip}
        IN  /\ \A x \in of : rows[x].con = NoCon
            /\ May(ip, queues)
            /\ g_new_net' = Append(g_new_net, New(ip, 1))
            /\ rows' = IF of = {} THEN <<Row(ip, 1, Told, New(ip, 1).id)>> \o rows
                       ELSE [rows EXCEPT ![Min(of)].con = New(ip, 1).id]
    /\ UNCHANGED <<queues, access, known, passedOver, pings>>

\* The first part of HandleNewOutCons.  Eligible hosts come from the first one on, each better
\* than those before; what is connected to is the last host that was looked at, and that is
\* not always the one chosen.
Eligible(x) ==
    /\ rows[x].con = NoCon /\ rows[x].host \notin DOMAIN Resolves /\ May(rows[x].host, queues)
    /\ \A i \in 1 .. Len(rows) : rows[i].con # NoCon => rows[i].host # rows[x].host
Chosen ==
    LET eligible == {x \in 1 .. Len(rows) : Eligible(x)}
        best == {x \in eligible : \A y \in eligible : rows[y].rat <= rows[x].rat}
    IN  IF best = {} THEN {} ELSE {Min(best)}
\* The rows whose text is taken while max is the best so far.
LookedAtAfter(max) == {x \in max + 1 .. Len(rows) : rows[x].con = NoCon /\ rows[x].rat > rows[max].rat}
Looked(max) == IF LookedAtAfter(max) = {} THEN max ELSE Max(LookedAtAfter(max))
KeepUp ==
    /\ Len(queues) + Len(g_new_net) < Keepup
    /\ \E x \in Chosen :
        /\ AddConnection(RemoveAt(rows, x), rows[Looked(x)].host, rows[Looked(x)].port, rows[x].rat)
        /\ passedOver' = (passedOver \/ Looked(x) # x)
    /\ UNCHANGED <<queues, access, known, pings, inputs>>

\* The connection at place i of g_new_net fails.  What its row was rated counts for less with
\* the others around; which of them is best is found without the row now in its place.
FailedRating(a) ==
    LET rest == RemoveAt(rows, a)
        others == {rest[i].rat : i \in (1 .. Len(rest)) \ {a}}
        irat == IF queues # <<>> THEN rows[a].rat - FailCost ELSE Max(others \cup {0}) - 1
    IN  IF irat < 0 THEN 0 ELSE irat
Fails ==
    /\ \E i \in 1 .. Len(g_new_net) :
        LET c == g_new_net[i]
            again == IF c.port = Incoming THEN rows
                     ELSE LET a == Min(RowOf(c))
                          IN  AddToNetq(RemoveAt(rows, a), queues, Remote(c.host), c.port, FailedRating(a), TRUE)
            after == IF RowOf(c) = {} THEN rows
                     ELSE IF c.port = Incoming THEN RemoveAt(rows, Min(RowOf(c))) ELSE again
        IN  /\ g_new_net' = RemoveAt(g_new_net, i) /\ rows' = after
            /\ known' = IF May(Remote(c.host), queues) THEN known ELSE known \ {Remote(c.host)}
    /\ UNCHANGED <<queues, access, passedOver, pings, inputs>>
\* What is not a host of this program, or not in the access list now, loses its row.
Refused ==
    /\ \E i \in 1 .. Len(g_new_net) :
        LET c == g_new_net[i]
        IN  /\ c.open /\ Remote(c.host) # NoIp
            /\ g_new_net' = RemoveAt(g_new_net, i)
            /\ rows' = IF RowOf(c) = {} THEN rows ELSE RemoveAt(rows, Min(RowOf(c)))
            /\ known' = known \ {Remote(c.host)}
    /\ UNCHANGED <<queues, access, passedOver, pings, inputs>>
\* The row gets the address for the name.
Connected ==
    /\ \E i \in 1 .. Len(g_new_net), interface \in Own :
        LET c == g_new_net[i]
        IN  /\ c.open /\ Remote(c.host) # NoIp /\ allowIP(Remote(c.host)) /\ Remote(c.host) # interface
            /\ g_new_net' = RemoveAt(g_new_net, i)
            /\ queues' = Append(queues, [c EXCEPT !.interface = interface])
            /\ rows' = [x \in 1 .. Len(rows) |->
                           IF x \notin RowOf(c) THEN rows[x]
                           ELSE Row(Remote(c.host), c.port, IF c.port = Incoming THEN rows[x].rat ELSE Best, c.id)]
    /\ UNCHANGED <<access, known, passedOver, pings, inputs>>
\* Mutant of QueueEnds: the rows of hosts that connected to this one stay, too.
QueueEndsKept ==
    /\ \E q \in 1 .. Len(queues) : queues' = RemoveAt(queues, q)
    /\ UNCHANGED <<rows, g_new_net, access, known, passedOver, pings, inputs>>
\* C_MessageQueueList::run; nothing may have been sent or received.
QueueEnds ==
    /\ \E q \in 1 .. Len(queues), idle \in BOOLEAN :
        /\ queues' = RemoveAt(queues, q)
        /\ rows' = IF RowOf(queues[q]) = {} THEN rows
                   ELSE LET x == Min(RowOf(queues[q]))
                        IN  IF rows[x].port = Incoming THEN RemoveAt(rows, x)
                            ELSE [rows EXCEPT ![x].con = NoCon,
                                              ![x].rat = IF idle THEN Clamped(@ - BreakCost) ELSE @]
    /\ UNCHANGED <<g_new_net, access, known, passedOver, pings, inputs>>

\* The Network window.
User == inputs < MaxUser /\ inputs' = inputs + 1
AddHost ==
    /\ User /\ Room
    /\ \E host \in Hosts \cup DOMAIN Resolves : AddConnection(rows, host, 1, 1)
    /\ UNCHANGED <<queues, access, known, passedOver, pings>>
ConnectRow ==
    /\ User
    /\ \E x \in 1 .. Len(rows) :
        rows[x].con = NoCon /\ AddConnection(RemoveAt(rows, x), rows[x].host, rows[x].port, rows[x].rat)
    /\ UNCHANGED <<queues, access, known, passedOver, pings>>
Closed(list, id) == [i \in 1 .. Len(list) |-> IF list[i].id = id THEN [list[i] EXCEPT !.open = FALSE] ELSE list[i]]
RemoveRow ==
    /\ User
    /\ \E x \in 1 .. Len(rows) :
        /\ rows' = RemoveAt(rows, x) /\ known' = known \ {rows[x].host}
        /\ g_new_net' = Closed(g_new_net, rows[x].con) /\ queues' = Closed(queues, rows[x].con)
    /\ UNCHANGED <<access, passedOver, pings>>
ChangeAccessList ==
    /\ User /\ access' \in AccessLists /\ access' # access
    /\ UNCHANGED <<rows, g_new_net, queues, known, passedOver, pings>>
Restart ==
    /\ User /\ rows' = Reloaded /\ g_new_net' = <<>> /\ queues' = <<>>
    /\ known' = {ip \in known : May(ip, <<>>)}
    /\ UNCHANGED <<access, passedOver, pings>>

HostsNext ==
    \/ GotPing \/ Accept \/ ConnectToHostIfOK \/ KeepUp \/ Fails \/ Refused \/ Connected \/ QueueEnds
    \/ AddHost \/ ConnectRow \/ RemoveRow \/ ChangeAccessList \/ Restart

HostsSpec == HostsInit /\ [][HostsNext]_hostVars

-----------------------------------------------------------------------------
(* Properties *)

\* Whatever is connected, broken off, moved, removed, or heard of again: a row with a pointer
\* has one to a connection that is there, to the row's host, and no other row has the same;
\* a connection that was not closed has a row (netkern.cpp:255-401, mqueuelist.cpp:216-245).
RowsOfConnections ==
    /\ \A x \in 1 .. Len(rows) : rows[x].con # NoCon =>
           /\ \E c \in Live : c.id = rows[x].con /\ Remote(c.host) = Remote(rows[x].host)
           /\ \A y \in 1 .. Len(rows) : rows[y].con = rows[x].con => x = y
    /\ \A c \in Live : c.open => RowOf(c) # {}

\* A host that was heard of stays in the list, through failed and broken connections and a
\* restart, unless the user removes it, it is no host of this program, or the access list
\* forbids it; or another host was tried in its place (netq.cpp:26-91, netkern.cpp:273-309).
HostsStay == passedOver \/ known \subseteq {Remote(h) : h \in InList(rows)}
=============================================================================
