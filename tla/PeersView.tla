----------------------------- MODULE PeersView -----------------------------
(***************************************************************************)
(* The peers of the terminal program in three places: the connections of   *)
(* the core, the list impl_->peers that WasteCore makes of them (or the    *)
(* simulated peers, if the port is 0), and the rows of the Network view,   *)
(* which hear of both through tasks posted to the interface's thread.      *)
(* disconnectPeer and retryConnection are called from nowhere.             *)
(***************************************************************************)
EXTENDS Integers, Sequences, SequencesExt, FiniteSetsExt

CONSTANTS Typed,        \* the addresses the user may enter
          Incoming,     \* the addresses that connections come from
          Reported(_),  \* what a connection to an address gives as its address: the port as
                        \* a signed short, a host by its number
          DemoRows,     \* the rows of --demo
          MaxAdded,     \* bound on the peers entered
          MaxConns,     \* bound on the connections made
          MaxPeerTasks  \* bound on the tasks not yet run

Statuses == {"Connecting", "Authenticating", "Online", "Failed"}
\* Addresses are texts, and the demonstration's rows are rows.
ASSUME PeersAssumption ==
    /\ Typed \subseteq STRING /\ Incoming \subseteq STRING /\ \A addr \in Typed : Reported(addr) \in STRING
    /\ DemoRows \in Seq([addr : STRING, status : Statuses])

VARIABLES
    simulated,  \* the core runs without a network
    demo,       \* and the view was given the rows of --demo
    peers,      \* impl_->peers
    simPeers,   \* impl_->simulatedPeers
    added,      \* the addresses entered, in this order
    conns,      \* the queues with their connections: addresses
    made,       \* number of connections made
    rows,       \* the rows of the view
    asked,      \* the row the question whether to disconnect is about, with what it was
    removed,    \* number of rows removed
    peerTasks

peersVars == <<simulated, demo, peers, simPeers, added, conns, made, rows, asked, removed, peerTasks>>

Peer(addr, status) == [addr |-> addr, status |-> status]
NotAsked == [row |-> 0, peer |-> Peer("", "Failed")]
Online(list) == Cardinality({i \in 1 .. Len(list) : list[i].status = "Online"})

PeersInit ==
    /\ simulated \in BOOLEAN
    /\ demo \in IF simulated THEN BOOLEAN ELSE {FALSE}
    /\ rows = IF demo THEN DemoRows ELSE <<>>
    /\ peers = <<>> /\ simPeers = <<>> /\ added = <<>> /\ conns = <<>> /\ made = 0
    /\ asked = NotAsked /\ removed = 0 /\ peerTasks = <<>>

-----------------------------------------------------------------------------
(* The core *)

ConnectedTask(peer) == [task |-> "connected", peer |-> peer]
StatusTask(status) == [task |-> "status", status |-> status]

\* connectToPeer, from the add_connection modal.
ConnectToPeer ==
    /\ asked = NotAsked /\ Len(added) < MaxAdded /\ Len(peerTasks) < MaxPeerTasks
    /\ \E addr \in Typed :
        /\ added' = Append(added, addr)
        /\ peers' = Append(peers, Peer(addr, "Connecting"))
        /\ simPeers' = IF simulated THEN Append(simPeers, Peer(addr, "Connecting")) ELSE simPeers
        /\ peerTasks' = Append(peerTasks, ConnectedTask(Peer(addr, "Connecting")))
    /\ UNCHANGED <<simulated, demo, conns, made, rows, asked, removed>>

\* The network: a connection entered or one from elsewhere stands, or breaks.
ConnectionMade ==
    /\ ~simulated /\ made < MaxConns /\ made' = made + 1
    /\ \E addr \in {Reported(a) : a \in Range(added)} \cup Incoming :
           addr \notin Range(conns) /\ conns' = Append(conns, addr)
    /\ UNCHANGED <<simulated, demo, peers, simPeers, added, rows, asked, removed, peerTasks>>
ConnectionLost ==
    /\ \E i \in 1 .. Len(conns) : conns' = RemoveAt(conns, i)
    /\ UNCHANGED <<simulated, demo, peers, simPeers, added, made, rows, asked, removed, peerTasks>>

\* Mutant of Updated: every connection found is told again.
UpdatedAgain(known, conn) ==
    LET at == {i \in 1 .. Len(known.peers) : known.peers[i].addr = conn}
    IN  IF at # {} THEN [peers |-> [known.peers EXCEPT ![Min(at)].status = "Online"],
                         tasks |-> Append(known.tasks, StatusTask("Online"))]
        ELSE [peers |-> Append(known.peers, Peer(conn, "Online")),
              tasks |-> Append(known.tasks, ConnectedTask(Peer(conn, "Online")))]
\* One queue in the pass of updatePeerListFromConnections.
Updated(known, conn) ==
    LET at == {i \in 1 .. Len(known.peers) : known.peers[i].addr = conn}
    IN  IF at = {} THEN [peers |-> Append(known.peers, Peer(conn, "Online")),
                         tasks |-> Append(known.tasks, ConnectedTask(Peer(conn, "Online")))]
        ELSE IF known.peers[Min(at)].status = "Online" THEN known
        ELSE [peers |-> [known.peers EXCEPT ![Min(at)].status = "Online"],
              tasks |-> Append(known.tasks, StatusTask("Online"))]
UpdatePeerListFromConnections ==
    /\ ~simulated /\ Len(peerTasks) < MaxPeerTasks
    /\ LET known == FoldLeft(Updated, [peers |-> peers, tasks |-> peerTasks], conns)
       IN  peers' = known.peers /\ peerTasks' = known.tasks
    /\ UNCHANGED <<simulated, demo, simPeers, added, conns, made, rows, asked, removed>>

\* One peer of processSimulation, after its time.
ProcessSimulation ==
    /\ Len(peerTasks) < MaxPeerTasks
    /\ \E i \in 1 .. Len(simPeers) :
       \E status \in CASE simPeers[i].status = "Connecting" -> {"Authenticating"}
                       [] simPeers[i].status = "Authenticating" -> {"Online", "Failed"}
                       [] OTHER -> {} :
           /\ simPeers' = [simPeers EXCEPT ![i].status = status]
           /\ peerTasks' = Append(peerTasks, StatusTask(status))
    /\ UNCHANGED <<simulated, demo, peers, added, conns, made, rows, asked, removed>>

-----------------------------------------------------------------------------
(* The Network view *)

Unfinished == {i \in 1 .. Len(rows) : rows[i].status \in {"Connecting", "Authenticating"}}

ShowPeer ==
    /\ peerTasks # <<>> /\ peerTasks[1].task = "connected"
    /\ rows' = Append(rows, peerTasks[1].peer) /\ peerTasks' = Tail(peerTasks)
    /\ UNCHANGED <<simulated, demo, peers, simPeers, added, conns, made, asked, removed>>
\* The index is of another list: the last row that is not finished takes the status.
ShowStatus ==
    /\ peerTasks # <<>> /\ peerTasks[1].task = "status"
    /\ rows' = IF Unfinished = {} THEN rows
               ELSE [rows EXCEPT ![Max(Unfinished)].status = peerTasks[1].status]
    /\ peerTasks' = Tail(peerTasks)
    /\ UNCHANGED <<simulated, demo, peers, simPeers, added, conns, made, asked, removed>>

\* Ctrl+D on the selected row, then Enter or Escape; tasks run while the question stands.
AskDisconnect ==
    /\ asked = NotAsked
    /\ \E i \in 1 .. Len(rows) : asked' = [row |-> i, peer |-> rows[i]]
    /\ UNCHANGED <<simulated, demo, peers, simPeers, added, conns, made, rows, removed, peerTasks>>
\* Nothing is disconnected: the row goes.
ConfirmDisconnect ==
    /\ asked # NotAsked
    /\ rows' = RemoveAt(rows, asked.row) /\ removed' = removed + 1 /\ asked' = NotAsked
    /\ UNCHANGED <<simulated, demo, peers, simPeers, added, conns, made, peerTasks>>
CancelDisconnect ==
    /\ asked # NotAsked /\ asked' = NotAsked
    /\ UNCHANGED <<simulated, demo, peers, simPeers, added, conns, made, rows, removed, peerTasks>>
\* Ctrl+R changes the row and nothing else.
RetryRow ==
    /\ asked = NotAsked
    /\ \E i \in 1 .. Len(rows) :
        rows[i].status = "Failed" /\ rows' = [rows EXCEPT ![i].status = "Connecting"]
    /\ UNCHANGED <<simulated, demo, peers, simPeers, added, conns, made, asked, removed, peerTasks>>

PeersNext ==
    \/ ConnectToPeer \/ ConnectionMade \/ ConnectionLost \/ UpdatePeerListFromConnections
    \/ ProcessSimulation \/ ShowPeer \/ ShowStatus
    \/ AskDisconnect \/ ConfirmDisconnect \/ CancelDisconnect \/ RetryRow
PeersSpec == PeersInit /\ [][PeersNext]_peersVars

-----------------------------------------------------------------------------
(* Properties *)

\* Though a status may be shown in the row of another peer, as many rows are online as peers of
\* the core, those of the demonstration aside, once the tasks have run and if no row was
\* removed, and never more; and a row is removed only if the question was about it
\* (app.cpp:303-325, 764-777, waste_core.cpp:1500-1538).
AsManyOnline ==
    LET known == IF simulated THEN Online(simPeers) ELSE Online(peers)
        shown == Online(rows) - (IF demo THEN Online(DemoRows) ELSE 0)
    IN  /\ removed = 0 /\ peerTasks = <<>> => shown = known
        /\ removed = 0 => shown <= known
        /\ asked # NotAsked => asked.row <= Len(rows) /\ rows[asked.row].addr = asked.peer.addr
=============================================================================
