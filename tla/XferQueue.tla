----------------------------- MODULE XferQueue -----------------------------
(***************************************************************************)
(* The downloads of the Windows program and the queue of those to come:    *)
(* xferwnd.cpp, and the parts of netq.cpp that keep them over a restart.   *)
(* All of it runs on the main thread: the timer's pass over g_recvs, the   *)
(* messages of other hosts and the user's commands come one at a time.     *)
(* What an XferRecv does is FileTransfer; here it starts and ends.  A file *)
(* stands for a name and the address (peer and number) it is got at.       *)
(***************************************************************************)
EXTENDS Naturals, Sequences, SequencesExt, FiniteSetsExt, Selection

CONSTANTS QFiles,        \* the files
          PeerOf,        \* and the peer each is at
          ShortNames,    \* those with a name of one character
          Maxima,        \* g_max_simul_dl: what the user may set it to
          HostMaxima,    \* g_max_simul_dl_host: 0 for no limit
          MaxIds,        \* bound on the downloads at a time
          MaxQueued,     \* bound on the queue
          MaxAsks, MaxCommands, MaxEnds   \* bounds on what the user and the peers do

\* There are ids for all that the program starts by itself.
ASSUME QueueAssumption == MaxIds \in Nat /\ Maxima \subseteq 0 .. MaxIds /\ HostMaxima \subseteq Nat

NoXfer == 0

VARIABLES
    queue,       \* g_lvrecvq
    count,       \* g_files_in_download_queue
    drows,        \* g_lvrecv: the file, whether there is an address, the XferRecv, how it ended
    recvs,       \* g_recvs: what became of each ("": it goes on)
    limits,      \* g_max_simul_dl, g_max_simul_dl_host
    options,     \* recv_autoclear, recv_autores
    online,      \* GetNumQueues() # 0
    wanted,      \* the files asked for and neither got, nor given up by the user or the peer
    byHand,      \* the downloads the user started
    most,        \* the largest g_max_simul_dl there was
    used         \* of the bounds

queueVars == <<queue, count, drows, recvs, limits, options, online, wanted, byHand, most, used>>

DRow(file, located, xfer, status) == [file |-> file, located |-> located, xfer |-> xfer, status |-> status]
Lists == [queue |-> queue, count |-> count, rows |-> drows, recvs |-> recvs]
Become(lists) ==
    queue' = lists.queue /\ count' = lists.count /\ drows' = lists.rows /\ recvs' = lists.recvs
Use(what, bound) == used[what] < bound /\ used' = [used EXCEPT ![what] = @ + 1]

Queued(lists, file) == [lists EXCEPT !.queue = Append(@, file), !.count = @ + 1]
Without(seq, places) == Picked(seq, (1 .. Len(seq)) \ places)

-----------------------------------------------------------------------------
(* RunRecvs *)

\* Active downloads from a peer, counted in the rows; one that is complete has no address there.
From(list, peer) == Places(list, LAMBDA r : r.xfer # NoXfer /\ r.located /\ PeerOf[r.file] = peer)
Full(list, peer) == limits.host # 0 /\ Cardinality(From(list, peer)) >= limits.host

\* The place x of the queue is emptied.  Rows the file has from before go, up to one that is
\* active; if there is none, a new download is started, with the row at the top.
Start(lists, x, id) ==
    LET file == lists.queue[x]
        own == Places(lists.rows, LAMBDA r : r.located /\ r.file = file)
        active == {y \in own : lists.rows[y].xfer # NoXfer}
        gone == {y \in own : \A z \in active : y < z}
        left == Without(lists.rows, gone)
    IN  [queue |-> RemoveAt(lists.queue, x), count |-> lists.count - 1,
         rows |-> IF active # {} THEN left ELSE <<DRow(file, TRUE, id, "")>> \o left,
         recvs |-> IF active # {} THEN lists.recvs
                   ELSE Append(lists.recvs, [id |-> id, file |-> file, err |-> ""])]

FreeId(lists) == Min((1 .. MaxIds) \ {lists.recvs[i].id : i \in 1 .. Len(lists.recvs)})
HasFreeId(lists) == Len(lists.recvs) < MaxIds   \* as long as it may start one by itself

\* The items of a peer that is full are passed over.
Startable(lists) == {x \in 1 .. lists.count : ~Full(lists.rows, PeerOf[lists.queue[x]])}
MayStart(lists) == online /\ Len(lists.recvs) < limits.all
Started(lists) ==
    IF MayStart(lists) /\ Startable(lists) # {}
    THEN Start(lists, Min(Startable(lists)), FreeId(lists)) ELSE lists

\* Mutant of Reaped: what timed out is not put in the queue again.
ReapedForGood(lists, d) ==
    LET x == Min(Places(lists.rows, LAMBDA r : r.xfer = d.id))
        others == [lists EXCEPT !.recvs = Where(@, LAMBDA e : e.id # d.id)]
    IN  IF Places(lists.rows, LAMBDA r : r.xfer = d.id) = {} THEN others
        ELSE IF d.err = "Timed out" \/ (options.autoclear /\ ~lists.rows[x].located)
             THEN [others EXCEPT !.rows = RemoveAt(@, x)]
        ELSE [others EXCEPT !.rows[x].xfer = NoXfer, !.rows[x].status = d.err]
\* A download that ended leaves g_recvs.  Its row goes if the file is complete and recv_autoclear
\* is set; if it timed out and recv_autores is set, it is put at the end of the queue.
Reaped(lists, d) ==
    LET own == Places(lists.rows, LAMBDA r : r.xfer = d.id)
        x == Min(own)
        others == [lists EXCEPT !.recvs = Where(@, LAMBDA e : e.id # d.id)]
        rowless == [others EXCEPT !.rows = RemoveAt(@, x)]
    IN  IF own = {} THEN others
        ELSE IF options.autoclear /\ ~lists.rows[x].located THEN rowless
        ELSE IF lists.rows[x].located /\ d.err = "Timed out" /\ options.autores
             THEN Queued(rowless, d.file)
        ELSE [others EXCEPT !.rows[x].xfer = NoXfer, !.rows[x].status = d.err]

\* The queue is looked at every two seconds only; then every download runs, and those of
\* `late` find that they have waited too long.
RunRecvs(due, late) ==
    LET begun == IF due THEN Started(Lists) ELSE Lists
        told == [i \in 1 .. Len(begun.recvs) |->
                    IF begun.recvs[i].err = "" /\ begun.recvs[i].id \in late
                    THEN [begun.recvs[i] EXCEPT !.err = "Timed out"] ELSE begun.recvs[i]]
    IN  FoldLeft(Reaped, begun, Where(told, LAMBDA d : d.err # ""))

-----------------------------------------------------------------------------
(* Steps *)

QueueInit ==
    /\ queue = <<>> /\ count = 0 /\ drows = <<>> /\ recvs = <<>>
    /\ limits \in [all : Maxima, host : HostMaxima] /\ most = limits.all
    /\ options \in [autoclear : BOOLEAN, autores : BOOLEAN]
    /\ online = FALSE /\ wanted = {} /\ byHand = {}
    /\ used = [asks |-> 0, commands |-> 0, ends |-> 0]

Located(list) == {r.file : r \in {e \in Range(list) : e.located}}
\* What is asked for no more, unless it is listed elsewhere.
Forget(files) == wanted' = wanted \ (files \ (Range(queue') \cup Located(drows')))
Listed(lists) == Become(lists) /\ byHand' = byHand \cap {d.id : d \in Range(lists.recvs)}

\* The timer.
Pass(due) ==
    /\ Listed(RunRecvs(due, {}))
    /\ UNCHANGED <<limits, options, online, wanted, most, used>>
Late(i) ==
    /\ recvs[i].err = "" /\ Use("ends", MaxEnds) /\ Listed(RunRecvs(FALSE, {recvs[i].id}))
    /\ UNCHANGED <<limits, options, online, wanted, most>>

\* XferRecv::onGotMsg.  A row whose file is complete loses the address.
Comes(i) ==
    /\ recvs[i].err = "" /\ recvs' = [recvs EXCEPT ![i].err = "Completed"]
    /\ drows' = [x \in 1 .. Len(drows) |->
                   IF drows[x].xfer = recvs[i].id THEN [drows[x] EXCEPT !.located = FALSE] ELSE drows[x]]
    /\ UNCHANGED queue /\ Forget({recvs[i].file})
    /\ UNCHANGED <<count, limits, options, online, byHand, most, used>>
\* The peer does not have it or send it; or the disk fails, or the hash is another.
Breaks(i) ==
    /\ recvs[i].err = "" /\ Use("ends", MaxEnds)
    /\ \E err \in {"Refused", "Failed"} : recvs' = [recvs EXCEPT ![i].err = err]
    /\ UNCHANGED <<queue, count, drows, limits, options, online, wanted, byHand, most>>

Connects == online' = ~online /\ UNCHANGED <<queue, count, drows, recvs, limits, options, wanted, byHand, most, used>>

\* Rows in their order, but for files their peer does not have or send, and the queue.
SavedList ==
    LET kept == Where(drows, LAMBDA r : r.located /\ r.status # "Refused")
    IN  [i \in DOMAIN kept |-> kept[i].file] \o queue
\* LoadNetQ leaves out lines of one character.
Loaded(list) == Where(list, LAMBDA f : f \notin ShortNames)
Command == Use("commands", MaxCommands)
Reopen ==
    /\ Command /\ queue' = Loaded(SavedList) /\ count' = Len(queue') /\ drows' = <<>> /\ recvs' = <<>>
    /\ online' = FALSE /\ byHand' = {} /\ UNCHANGED <<limits, options, most>>
    /\ LET refused == {drows[x].file : x \in Places(drows, LAMBDA r : r.status = "Refused")}
       IN  wanted' = wanted \ (ShortNames \cup (refused \ Range(queue)))

-----------------------------------------------------------------------------
(* The user *)

\* Search results and listings (srchwnd.cpp); a peer's MESSAGE_UPLOAD does the same.
Ask(file) ==
    /\ Len(queue) < MaxQueued /\ Use("asks", MaxAsks)
    /\ Become(Queued(Lists, file)) /\ wanted' = wanted \cup {file}
    /\ UNCHANGED <<limits, options, online, byHand, most>>

\* IDC_DLNOW: whatever the limits.
DownloadNow(x) ==
    /\ Command /\ HasFreeId(Lists) /\ Become(Start(Lists, x, FreeId(Lists)))
    /\ byHand' = byHand \cup ({d.id : d \in Range(recvs')} \ {d.id : d \in Range(recvs)})
    /\ UNCHANGED <<limits, options, online, wanted, most>>

MoveToTop(places) ==
    /\ Command /\ queue' = Picked(queue, places) \o Without(queue, places)
    /\ UNCHANGED <<count, drows, recvs, limits, options, online, wanted, byHand, most>>
MoveToBottom(places) ==
    /\ Command /\ queue' = Without(queue, places) \o Picked(queue, places)
    /\ UNCHANGED <<count, drows, recvs, limits, options, online, wanted, byHand, most>>
\* IDC_REMOVEQUEUE; IDC_CLEARQUEUE for all of them.
RemoveQueued(places) ==
    /\ Command /\ queue' = Without(queue, places) /\ count' = count - Cardinality(places)
    /\ UNCHANGED drows /\ Forget(Range(Picked(queue, places)))
    /\ UNCHANGED <<recvs, limits, options, online, byHand, most>>

Aborted(ids) == [i \in 1 .. Len(recvs) |->
                    IF recvs[i].id \in ids THEN [recvs[i] EXCEPT !.err = "Aborted"] ELSE recvs[i]]
AbortSelected(places) ==
    /\ Command /\ recvs' = Aborted({drows[x].xfer : x \in places})
    /\ UNCHANGED <<queue, count, drows, limits, options, online, wanted, byHand, most>>
\* The downloads go only when their turn to run comes.
ClearAll ==
    /\ Command /\ drows' = <<>> /\ recvs' = Aborted({r.xfer : r \in Range(drows)})
    /\ UNCHANGED queue /\ Forget(Located(drows))
    /\ UNCHANGED <<count, limits, options, online, byHand, most>>
\* IDC_CLEARCOMP3; IDC_CLEARCOMP for those that are complete.
ClearInactive(complete) ==
    /\ Command
    /\ LET gone == Places(drows, LAMBDA r : r.xfer = NoXfer /\ (complete => ~r.located))
       IN  gone # {} /\ drows' = Without(drows, gone) /\ UNCHANGED queue /\ Forget(Located(Picked(drows, gone)))
    /\ UNCHANGED <<count, recvs, limits, options, online, byHand, most>>
\* IDC_RESUME: to the end of the queue.
Resume(places) ==
    /\ Command
    /\ LET again == {x \in places : drows[x].xfer = NoXfer /\ drows[x].located}
           files == [i \in 1 .. Cardinality(again) |-> Picked(drows, again)[i].file]
       IN  /\ again # {} /\ drows' = Without(drows, again)
           /\ queue' = queue \o files /\ count' = count + Cardinality(again)
    /\ UNCHANGED <<recvs, limits, options, online, wanted, byHand, most>>

SetMaximum(n) ==
    /\ Command /\ limits' = [limits EXCEPT !.all = n] /\ most' = IF n > most THEN n ELSE most
    /\ UNCHANGED <<queue, count, drows, recvs, options, online, wanted, byHand>>

Commands ==
    \/ \E f \in QFiles : Ask(f)
    \/ \E x \in 1 .. Len(queue) : DownloadNow(x)
    \/ \E places \in SUBSET (1 .. Len(queue)) :
        places # {} /\ (MoveToTop(places) \/ MoveToBottom(places) \/ RemoveQueued(places))
    \/ \E places \in SUBSET (1 .. Len(drows)) : AbortSelected(places) \/ Resume(places)
    \/ ClearAll \/ ClearInactive(TRUE) \/ ClearInactive(FALSE)
    \/ \E n \in Maxima : SetMaximum(n)
    \/ Reopen

QueueNext ==
    \/ Pass(TRUE) \/ Pass(FALSE)
    \/ \E i \in 1 .. Len(recvs) : Late(i) \/ Breaks(i) \/ Comes(i)
    \/ Connects \/ Commands

QueueSpec == QueueInit /\ [][QueueNext]_queueVars

-----------------------------------------------------------------------------
(* Properties *)

Going == {i \in 1 .. Len(recvs) : recvs[i].err = ""}

\* A file that was asked for stays in the queue or among the downloads until it is got or the
\* user removes it, through limits, errors, time outs, resumptions and a restart; it is not got
\* twice at the same time; a row's pointer is to its download; and those the program started by
\* itself are no more than the limits allow (xferwnd.cpp:247-345, netq.cpp:126-205).
QueueKeeps ==
    /\ count = Len(queue)
    /\ wanted \subseteq Range(queue) \cup Located(drows)
    /\ \A i \in Going, j \in Going : recvs[i].file = recvs[j].file => i = j
    /\ \A x \in 1 .. Len(drows) : drows[x].xfer # NoXfer =>
           /\ \E i \in 1 .. Len(recvs) : recvs[i].id = drows[x].xfer /\ recvs[i].file = drows[x].file
           /\ \A y \in 1 .. Len(drows) : drows[y].xfer = drows[x].xfer => x = y
    /\ \A i \in Going : \E x \in 1 .. Len(drows) : drows[x].xfer = recvs[i].id
    /\ LET own == {i \in Going : recvs[i].id \notin byHand}
       IN  /\ Cardinality(own) <= most
           /\ limits.host # 0 =>
                  \A f \in QFiles : Cardinality({i \in own : PeerOf[recvs[i].file] = PeerOf[f]}) <= limits.host
=============================================================================
