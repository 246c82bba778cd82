---------------------------- MODULE TransferView ----------------------------
(***************************************************************************)
(* The transfers of the terminal program: g_sends and g_recvs as the       *)
(* core's thread runs them (processTransfers) and the interface's thread   *)
(* adds to them (downloadFile), and the rows of the Transfers view.  A     *)
(* transfer is known to the view by the low 32 bits of its address, which  *)
(* another may have, at the same time or after it is deleted.  Nobody sets *)
(* onTransferStatusChanged or calls pauseTransfer, resumeTransfer or       *)
(* cancelTransfer: a row is never completed or failed, Ctrl+X finds        *)
(* nothing to clear, and Ctrl+P, Ctrl+R and Ctrl+D change the row only.    *)
(* The simulated transfers of --demo are left out; what a transfer does on *)
(* the network is FileTransfer.                                            *)
(***************************************************************************)
EXTENDS Integers, Sequences, SequencesExt, FiniteSetsExt, Selection

CONSTANTS TransferIds,      \* what an address of a transfer is cut to
          Size,             \* the length of a file, in steps of progress
          MaxStarted,       \* bound on the transfers started
          MaxTransferTasks  \* bound on the tasks not yet run

\* A file has a length.
ASSUME TransferAssumption == Size \in Nat

VARIABLES
    sends, recvs,    \* the transfers: id, number among all, progress
    starting,        \* the download whose row is still to be announced
    transferRows,    \* id, number, direction, progress shown, status
    selectedTransfer,
    started, removedRows,   \* the number of each
    reused,          \* an id was given twice
    transferTasks

transferVars == <<sends, recvs, starting, transferRows, selectedTransfer, started, removedRows, reused, transferTasks>>

Transfer(id, no) == [id |-> id, no |-> no, done |-> 0]
Row(transfer, dir) == [id |-> transfer.id, no |-> transfer.no, done |-> 0, dir |-> dir, status |-> "Active"]
AddedTask(row) == [task |-> "added", row |-> row]
ProgressTask(t) == [task |-> "progress", row |-> Row(t, "Upload"), done |-> t.done]
Ids(list) == {list[i].id : i \in 1 .. Len(list)}
InUse == Ids(sends) \cup Ids(recvs) \cup Ids(starting)

TransfersInit ==
    /\ sends = <<>> /\ recvs = <<>> /\ starting = <<>> /\ transferRows = <<>> /\ selectedTransfer = 1
    /\ started = 0 /\ removedRows = 0 /\ reused = FALSE /\ transferTasks = <<>>

-----------------------------------------------------------------------------
(* The core *)

\* An address that nobody has; its low bits may be those of a transfer, row or task.
NewTransfer(id) ==
    /\ started < MaxStarted
    /\ started' = started + 1
    /\ reused' = (reused \/ id \in InUse \cup Ids(transferRows)
                         \/ \E i \in 1 .. Len(transferTasks) : transferTasks[i].row.id = id)

\* A request for a file that is there, below ul_limit.
StartUpload ==
    /\ Len(transferTasks) < MaxTransferTasks
    /\ \E id \in TransferIds :
        /\ NewTransfer(id)
        /\ sends' = Append(sends, Transfer(id, started + 1))
        /\ transferTasks' = Append(transferTasks, AddedTask(Row(Transfer(id, started + 1), "Upload")))
    /\ UNCHANGED <<recvs, starting, transferRows, selectedTransfer, removedRows>>
\* The interface's thread adds the download under the lock ...
StartDownload ==
    /\ starting = <<>>
    /\ \E id \in TransferIds :
        /\ NewTransfer(id)
        /\ recvs' = Append(recvs, Transfer(id, started + 1))
        /\ starting' = <<Transfer(id, started + 1)>>
    /\ UNCHANGED <<sends, transferRows, selectedTransfer, removedRows, transferTasks>>
\* ... and announces it afterwards: the core's thread may have run it, or ended it, before.
AnnounceDownload ==
    /\ starting # <<>> /\ Len(transferTasks) < MaxTransferTasks
    /\ transferTasks' = Append(transferTasks, AddedTask(Row(starting[1], "Download")))
    /\ starting' = <<>>
    /\ UNCHANGED <<sends, recvs, transferRows, selectedTransfer, started, removedRows, reused>>

\* A pass over a list: each transfer goes on, or is deleted as completed, with a last report
\* of its full length, or as failed, with none.
After(list, outcome) ==
    [i \in 1 .. Len(list) |-> [list[i] EXCEPT !.done = IF outcome[i] = "completed" THEN Size
                                                      ELSE IF outcome[i] = "on" /\ @ < Size THEN @ + 1 ELSE @]]
Kept(list, outcome) == Picked(After(list, outcome), {i \in 1 .. Len(list) : outcome[i] = "on"})
Reports(list, outcome) ==
    Picked([i \in 1 .. Len(list) |-> ProgressTask(After(list, outcome)[i])],
           {i \in 1 .. Len(list) : outcome[i] # "failed"})

ProcessTransfers ==
    /\ sends \o recvs # <<>> /\ Len(transferTasks) < MaxTransferTasks
    /\ \E s \in [1 .. Len(sends) -> {"on", "completed", "failed"}] :
       \E r \in [1 .. Len(recvs) -> {"on", "completed", "failed"}] :
        /\ sends' = Kept(sends, s) /\ recvs' = Kept(recvs, r)
        /\ transferTasks' = transferTasks \o Reports(sends, s) \o Reports(recvs, r)
    /\ UNCHANGED <<starting, transferRows, selectedTransfer, started, removedRows, reused>>

-----------------------------------------------------------------------------
(* The Transfers view *)

ShowTransfer ==
    /\ transferTasks # <<>> /\ transferTasks[1].task = "added"
    /\ transferRows' = Append(transferRows, transferTasks[1].row) /\ transferTasks' = Tail(transferTasks)
    /\ UNCHANGED <<sends, recvs, starting, selectedTransfer, started, removedRows, reused>>
\* Mutant of RowOf: the newest row, whatever its id.
RowOfNewest(id) == IF id \in Ids(transferRows) THEN {Len(transferRows)} ELSE {}
\* The first row of an id, if there is one.
RowOf(id) ==
    LET of == {i \in 1 .. Len(transferRows) : transferRows[i].id = id}
    IN  IF of = {} THEN {} ELSE {Min(of)}
ShowProgress ==
    /\ transferTasks # <<>> /\ transferTasks[1].task = "progress"
    /\ transferRows' = [i \in 1 .. Len(transferRows) |->
                           IF i \in RowOf(transferTasks[1].row.id)
                           THEN [transferRows[i] EXCEPT !.done = transferTasks[1].done] ELSE transferRows[i]]
    /\ transferTasks' = Tail(transferTasks)
    /\ UNCHANGED <<sends, recvs, starting, selectedTransfer, started, removedRows, reused>>

\* The selected row is counted among all, downloads and uploads.
Selected == selectedTransfer \in 1 .. Len(transferRows)
PauseOrResumeRow ==
    /\ Selected
    /\ transferRows' = [transferRows EXCEPT ![selectedTransfer].status = IF @ = "Active" THEN "Paused" ELSE "Active"]
    /\ UNCHANGED <<sends, recvs, starting, selectedTransfer, started, removedRows, reused, transferTasks>>
RemoveRow ==
    /\ Selected
    /\ transferRows' = RemoveAt(transferRows, selectedTransfer) /\ removedRows' = removedRows + 1
    /\ selectedTransfer' = IF selectedTransfer = Len(transferRows) /\ selectedTransfer > 1
                           THEN selectedTransfer - 1 ELSE selectedTransfer
    /\ UNCHANGED <<sends, recvs, starting, started, reused, transferTasks>>
SelectTransfer ==
    /\ selectedTransfer' \in {selectedTransfer - 1, selectedTransfer + 1} \cap 1 .. Len(transferRows)
    /\ UNCHANGED <<sends, recvs, starting, transferRows, started, removedRows, reused, transferTasks>>

TransfersNext ==
    \/ StartUpload \/ StartDownload \/ AnnounceDownload \/ ProcessTransfers
    \/ ShowTransfer \/ ShowProgress \/ PauseOrResumeRow \/ RemoveRow \/ SelectTransfer
TransfersSpec == TransfersInit /\ [][TransfersNext]_transferVars

-----------------------------------------------------------------------------
(* Properties *)

\* Every transfer gets one row, which stays until the user removes it; a key acts on a row as
\* long as there is one; and, unless an id was given twice, an upload's row shows what
\* was last told of it, and never that of another (waste_core.cpp:475, app.cpp:361-387).
RowsShowTransfers ==
    LET toAdd == {i \in 1 .. Len(transferTasks) : transferTasks[i].task = "added"}
        toldOf(no) == {i \in 1 .. Len(transferTasks) : transferTasks[i].row.no = no}
    IN  /\ Len(transferRows) + Cardinality(toAdd) + Len(starting) + removedRows = started
        /\ transferRows # <<>> => Selected
        /\ ~reused => \A i \in 1 .. Len(sends) : \A k \in 1 .. Len(transferRows) :
               transferRows[k].no = sends[i].no /\ toldOf(sends[i].no) = {} => transferRows[k].done = sends[i].done
=============================================================================
