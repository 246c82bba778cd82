------------------------------ MODULE Uploads ------------------------------
(***************************************************************************)
(* The files the user of the Windows program offers to others and the      *)
(* sending of them: xferwnd.cpp and main.cpp.  An offer takes a place of   *)
(* g_uploads, and the place is what the other host asks for; the list of   *)
(* uploads points to offers and to XferSends alike.  All of it runs on the *)
(* main thread.  What an XferSend does is FileTransfer; here it begins and *)
(* ends.  The memory of an offer is not used again.                        *)
(***************************************************************************)
EXTENDS Naturals, Sequences, SequencesExt, FiniteSetsExt, Selection

CONSTANTS Offers,        \* what the user may offer, each once
          NameOf,        \* the names of the files
          SendLimit,     \* ul_limit
          MaxSends,      \* bound on the XferSends at a time
          MaxAsked, MaxAborts   \* bounds on requests and on the user's commands

None == "none"
ASSUME NoneIsNoOffer == None \notin Offers

VARIABLES
    slots,      \* g_uploads
    waiting,    \* g_uploadqueue: place and offer
    heard,      \* the offers the other host has got
    sends,      \* g_sends: the place asked for, what is sent, what was offered there, how it ended
    srows,      \* g_lvsend: the file, what the row points to, how it ended
    send_autoclear,
    open,       \* offers neither aborted by the user nor got by the other host
    crossed,    \* a place was emptied for the sake of an offer that had been there before
    wild,       \* what is no offer any more was taken for an XferSend
    spentOn     \* of the bounds

uploadVars == <<slots, waiting, heard, sends, srows, send_autoclear, open, crossed, wild, spentOn>>

URow(file, to, status) == [file |-> file, to |-> to, status |-> status]
ToOffer(o) == <<"offer", o>>
ToSend(id) == <<"send", id>>
ToNothing == <<>>
NoError == ""
Spending(what, bound) == spentOn[what] < bound /\ spentOn' = [spentOn EXCEPT ![what] = @ + 1]
Empty == {i \in 1 .. Len(slots) : slots[i] = None}
UnusedId == Min((1 .. MaxSends) \ {s.id : s \in Range(sends)})
Ended(list, id, err) ==
    [i \in 1 .. Len(list) |-> IF list[i].id = id THEN [list[i] EXCEPT !.err = err] ELSE list[i]]

UploadsInit ==
    /\ slots = <<>> /\ waiting = <<>> /\ heard = {} /\ sends = <<>> /\ srows = <<>>
    /\ send_autoclear \in BOOLEAN
    /\ open = {} /\ crossed = FALSE /\ wild = FALSE /\ spentOn = [asked |-> 0, aborts |-> 0]

-----------------------------------------------------------------------------
\* Xfer_UploadFileToUser takes the first place that is empty.
Offer(o) ==
    /\ o \notin open /\ \A r \in heard \cup Range(waiting) : r.offer # o
    /\ LET place == IF Empty = {} THEN Len(slots) + 1 ELSE Min(Empty)
       IN  /\ slots' = IF Empty = {} THEN Append(slots, o) ELSE [slots EXCEPT ![place] = o]
           /\ waiting' = Append(waiting, [place |-> place, offer |-> o])
    /\ srows' = <<URow(NameOf[o], ToOffer(o), "Pending")>> \o srows
    /\ open' = open \cup {o}
    /\ UNCHANGED <<heard, sends, send_autoclear, crossed, wild, spentOn>>

\* RunSends, once a second: the offer goes out, also when it was aborted meanwhile.
TellOffer ==
    /\ waiting # <<>> /\ waiting' = Tail(waiting) /\ heard' = heard \cup {Head(waiting)}
    /\ UNCHANGED <<slots, sends, srows, send_autoclear, open, crossed, wild, spentOn>>

\* Mutant of Refusal: whatever is in the place is sent.
RefusalNever(o, asked) == NoError
\* The XferSend that is made for a place: the name asked for must be that of the file.
Refusal(o, asked) == IF NameOf[o] # NameOf[asked] THEN "Mismatch" ELSE NoError

\* MESSAGE_FILE_REQUEST, a new one.  A host that timed out asks again under a new id.
FirstRow(to) == Min({x \in 1 .. Len(srows) : srows[x].to = to} \cup {Len(srows) + 1})
FileRequest(r) ==
    /\ r \in heard /\ Spending("asked", MaxAsked) /\ Len(sends) < MaxSends
    /\ IF Len(sends) < SendLimit /\ slots[r.place] # None
       THEN LET o == slots[r.place]
                err == Refusal(o, r.offer)
                x == FirstRow(ToOffer(o))
                shown == IF x > Len(srows) THEN srows ELSE RemoveAt(srows, x)
                TimedOut(row) == /\ row.to = ToNothing /\ row.status = "TimedOut"
                                 /\ row.file = NameOf[o]
                others == Where(shown, LAMBDA row : ~TimedOut(row))
                sent == [id |-> UnusedId, place |-> r.place, file |-> NameOf[o], asked |-> r.offer, err |-> NoError]
            IN  IF err = NoError
                THEN /\ sends' = Append(sends, sent)
                     /\ srows' = <<URow(NameOf[o], ToSend(sent.id), "Sending")>> \o others
                ELSE /\ srows' = IF send_autoclear THEN others
                                 ELSE <<URow(NameOf[o], ToNothing, err)>> \o others
                     /\ UNCHANGED sends
       ELSE UNCHANGED <<sends, srows>>
    /\ UNCHANGED <<slots, waiting, heard, send_autoclear, open, crossed, wild>>

\* The other host has all of the file: what is in the place now goes, with its rows.
HasAll(s) ==
    /\ sends' = Ended(sends, s.id, IF s.err = NoError THEN "Completed" ELSE s.err)
    /\ slots' = [slots EXCEPT ![s.place] = None]
    /\ srows' = IF slots[s.place] = None THEN srows
                ELSE Where(srows, LAMBDA row : row.to # ToOffer(slots[s.place]))
    /\ crossed' = (crossed \/ slots[s.place] \notin {None, s.asked}) /\ open' = open \ {s.asked}
    /\ UNCHANGED <<waiting, heard, send_autoclear, wild, spentOn>>
\* It gives up, or is not heard of for five minutes.
GivesUp(s) ==
    /\ s.err = NoError /\ \E err \in {"Aborted", "TimedOut"} : sends' = Ended(sends, s.id, err)
    /\ UNCHANGED <<slots, waiting, heard, srows, send_autoclear, open, crossed, wild, spentOn>>

\* RunSends: the XferSends that ended go, with their rows or out of them.
RunSends ==
    /\ \E s \in Range(sends) : s.err # NoError
    /\ sends' = Where(sends, LAMBDA s : s.err = NoError)
    /\ LET over == {s \in Range(sends) : s.err # NoError}
           After(row) == IF \E s \in over : row.to = ToSend(s.id)
                         THEN URow(row.file, ToNothing, (CHOOSE s \in over : row.to = ToSend(s.id)).err)
                         ELSE row
           left == Where(srows, LAMBDA row : send_autoclear => \A s \in over : row.to # ToSend(s.id))
       IN  srows' = [x \in 1 .. Len(left) |-> After(left[x])]
    /\ UNCHANGED <<slots, waiting, heard, send_autoclear, open, crossed, wild, spentOn>>

\* IDC_ABORTSEL of one row.  A pointer that is not in g_uploads is taken for an XferSend.
AbortRow(x) ==
    /\ Spending("aborts", MaxAborts) /\ srows[x].to # ToNothing
    /\ LET offered == {i \in 1 .. Len(slots) : slots[i] # None /\ srows[x].to = ToOffer(slots[i])}
           sending == {s \in Range(sends) : srows[x].to = ToSend(s.id)}
       IN  \/ /\ offered # {}
              /\ slots' = [slots EXCEPT ![Min(offered)] = None]
              /\ srows' = [srows EXCEPT ![x] = URow(@.file, ToNothing, "Aborted")]
              /\ open' = open \ {slots[Min(offered)]}
              /\ UNCHANGED <<sends, crossed, wild>>
           \/ /\ offered = {}
              /\ \E s \in sending :
                  /\ sends' = Ended(sends, s.id, "Aborted")
                  /\ crossed' = (crossed \/ slots[s.place] \notin {None, s.asked})
                  /\ slots' = [slots EXCEPT ![s.place] = None] /\ open' = open \ {s.asked}
              /\ UNCHANGED <<srows, wild>>
           \/ /\ offered = {} /\ sending = {} /\ wild' = TRUE
              /\ UNCHANGED <<slots, sends, srows, open, crossed>>
    /\ UNCHANGED <<waiting, heard, send_autoclear>>
\* IDC_CLEARCOMP
ClearEnded ==
    /\ \E row \in Range(srows) : row.to = ToNothing
    /\ srows' = Where(srows, LAMBDA row : row.to # ToNothing)
    /\ UNCHANGED <<slots, waiting, heard, sends, send_autoclear, open, crossed, wild, spentOn>>

UploadsNext ==
    \/ \E o \in Offers : Offer(o)
    \/ TellOffer \/ RunSends \/ ClearEnded
    \/ \E r \in heard : FileRequest(r)
    \/ \E s \in Range(sends) : HasAll(s) \/ GivesUp(s)
    \/ \E x \in 1 .. Len(srows) : AbortRow(x)

UploadSpec == UploadsInit /\ [][UploadsNext]_uploadVars

-----------------------------------------------------------------------------
(* Properties *)

\* Places are used again, and still: who asks for an offer is sent a file of that name or none;
\* an offer stays until it is got or the user aborts it; and no row points to an offer or an
\* XferSend that is gone, unless an XferSend of an offer gone before was aborted or completed in
\* a place that has another offer by then (main.cpp:388-497, xferwnd.cpp:186-230, 404-505, 640-672).
OffersHold ==
    /\ \A s \in Range(sends) : s.file = NameOf[s.asked]
    /\ crossed \/
        /\ open \subseteq Range(slots)
        /\ \A row \in Range(srows) : row.to # ToNothing =>
               \/ \E o \in Range(slots) \ {None} : row.to = ToOffer(o)
               \/ \E s \in Range(sends) : row.to = ToSend(s.id)
        /\ ~wild
=============================================================================
