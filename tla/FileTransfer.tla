---------------------------- MODULE FileTransfer ----------------------------
(***************************************************************************)
(* The download of one file: XferRecv on one node, the XferSends it causes *)
(* on the other (xfers.cpp), and the two branches of the message handler   *)
(* that match a message to its transfer (waste_core.cpp).                  *)
(*                                                                         *)
(* A request is a broadcast with an id of its own; the chunks it asks for  *)
(* come back as replies under that id.  The next request names the id      *)
(* before it, and that is all that ties the two ends together.  A file is  *)
(* a version: two versions differ in every chunk, and have the same hash   *)
(* only when hashing is off.  A download keeps the index it asks by, so    *)
(* "Got different index" cannot come of it.                                *)
(***************************************************************************)
EXTENDS Integers, Sequences, FiniteSets, FiniteSetsExt

CONSTANTS
  Version,       \* what the shared file may hold
  Size,          \* [Version -> Nat], its length in chunks
  Guid,          \* message ids
  Hashed,        \* "shafiles" and the file below "maxsizesha"
  MaxPerReq,     \* FILE_MAX_CHUNKS_PER_REQ
  UploadLimit,   \* "ul_limit"
  QueueRoom,     \* replies under way before XferSend::run holds back
  Patient,       \* a timer runs out only when nothing is under way any more
  MaxDownloads, MaxLost, MaxChanges, MaxCrashes, MaxAborts,  \* bounds on the environment
  MayLoseRoute   \* the queue that leads back to the downloader may be deleted

NoHash == "zero"
NoGuid == "zeros"
NoErr == "none"
TimedOut == "Timed out"
NoHeader == "data with no header"
OutOfRange == "idx out of range"
Mismatch == "SHA mismatch"
RemoteAbort == "Aborted by remote"
NotFound == "File not found"
Gone == "none"      \* no file is there

ASSUME FileAssumption ==
  /\ IsFiniteSet(Version) /\ {NoHash, "none"} \cap Version = {} /\ NoGuid \notin Guid
  /\ Size \in [Version -> Nat \ {0}]
  /\ MaxPerReq \in Nat \ {0} /\ UploadLimit \in Nat /\ QueueRoom \in Nat \ {0}
  /\ {Hashed, Patient, MayLoseRoute} \subseteq BOOLEAN

HashOf(v) == IF Hashed THEN v ELSE NoHash
Many == 2 * MaxPerReq             \* 1000000: more chunks than will ever come
Empty == [is |-> "empty", len |-> 0, hash |-> NoHash, valid |-> {}]
Absent == [Empty EXCEPT !.is = "absent"]

VARIABLES
  disk,       \* the version the uploader's file holds, or Gone
  indexed,    \* the index asked by names the file, not another one or none
  sends,      \* g_sends
  recv,       \* the XferRecv, or Idle
  out,        \* the output file: [chunk -> the version it is of]
  stat,       \* the .WASTESTATE file: absent, empty or "full", and what it records
  requests,   \* MESSAGE_FILE_REQUESTs under way: a broadcast takes any path
  replies,    \* MESSAGE_FILE_REQUEST_REPLYs under way, in order
  noroute,    \* ids whose way back is lost
  spent       \* how much of its bounds the environment has used; torn: the changes of
              \* a file that was being sent
vars == <<disk, indexed, sends, recv, out, stat, requests, replies, noroute, spent>>

MaxChunk == Max({Size[v] : v \in Version})
Chunks(n) == 0 .. (n - 1)
Nothing == [c \in Chunks(MaxChunk) |-> "none"]
Idle == [on |-> FALSE, m_guid |-> NoGuid]

InUse == {s.guid : s \in sends} \cup {q.guid : q \in requests} \cup {q.prev : q \in requests}
         \cup {replies[i].guid : i \in DOMAIN replies} \cup noroute
         \cup {recv.m_guid}
IdsLeft == \E g \in Guid : g \notin InUse
NewGuid == CHOOSE g \in Guid : g \notin InUse

Spend(what, bound) == spent[what] < bound /\ spent' = [spent EXCEPT ![what] = @ + 1]

Init ==
  /\ disk \in Version /\ indexed = TRUE
  /\ sends = {} /\ recv = Idle /\ out = Nothing /\ stat = Absent
  /\ requests = {} /\ replies = <<>> /\ noroute = {}
  /\ spent = [downloads |-> 0, lost |-> 0, changes |-> 0, torn |-> 0, crashes |-> 0,
              aborts |-> 0]

-----------------------------------------------------------------------------
(* The downloader.                                                         *)

\* The chunks from m_first_chunkilack on that are not there, at most k of them.
Lacking(r) == {x \in r.m_first_chunkilack .. r.m_chunk_total - 1 : x \notin r.valid}
Wanted(r, k) == {x \in Lacking(r) : Cardinality({y \in Lacking(r) : y < x}) < k}

Request(prev, abort, need) ==
  [guid |-> NewGuid, prev |-> prev, abort |-> abort, need |-> need]

\* Mutant of Asked: the count of the last request stays.
AskedCountKept(r) ==
  [r EXCEPT !.m_guid = NewGuid, !.m_hasgotchunks = FALSE,
            !.m_first_chunkilack = IF Lacking(r) = {} THEN @ ELSE Min(Lacking(r))]

\* A request for up to k chunks (m_adaptive_chunksize) leaves r with its id.
Asked(r) ==
  [r EXCEPT !.m_guid = NewGuid, !.chunks_coming = Many, !.m_hasgotchunks = FALSE,
            !.m_first_chunkilack = IF Lacking(r) = {} THEN @ ELSE Min(Lacking(r))]

\* The constructor: what the state file says is taken up again.
StartDownload ==
  /\ ~recv.on /\ Spend("downloads", MaxDownloads)
  /\ LET r == [on |-> TRUE, m_guid |-> NoGuid, bytes |-> stat.len, m_hash |-> stat.hash,
               valid |-> stat.valid, lasthdr |-> FALSE, m_hasgotchunks |-> FALSE,
               chunks_coming |-> Many, m_first_chunkilack |-> 0,
               m_chunk_total |-> IF stat.len = 0 THEN MaxPerReq ELSE stat.len,
               m_err |-> NoErr, m_done |-> FALSE]
     IN  /\ \E k \in 1 .. MaxPerReq :
              requests' = requests \cup {Request(NoGuid, 0, Wanted(r, k))}
         /\ recv' = Asked(r)
  /\ IF stat = Absent THEN stat' = Empty /\ out' = Nothing ELSE UNCHANGED <<stat, out>>
  /\ UNCHANGED <<disk, indexed, sends, replies, noroute>>

\* Mutant of Recorded: everything up to the first missing chunk, and that one.
RecordedOneMore(r) ==
  [is |-> "full", len |-> r.bytes, hash |-> r.m_hash,
   valid |-> r.valid \cup {r.m_first_chunkilack}]

Recorded(r) == [is |-> "full", len |-> r.bytes, hash |-> r.m_hash, valid |-> r.valid]

\* ~XferRecv: save the state, and delete it if the file is complete or empty.
Destroyed(r) ==
  IF r.m_done \/ out = Nothing THEN Absent
  ELSE IF r.lasthdr THEN Recorded(r) ELSE stat

\* run: an error or the end of the download has it deleted.
RunEnded ==
  /\ recv.on /\ (recv.m_err # NoErr \/ recv.m_done)
  /\ stat' = Destroyed(recv) /\ recv' = Idle
  /\ UNCHANGED <<disk, indexed, sends, out, requests, replies, noroute, spent>>

Underway(g) ==
  \/ \E i \in DOMAIN replies : replies[i].guid = g
  \/ \E q \in requests : q.guid = g
  \/ \E s \in sends : s.guid = g /\ s.m_err = NoErr /\ g \notin noroute /\
                      (s.m_need_reply \/ s.chunks_to_send # {})

\* Mutant of RunRecv: a download that has got nothing waits on.
RunRecvWaiting ==
  /\ recv.on /\ recv.m_err = NoErr /\ ~recv.m_done
  /\ recv.chunks_coming <= 0 \/ ~Patient \/ ~Underway(recv.m_guid)
  /\ recv.lasthdr /\ recv.m_hasgotchunks
  /\ recv' = Asked(recv)
  /\ \E k \in 1 .. MaxPerReq :
       requests' = requests \cup {Request(recv.m_guid, 0, Wanted(recv, k))}
  /\ UNCHANGED <<disk, indexed, sends, out, stat, replies, noroute, spent>>

\* run: the chunks asked for have come, or none has come for 30 seconds; every
\* 60 seconds the state file is brought up to date.
RunRecv ==
  /\ recv.on /\ recv.m_err = NoErr /\ ~recv.m_done
  /\ \/ recv.lasthdr /\ stat' = Recorded(recv)
     \/ stat' = stat
  /\ \/ /\ recv.chunks_coming <= 0 \/ ~Patient \/ ~Underway(recv.m_guid)
        /\ IF recv.lasthdr /\ recv.m_hasgotchunks
           THEN /\ recv' = Asked(recv)
                /\ \E k \in 1 .. MaxPerReq :
                     requests' = requests \cup {Request(recv.m_guid, 0, Wanted(recv, k))}
           ELSE /\ recv' = [recv EXCEPT !.m_err = TimedOut, !.chunks_coming = Many]
                /\ UNCHANGED requests
     \/ stat' # stat /\ UNCHANGED <<recv, requests>>
  /\ UNCHANGED <<disk, indexed, sends, out, replies, noroute, spent>>

\* onGotMsg for a header: a file that is not the one begun starts from scratch.
GotHeader(r, h) ==
  LET same == r.bytes = h.len /\ r.m_hash = h.hash
  IN  [r EXCEPT !.lasthdr = TRUE, !.m_hasgotchunks = TRUE,
         !.chunks_coming = h.count, !.m_chunk_total = h.len,
         !.bytes = h.len, !.m_hash = h.hash, !.valid = IF same THEN @ ELSE {}]

\* Mutant of HashMatches: nothing is compared.
HashMatchesAnything(r, file) == TRUE

\* Whether the file on disk hashes to what the header announced.
HashMatches(r, file) ==
  r.m_hash # NoHash => \A c \in Chunks(r.m_chunk_total) : file[c] = r.m_hash

\* onGotMsg for a chunk; the file is complete when every chunk is valid.
GotChunk(r, d) ==
  LET file == IF d.of = "none" THEN out ELSE [out EXCEPT ![d.index] = d.of]
      now  == [r EXCEPT !.m_hasgotchunks = TRUE, !.valid = @ \cup {d.index},
                        !.chunks_coming = @ - 1]
      full == Chunks(r.m_chunk_total) \subseteq now.valid
  IN  IF ~r.lasthdr
      THEN /\ recv' = [r EXCEPT !.m_hasgotchunks = TRUE, !.m_err = NoHeader]
           /\ UNCHANGED <<out, requests>>
      ELSE IF d.index >= r.m_chunk_total
      THEN /\ recv' = [r EXCEPT !.m_hasgotchunks = TRUE, !.m_err = OutOfRange]
           /\ UNCHANGED <<out, requests>>
      ELSE /\ out' = file
           /\ recv' = IF full THEN [now EXCEPT !.m_done = TRUE,
                        !.m_err = IF HashMatches(r, file) THEN NoErr ELSE Mismatch]
                      ELSE now
           /\ requests' = IF full THEN requests \cup {Request(r.m_guid, 2, {})} ELSE requests

\* MESSAGE_FILE_REQUEST_REPLY: only the id of the last request is listened to.
GotReply ==
  /\ replies # <<>>
  /\ replies' = Tail(replies)
  /\ LET m == Head(replies)
     IN  IF ~recv.on \/ recv.m_err # NoErr \/ recv.m_done
         THEN UNCHANGED <<recv, out, requests>>
         ELSE IF recv.m_guid # m.guid THEN UNCHANGED <<recv, out, requests>>
         ELSE CASE m.kind = "error"  -> /\ recv' = [recv EXCEPT !.m_err = m.err]
                                        /\ UNCHANGED <<out, requests>>
                [] m.kind = "header" -> /\ recv' = GotHeader(recv, m)
                                        /\ UNCHANGED <<out, requests>>
                [] m.kind = "data"   -> GotChunk(recv, m)
  /\ UNCHANGED <<disk, indexed, sends, stat, noroute, spent>>

\* cancelTransfer of a download: Abort and the destructor.
CancelDownload ==
  /\ recv.on /\ Spend("aborts", MaxAborts)
  /\ requests' = requests \cup {Request(recv.m_guid, 1, {})}
  /\ stat' = Destroyed(recv) /\ recv' = Idle
  /\ UNCHANGED <<disk, indexed, sends, out, replies, noroute>>

\* The downloader dies; each chunk was flushed when it was written.
CrashDownloader ==
  /\ recv.on /\ Spend("crashes", MaxCrashes)
  /\ recv' = Idle
  /\ UNCHANGED <<disk, indexed, sends, out, stat, requests, replies, noroute>>

-----------------------------------------------------------------------------
(* The uploader.                                                           *)

\* Mutant of Answering: no header is sent.
AnsweringBare(s, q) ==
  LET there == q.need \cap Chunks(Size[s.of])
      todo  == IF there = {} THEN {0} ELSE there
  IN  IF s.m_err # NoErr THEN s
      ELSE IF q.abort # 0
      THEN [s EXCEPT !.m_err = IF q.abort = 2 THEN "Completed" ELSE "Aborted"]
      ELSE [s EXCEPT !.chunks_to_send = todo, !.count = Cardinality(todo)]

\* XferSend::onGotMsg: chunks beyond the end are left out, and chunk 0 stands in
\* for a request that asks for none.
Answering(s, q) ==
  LET there == q.need \cap Chunks(Size[s.of])
      todo  == IF there = {} THEN {0} ELSE there
  IN  IF s.m_err # NoErr THEN s
      ELSE IF q.abort # 0
      THEN [s EXCEPT !.m_err = IF q.abort = 2 THEN "Completed" ELSE "Aborted"]
      ELSE [s EXCEPT !.m_need_reply = TRUE, !.chunks_to_send = todo,
                     !.count = Cardinality(todo)]

\* set_error(1) and set_error(2), as the other end reads them.
ErrorReply(g, err) == [guid |-> g, kind |-> "error", err |-> err]

\* The constructor: length and hash are those of now, and the file stays open; it reads
\* what the file holds by then, if that is still the file of that name.
NewSend(g) ==
  [guid |-> g, of |-> disk, reads |-> disk, linked |-> TRUE, m_need_reply |-> FALSE,
   chunks_to_send |-> {}, count |-> 0, m_err |-> NoErr]

\* A request that names no transfer: beyond the limit it is not answered; without the
\* file it asked for, under its name, there is an error for an answer.
FirstRequest(q) ==
  CASE q.abort # 0 \/ Cardinality(sends) >= UploadLimit -> UNCHANGED <<sends, replies>>
    [] OTHER ->
         IF indexed /\ disk # Gone
         THEN /\ sends' = sends \cup {Answering(NewSend(q.guid), q)}
              /\ UNCHANGED replies
         ELSE /\ replies' = Append(replies, ErrorReply(q.guid, NotFound))
              /\ UNCHANGED sends

\* MESSAGE_FILE_REQUEST: it continues the transfer it names, or begins one.
GotRequest(q) ==
  /\ q \in requests
  /\ requests' = requests \ {q}
  /\ IF \E s \in sends : s.guid = q.prev
     THEN /\ \E s \in sends :
               /\ s.guid = q.prev
               /\ sends' = (sends \ {s}) \cup {Answering([s EXCEPT !.guid = q.guid], q)}
          /\ UNCHANGED replies
     ELSE FirstRequest(q)
  /\ UNCHANGED <<disk, indexed, recv, out, stat, noroute, spent>>

\* processTransfers on a transfer that is over, or silent for five minutes.
SendEnded(s) ==
  /\ s \in sends
  /\ \/ s.m_err # NoErr
     \/ /\ s.chunks_to_send = {} /\ ~s.m_need_reply
        /\ \/ ~Patient
           \/ recv.m_guid # s.guid /\ \A q \in requests : q.prev # s.guid
  /\ sends' = sends \ {s}
  /\ UNCHANGED <<disk, indexed, recv, out, stat, requests, replies, noroute, spent>>

Header(s) == [guid |-> s.guid, kind |-> "header", len |-> Size[s.of],
              hash |-> HashOf(s.of), count |-> s.count]
Data(s, x) == [guid |-> s.guid, kind |-> "data", index |-> x,
               of |-> IF x < Size[s.reads] THEN s.reads ELSE "none"]

\* processTransfers: the header if it is due, then one chunk if the queue it goes
\* to exists and has room; what is sent without a route is gone.
RunSend(s) ==
  /\ s \in sends /\ s.m_err = NoErr
  /\ LET lost == s.guid \in noroute
         room == ~lost /\ s.chunks_to_send # {} /\ Len(replies) < QueueRoom
         x    == Min(s.chunks_to_send)
     IN  /\ s.m_need_reply \/ room
         /\ replies' = replies \o (IF s.m_need_reply /\ ~lost THEN <<Header(s)>> ELSE <<>>)
                               \o (IF room THEN <<Data(s, x)>> ELSE <<>>)
         /\ sends' = (sends \ {s}) \cup
              {[s EXCEPT !.m_need_reply = FALSE,
                         !.chunks_to_send = IF room THEN @ \ {x} ELSE @]}
  /\ UNCHANGED <<disk, indexed, recv, out, stat, requests, noroute, spent>>

\* cancelTransfer of an upload: Abort and the destructor.
CancelUpload(s) ==
  /\ s \in sends /\ Spend("aborts", MaxAborts)
  /\ sends' = sends \ {s}
  /\ replies' = IF s.guid \in noroute THEN replies
                ELSE Append(replies, ErrorReply(s.guid, RemoteAbort))
  /\ UNCHANGED <<disk, indexed, recv, out, stat, requests, noroute>>

-----------------------------------------------------------------------------
(* Around them.                                                            *)

\* The file is written anew where it is: whoever has it open reads what it holds now.
RewriteFile ==
  /\ disk # Gone /\ spent.changes < MaxChanges
  /\ disk' \in Version \ {disk}
  /\ sends' = {[s EXCEPT !.reads = IF s.linked THEN disk' ELSE @] : s \in sends}
  /\ spent' = [spent EXCEPT !.changes = @ + 1,
                            !.torn = IF \E s \in sends : s.linked THEN @ + 1 ELSE @]
  /\ UNCHANGED <<indexed, recv, out, stat, requests, replies, noroute>>

\* Another file takes its name, or it is removed: who has it open keeps the old one.
ReplaceFile ==
  /\ Spend("changes", MaxChanges)
  /\ disk' \in (Version \cup {Gone}) \ {disk}
  /\ sends' = {[s EXCEPT !.linked = FALSE] : s \in sends}
  /\ UNCHANGED <<indexed, recv, out, stat, requests, replies, noroute>>

\* A full queue drops a message, or an answer comes before downloadFile has added the
\* download to the list.
Lose ==
  /\ Spend("lost", MaxLost)
  /\ \/ /\ \E q \in requests : requests' = requests \ {q}
        /\ UNCHANGED replies
     \/ /\ \E i \in DOMAIN replies :
             replies' = SubSeq(replies, 1, i - 1) \o SubSeq(replies, i + 1, Len(replies))
        /\ UNCHANGED requests
  /\ UNCHANGED <<disk, indexed, sends, recv, out, stat, noroute>>

\* The queue the request came on is deleted, and the route with it.
LoseRoute(s) ==
  /\ MayLoseRoute /\ s \in sends /\ s.guid \notin noroute
  /\ noroute' = noroute \cup {s.guid}
  /\ UNCHANGED <<disk, indexed, sends, recv, out, stat, requests, replies, spent>>

\* The uploader is started again, and numbers its files anew.
RestartUploader ==
  /\ sends # {} /\ Spend("crashes", MaxCrashes)
  /\ sends' = {} /\ indexed' \in BOOLEAN
  /\ UNCHANGED <<disk, recv, out, stat, requests, replies, noroute>>

Next ==
  \/ StartDownload \/ RunEnded \/ RunRecv \/ GotReply \/ CancelDownload \/ CrashDownloader
  \/ \E q \in requests : GotRequest(q)
  \/ \E s \in sends : SendEnded(s) \/ RunSend(s) \/ CancelUpload(s) \/ LoseRoute(s)
  \/ RewriteFile \/ ReplaceFile \/ Lose \/ RestartUploader

Spec == Init /\ [][Next]_vars

\* Both event loops keep calling processTransfers and handing messages over.
FairSpec ==
  /\ Spec /\ WF_vars(RunEnded) /\ WF_vars(RunRecv /\ recv' # recv) /\ WF_vars(GotReply)
  /\ WF_vars(\E q \in requests : GotRequest(q))
  /\ WF_vars(\E s \in sends : SendEnded(s)) /\ WF_vars(\E s \in sends : RunSend(s))

-----------------------------------------------------------------------------
\* The variables keep their types; a chunk is valid only below the end.
TypeOK ==
  /\ disk \in Version \cup {Gone}
  /\ out \in [Chunks(MaxChunk) -> Version \cup {"none"}]
  /\ recv.on => recv.valid \subseteq Chunks(recv.m_chunk_total)
  /\ Cardinality(sends) <= UploadLimit
  /\ noroute \subseteq Guid /\ IdsLeft

\* A chunk that is marked valid is in the output file, and is of the file that is
\* being downloaded, also after a resume and when a request reached another XferSend.
\* When the file changes this takes a network and programs that hold, and a file that is
\* not written to while an XferSend has it open (xfers.cpp:90 lets others write): after a
\* lost header, or from such a file, chunks of the new file come in under the old hash.
\* The state file never claims what a crash could have taken away, as long as the
\* file stays what it is: it may speak of the old file while the new one comes in.
ValidIsWritten ==
  /\ TypeOK
  /\ spent.changes = 0 \/ (spent.lost = 0 /\ spent.crashes = 0 /\ spent.torn = 0) =>
       (recv.on /\ recv.m_hash # NoHash => \A c \in recv.valid : out[c] = recv.m_hash)
  /\ spent.changes = 0 => (stat.hash # NoHash => \A c \in stat.valid : out[c] = stat.hash)

\* A download that reads "Completed" is the file that was hashed, whatever was lost,
\* changed, also while it was being sent, resumed or restarted on the way.
CompletedIsTheFile ==
  recv.on => (recv.m_done /\ recv.m_err = NoErr =>
    recv.m_hash \in Version /\ \A c \in Chunks(Size[recv.m_hash]) : out[c] = recv.m_hash)

\* A download is given up for a cause: "data with no header" only if something was lost or a
\* connection broke, "SHA mismatch" only if the file changed (xfers.cpp:1131-1190, 1255),
\* "File not found" only if it changed or the uploader was started again.
FailsForCause ==
  recv.on =>
    /\ spent.lost = 0 /\ noroute = {} => recv.m_err # NoHeader
    /\ spent.changes = 0 => recv.m_err # Mismatch
    /\ spent.changes = 0 /\ spent.crashes = 0 => recv.m_err # NotFound

\* A download ends: it completes, fails or times out.
DownloadEnds == recv.on ~> ~recv.on

\* It completes, unless a message or the way back is lost or somebody calls it off.
Undisturbed == spent.lost = 0 /\ spent.aborts = 0 /\ noroute = {}
DownloadCompletes == recv.on ~> (recv.on /\ recv.m_done /\ recv.m_err = NoErr) \/ ~Undisturbed

\* An upload ends, completed, aborted, or after "5 minutes" without a word, as long as
\* there is a queue to send on.
UploadsEnd == sends # {} ~> sends = {} \/ noroute # {}

\* Both ends of a transfer come to an end.
TransfersEnd == DownloadEnds /\ UploadsEnd
=============================================================================
