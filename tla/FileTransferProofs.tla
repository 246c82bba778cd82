------------------------- MODULE FileTransferProofs -------------------------
(***************************************************************************)
(* What holds of every download of FileTransfer, for any set of versions,  *)
(* any limits and any number of requests on the way, as long as message    *)
(* ids do not run out: a chunk that is marked valid is in the file, a      *)
(* download that reads "Completed" is the file that was hashed, and one    *)
(* that is given up was given up for a cause.                              *)
(***************************************************************************)
EXTENDS FileTransfer, SequenceTheorems, FiniteSetTheorems,
        WellFoundedInduction, TLAPS

Hash == Version \cup {NoHash}
Upload ==
  [guid : Guid, of : Version, reads : Version, linked : BOOLEAN, m_need_reply : BOOLEAN,
   chunks_to_send : SUBSET Nat, count : Nat, m_err : {NoErr, "Completed", "Aborted"}]
Ask == [guid : Guid, prev : Guid \cup {NoGuid}, abort : {0, 1, 2}, need : SUBSET Nat]
HeaderMsg == [guid : Guid, kind : {"header"}, len : Nat, hash : Hash, count : Nat]
DataMsg == [guid : Guid, kind : {"data"}, index : Nat, of : Version \cup {"none"}]
ErrorMsg == [guid : Guid, kind : {"error"}, err : {NotFound, RemoteAbort}]
Msg == HeaderMsg \cup DataMsg \cup ErrorMsg
RecvError == {NoErr, TimedOut, NoHeader, OutOfRange, Mismatch, RemoteAbort, NotFound}
Download ==
  [on : {TRUE}, m_guid : Guid, bytes : Nat, m_hash : Hash, valid : SUBSET Nat,
   lasthdr : BOOLEAN, m_hasgotchunks : BOOLEAN, chunks_coming : Int,
   m_first_chunkilack : Nat, m_chunk_total : Nat, m_err : RecvError, m_done : BOOLEAN]
StateFile == [is : {"absent", "empty", "full"}, len : Nat, hash : Hash, valid : SUBSET Nat]
Spending ==
  [downloads : Nat, lost : Nat, changes : Nat, torn : Nat, crashes : Nat, aborts : Nat]

TypeInv ==
  /\ disk \in Version \cup {Gone} /\ indexed \in BOOLEAN
  /\ out \in [Chunks(MaxChunk) -> Version \cup {"none"}]
  /\ sends \subseteq Upload /\ IsFiniteSet(sends) /\ Cardinality(sends) <= UploadLimit
  /\ requests \subseteq Ask /\ replies \in Seq(Msg)
  /\ recv = Idle \/ recv \in Download
  /\ stat \in StateFile /\ noroute \subseteq Guid /\ spent \in Spending

-----------------------------------------------------------------------------
(* What a message, a transfer and the state file say of a file.            *)

SendFits(s) == s.chunks_to_send \subseteq Chunks(Size[s.of])
MsgFits(m) == m.kind = "header" => \E v \in Version : m.hash = HashOf(v) /\ m.len = Size[v]
\* A download keeps what the state file said until a header has come.
RecvFits(r, st) ==
  /\ r.valid \subseteq Chunks(r.m_chunk_total) /\ r.valid \subseteq Chunks(r.bytes)
  /\ r.lasthdr => \E v \in Version : /\ r.m_hash = HashOf(v)
                                     /\ r.bytes = Size[v] /\ r.m_chunk_total = Size[v]
  /\ ~r.lasthdr => /\ r.valid = st.valid /\ r.m_hash = st.hash /\ r.bytes = st.len
                   /\ ~r.m_done
StatFits(st) == st.valid \subseteq Chunks(st.len)

SendsFit ==
  /\ \A s \in sends : SendFits(s)
  /\ spent.torn = 0 => \A s \in sends : s.reads = s.of
MsgsFit == \A i \in DOMAIN replies : MsgFits(replies[i])
RecvFit == recv.on => RecvFits(recv, stat)
FitInv == SendsFit /\ MsgsFit /\ RecvFit /\ StatFits(stat)

\* A download without an error that is done is the file it has the hash of.
DoneInv ==
  recv.on => (recv.m_done /\ recv.m_err = NoErr => HashMatches(recv, out))

-----------------------------------------------------------------------------
(* As long as the file does not change, everything is about that file.     *)

\* The chunks cs of the file are what a hash promises.
Holds(file, cs, hash) == hash # NoHash => \A c \in cs : file[c] = hash

MsgOf(m, file) ==
  /\ m.kind = "header" => m.hash = HashOf(file)
  /\ m.kind = "data" => m.of = file
SameMsgs ==
  spent.changes = 0 =>
    /\ disk \in Version /\ spent.torn = 0 /\ \A s \in sends : s.of = disk
    /\ \A i \in DOMAIN replies : MsgOf(replies[i], disk)
SameFile ==
  spent.changes = 0 =>
    /\ recv.on => /\ recv.m_hash # NoHash => recv.m_hash = disk
                  /\ Holds(out, recv.valid, recv.m_hash)
                  /\ recv.m_err # Mismatch
    /\ stat.hash # NoHash => stat.hash = disk
    /\ Holds(out, stat.valid, stat.hash)
SameInv == SameMsgs /\ SameFile

-----------------------------------------------------------------------------
(* Ids keep what belongs to different requests apart.                      *)

Unanswered ==
  \A q \in requests :
    /\ \A i \in DOMAIN replies : replies[i].guid # q.guid
    /\ \A s \in sends : s.guid # q.guid
AsksDiffer == \A p, q \in requests : p.guid = q.guid => p = q
SendsDiffer == \A s, t \in sends : s.guid = t.guid => s = t
\* What goes out under one id is of one version, the one the upload began with, unless it
\* was written to meanwhile.
MsgsAgree ==
  spent.torn = 0 =>
    \A i, j \in DOMAIN replies :
      replies[i].guid = replies[j].guid /\ replies[i].kind = "header"
        /\ replies[j].kind = "data" => HashOf(replies[j].of) = replies[i].hash
MsgsOfSends ==
  spent.torn = 0 =>
    \A s \in sends : \A i \in DOMAIN replies :
      replies[i].guid = s.guid => MsgOf(replies[i], s.of)
IdsInv == Unanswered /\ AsksDiffer /\ SendsDiffer /\ MsgsAgree /\ MsgsOfSends

-----------------------------------------------------------------------------
(* As long as nothing is lost, a chunk comes behind its header.            *)

\* The header of version v's chunks comes among the next n messages, or has come; of which
\* version it was is known only as long as no file was written to while it was sent.
Announced(rs, r, n, v, torn) ==
  \/ \E i \in 1 .. n : rs[i].guid = r.m_guid /\ rs[i].kind = "header"
  \/ r.lasthdr /\ (torn = 0 => r.m_hash = HashOf(v))
Live(r) == r.m_err = NoErr /\ ~r.m_done
Streaming(s) == s.m_err = NoErr /\ ~s.m_need_reply /\ s.chunks_to_send # {}
MsgsInOrder(rs, r, torn) ==
  \A j \in DOMAIN rs :
    rs[j].guid = r.m_guid /\ rs[j].kind = "data" => Announced(rs, r, j - 1, rs[j].of, torn)
SendsInOrder(rs, r, ss, lost, torn) ==
  \A s \in ss : s.guid = r.m_guid /\ s.guid \notin lost /\ Streaming(s)
                  => Announced(rs, r, Len(rs), s.of, torn)
OrderInv ==
  recv.on /\ spent.lost = 0 =>
    /\ recv.m_err # NoHeader
    /\ Live(recv) => /\ MsgsInOrder(replies, recv, spent.torn)
                     /\ SendsInOrder(replies, recv, sends, noroute, spent.torn)

\* As long as nothing is lost, nobody crashes and no file is written to while it is sent,
\* what is valid is of the file begun.
KeptInv ==
  spent.lost = 0 /\ spent.crashes = 0 /\ spent.torn = 0 =>
    /\ recv.on => Holds(out, recv.valid, recv.m_hash)
    /\ ~recv.on \/ ~recv.lasthdr => Holds(out, stat.valid, stat.hash)

TransferInv == TypeInv /\ FitInv /\ DoneInv /\ SameInv /\ IdsInv /\ OrderInv /\ KeptInv

-----------------------------------------------------------------------------
(* Numbers, sets and sequences.                                            *)

LEMMA LeastIs ==
  ASSUME NEW S \in SUBSET Nat, S # {}
  PROVE  Min(S) \in S /\ \A y \in S : Min(S) <= y
<1> DEFINE R == OpToRel(<, Nat)
<1>1. \A x, y \in Nat : x < y => <<x, y>> \in R
  BY DEF OpToRel
<1>2. IsWellFoundedOn(R, Nat)
  BY NatLessThanWellFounded, Zenon
<1> HIDE DEF R
<1>3. PICK x \in S : \A y \in S : ~(<<y, x>> \in R)
  BY <1>2, WFMin
<1>4. \A y \in S : x <= y
  <2> SUFFICES ASSUME NEW y \in S, ~(x <= y) PROVE FALSE
    OBVIOUS
  <2>1. x \in Nat /\ y \in Nat /\ y < x
    OBVIOUS
  <2> QED BY <1>1, <1>3, <2>1
<1> QED BY <1>4 DEF Min

\* A finite set of numbers has an upper bound: a least one without would lose an element.
LEMMA BoundOf ==
  ASSUME NEW S \in SUBSET Nat, IsFiniteSet(S)
  PROVE  \E b \in Nat : \A x \in S : x <= b
<1> DEFINE Bound(T) == \E b \in Nat : \A x \in T : x <= b
           N == {n \in Nat : \E T \in SUBSET S : ~Bound(T) /\ Cardinality(T) = n}
<1> SUFFICES ASSUME ~Bound(S) PROVE FALSE
  OBVIOUS
<1>1. \A T \in SUBSET S : IsFiniteSet(T) /\ Cardinality(T) \in Nat
  BY FS_Subset, FS_CardinalityType
<1>2. Cardinality(S) \in N
  BY <1>1
<1>3. PICK n \in N : \A k \in N : n <= k
  BY <1>2, LeastIs
<1>4. PICK T \in SUBSET S : ~Bound(T) /\ Cardinality(T) = n
  BY <1>3
<1>5. T # {}
  BY <1>4
<1>6. PICK x \in T : TRUE
  BY <1>5
<1>7. Cardinality(T \ {x}) = n - 1
  BY <1>1, <1>4, FS_RemoveElement
<1>8. n \in Nat /\ n - 1 \in Nat
  BY <1>1, <1>7, <1>3
<1>9. Bound(T \ {x})
  <2>1. ~(n - 1 \in N)
    BY <1>3, <1>8
  <2> QED BY <2>1, <1>7, <1>8
<1>10. PICK b \in Nat : \A y \in T \ {x} : y <= b
  BY <1>9
<1>11. x \in Nat /\ T \subseteq Nat
  OBVIOUS
<1>12. Bound(T)
  <2>1. CASE b <= x
    BY <2>1, <1>10, <1>11
  <2>2. CASE x <= b
    BY <2>2, <1>10, <1>11
  <2> QED BY <2>1, <2>2, <1>11
<1> QED BY <1>4, <1>12

LEMMA GreatestIs ==
  ASSUME NEW S \in SUBSET Nat, IsFiniteSet(S), S # {}
  PROVE  Max(S) \in S /\ \A y \in S : y <= Max(S)
<1> DEFINE B == {b \in Nat : \A x \in S : x <= b}
<1>1. B # {} /\ B \subseteq Nat
  BY BoundOf
<1>2. PICK b \in B : \A c \in B : b <= c
  BY <1>1, LeastIs
<1>3. b \in S
  <2> SUFFICES ASSUME b \notin S PROVE FALSE
    OBVIOUS
  <2>1. PICK x \in S : TRUE
    OBVIOUS
  <2>2. \A y \in S : y \in Nat /\ y < b
    BY <1>2
  <2>3. b \in Nat /\ b - 1 \in Nat
    BY <1>2, <2>1, <2>2
  <2>4. b - 1 \in B
    BY <2>2, <2>3
  <2> QED BY <1>2, <2>3, <2>4
<1>4. \A y \in S : y <= b
  BY <1>2
<1>5. \E m \in S : \A y \in S : m >= y
  BY <1>3, <1>4
<1>6. Max(S) \in S /\ \A y \in S : Max(S) >= y
  BY <1>5 DEF Max
<1> QED BY <1>6

LEMMA SizeIs ==
  ASSUME NEW v \in Version
  PROVE  /\ Size[v] \in Nat \ {0} /\ MaxChunk \in Nat /\ Size[v] <= MaxChunk
         /\ HashOf(v) \in Hash /\ v # "none" /\ v # NoHash
         /\ Chunks(Size[v]) \subseteq Chunks(MaxChunk)
<1> DEFINE S == {Size[w] : w \in Version}
<1>1. IsFiniteSet(S) /\ S \in SUBSET Nat /\ Size[v] \in S
  <2>1. Size \in Surjection(Version, S)
    BY FileAssumption DEF FileAssumption, Surjection
  <2>2. IsFiniteSet(Version)
    BY FileAssumption DEF FileAssumption
  <2>3. IsFiniteSet(S)
    BY <2>1, <2>2, FS_Surjection
  <2> QED BY <2>3, FileAssumption DEF FileAssumption
<1>2. MaxChunk = Max(S)
  BY DEF MaxChunk
<1> HIDE DEF S
<1>3. Max(S) \in Nat /\ Size[v] <= Max(S)
  BY <1>1, GreatestIs
<1>4. Size[v] \in Nat \ {0} /\ v # "none" /\ v # NoHash
  BY FileAssumption DEF FileAssumption
<1>5. Chunks(Size[v]) \subseteq Chunks(MaxChunk)
  BY <1>2, <1>3, <1>4 DEF Chunks
<1> QED BY <1>2, <1>3, <1>4, <1>5 DEF Hash, HashOf

LEMMA Constants ==
  /\ NoHash \notin Version /\ "none" \notin Version /\ NoGuid \notin Guid
  /\ MaxPerReq \in Nat \ {0} /\ UploadLimit \in Nat /\ Many \in Nat
  /\ Hashed \in BOOLEAN
BY FileAssumption DEF FileAssumption, Many

LEMMA ErrorsDiffer ==
  /\ TimedOut # NoErr /\ TimedOut # NoHeader /\ TimedOut # Mismatch
  /\ NotFound # NoErr /\ NotFound # NoHeader /\ NotFound # Mismatch
  /\ NotFound # TimedOut /\ NotFound # OutOfRange /\ NotFound # RemoteAbort
  /\ OutOfRange # NoErr /\ OutOfRange # NoHeader /\ OutOfRange # Mismatch
  /\ RemoteAbort # NoErr /\ RemoteAbort # NoHeader /\ RemoteAbort # Mismatch
  /\ NoErr # NoHeader /\ NoErr # Mismatch /\ NoHeader # Mismatch
BY Zenon DEF NoErr, TimedOut, NoHeader, OutOfRange, Mismatch, RemoteAbort, NotFound

\* A new id is in no use.
LEMMA FreshIs ==
  ASSUME TypeInv, IdsLeft
  PROVE  /\ NewGuid \in Guid /\ NewGuid \notin noroute /\ recv.m_guid # NewGuid
         /\ \A s \in sends : s.guid # NewGuid
         /\ \A q \in requests : q.guid # NewGuid
         /\ \A i \in DOMAIN replies : replies[i].guid # NewGuid
<1>1. NewGuid \in Guid /\ NewGuid \notin InUse
  BY DEF IdsLeft, NewGuid
<1> QED BY <1>1 DEF InUse

LEMMA TodoIs ==
  ASSUME NEW need \in SUBSET Nat, NEW n \in Nat \ {0}
  PROVE  LET there == need \cap Chunks(n)
             todo  == IF there = {} THEN {0} ELSE there
         IN  todo \subseteq Chunks(n) /\ todo # {} /\ Cardinality(todo) \in Nat
<1>1. IsFiniteSet(Chunks(n)) /\ 0 \in Chunks(n)
  BY FS_Interval DEF Chunks
<1>2. \A t \in SUBSET Chunks(n) : Cardinality(t) \in Nat
  BY <1>1, FS_Subset, FS_CardinalityType
<1> QED BY <1>1, <1>2

\* Putting one transfer in the place of another leaves no more of them.
LEMMA SwapIs ==
  ASSUME NEW S, IsFiniteSet(S), NEW s \in S, NEW t
  PROVE  /\ IsFiniteSet((S \ {s}) \cup {t})
         /\ Cardinality((S \ {s}) \cup {t}) <= Cardinality(S)
<1>1. Cardinality(S) \in Nat
  BY FS_CardinalityType
<1>2. IsFiniteSet(S \ {s}) /\ Cardinality(S \ {s}) = Cardinality(S) - 1
  BY FS_RemoveElement
<1>3. /\ IsFiniteSet((S \ {s}) \cup {t})
      /\ \/ Cardinality((S \ {s}) \cup {t}) = Cardinality(S \ {s})
         \/ Cardinality((S \ {s}) \cup {t}) = Cardinality(S \ {s}) + 1
  BY <1>2, FS_AddElement
<1> QED BY <1>1, <1>2, <1>3

-----------------------------------------------------------------------------
(* What the operations on a download and on an upload return.              *)

\* A download as the constructor makes it, before its first request.
Begun ==
  [on : {TRUE}, m_guid : Guid \cup {NoGuid}, bytes : Nat, m_hash : Hash, valid : SUBSET Nat,
   lasthdr : BOOLEAN, m_hasgotchunks : BOOLEAN, chunks_coming : Int,
   m_first_chunkilack : Nat, m_chunk_total : Nat, m_err : RecvError, m_done : BOOLEAN]

LEMMA LackingIs ==
  ASSUME NEW r \in Begun
  PROVE  /\ Lacking(r) \subseteq Nat
         /\ \A k \in Nat : Wanted(r, k) \subseteq Nat
         /\ Lacking(r) # {} => Min(Lacking(r)) \in Nat
<1>1. Lacking(r) \in SUBSET Nat
  BY DEF Lacking, Begun
<1>2. Lacking(r) # {} => Min(Lacking(r)) \in Nat
  BY <1>1, LeastIs
<1> QED BY <1>1, <1>2 DEF Wanted

LEMMA AskedIs ==
  ASSUME NEW r \in Begun, NewGuid \in Guid
  PROVE  /\ Asked(r) \in Download
         /\ Asked(r).m_guid = NewGuid /\ Asked(r).on
         /\ Asked(r).bytes = r.bytes /\ Asked(r).m_hash = r.m_hash
         /\ Asked(r).valid = r.valid /\ Asked(r).lasthdr = r.lasthdr
         /\ Asked(r).m_chunk_total = r.m_chunk_total
         /\ Asked(r).m_err = r.m_err /\ Asked(r).m_done = r.m_done
<1> DEFINE f == IF Lacking(r) = {} THEN r.m_first_chunkilack ELSE Min(Lacking(r))
<1>1. f \in Nat
  BY LackingIs DEF Begun
<1>2. Asked(r) = [r EXCEPT !.m_guid = NewGuid, !.chunks_coming = Many,
                           !.m_hasgotchunks = FALSE, !.m_first_chunkilack = f]
  BY DEF Asked, Begun
<1> HIDE DEF f
<1>3. Many \in Int
  BY Constants
<1> QED BY <1>1, <1>2, <1>3 DEF Begun, Download

\* The constructor's download, and what it takes from the state file.
Fresh ==
  [on |-> TRUE, m_guid |-> NoGuid, bytes |-> stat.len, m_hash |-> stat.hash,
   valid |-> stat.valid, lasthdr |-> FALSE, m_hasgotchunks |-> FALSE,
   chunks_coming |-> Many, m_first_chunkilack |-> 0,
   m_chunk_total |-> IF stat.len = 0 THEN MaxPerReq ELSE stat.len,
   m_err |-> NoErr, m_done |-> FALSE]

LEMMA FreshDownload ==
  ASSUME TypeInv
  PROVE  Fresh \in Begun
<1>1. Many \in Int /\ MaxPerReq \in Nat
  BY Constants
<1>2. stat.len \in Nat /\ stat.hash \in Hash /\ stat.valid \in SUBSET Nat
  BY DEF TypeInv, StateFile
<1> QED BY <1>1, <1>2 DEF Fresh, Begun, RecvError

LEMMA OnIs ==
  ASSUME TypeInv
  PROVE  /\ recv.on \in BOOLEAN
         /\ recv.on => recv \in Download /\ recv \in Begun
         /\ ~recv.on => recv = Idle
         /\ recv.m_guid \in Guid \cup {NoGuid}
<1>1. Idle.on = FALSE /\ Idle.m_guid = NoGuid
  BY DEF Idle
<1>2. recv \in Download => recv.on = TRUE /\ recv.m_guid \in Guid /\ recv \in Begun
  BY DEF Download, Begun
<1> QED BY <1>1, <1>2 DEF TypeInv

LEMMA RequestIs ==
  ASSUME NewGuid \in Guid, NEW prev \in Guid \cup {NoGuid}, NEW abort \in {0, 1, 2},
         NEW need \in SUBSET Nat
  PROVE  Request(prev, abort, need) \in Ask /\ Request(prev, abort, need).guid = NewGuid
BY DEF Request, Ask

LEMMA HeaderTaken ==
  ASSUME NEW r \in Download, NEW h \in HeaderMsg
  PROVE  LET same == r.bytes = h.len /\ r.m_hash = h.hash
             g    == GotHeader(r, h)
         IN  /\ g \in Download /\ g.on /\ g.m_guid = r.m_guid
             /\ g.bytes = h.len /\ g.m_hash = h.hash /\ g.m_chunk_total = h.len
             /\ g.lasthdr /\ g.m_err = r.m_err /\ g.m_done = r.m_done
             /\ g.valid = IF same THEN r.valid ELSE {}
<1> DEFINE same == r.bytes = h.len /\ r.m_hash = h.hash
           v == IF same THEN r.valid ELSE {}
<1>1. v \in SUBSET Nat
  BY DEF Download
<1>2. GotHeader(r, h) = [r EXCEPT !.lasthdr = TRUE, !.m_hasgotchunks = TRUE,
         !.chunks_coming = h.count, !.m_chunk_total = h.len,
         !.bytes = h.len, !.m_hash = h.hash, !.valid = v]
  BY DEF GotHeader, Download
<1>3. h.count \in Nat /\ h.len \in Nat /\ h.hash \in Hash
  BY DEF HeaderMsg
<1> DEFINE u == v
<1>4. u = IF same THEN r.valid ELSE {}
  OBVIOUS
<1> HIDE DEF v
<1>5. GotHeader(r, h) \in Download
  <2> DEFINE a == h.count  b == h.len  c == h.hash
  <2>1. a \in Int /\ b \in Nat /\ c \in Hash
    BY <1>3
  <2>2. GotHeader(r, h) = [r EXCEPT !.lasthdr = TRUE, !.m_hasgotchunks = TRUE,
         !.chunks_coming = a, !.m_chunk_total = b, !.bytes = b, !.m_hash = c, !.valid = v]
    BY <1>2
  <2> HIDE DEF a, b, c
  <2> QED BY <1>1, <2>1, <2>2 DEF Download
<1>6. /\ GotHeader(r, h).on /\ GotHeader(r, h).m_guid = r.m_guid
      /\ GotHeader(r, h).bytes = h.len /\ GotHeader(r, h).m_hash = h.hash
      /\ GotHeader(r, h).m_chunk_total = h.len /\ GotHeader(r, h).lasthdr
      /\ GotHeader(r, h).m_err = r.m_err /\ GotHeader(r, h).m_done = r.m_done
      /\ GotHeader(r, h).valid = v
  BY <1>2 DEF Download
<1> QED BY <1>4, <1>5, <1>6

LEMMA AnsweringIs ==
  ASSUME NEW s \in Upload, NEW q \in Ask
  PROVE  LET t == Answering(s, q)
         IN  /\ t \in Upload /\ t.guid = s.guid /\ t.of = s.of /\ t.reads = s.reads
             /\ t.chunks_to_send \subseteq s.chunks_to_send \cup Chunks(Size[s.of])
             /\ t.m_err # NoErr \/ t.m_need_reply
<1> DEFINE there == q.need \cap Chunks(Size[s.of])
           todo  == IF there = {} THEN {0} ELSE there
<1>1. q.need \in SUBSET Nat /\ Size[s.of] \in Nat \ {0}
  BY SizeIs DEF Ask, Upload
<1>2. todo \subseteq Chunks(Size[s.of]) /\ Cardinality(todo) \in Nat
  BY <1>1, TodoIs
<1>3. todo \subseteq Nat
  BY <1>1, <1>2 DEF Chunks
<1>4. Answering(s, q) =
        IF s.m_err # NoErr THEN s
        ELSE IF q.abort # 0
        THEN [s EXCEPT !.m_err = IF q.abort = 2 THEN "Completed" ELSE "Aborted"]
        ELSE [s EXCEPT !.m_need_reply = TRUE, !.chunks_to_send = todo,
                       !.count = Cardinality(todo)]
  BY DEF Answering
<1> DEFINE n == Cardinality(todo)
<1>5. n \in Nat
  BY <1>2
<1> HIDE DEF todo, n
<1>6. CASE s.m_err # NoErr
  BY <1>4, <1>6
<1>7. CASE s.m_err = NoErr /\ q.abort # 0
  <2>1. Answering(s, q) = [s EXCEPT !.m_err = IF q.abort = 2 THEN "Completed" ELSE "Aborted"]
    BY <1>4, <1>7
  <2> DEFINE e == IF q.abort = 2 THEN "Completed" ELSE "Aborted"
  <2>2. e \in {"Completed", "Aborted"} /\ e # NoErr
    BY DEF NoErr
  <2>3. Answering(s, q) = [s EXCEPT !.m_err = e]
    BY <2>1
  <2> HIDE DEF e
  <2> QED BY <2>2, <2>3 DEF Upload
<1>8. CASE s.m_err = NoErr /\ ~(q.abort # 0)
  <2>1. Answering(s, q) = [s EXCEPT !.m_need_reply = TRUE, !.chunks_to_send = todo, !.count = n]
    BY <1>4, <1>8 DEF n
  <2> QED BY <2>1, <1>2, <1>3, <1>5 DEF Upload
<1> QED BY <1>6, <1>7, <1>8
-----------------------------------------------------------------------------
(* Messages under way.                                                     *)

LEMMA TailIs ==
  ASSUME NEW rs \in Seq(Msg), rs # <<>>
  PROVE  /\ Head(rs) = rs[1] /\ Head(rs) \in Msg /\ Tail(rs) \in Seq(Msg)
         /\ Len(Tail(rs)) = Len(rs) - 1 /\ 1 \in DOMAIN rs
         /\ \A i \in DOMAIN Tail(rs) : Tail(rs)[i] = rs[i + 1] /\ i + 1 \in DOMAIN rs
<1>1. DOMAIN rs = 1 .. Len(rs) /\ DOMAIN Tail(rs) = 1 .. Len(Tail(rs)) /\ Len(rs) \in Nat
  BY HeadTailProperties
<1>2. Len(rs) # 0
  BY EmptySeq
<1> QED BY <1>1, <1>2, HeadTailProperties

\* A message that is lost leaves the others.
Without(rs, i) == SubSeq(rs, 1, i - 1) \o SubSeq(rs, i + 1, Len(rs))

LEMMA WithoutIs ==
  ASSUME NEW rs \in Seq(Msg), NEW i \in DOMAIN rs
  PROVE  /\ Without(rs, i) \in Seq(Msg)
         /\ \A j \in DOMAIN Without(rs, i) : \E k \in DOMAIN rs : Without(rs, i)[j] = rs[k]
<1> DEFINE a == SubSeq(rs, 1, i - 1)
           b == SubSeq(rs, i + 1, Len(rs))
<1>1. DOMAIN rs = 1 .. Len(rs) /\ Len(rs) \in Nat /\ i \in 1 .. Len(rs)
  OBVIOUS
<1>2. \A j \in DOMAIN rs : rs[j] \in Msg
  OBVIOUS
<1>3. /\ a \in Seq(Msg) /\ Len(a) = i - 1
      /\ \A j \in 1 .. Len(a) : a[j] = rs[j]
  BY <1>1, <1>2, SubSeqProperties
<1>4. /\ b \in Seq(Msg) /\ Len(b) = Len(rs) - i
      /\ \A j \in 1 .. Len(b) : b[j] = rs[i + j]
  <2>1. \A j \in i + 1 .. Len(rs) : rs[j] \in Msg
    BY <1>1, <1>2
  <2>2. i + 1 \in Int /\ Len(rs) \in Int
    BY <1>1
  <2>3. /\ b \in Seq(Msg) /\ Len(b) = IF i + 1 <= Len(rs) THEN Len(rs) - (i + 1) + 1 ELSE 0
        /\ \A j \in 1 .. Len(rs) - (i + 1) + 1 : b[j] = rs[(i + 1) + j - 1]
    BY <2>1, <2>2, SubSeqProperties
  <2> HIDE DEF b
  <2>4. Len(b) = Len(rs) - i
    <3>1. i \in Nat /\ Len(rs) \in Nat /\ i <= Len(rs)
      BY <1>1
    <3>2. Len(b) = IF i + 1 <= Len(rs) THEN Len(rs) - (i + 1) + 1 ELSE 0
      BY <2>3
    <3>3. CASE i + 1 <= Len(rs)
      BY <3>1, <3>2, <3>3
    <3>4. CASE ~(i + 1 <= Len(rs))
      BY <3>1, <3>2, <3>4
    <3> QED BY <3>3, <3>4
  <2>5. ASSUME NEW j \in 1 .. Len(b) PROVE b[j] = rs[i + j]
    <3>1. j \in 1 .. Len(rs) - (i + 1) + 1 /\ (i + 1) + j - 1 = i + j
      BY <2>4, <1>1
    <3> QED BY <3>1, <2>3
  <2> QED BY <2>3, <2>4, <2>5
<1> HIDE DEF a, b
<1>5. /\ a \o b \in Seq(Msg) /\ DOMAIN (a \o b) = 1 .. Len(a) + Len(b)
      /\ \A j \in 1 .. Len(a) + Len(b) : (a \o b)[j] = IF j <= Len(a) THEN a[j] ELSE b[j - Len(a)]
  <2>1. a \in Seq(Msg) /\ b \in Seq(Msg)
    BY <1>3, <1>4
  <2>2. /\ a \o b \in Seq(Msg) /\ Len(a \o b) = Len(a) + Len(b)
        /\ \A j \in 1 .. Len(a) + Len(b) : (a \o b)[j] = IF j <= Len(a) THEN a[j] ELSE b[j - Len(a)]
    BY <2>1, ConcatProperties
  <2> QED BY <2>2
<1>6. \A j \in 1 .. Len(a) + Len(b) : \E k \in DOMAIN rs : (a \o b)[j] = rs[k]
  <2> SUFFICES ASSUME NEW j \in 1 .. Len(a) + Len(b)
               PROVE  \E k \in DOMAIN rs : (a \o b)[j] = rs[k]
    OBVIOUS
  <2>1. CASE j <= Len(a)
    <3>1. j \in 1 .. Len(a) /\ j \in DOMAIN rs
      BY <2>1, <1>1, <1>3
    <3> QED BY <3>1, <2>1, <1>3, <1>5
  <2>2. CASE ~(j <= Len(a))
    <3>1. j - Len(a) \in 1 .. Len(b) /\ i + (j - Len(a)) \in DOMAIN rs
      BY <2>2, <1>1, <1>3, <1>4
    <3> QED BY <3>1, <2>2, <1>4, <1>5
  <2> QED BY <2>1, <2>2
<1> QED BY <1>5, <1>6 DEF Without, a, b

\* What a turn of an upload puts behind the messages under way: a header if it is due
\* and a chunk if there is room.
Behind(rs, h, a, d, b) == rs \o (IF h THEN <<a>> ELSE <<>>) \o (IF d THEN <<b>> ELSE <<>>)

LEMMA BehindIs ==
  ASSUME NEW rs \in Seq(Msg), NEW h \in BOOLEAN, NEW d \in BOOLEAN, NEW a, NEW b,
         h => a \in Msg, d => b \in Msg
  PROVE  LET n == Behind(rs, h, a, d, b)
         IN  /\ n \in Seq(Msg) /\ Len(rs) <= Len(n)
             /\ \A i \in DOMAIN rs : i \in DOMAIN n /\ n[i] = rs[i]
             /\ h => Len(rs) + 1 \in DOMAIN n /\ n[Len(rs) + 1] = a
             /\ d => Len(n) \in DOMAIN n /\ n[Len(n)] = b /\ (h => Len(rs) + 1 < Len(n))
             /\ \A i \in DOMAIN n \ DOMAIN rs :
                  \/ h /\ i = Len(rs) + 1 /\ n[i] = a
                  \/ d /\ i = Len(n) /\ n[i] = b /\ i > Len(rs)
<1> DEFINE x == IF h THEN <<a>> ELSE <<>>
           y == IF d THEN <<b>> ELSE <<>>
           u == rs \o x
           n == u \o y
<1>1. Len(rs) \in Nat /\ DOMAIN rs = 1 .. Len(rs)
  OBVIOUS
<1>2. /\ x \in Seq(Msg) /\ Len(x) = (IF h THEN 1 ELSE 0) /\ (h => x[1] = a)
  OBVIOUS
<1>3. /\ y \in Seq(Msg) /\ Len(y) = (IF d THEN 1 ELSE 0) /\ (d => y[1] = b)
  OBVIOUS
<1> HIDE DEF x, y
<1>4. /\ u \in Seq(Msg) /\ Len(u) = Len(rs) + Len(x)
      /\ \A i \in 1 .. Len(rs) + Len(x) : u[i] = IF i <= Len(rs) THEN rs[i] ELSE x[i - Len(rs)]
  BY <1>2, ConcatProperties
<1> HIDE DEF u
<1>5. /\ n \in Seq(Msg) /\ Len(n) = Len(u) + Len(y) /\ DOMAIN n = 1 .. Len(n)
      /\ \A i \in 1 .. Len(u) + Len(y) : n[i] = IF i <= Len(u) THEN u[i] ELSE y[i - Len(u)]
  BY <1>3, <1>4, ConcatProperties
<1> HIDE DEF n
<1>6. Behind(rs, h, a, d, b) = n
  BY Zenon DEF Behind, n, u, x, y
<1>12. Len(u) \in Nat /\ Len(rs) <= Len(u) /\ Len(u) <= Len(n) /\ Len(n) \in Nat
  <2>1. Len(x) \in Nat /\ Len(y) \in Nat
    BY <1>2, <1>3
  <2>2. Len(u) = Len(rs) + Len(x)
    BY <1>4
  <2>3. Len(n) = Len(u) + Len(y)
    BY <1>5
  <2> QED BY <1>1, <2>1, <2>2, <2>3
<1>7. \A i \in DOMAIN rs : i \in DOMAIN n /\ n[i] = rs[i]
  <2> TAKE i \in DOMAIN rs
  <2>1. i \in 1 .. Len(rs) /\ i <= Len(rs) /\ i <= Len(u) /\ i \in 1 .. Len(rs) + Len(x)
        /\ i \in 1 .. Len(u) + Len(y) /\ i \in 1 .. Len(n)
    <3>1. Len(x) \in Nat /\ Len(y) \in Nat /\ Len(n) = Len(u) + Len(y)
      BY <1>2, <1>3, <1>5
    <3> QED BY <3>1, <1>1, <1>12
  <2>2. n[i] = u[i]
    BY <2>1, <1>5
  <2>3. u[i] = rs[i]
    BY <2>1, <1>4
  <2> QED BY <2>1, <2>2, <2>3, <1>5
<1>8. h => Len(rs) + 1 \in DOMAIN n /\ n[Len(rs) + 1] = a
  <2> SUFFICES ASSUME h PROVE Len(rs) + 1 \in DOMAIN n /\ n[Len(rs) + 1] = a
    OBVIOUS
  <2>1. Len(u) = Len(rs) + 1 /\ Len(x) = 1 /\ x[1] = a
    BY <1>1, <1>2, <1>4
  <2>2. u[Len(rs) + 1] = x[(Len(rs) + 1) - Len(rs)] /\ (Len(rs) + 1) - Len(rs) = 1
    BY <2>1, <1>1, <1>4
  <2>3. n[Len(rs) + 1] = u[Len(rs) + 1] /\ Len(rs) + 1 \in DOMAIN n
    BY <2>1, <1>1, <1>12, <1>5, <1>3
  <2> QED BY <2>1, <2>2, <2>3
<1>9. d => Len(n) \in DOMAIN n /\ n[Len(n)] = b /\ (h => Len(rs) + 1 < Len(n))
  <2> SUFFICES ASSUME d
               PROVE  Len(n) \in DOMAIN n /\ n[Len(n)] = b /\ (h => Len(rs) + 1 < Len(n))
    OBVIOUS
  <2>1. Len(n) = Len(u) + 1 /\ Len(y) = 1 /\ y[1] = b
    BY <1>3, <1>5
  <2>2. n[Len(n)] = y[Len(n) - Len(u)] /\ Len(n) - Len(u) = 1
    BY <2>1, <1>12, <1>5
  <2>3. Len(n) \in DOMAIN n
    BY <2>1, <1>12, <1>5
  <2>4. h => Len(u) = Len(rs) + 1
    BY <1>2, <1>4
  <2> QED BY <2>1, <2>2, <2>3, <2>4, <1>12
<1>10. \A i \in DOMAIN n \ DOMAIN rs :
          \/ h /\ i = Len(rs) + 1 /\ n[i] = a
          \/ d /\ i = Len(n) /\ n[i] = b /\ i > Len(rs)
  <2> SUFFICES ASSUME NEW i \in DOMAIN n \ DOMAIN rs
               PROVE  \/ h /\ i = Len(rs) + 1 /\ n[i] = a
                      \/ d /\ i = Len(n) /\ n[i] = b /\ i > Len(rs)
    OBVIOUS
  <2>1. i \in Nat /\ i > Len(rs) /\ i <= Len(n)
    BY <1>1, <1>5
  <2>2. CASE i <= Len(u)
    <3>1. h /\ i = Len(rs) + 1
      BY <2>1, <2>2, <1>1, <1>2, <1>4
    <3> QED BY <3>1, <1>8
  <2>3. CASE ~(i <= Len(u))
    <3>1. Len(n) = Len(u) + Len(y)
      BY <1>5
    <3>2. d /\ i = Len(n)
      BY <3>1, <2>1, <2>3, <1>12, <1>3
    <3> QED BY <3>2, <2>1, <1>9
  <2> QED BY <2>2, <2>3
<1>11. Len(rs) <= Len(n)
  BY <1>1, <1>12
<1> QED BY <1>5, <1>6, <1>7, <1>8, <1>9, <1>10, <1>11

LEMMA MsgIs ==
  ASSUME NEW m \in Msg
  PROVE  /\ m.kind \in {"header", "data", "error"} /\ m.guid \in Guid
         /\ m.kind = "header" => m \in HeaderMsg
         /\ m.kind = "data" => m \in DataMsg
         /\ m.kind = "error" => m \in ErrorMsg
BY DEF Msg, HeaderMsg, DataMsg, ErrorMsg
-----------------------------------------------------------------------------
(* What the actions have in common.                                        *)

\* What the environment has done stays done.
Onward ==
  /\ spent' \in Spending
  /\ spent'.lost = 0 => spent.lost = 0
  /\ spent'.changes = 0 => spent.changes = 0 /\ spent'.torn = spent.torn
  /\ spent'.crashes = 0 => spent.crashes = 0
  /\ spent'.torn = 0 => spent.torn = 0

LEMMA SpendIs ==
  ASSUME TypeInv, NEW b
  PROVE  /\ UNCHANGED spent => Onward
         /\ Spend("downloads", b) => Onward
         /\ Spend("aborts", b) => Onward
         /\ Spend("lost", b) => Onward /\ spent'.lost # 0
         /\ Spend("changes", b) => Onward /\ spent'.changes # 0
         /\ Spend("crashes", b) => Onward /\ spent'.crashes # 0
<1>1. spent \in Spending
  BY DEF TypeInv
<1>2. UNCHANGED spent => Onward
  BY <1>1 DEF Onward
<1>3. Spend("downloads", b) => Onward
  BY <1>1 DEF Spend, Onward, Spending
<1>4. Spend("aborts", b) => Onward
  BY <1>1 DEF Spend, Onward, Spending
<1>5. Spend("lost", b) => Onward /\ spent'.lost # 0
  BY <1>1 DEF Spend, Onward, Spending
<1>6. Spend("changes", b) => Onward /\ spent'.changes # 0
  BY <1>1 DEF Spend, Onward, Spending
<1>7. Spend("crashes", b) => Onward /\ spent'.crashes # 0
  BY <1>1 DEF Spend, Onward, Spending
<1> QED BY <1>2, <1>3, <1>4, <1>5, <1>6, <1>7

\* At most one request is added, under a new id.
AtMostOneAsk ==
  \/ requests' \subseteq requests
  \/ \E q \in Ask : q.guid = NewGuid /\ requests' = requests \cup {q}

Fewer(new, old) == \A i \in DOMAIN new : \E k \in DOMAIN old : new[i] = old[k]

\* What keeps the ids apart is kept by whoever sends nothing but a request.
LEMMA IdsKept ==
  ASSUME TypeInv, IdsLeft, IdsInv, AtMostOneAsk, Fewer(replies', replies),
         sends' \subseteq sends, Onward
  PROVE  IdsInv'
<1>1. /\ \A s \in sends : s.guid # NewGuid
      /\ \A q \in requests : q.guid # NewGuid
      /\ \A i \in DOMAIN replies : replies[i].guid # NewGuid
  BY FreshIs
<1>2. \A q \in requests' : q \in requests \/ q.guid = NewGuid
  BY DEF AtMostOneAsk
<1>3. Unanswered'
  BY <1>1, <1>2 DEF IdsInv, Unanswered, Fewer
<1>4. AsksDiffer'
  <2> SUFFICES ASSUME NEW p \in requests', NEW q \in requests', p.guid = q.guid
               PROVE  p = q
    BY DEF AsksDiffer
  <2>1. CASE requests' \subseteq requests
    BY <2>1 DEF IdsInv, AsksDiffer
  <2>2. CASE \E a \in Ask : a.guid = NewGuid /\ requests' = requests \cup {a}
    <3>1. PICK a \in Ask : a.guid = NewGuid /\ requests' = requests \cup {a}
      BY <2>2
    <3>2. p \in requests \/ p = a
      BY <3>1
    <3>3. q \in requests \/ q = a
      BY <3>1
    <3>4. CASE p \in requests /\ q \in requests
      BY <3>4 DEF IdsInv, AsksDiffer
    <3> QED BY <3>1, <3>2, <3>3, <3>4, <1>1
  <2> QED BY <2>1, <2>2 DEF AtMostOneAsk
<1>5. MsgsAgree'
  <2> SUFFICES ASSUME spent'.torn = 0, NEW i \in DOMAIN replies', NEW j \in DOMAIN replies',
                      replies'[i].guid = replies'[j].guid, replies'[i].kind = "header",
                      replies'[j].kind = "data"
               PROVE  HashOf(replies'[j].of) = replies'[i].hash
    BY DEF MsgsAgree
  <2>1. PICK k \in DOMAIN replies : replies'[i] = replies[k]
    BY DEF Fewer
  <2>2. PICK l \in DOMAIN replies : replies'[j] = replies[l]
    BY DEF Fewer
  <2> QED BY <2>1, <2>2 DEF IdsInv, MsgsAgree, Onward
<1>6. MsgsOfSends'
  <2> SUFFICES ASSUME spent'.torn = 0, NEW s \in sends', NEW i \in DOMAIN replies',
                      replies'[i].guid = s.guid
               PROVE  MsgOf(replies'[i], s.of)
    BY DEF MsgsOfSends
  <2>1. PICK k \in DOMAIN replies : replies'[i] = replies[k]
    BY DEF Fewer
  <2>2. s \in sends /\ spent.torn = 0
    BY DEF Onward
  <2> QED BY <2>1, <2>2 DEF IdsInv, MsgsOfSends
<1>7. SendsDiffer'
  BY DEF IdsInv, SendsDiffer
<1> QED BY <1>3, <1>4, <1>5, <1>6, <1>7 DEF IdsInv

\* Nothing but a request is sent, and no transfer begun.
LEMMA MsgsKept ==
  ASSUME FitInv, SameInv, Onward, Fewer(replies', replies), sends' \subseteq sends, disk' = disk
  PROVE  SendsFit' /\ MsgsFit' /\ SameMsgs'
<1>1. SendsFit'
  BY DEF FitInv, SendsFit, Onward
<1>2. MsgsFit'
  <2> SUFFICES ASSUME NEW i \in DOMAIN replies' PROVE MsgFits(replies'[i])
    BY DEF MsgsFit
  <2>1. PICK k \in DOMAIN replies : replies'[i] = replies[k]
    BY DEF Fewer
  <2> QED BY <2>1 DEF FitInv, MsgsFit
<1>3. SameMsgs'
  <2>1. SUFFICES ASSUME spent'.changes = 0 PROVE SameMsgs'
    BY DEF SameMsgs
  <2>2. /\ disk \in Version /\ spent'.torn = 0 /\ \A s \in sends : s.of = disk
        /\ \A i \in DOMAIN replies : MsgOf(replies[i], disk)
    BY <2>1 DEF SameInv, SameMsgs, Onward
  <2>3. \A i \in DOMAIN replies' : MsgOf(replies'[i], disk)
    BY <2>2 DEF Fewer
  <2> QED BY <2>2, <2>3 DEF SameMsgs
<1> QED BY <1>1, <1>2, <1>3

\* What the uploader and the network do leaves the download as it is.
LEMMA RecvKept ==
  ASSUME FitInv, DoneInv, SameInv, KeptInv, Onward, UNCHANGED <<recv, out, stat>>,
         disk' = disk \/ spent'.changes # 0
  PROVE  RecvFit' /\ StatFits(stat') /\ DoneInv' /\ SameFile' /\ KeptInv'
<1>1. RecvFit' /\ StatFits(stat')
  BY DEF FitInv, RecvFit
<1>2. DoneInv'
  BY DEF DoneInv
<1>3. SameFile'
  <2>1. spent'.changes = 0 => spent.changes = 0 /\ disk' = disk
    BY DEF Onward
  <2>2. SameFile
    BY DEF SameInv
  <2> QED BY <2>1, <2>2 DEF SameFile
<1>4. KeptInv'
  BY DEF KeptInv, Onward
<1> QED BY <1>1, <1>2, <1>3, <1>4

LEMMA OrderKept ==
  ASSUME OrderInv, Onward, UNCHANGED <<recv, replies>>, sends' \subseteq sends,
         noroute \subseteq noroute'
  PROVE  OrderInv'
<1>1. SendsInOrder(replies, recv, sends, noroute, spent.torn)
        => SendsInOrder(replies, recv, sends', noroute', spent'.torn)
  <2> SUFFICES ASSUME SendsInOrder(replies, recv, sends, noroute, spent.torn), NEW s \in sends',
                      s.guid = recv.m_guid, s.guid \notin noroute', Streaming(s)
               PROVE  Announced(replies, recv, Len(replies), s.of, spent'.torn)
    BY DEF SendsInOrder
  <2>1. s \in sends /\ s.guid \notin noroute
    OBVIOUS
  <2>2. Announced(replies, recv, Len(replies), s.of, spent.torn)
    BY <2>1 DEF SendsInOrder
  <2> QED BY <2>2 DEF Announced, Onward
<1>2. MsgsInOrder(replies, recv, spent.torn) => MsgsInOrder(replies, recv, spent'.torn)
  BY DEF MsgsInOrder, Announced, Onward
<1>3. recv' = recv /\ replies' = replies /\ (spent'.lost = 0 => spent.lost = 0)
  BY DEF Onward
<1> QED BY <1>1, <1>2, <1>3 DEF OrderInv

LEMMA AskIs ==
  ASSUME TypeInv, IdsLeft, NEW prev \in Guid \cup {NoGuid}, NEW abort \in {0, 1, 2},
         NEW need \in SUBSET Nat, requests' = requests \cup {Request(prev, abort, need)}
  PROVE  AtMostOneAsk /\ requests' \subseteq Ask
<1>1. /\ Request(prev, abort, need) \in Ask
      /\ Request(prev, abort, need).guid = NewGuid
  BY FreshIs, RequestIs
<1> QED BY <1>1 DEF AtMostOneAsk, TypeInv

LEMMA SameMessages ==
  ASSUME UNCHANGED replies
  PROVE  Fewer(replies', replies)
BY DEF Fewer

\* The state file before anything is in it, and what the destructor leaves.
LEMMA NoState ==
  /\ Absent \in StateFile /\ Absent.valid = {} /\ Absent.hash = NoHash
  /\ Empty \in StateFile /\ Empty.valid = {} /\ Empty.hash = NoHash
  /\ Empty.len = 0 /\ Absent.len = 0
<1>1. Empty \in StateFile /\ Empty.valid = {} /\ Empty.hash = NoHash /\ Empty.len = 0
  BY DEF Empty, StateFile, Hash
<1> QED BY <1>1 DEF Absent, StateFile

LEMMA RecordedIs ==
  ASSUME NEW r \in Download
  PROVE  /\ Recorded(r) \in StateFile /\ Recorded(r).valid = r.valid
         /\ Recorded(r).hash = r.m_hash /\ Recorded(r).len = r.bytes
BY DEF Recorded, StateFile, Download

LEMMA NothingIs == Nothing \in [Chunks(MaxChunk) -> Version \cup {"none"}]
BY DEF Nothing

-----------------------------------------------------------------------------
(* The downloader's actions.                                               *)

LEMMA StartKeeps ==
  ASSUME TransferInv, IdsLeft, StartDownload
  PROVE  TransferInv'
<1> USE DEF TransferInv
<1>1. PICK k \in 1 .. MaxPerReq :
        requests' = requests \cup {Request(NoGuid, 0, Wanted(Fresh, k))}
  BY DEF StartDownload, Fresh
<1>2. /\ ~recv.on /\ Spend("downloads", MaxDownloads) /\ recv' = Asked(Fresh)
      /\ IF stat = Absent THEN stat' = Empty /\ out' = Nothing ELSE UNCHANGED <<stat, out>>
      /\ UNCHANGED <<disk, indexed, sends, replies, noroute>>
  BY DEF StartDownload, Fresh
<1> DEFINE f == Fresh  a == Asked(Fresh)
<1>3. f \in Begun /\ NewGuid \in Guid
  BY FreshDownload, FreshIs
<1>4. /\ a \in Download /\ a.m_guid = NewGuid /\ a.on
      /\ a.bytes = f.bytes /\ a.m_hash = f.m_hash
      /\ a.valid = f.valid /\ a.lasthdr = f.lasthdr
      /\ a.m_chunk_total = f.m_chunk_total
      /\ a.m_err = f.m_err /\ a.m_done = f.m_done
  BY <1>3, AskedIs
<1>5. /\ f.bytes = stat.len /\ f.m_hash = stat.hash /\ f.valid = stat.valid
      /\ ~f.lasthdr /\ f.m_err = NoErr /\ ~f.m_done
      /\ f.m_chunk_total = IF stat.len = 0 THEN MaxPerReq ELSE stat.len
  BY DEF Fresh
<1> HIDE DEF f, a
<1>6. recv' = a
  BY <1>2 DEF a
<1>7. /\ stat' \in StateFile /\ stat'.len = stat.len /\ stat'.hash = stat.hash
      /\ stat'.valid = stat.valid
  BY <1>2, NoState DEF TypeInv
<1>8. /\ out' \in [Chunks(MaxChunk) -> Version \cup {"none"}]
      /\ out' = out \/ stat.valid = {}
  BY <1>2, NoState, NothingIs DEF TypeInv
<1>9. AtMostOneAsk /\ requests' \subseteq Ask
  <2>1. Wanted(Fresh, k) \in SUBSET Nat
    BY <1>3, LackingIs, Constants DEF f
  <2> QED BY <2>1, <1>1, AskIs
<1>10. Onward
  BY <1>2, SpendIs
<1>11. Fewer(replies', replies) /\ sends' \subseteq sends /\ disk' = disk
  BY <1>2, SameMessages
<1>12. TypeInv'
  BY <1>2, <1>4, <1>6, <1>7, <1>8, <1>9, <1>10 DEF TypeInv, Onward
<1>13. SendsFit' /\ MsgsFit' /\ SameMsgs'
  BY <1>10, <1>11, MsgsKept
<1>14. RecvFit' /\ StatFits(stat')
  <2>1. stat.valid \subseteq Chunks(stat.len) /\ stat.len \in Nat
    BY DEF FitInv, StatFits, TypeInv, StateFile
  <2>2. stat.len = 0 => stat.valid = {}
    BY <2>1 DEF Chunks
  <2>3. a.valid \subseteq Chunks(a.m_chunk_total) /\ a.valid \subseteq Chunks(a.bytes)
    BY <2>1, <2>2, <1>4, <1>5
  <2>4. RecvFits(a, stat')
    BY <2>3, <1>4, <1>5, <1>7 DEF RecvFits
  <2> QED BY <2>1, <2>4, <1>6, <1>7 DEF RecvFit, StatFits
<1>15. DoneInv'
  BY <1>4, <1>5, <1>6 DEF DoneInv
<1>16. \A h : Holds(out, stat.valid, h) => Holds(out', stat.valid, h)
  BY <1>8 DEF Holds
<1>17. SameFile'
  <2>1. spent'.changes = 0 =>
          /\ stat.hash # NoHash => stat.hash = disk
          /\ Holds(out, stat.valid, stat.hash)
    BY <1>10 DEF SameInv, SameFile, Onward
  <2>2. a.m_err # Mismatch
    BY <1>4, <1>5, ErrorsDiffer
  <2> QED BY <2>1, <2>2, <1>4, <1>5, <1>6, <1>7, <1>11, <1>16 DEF SameFile
<1>18. IdsInv'
  BY <1>9, <1>10, <1>11, IdsKept
<1>19. OrderInv'
  <2>1. a.m_err # NoHeader
    BY <1>4, <1>5, ErrorsDiffer
  <2>2. MsgsInOrder(replies, a, spent'.torn) /\ SendsInOrder(replies, a, sends, noroute, spent'.torn)
    BY <1>4, FreshIs DEF MsgsInOrder, SendsInOrder
  <2> QED BY <2>1, <2>2, <1>2, <1>6 DEF OrderInv
<1>20. KeptInv'
  <2>1. spent'.lost = 0 /\ spent'.crashes = 0 /\ spent'.torn = 0 => Holds(out, stat.valid, stat.hash)
    BY <1>2, <1>10 DEF KeptInv, Onward
  <2> QED BY <2>1, <1>4, <1>5, <1>6, <1>7, <1>16 DEF KeptInv
<1> QED BY <1>12, <1>13, <1>14, <1>15, <1>17, <1>18, <1>19, <1>20 DEF FitInv, SameInv

\* A download that is over leaves a state file that is no more than right.
LEMMA EndKeeps ==
  ASSUME TransferInv, IdsLeft, recv.on, recv' = Idle, stat' = Destroyed(recv), Onward,
         AtMostOneAsk, requests' \subseteq Ask,
         UNCHANGED <<disk, indexed, sends, out, replies, noroute>>
  PROVE  TransferInv'
<1> USE DEF TransferInv
<1>1. recv \in Download /\ ~Idle.on
  BY OnIs DEF Idle
<1>2. stat' = Absent \/ (stat' = Recorded(recv) /\ recv.lasthdr) \/ (stat' = stat /\ ~recv.lasthdr)
  BY DEF Destroyed
<1>3. stat' \in StateFile
  BY <1>1, <1>2, NoState, RecordedIs DEF TypeInv
<1>4. Fewer(replies', replies)
  BY SameMessages
<1>5. TypeInv'
  BY <1>3 DEF TypeInv, Onward
<1>6. SendsFit' /\ MsgsFit' /\ SameMsgs'
  BY <1>4, MsgsKept
<1>7. RecvFit' /\ StatFits(stat')
  BY <1>1, <1>2, NoState, RecordedIs DEF RecvFit, StatFits, FitInv, RecvFits
<1>8. DoneInv' /\ OrderInv'
  BY <1>1 DEF DoneInv, OrderInv
<1>9. SameFile'
  <2>1. spent'.changes = 0 =>
          /\ recv.m_hash # NoHash => recv.m_hash = disk
          /\ Holds(out, recv.valid, recv.m_hash)
          /\ stat.hash # NoHash => stat.hash = disk
          /\ Holds(out, stat.valid, stat.hash)
    BY DEF SameInv, SameFile, Onward
  <2>2. Holds(out, Absent.valid, Absent.hash)
    BY NoState DEF Holds
  <2> QED BY <2>1, <2>2, <1>1, <1>2, NoState, RecordedIs DEF SameFile
<1>10. IdsInv'
  BY <1>4, IdsKept
<1>11. KeptInv'
  <2>1. spent'.lost = 0 /\ spent'.crashes = 0 /\ spent'.torn = 0 =>
          /\ Holds(out, recv.valid, recv.m_hash)
          /\ ~recv.lasthdr => Holds(out, stat.valid, stat.hash)
    BY DEF KeptInv, Onward
  <2>2. Holds(out, Absent.valid, Absent.hash)
    BY NoState DEF Holds
  <2> QED BY <2>1, <2>2, <1>1, <1>2, RecordedIs DEF KeptInv
<1> QED BY <1>5, <1>6, <1>7, <1>8, <1>9, <1>10, <1>11 DEF FitInv, SameInv

LEMMA RunEndedKeeps ==
  ASSUME TransferInv, IdsLeft, RunEnded
  PROVE  TransferInv'
<1>1. Onward
  BY SpendIs DEF RunEnded, TransferInv
<1>2. AtMostOneAsk /\ requests' \subseteq Ask
  BY DEF RunEnded, AtMostOneAsk, TransferInv, TypeInv
<1>3. /\ recv.on /\ recv' = Idle /\ stat' = Destroyed(recv)
      /\ UNCHANGED <<disk, indexed, sends, out, replies, noroute>>
  BY DEF RunEnded
<1> QED BY <1>1, <1>2, <1>3, EndKeeps

LEMMA CancelDownloadKeeps ==
  ASSUME TransferInv, IdsLeft, CancelDownload
  PROVE  TransferInv'
<1>1. Onward
  BY SpendIs DEF CancelDownload, TransferInv
<1>2. AtMostOneAsk /\ requests' \subseteq Ask
  <2>1. recv.m_guid \in Guid \cup {NoGuid} /\ {} \in SUBSET Nat
    BY OnIs DEF TransferInv
  <2>2. requests' = requests \cup {Request(recv.m_guid, 1, {})}
    BY DEF CancelDownload
  <2> QED BY <2>1, <2>2, AskIs DEF TransferInv
<1>3. /\ recv.on /\ recv' = Idle /\ stat' = Destroyed(recv)
      /\ UNCHANGED <<disk, indexed, sends, out, replies, noroute>>
  BY DEF CancelDownload
<1> QED BY <1>1, <1>2, <1>3, EndKeeps

LEMMA CrashDownloaderKeeps ==
  ASSUME TransferInv, IdsLeft, CrashDownloader
  PROVE  TransferInv'
<1> USE DEF TransferInv
<1>1. /\ recv' = Idle /\ ~Idle.on /\ spent'.crashes # 0 /\ Onward
      /\ UNCHANGED <<disk, indexed, sends, out, stat, requests, replies, noroute>>
  BY SpendIs DEF CrashDownloader, Idle
<1>2. Fewer(replies', replies) /\ AtMostOneAsk
  BY <1>1, SameMessages DEF AtMostOneAsk
<1>3. TypeInv'
  BY <1>1 DEF TypeInv, Onward
<1>4. SendsFit' /\ MsgsFit' /\ SameMsgs'
  BY <1>1, <1>2, MsgsKept
<1>5. RecvFit' /\ StatFits(stat') /\ DoneInv' /\ OrderInv' /\ KeptInv'
  BY <1>1 DEF RecvFit, DoneInv, OrderInv, KeptInv, FitInv
<1>6. SameFile'
  BY <1>1 DEF SameInv, SameFile, Onward
<1>7. IdsInv'
  BY <1>1, <1>2, IdsKept
<1> QED BY <1>3, <1>4, <1>5, <1>6, <1>7 DEF FitInv, SameInv
\* Whoever asks again, times out or saves the state, keeps what is valid.
LEMMA RunRecvKeeps ==
  ASSUME TransferInv, IdsLeft, RunRecv
  PROVE  TransferInv'
<1> USE DEF TransferInv
<1>1. /\ recv.on /\ recv.m_err = NoErr /\ ~recv.m_done /\ recv \in Download /\ recv \in Begun
      /\ UNCHANGED <<disk, indexed, sends, out, replies, noroute, spent>>
      /\ NewGuid \in Guid
  BY OnIs, FreshIs DEF RunRecv
<1>2. stat' = stat \/ (stat' = Recorded(recv) /\ recv.lasthdr)
  BY DEF RunRecv
<1>3. Onward
  BY <1>1, SpendIs
<1>4. stat' \in StateFile
  BY <1>1, <1>2, RecordedIs DEF TypeInv
\* Three things may have become of the download.
<1> DEFINE late == [recv EXCEPT !.m_err = TimedOut, !.chunks_coming = Many]
<1>5. \/ recv' = Asked(recv) /\ AtMostOneAsk /\ requests' \subseteq Ask
      \/ recv' = late /\ UNCHANGED requests
      \/ UNCHANGED <<recv, requests>>
  <2>1. \/ /\ recv' = Asked(recv)
           /\ \E k \in 1 .. MaxPerReq :
                requests' = requests \cup {Request(recv.m_guid, 0, Wanted(recv, k))}
        \/ recv' = late /\ UNCHANGED requests
        \/ UNCHANGED <<recv, requests>>
    BY DEF RunRecv
  <2>2. ASSUME NEW k \in 1 .. MaxPerReq,
               requests' = requests \cup {Request(recv.m_guid, 0, Wanted(recv, k))}
        PROVE  AtMostOneAsk /\ requests' \subseteq Ask
    <3>1. Wanted(recv, k) \in SUBSET Nat
      BY <1>1, LackingIs, Constants
    <3>2. recv.m_guid \in Guid \cup {NoGuid}
      BY OnIs
    <3> QED BY <2>2, <3>1, <3>2, AskIs
  <2> QED BY <2>1, <2>2
<1>6. /\ late \in Download /\ late.on /\ late.m_guid = recv.m_guid /\ late.bytes = recv.bytes
      /\ late.m_hash = recv.m_hash /\ late.valid = recv.valid /\ late.lasthdr = recv.lasthdr
      /\ late.m_chunk_total = recv.m_chunk_total /\ late.m_done = recv.m_done
      /\ late.m_err = TimedOut
  <2>1. Many \in Int /\ TimedOut \in RecvError
    BY Constants DEF RecvError
  <2> QED BY <2>1, <1>1 DEF Download
<1>7. AtMostOneAsk /\ requests' \subseteq Ask
  BY <1>5 DEF AtMostOneAsk, TypeInv
<1> HIDE DEF late
<1>8. /\ recv' \in Download /\ recv'.on /\ recv'.bytes = recv.bytes
      /\ recv'.m_hash = recv.m_hash /\ recv'.valid = recv.valid /\ recv'.lasthdr = recv.lasthdr
      /\ recv'.m_chunk_total = recv.m_chunk_total /\ ~recv'.m_done
      /\ recv'.m_err \in {NoErr, TimedOut}
      /\ recv'.m_err = NoErr => recv'.m_guid = NewGuid \/ recv' = recv
  <2>1. CASE recv' = Asked(recv)
    BY <2>1, <1>1, AskedIs
  <2>2. CASE recv' = late
    BY <2>2, <1>1, <1>6, ErrorsDiffer
  <2>3. CASE UNCHANGED recv
    BY <2>3, <1>1 DEF Download
  <2> QED BY <2>1, <2>2, <2>3, <1>5
<1>9. Fewer(replies', replies)
  BY <1>1, SameMessages
<1>10. TypeInv'
  BY <1>1, <1>4, <1>7, <1>8 DEF TypeInv
<1>11. SendsFit' /\ MsgsFit' /\ SameMsgs'
  BY <1>1, <1>3, <1>9, MsgsKept
<1>12. RecvFit' /\ StatFits(stat')
  <2>1. RecvFits(recv, stat) /\ StatFits(stat)
    BY <1>1 DEF FitInv, RecvFit
  <2>2. RecvFits(recv', stat')
    BY <2>1, <1>1, <1>2, <1>8 DEF RecvFits
  <2>3. StatFits(stat')
    BY <2>1, <1>1, <1>2, RecordedIs DEF RecvFits, StatFits
  <2> QED BY <2>2, <2>3 DEF RecvFit
<1>13. DoneInv'
  BY <1>8 DEF DoneInv
<1>14. SameFile'
  <2>1. recv'.m_err # Mismatch
    BY <1>8, ErrorsDiffer
  <2>2. spent'.changes = 0 =>
          /\ recv.m_hash # NoHash => recv.m_hash = disk
          /\ Holds(out, recv.valid, recv.m_hash)
          /\ stat.hash # NoHash => stat.hash = disk
          /\ Holds(out, stat.valid, stat.hash)
    BY <1>1 DEF SameInv, SameFile
  <2> QED BY <2>1, <2>2, <1>1, <1>2, <1>8, RecordedIs DEF SameFile
<1>15. IdsInv'
  BY <1>1, <1>3, <1>7, <1>9, IdsKept
<1>16. OrderInv'
  <2>1. recv'.m_err # NoHeader
    BY <1>8, ErrorsDiffer
  <2>2. CASE recv' = recv
    BY <2>2, <1>1, <1>3, OrderKept
  <2>3. CASE recv'.m_guid = NewGuid
    <3>1. MsgsInOrder(replies, recv', spent.torn)
          /\ SendsInOrder(replies, recv', sends, noroute, spent.torn)
      BY <2>3, FreshIs DEF MsgsInOrder, SendsInOrder
    <3> QED BY <2>1, <3>1, <1>1 DEF OrderInv
  <2>4. CASE recv'.m_err # NoErr
    BY <2>1, <2>4 DEF OrderInv, Live
  <2> QED BY <2>2, <2>3, <2>4, <1>8
<1>17. KeptInv'
  <2>1. spent'.lost = 0 /\ spent'.crashes = 0 /\ spent'.torn = 0 =>
          /\ Holds(out, recv.valid, recv.m_hash)
          /\ ~recv.lasthdr => Holds(out, stat.valid, stat.hash)
    BY <1>1 DEF KeptInv
  <2> QED BY <2>1, <1>1, <1>2, <1>8 DEF KeptInv
<1> QED BY <1>10, <1>11, <1>12, <1>13, <1>14, <1>15, <1>16, <1>17 DEF FitInv, SameInv

-----------------------------------------------------------------------------
(* A message comes in.                                                     *)

\* The first message is taken off; what is announced among the others stays announced
\* unless it was announced by the first.
LEMMA TailOrder ==
  ASSUME NEW rs \in Seq(Msg), rs # <<>>, NEW r, NEW t, NEW n \in Nat, NEW v, NEW torn,
         Announced(rs, r, n + 1, v, torn), t.m_guid = r.m_guid,
         r.lasthdr => t.lasthdr /\ t.m_hash = r.m_hash,
         n < Len(rs),
         ~(rs[1].guid = r.m_guid /\ rs[1].kind = "header")
  PROVE  Announced(Tail(rs), t, n, v, torn)
<1>1. CASE r.lasthdr /\ (torn = 0 => r.m_hash = HashOf(v))
  BY <1>1 DEF Announced
<1>2. CASE \E i \in 1 .. n + 1 : rs[i].guid = r.m_guid /\ rs[i].kind = "header"
  <2>1. PICK i \in 1 .. n + 1 : rs[i].guid = r.m_guid /\ rs[i].kind = "header"
    BY <1>2
  <2>2. i # 1
    BY <2>1
  <2>3. i - 1 \in 1 .. n /\ i - 1 \in 1 .. Len(Tail(rs)) /\ (i - 1) + 1 = i
    BY <2>2, TailIs
  <2>4. Tail(rs)[i - 1] = rs[i]
    BY <2>3, TailIs
  <2> QED BY <2>1, <2>3, <2>4 DEF Announced
<1> QED BY <1>1, <1>2 DEF Announced

\* A message that is no header of the download's leaves the others in order.
LEMMA TailInOrder ==
  ASSUME TypeInv, replies # <<>>, NEW t, t.m_guid = recv.m_guid,
         recv.lasthdr => t.lasthdr /\ t.m_hash = recv.m_hash,
         ~(replies[1].guid = recv.m_guid /\ replies[1].kind = "header")
  PROVE  /\ MsgsInOrder(replies, recv, spent.torn) => MsgsInOrder(Tail(replies), t, spent.torn)
         /\ SendsInOrder(replies, recv, sends, noroute, spent.torn)
              => SendsInOrder(Tail(replies), t, sends, noroute, spent.torn)
<1>1. replies \in Seq(Msg) /\ Len(replies) \in Nat
  BY DEF TypeInv
<1>2. /\ Len(Tail(replies)) = Len(replies) - 1 /\ Len(replies) > 0
      /\ DOMAIN Tail(replies) = 1 .. Len(replies) - 1
      /\ \A i \in DOMAIN Tail(replies) :
           Tail(replies)[i] = replies[i + 1] /\ i + 1 \in DOMAIN replies
  <2>1. Tail(replies) \in Seq(Msg) /\ Len(Tail(replies)) = Len(replies) - 1
    BY <1>1, TailIs
  <2> QED BY <2>1, <1>1, TailIs
<1>3. ASSUME MsgsInOrder(replies, recv, spent.torn), NEW j \in DOMAIN Tail(replies),
             Tail(replies)[j].guid = t.m_guid, Tail(replies)[j].kind = "data"
      PROVE  Announced(Tail(replies), t, j - 1, Tail(replies)[j].of, spent.torn)
  <2>1. j + 1 \in DOMAIN replies /\ Tail(replies)[j] = replies[j + 1]
    BY <1>2
  <2>2. Announced(replies, recv, (j + 1) - 1, replies[j + 1].of, spent.torn)
    BY <1>3, <2>1 DEF MsgsInOrder
  <2>3. (j + 1) - 1 = (j - 1) + 1 /\ j - 1 \in Nat /\ j - 1 < Len(replies)
    BY <1>1, <1>2
  <2>4. Announced(replies, recv, (j - 1) + 1, replies[j + 1].of, spent.torn)
    BY <2>2, <2>3
  <2>5. Announced(Tail(replies), t, j - 1, replies[j + 1].of, spent.torn)
    BY <2>3, <2>4, <1>1, TailOrder
  <2> QED BY <2>1, <2>5
<1>4. ASSUME SendsInOrder(replies, recv, sends, noroute, spent.torn), NEW s \in sends,
             s.guid = t.m_guid, s.guid \notin noroute, Streaming(s)
      PROVE  Announced(Tail(replies), t, Len(Tail(replies)), s.of, spent.torn)
  <2>1. Announced(replies, recv, Len(replies), s.of, spent.torn)
    BY <1>4 DEF SendsInOrder
  <2>2. Len(replies) = Len(Tail(replies)) + 1 /\ Len(Tail(replies)) \in Nat
        /\ Len(Tail(replies)) < Len(replies)
    BY <1>1, <1>2
  <2>3. Announced(replies, recv, Len(Tail(replies)) + 1, s.of, spent.torn)
    BY <2>1, <2>2
  <2> QED BY <2>2, <2>3, <1>1, TailOrder
<1> QED BY <1>3, <1>4 DEF MsgsInOrder, SendsInOrder
\* What a chunk does to the download and to the file.
Refused(err) ==
  /\ recv' = [recv EXCEPT !.m_hasgotchunks = TRUE, !.m_err = err]
  /\ UNCHANGED <<out, requests>>
Taken(d) ==
  /\ recv.lasthdr /\ d.index < recv.m_chunk_total
  /\ out' = IF d.of = "none" THEN out ELSE [out EXCEPT ![d.index] = d.of]
  /\ recv' \in Download /\ recv'.on /\ recv'.m_guid = recv.m_guid /\ recv'.bytes = recv.bytes
  /\ recv'.m_hash = recv.m_hash /\ recv'.valid = recv.valid \cup {d.index} /\ recv'.lasthdr
  /\ recv'.m_chunk_total = recv.m_chunk_total
  /\ \/ recv'.m_err = recv.m_err /\ recv'.m_done = recv.m_done /\ UNCHANGED requests
     \/ /\ Chunks(recv.m_chunk_total) \subseteq recv'.valid
        /\ recv'.m_err = IF HashMatches(recv, out') THEN NoErr ELSE Mismatch
        /\ requests' = requests \cup {Request(recv.m_guid, 2, {})}

LEMMA ChunkIs ==
  ASSUME recv \in Download, NEW d \in DataMsg, GotChunk(recv, d)
  PROVE  \/ ~recv.lasthdr /\ Refused(NoHeader)
         \/ Refused(OutOfRange)
         \/ Taken(d)
<1> DEFINE now  == [recv EXCEPT !.m_hasgotchunks = TRUE, !.valid = @ \cup {d.index},
                                !.chunks_coming = @ - 1]
           file == IF d.of = "none" THEN out ELSE [out EXCEPT ![d.index] = d.of]
           full == Chunks(recv.m_chunk_total) \subseteq now.valid
           err  == IF HashMatches(recv, file) THEN NoErr ELSE Mismatch
           done == [now EXCEPT !.m_done = TRUE, !.m_err = err]
<1>2. \/ ~recv.lasthdr /\ Refused(NoHeader)
      \/ Refused(OutOfRange)
      \/ /\ recv.lasthdr /\ ~(d.index >= recv.m_chunk_total) /\ out' = file
         /\ recv' = IF full THEN done ELSE now
         /\ requests' = IF full THEN requests \cup {Request(recv.m_guid, 2, {})} ELSE requests
  BY DEF GotChunk, Refused
<1>3. /\ now \in Download /\ now.on /\ now.m_guid = recv.m_guid /\ now.bytes = recv.bytes
      /\ now.m_hash = recv.m_hash /\ now.valid = recv.valid \cup {d.index}
      /\ now.lasthdr = recv.lasthdr /\ now.m_chunk_total = recv.m_chunk_total
      /\ now.m_err = recv.m_err /\ now.m_done = recv.m_done
  <2> DEFINE v == recv.valid \cup {d.index}
             n == recv.chunks_coming - 1
  <2>1. v \in SUBSET Nat /\ n \in Int
    BY DEF DataMsg, Download
  <2>2. now = [recv EXCEPT !.m_hasgotchunks = TRUE, !.valid = v, !.chunks_coming = n]
    BY DEF Download
  <2>3. v = recv.valid \cup {d.index}
    OBVIOUS
  <2> HIDE DEF v, n, now
  <2> QED BY <2>1, <2>2, <2>3 DEF Download
<1>4. d.index \in Nat /\ recv.m_chunk_total \in Nat
  BY DEF DataMsg, Download
<1>5. err \in RecvError
  BY DEF RecvError
<1> HIDE DEF now, err
<1>6. /\ done \in Download /\ done.on /\ done.m_guid = now.m_guid /\ done.bytes = now.bytes
      /\ done.m_hash = now.m_hash /\ done.valid = now.valid
      /\ done.lasthdr = now.lasthdr /\ done.m_chunk_total = now.m_chunk_total
      /\ done.m_err = err
  BY <1>3, <1>5 DEF Download
<1> HIDE DEF file, done
<1>7. ASSUME recv.lasthdr, ~(d.index >= recv.m_chunk_total), out' = file,
             recv' = IF full THEN done ELSE now,
             requests' = IF full THEN requests \cup {Request(recv.m_guid, 2, {})} ELSE requests
      PROVE  Taken(d)
  <2>1. d.index < recv.m_chunk_total
    BY <1>7, <1>4
  <2>2. CASE full
    <3>1. recv'.m_err = IF HashMatches(recv, out') THEN NoErr ELSE Mismatch
      BY <2>2, <1>6, <1>7 DEF err
    <3>2. recv' = done
      BY <2>2, <1>7
    <3>3. Chunks(recv.m_chunk_total) \subseteq recv'.valid
      BY <2>2, <3>2, <1>6
    <3>4. requests' = requests \cup {Request(recv.m_guid, 2, {})}
      BY <2>2, <1>7
    <3> QED BY <2>1, <3>1, <3>2, <3>3, <3>4, <1>3, <1>6, <1>7 DEF Taken, file
  <2>3. CASE ~full
    BY <2>1, <2>3, <1>3, <1>7 DEF Taken, file
  <2> QED BY <2>2, <2>3
<1> QED BY <1>2, <1>7

\* A message that is not for the download, or comes when it is over.
LEMMA PassedOver ==
  ASSUME TransferInv, IdsLeft, GotReply, UNCHANGED <<recv, out, requests>>,
         recv.on /\ Live(recv) => recv.m_guid # Head(replies).guid
  PROVE  TransferInv'
<1> USE DEF TransferInv
<1>1. /\ replies # <<>> /\ replies' = Tail(replies)
      /\ UNCHANGED <<disk, indexed, sends, stat, noroute, spent>>
  BY DEF GotReply
<1>2. replies \in Seq(Msg)
  BY DEF TypeInv
<1>3. Fewer(replies', replies) /\ replies' \in Seq(Msg) /\ Head(replies) = replies[1]
  BY <1>1, <1>2, TailIs DEF Fewer
<1>4. Onward /\ AtMostOneAsk
  BY <1>1, SpendIs DEF AtMostOneAsk
<1>5. TypeInv'
  BY <1>1, <1>3 DEF TypeInv
<1>6. SendsFit' /\ MsgsFit' /\ SameMsgs'
  BY <1>1, <1>3, <1>4, MsgsKept
<1>7. RecvFit' /\ StatFits(stat') /\ DoneInv' /\ SameFile' /\ KeptInv'
  BY <1>1, <1>4, RecvKept
<1>8. IdsInv'
  BY <1>1, <1>3, <1>4, IdsKept
<1>9. OrderInv'
  <2>1. recv.on /\ Live(recv) =>
          /\ MsgsInOrder(replies, recv, spent.torn) => MsgsInOrder(Tail(replies), recv, spent.torn)
          /\ SendsInOrder(replies, recv, sends, noroute, spent.torn)
               => SendsInOrder(Tail(replies), recv, sends, noroute, spent.torn)
    BY <1>1, <1>3, TailInOrder
  <2> QED BY <2>1, <1>1 DEF OrderInv
<1> QED BY <1>5, <1>6, <1>7, <1>8, <1>9 DEF FitInv, SameInv
\* An error ends the download and leaves the file as it is.
FailsWith(err) ==
  /\ recv' \in Download /\ recv'.on /\ recv'.bytes = recv.bytes
  /\ recv'.m_hash = recv.m_hash /\ recv'.valid = recv.valid /\ recv'.lasthdr = recv.lasthdr
  /\ recv'.m_chunk_total = recv.m_chunk_total /\ recv'.m_done = recv.m_done
  /\ recv'.m_err = err /\ UNCHANGED <<out, requests>>

LEMMA GivenUp ==
  ASSUME TransferInv, IdsLeft, GotReply, recv.on, Live(recv), NEW err \in RecvError,
         err # NoErr, err # Mismatch, spent.lost = 0 => err # NoHeader,
         FailsWith(err)
  PROVE  TransferInv'
<1> USE DEF TransferInv
<1>1. /\ replies # <<>> /\ replies' = Tail(replies)
      /\ UNCHANGED <<disk, indexed, sends, stat, noroute, spent>>
  BY DEF GotReply
<1>2. replies \in Seq(Msg)
  BY DEF TypeInv
<1>3. Fewer(replies', replies) /\ replies' \in Seq(Msg)
  BY <1>1, <1>2, TailIs DEF Fewer
<1>4. Onward /\ AtMostOneAsk
  BY <1>1, SpendIs DEF FailsWith, AtMostOneAsk
<1>5. /\ recv' \in Download /\ recv'.on /\ recv'.bytes = recv.bytes
      /\ recv'.m_hash = recv.m_hash /\ recv'.valid = recv.valid /\ recv'.lasthdr = recv.lasthdr
      /\ recv'.m_chunk_total = recv.m_chunk_total /\ recv'.m_done = recv.m_done
      /\ recv'.m_err = err /\ UNCHANGED <<out, requests>>
  BY DEF FailsWith
<1>6. TypeInv'
  BY <1>1, <1>3, <1>5 DEF TypeInv
<1>7. SendsFit' /\ MsgsFit' /\ SameMsgs'
  BY <1>1, <1>3, <1>4, MsgsKept
<1>8. RecvFit' /\ StatFits(stat')
  BY <1>1, <1>5 DEF FitInv, RecvFit, RecvFits
<1>9. DoneInv' /\ KeptInv'
  BY <1>1, <1>5 DEF DoneInv, KeptInv
<1>10. SameFile'
  <2>1. SameFile
    BY DEF SameInv
  <2> QED BY <2>1, <1>1, <1>5 DEF SameFile
<1>11. IdsInv'
  BY <1>1, <1>3, <1>4, IdsKept
<1>12. OrderInv'
  BY <1>1, <1>5 DEF OrderInv, Live
<1> QED BY <1>6, <1>7, <1>8, <1>9, <1>10, <1>11, <1>12 DEF FitInv, SameInv

\* A header: what was valid of another file is so no more.
LEMMA HeaderKeeps ==
  ASSUME TransferInv, IdsLeft, GotReply, recv.on, Live(recv),
         NEW h \in HeaderMsg, h = Head(replies), h.guid = recv.m_guid,
         recv' = GotHeader(recv, h), UNCHANGED <<out, requests>>
  PROVE  TransferInv'
<1> USE DEF TransferInv
<1>1. /\ replies # <<>> /\ replies' = Tail(replies)
      /\ UNCHANGED <<disk, indexed, sends, stat, noroute, spent>>
  BY DEF GotReply
<1>2. replies \in Seq(Msg)
  BY DEF TypeInv
<1>3. /\ Fewer(replies', replies) /\ replies' \in Seq(Msg) /\ h = replies[1]
      /\ 1 \in DOMAIN replies /\ h.kind = "header"
  BY <1>1, <1>2, TailIs DEF Fewer, HeaderMsg
<1>4. Onward /\ AtMostOneAsk
  BY <1>1, SpendIs DEF AtMostOneAsk
<1>5. recv \in Download
  BY OnIs
<1> DEFINE same == recv.bytes = h.len /\ recv.m_hash = h.hash
<1>6. /\ recv' \in Download /\ recv'.on /\ recv'.m_guid = recv.m_guid
      /\ recv'.bytes = h.len /\ recv'.m_hash = h.hash /\ recv'.m_chunk_total = h.len
      /\ recv'.lasthdr /\ recv'.m_err = recv.m_err /\ recv'.m_done = recv.m_done
      /\ recv'.valid = IF same THEN recv.valid ELSE {}
  BY <1>5, HeaderTaken
<1>7. \/ recv'.valid = {}
      \/ recv'.valid = recv.valid /\ recv.bytes = h.len /\ recv.m_hash = h.hash
  BY <1>6
<1> HIDE DEF same
<1>8. TypeInv'
  BY <1>1, <1>3, <1>6 DEF TypeInv
<1>9. SendsFit' /\ MsgsFit' /\ SameMsgs'
  BY <1>1, <1>3, <1>4, MsgsKept
<1>10. RecvFit' /\ StatFits(stat')
  <2>1. \E v \in Version : h.hash = HashOf(v) /\ h.len = Size[v]
    BY <1>3 DEF FitInv, MsgsFit, MsgFits
  <2>2. recv.valid \subseteq Chunks(recv.bytes) /\ StatFits(stat)
    BY DEF FitInv, RecvFit, RecvFits
  <2> QED BY <2>1, <2>2, <1>1, <1>6, <1>7 DEF RecvFit, RecvFits
<1>11. DoneInv'
  BY <1>6 DEF DoneInv, Live
<1>12. Holds(out, recv.valid, recv.m_hash) => Holds(out', recv'.valid, recv'.m_hash)
  BY <1>6, <1>7 DEF Holds
<1>13. SameFile'
  <2>1. spent.changes = 0 /\ h.hash # NoHash => h.hash = disk
    BY <1>3 DEF SameInv, SameMsgs, MsgOf, HashOf
  <2>2. SameFile
    BY DEF SameInv
  <2> QED BY <2>1, <2>2, <1>1, <1>6, <1>12 DEF SameFile
<1>14. IdsInv'
  BY <1>1, <1>3, <1>4, IdsKept
<1>15. OrderInv'
  <2>1. MsgsInOrder(replies', recv', spent.torn)
    <3> SUFFICES ASSUME NEW j \in DOMAIN replies', replies'[j].guid = recv'.m_guid,
                        replies'[j].kind = "data"
                 PROVE  Announced(replies', recv', j - 1, replies'[j].of, spent.torn)
      BY DEF MsgsInOrder
    <3>1. PICK k \in DOMAIN replies : replies'[j] = replies[k]
      BY <1>3 DEF Fewer
    <3>2. spent.torn = 0 => HashOf(replies[k].of) = h.hash
      BY <3>1, <1>3, <1>6 DEF IdsInv, MsgsAgree
    <3> QED BY <3>1, <3>2, <1>6 DEF Announced
  <2>2. SendsInOrder(replies', recv', sends, noroute, spent.torn)
    <3> SUFFICES ASSUME NEW s \in sends, s.guid = recv'.m_guid
                 PROVE  Announced(replies', recv', Len(replies'), s.of, spent.torn)
      BY DEF SendsInOrder
    <3>1. spent.torn = 0 => h.hash = HashOf(s.of)
      BY <1>3, <1>6 DEF IdsInv, MsgsOfSends, MsgOf
    <3> QED BY <3>1, <1>6 DEF Announced
  <2>3. recv'.m_err # NoHeader
    BY <1>6, ErrorsDiffer DEF Live
  <2> QED BY <2>1, <2>2, <2>3, <1>1 DEF OrderInv
<1>16. KeptInv'
  BY <1>1, <1>6, <1>12 DEF KeptInv
<1> QED BY <1>8, <1>9, <1>10, <1>11, <1>13, <1>14, <1>15, <1>16 DEF FitInv, SameInv
\* A chunk under the download's id is written, and may be the last.
LEMMA ChunkKeeps ==
  ASSUME TransferInv, IdsLeft, GotReply, recv.on, Live(recv),
         NEW d \in DataMsg, d = Head(replies), d.guid = recv.m_guid, Taken(d)
  PROVE  TransferInv'
<1> USE DEF TransferInv
<1>1. /\ replies # <<>> /\ replies' = Tail(replies)
      /\ UNCHANGED <<disk, indexed, sends, stat, noroute, spent>>
  BY DEF GotReply
<1>2. replies \in Seq(Msg)
  BY DEF TypeInv
<1>3. /\ Fewer(replies', replies) /\ replies' \in Seq(Msg) /\ d = replies[1]
      /\ 1 \in DOMAIN replies /\ d.kind = "data" /\ d.index \in Nat
  BY <1>1, <1>2, TailIs DEF Fewer, DataMsg
<1>4. Onward
  BY <1>1, SpendIs
<1>5. /\ recv.lasthdr /\ d.index < recv.m_chunk_total
      /\ out' = IF d.of = "none" THEN out ELSE [out EXCEPT ![d.index] = d.of]
      /\ recv' \in Download /\ recv'.on /\ recv'.m_guid = recv.m_guid /\ recv'.bytes = recv.bytes
      /\ recv'.m_hash = recv.m_hash /\ recv'.valid = recv.valid \cup {d.index} /\ recv'.lasthdr
      /\ recv'.m_chunk_total = recv.m_chunk_total
  BY DEF Taken
<1>6. \/ recv'.m_err = recv.m_err /\ recv'.m_done = recv.m_done /\ UNCHANGED requests
      \/ /\ Chunks(recv.m_chunk_total) \subseteq recv'.valid
         /\ recv'.m_err = IF HashMatches(recv, out') THEN NoErr ELSE Mismatch
         /\ requests' = requests \cup {Request(recv.m_guid, 2, {})}
  BY DEF Taken
<1>7. AtMostOneAsk /\ requests' \subseteq Ask
  <2>1. ASSUME requests' = requests \cup {Request(recv.m_guid, 2, {})}
        PROVE  AtMostOneAsk /\ requests' \subseteq Ask
    <3>1. recv.m_guid \in Guid \cup {NoGuid} /\ {} \in SUBSET Nat
      BY OnIs
    <3> QED BY <2>1, <3>1, AskIs
  <2>2. UNCHANGED requests => AtMostOneAsk /\ requests' \subseteq Ask
    BY DEF AtMostOneAsk, TypeInv
  <2> QED BY <1>6, <2>1, <2>2
\* The file as its header had it, and where the chunk goes.
<1>8. PICK v \in Version : /\ recv.m_hash = HashOf(v)
                           /\ recv.bytes = Size[v] /\ recv.m_chunk_total = Size[v]
  BY <1>5 DEF FitInv, RecvFit, RecvFits
<1>9. /\ d.index \in Chunks(recv.m_chunk_total) /\ d.index \in Chunks(recv.bytes)
      /\ d.index \in Chunks(MaxChunk)
  <2>1. Size[v] \in Nat /\ Chunks(Size[v]) \subseteq Chunks(MaxChunk)
    BY SizeIs
  <2>2. d.index \in Chunks(Size[v])
    BY <2>1, <1>3, <1>5, <1>8 DEF Chunks
  <2> QED BY <2>1, <2>2, <1>8
<1>10. d.of \in Version \cup {"none"}
  BY DEF DataMsg
<1>11. /\ out' \in [Chunks(MaxChunk) -> Version \cup {"none"}]
       /\ d.of \in Version => out'[d.index] = d.of
       /\ \A c \in Chunks(MaxChunk) \ {d.index} : out'[c] = out[c]
  BY <1>5, <1>9, <1>10, Constants DEF TypeInv
<1>12. TypeInv'
  BY <1>1, <1>3, <1>5, <1>7, <1>11 DEF TypeInv
<1>13. SendsFit' /\ MsgsFit' /\ SameMsgs'
  BY <1>1, <1>3, <1>4, MsgsKept
<1>14. RecvFit' /\ StatFits(stat')
  <2>1. RecvFits(recv, stat) /\ StatFits(stat)
    BY DEF FitInv, RecvFit
  <2>2. RecvFits(recv', stat')
    BY <2>1, <1>5, <1>8, <1>9 DEF RecvFits
  <2> QED BY <2>1, <2>2, <1>1 DEF RecvFit
<1>15. DoneInv'
  <2>1. HashMatches(recv, out') => HashMatches(recv', out')
    BY <1>5 DEF HashMatches
  <2> QED BY <2>1, <1>6, ErrorsDiffer DEF DoneInv, Live
\* What was valid still is, and the new chunk is of the file if it is of the version begun.
<1>16. recv.valid \subseteq Chunks(MaxChunk)
  BY <1>8, SizeIs DEF FitInv, RecvFit, RecvFits
<1>17. Holds(out, recv.valid, recv.m_hash) /\ (recv.m_hash # NoHash => d.of = recv.m_hash)
         => Holds(out', recv'.valid, recv'.m_hash)
  <2>1. recv.m_hash # NoHash => recv.m_hash \in Version
    BY <1>8 DEF HashOf
  <2> QED BY <2>1, <1>5, <1>9, <1>11, <1>16 DEF Holds
<1>18. SameFile'
  <2>1. SUFFICES ASSUME spent'.changes = 0 PROVE SameFile'
    BY Zenon DEF SameFile
  <2>2. /\ recv.m_hash # NoHash => recv.m_hash = disk
        /\ Holds(out, recv.valid, recv.m_hash)
        /\ stat.hash # NoHash => stat.hash = disk
        /\ Holds(out, stat.valid, stat.hash)
    BY <2>1, <1>1 DEF SameInv, SameFile
  <2>3. d.of = disk /\ disk \in Version
    BY <2>1, <1>1, <1>3 DEF SameInv, SameMsgs, MsgOf
  <2>4. Holds(out', recv'.valid, recv'.m_hash)
    BY <2>2, <2>3, <1>17
  <2>5. Holds(out', stat.valid, stat.hash)
    <3> SUFFICES ASSUME stat.hash # NoHash, NEW c \in stat.valid PROVE out'[c] = stat.hash
      BY DEF Holds
    <3>1. out[c] = stat.hash /\ stat.hash = disk
      BY <2>2 DEF Holds
    <3>2. CASE c = d.index
      BY <3>1, <3>2, <2>3, <1>11
    <3>3. CASE c # d.index
      BY <3>1, <3>3, <2>3, <1>5, Constants DEF TypeInv
    <3> QED BY <3>2, <3>3
  <2>6. recv'.m_err # Mismatch
    <3>1. recv.m_err # Mismatch
      BY ErrorsDiffer DEF Live
    <3>2. ASSUME Chunks(recv.m_chunk_total) \subseteq recv'.valid PROVE HashMatches(recv, out')
      BY <3>2, <2>4, <1>5 DEF Holds, HashMatches
    <3> QED BY <3>1, <3>2, <1>6, ErrorsDiffer
  <2> QED BY <2>2, <2>4, <2>5, <2>6, <1>1, <1>5 DEF SameFile
<1>19. IdsInv'
  BY <1>1, <1>3, <1>4, <1>7, IdsKept
<1>20. OrderInv'
  <2>1. recv'.m_err # NoHeader
    BY <1>6, ErrorsDiffer DEF Live
  <2>2. /\ MsgsInOrder(replies, recv, spent.torn) => MsgsInOrder(replies', recv', spent.torn)
        /\ SendsInOrder(replies, recv, sends, noroute, spent.torn)
             => SendsInOrder(replies', recv', sends, noroute, spent.torn)
    BY <1>1, <1>3, <1>5, TailInOrder
  <2> QED BY <2>1, <2>2, <1>1 DEF OrderInv
<1>21. KeptInv'
  <2>1. SUFFICES ASSUME spent.lost = 0, spent.crashes = 0, spent.torn = 0
                 PROVE  Holds(out', recv'.valid, recv'.m_hash)
    BY <1>1, <1>5 DEF KeptInv
  <2>2. Announced(replies, recv, 1 - 1, replies[1].of, spent.torn)
    BY <2>1, <1>3 DEF OrderInv, MsgsInOrder
  <2>3. recv.m_hash = HashOf(d.of)
    BY <2>1, <2>2, <1>3 DEF Announced
  <2> QED BY <2>1, <2>3, <1>17 DEF KeptInv, HashOf
<1> QED BY <1>12, <1>13, <1>14, <1>15, <1>18, <1>19, <1>20, <1>21 DEF FitInv, SameInv

LEMMA GotReplyKeeps ==
  ASSUME TransferInv, IdsLeft, GotReply
  PROVE  TransferInv'
<1>1. replies # <<>> /\ replies \in Seq(Msg)
  BY DEF GotReply, TransferInv, TypeInv
<1> DEFINE m == Head(replies)
<1>2. m \in Msg /\ m = replies[1] /\ 1 \in DOMAIN replies
  BY <1>1, TailIs
<1>3. CASE ~(recv.on /\ Live(recv) /\ recv.m_guid = m.guid)
  <2>1. UNCHANGED <<recv, out, requests>>
    BY <1>3 DEF GotReply, Live
  <2> QED BY <1>3, <2>1, PassedOver
<1>4. CASE recv.on /\ Live(recv) /\ recv.m_guid = m.guid
  <2>1. recv \in Download
    BY <1>4, OnIs DEF TransferInv
  <2>2. CASE m.kind = "error"
    <3> DEFINE e == m.err
    <3>1. recv' = [recv EXCEPT !.m_err = e] /\ UNCHANGED <<out, requests>>
      BY <1>4, <2>2 DEF GotReply, Live
    <3>2. e \in {NotFound, RemoteAbort}
      BY <1>2, <2>2, MsgIs DEF ErrorMsg
    <3> HIDE DEF e
    <3>3. e \in RecvError /\ e # NoErr /\ e # Mismatch /\ e # NoHeader
      BY <3>2, ErrorsDiffer DEF RecvError
    <3>4. FailsWith(e)
      BY <2>1, <3>1, <3>3 DEF FailsWith, Download
    <3> QED BY <3>3, <3>4, <1>4, GivenUp
  <2>3. CASE m.kind = "header"
    <3>1. recv' = GotHeader(recv, m) /\ UNCHANGED <<out, requests>>
      BY <1>4, <2>3 DEF GotReply, Live
    <3>2. m \in HeaderMsg
      BY <1>2, <2>3, MsgIs
    <3> QED BY <3>1, <3>2, <1>4, HeaderKeeps
  <2>4. CASE m.kind = "data"
    <3>1. GotChunk(recv, m)
      BY <1>4, <2>4 DEF GotReply, Live
    <3>2. m \in DataMsg
      BY <1>2, <2>4, MsgIs
    <3>3. CASE ~recv.lasthdr /\ Refused(NoHeader)
      <4>1. spent.lost # 0
        <5> SUFFICES ASSUME spent.lost = 0 PROVE FALSE
          OBVIOUS
        <5>1. Announced(replies, recv, 1 - 1, replies[1].of, spent.torn)
          BY <1>2, <1>4, <2>4 DEF TransferInv, OrderInv, MsgsInOrder
        <5> QED BY <5>1, <3>3 DEF Announced
      <4>2. NoHeader \in RecvError /\ NoHeader # NoErr /\ NoHeader # Mismatch
        BY ErrorsDiffer DEF RecvError
      <4>3. FailsWith(NoHeader)
        BY <2>1, <3>3, <4>2 DEF Refused, FailsWith, Download
      <4> QED BY <4>1, <4>2, <4>3, <1>4, GivenUp
    <3>4. CASE Refused(OutOfRange)
      <4>1. /\ OutOfRange \in RecvError /\ OutOfRange # NoErr /\ OutOfRange # Mismatch
            /\ OutOfRange # NoHeader
        BY ErrorsDiffer DEF RecvError
      <4>2. FailsWith(OutOfRange)
        BY <2>1, <3>4, <4>1 DEF Refused, FailsWith, Download
      <4> QED BY <4>1, <4>2, <1>4, GivenUp
    <3>5. CASE Taken(m)
      BY <3>2, <3>5, <1>4, ChunkKeeps
    <3> QED BY <3>1, <3>2, <3>3, <3>4, <3>5, <2>1, ChunkIs
  <2> QED BY <2>2, <2>3, <2>4, <1>2, MsgIs
<1> QED BY <1>3, <1>4
-----------------------------------------------------------------------------
(* The uploader's actions.                                                 *)

\* An announcement among the first n messages is one among the first k of a longer list.
LEMMA AnnouncedFurther ==
  ASSUME NEW rs, NEW more, NEW r, NEW n \in Nat, NEW k \in Nat, n <= k, NEW v, NEW torn,
         \A i \in 1 .. n : more[i] = rs[i], Announced(rs, r, n, v, torn)
  PROVE  Announced(more, r, k, v, torn)
<1>1. \A i \in 1 .. n : i \in 1 .. k
  OBVIOUS
<1> QED BY <1>1 DEF Announced

\* The place before one in a list.
LEMMA PlaceBefore ==
  ASSUME NEW l \in Nat, NEW i \in 1 .. l
  PROVE  i - 1 \in Nat /\ i - 1 <= l /\ i - 1 <= i - 1 /\ \A j \in 1 .. i - 1 : j \in 1 .. l
OBVIOUS

\* A request that is answered with an error, or not at all.
LEMMA RefusedKeeps ==
  ASSUME TransferInv, IdsLeft, NEW q \in requests, requests' = requests \ {q},
         replies' = replies \/ replies' = Append(replies, ErrorReply(q.guid, NotFound)),
         UNCHANGED <<disk, indexed, sends, recv, out, stat, noroute, spent>>
  PROVE  TransferInv'
<1> USE DEF TransferInv
<1> DEFINE e == ErrorReply(q.guid, NotFound)
<1>1. q \in Ask /\ q.guid \in Guid /\ replies \in Seq(Msg)
  BY DEF TypeInv, Ask
<1>2. e \in Msg /\ e.guid = q.guid /\ e.kind = "error"
  BY <1>1 DEF ErrorReply, Msg, ErrorMsg
<1> HIDE DEF e
<1>3. /\ replies' \in Seq(Msg) /\ Len(replies) <= Len(replies')
      /\ DOMAIN replies = 1 .. Len(replies) /\ Len(replies) \in Nat
      /\ DOMAIN replies' = 1 .. Len(replies') /\ Len(replies') \in Nat
      /\ \A i \in DOMAIN replies : i \in DOMAIN replies' /\ replies'[i] = replies[i]
      /\ \A i \in DOMAIN replies' : i \in DOMAIN replies \/ replies'[i] = e
  <2>1. CASE replies' = replies
    BY <2>1, <1>1
  <2>2. CASE replies' = Append(replies, e)
    <3>1. /\ replies' \in Seq(Msg) /\ Len(replies') = Len(replies) + 1
          /\ \A i \in 1 .. Len(replies) : replies'[i] = replies[i]
          /\ replies'[Len(replies) + 1] = e
      BY <2>2, <1>1, <1>2, AppendProperties
    <3>2. DOMAIN replies = 1 .. Len(replies) /\ DOMAIN replies' = 1 .. Len(replies) + 1
          /\ Len(replies) \in Nat
      BY <3>1, <1>1
    <3> QED BY <3>1, <3>2
  <2> QED BY <2>1, <2>2 DEF e
<1>4. Onward
  BY SpendIs
<1>6. TypeInv'
  BY <1>3 DEF TypeInv
<1>7. SendsFit' /\ MsgsFit' /\ SameMsgs'
  BY <1>2, <1>3 DEF FitInv, SameInv, SendsFit, SendFits, MsgsFit, MsgFits, SameMsgs, MsgOf
<1>8. RecvFit' /\ StatFits(stat') /\ DoneInv' /\ SameFile' /\ KeptInv'
  BY <1>4, RecvKept
<1>9. \A p \in requests' : p \in requests /\ p.guid # q.guid
  BY DEF IdsInv, AsksDiffer
<1>10. \A t \in sends : t.guid # q.guid
  BY DEF IdsInv, Unanswered
<1>11. IdsInv'
  <2>1. Unanswered'
    BY <1>2, <1>3, <1>9 DEF IdsInv, Unanswered
  <2>2. AsksDiffer' /\ SendsDiffer'
    BY <1>9 DEF IdsInv, AsksDiffer, SendsDiffer
  <2>3. MsgsAgree'
    BY <1>2, <1>3 DEF IdsInv, MsgsAgree
  <2>4. MsgsOfSends'
    BY <1>2, <1>3, <1>10 DEF IdsInv, MsgsOfSends
  <2> QED BY <2>1, <2>2, <2>3, <2>4 DEF IdsInv
<1>12. \A i \in 1 .. Len(replies) : replies'[i] = replies[i]
  BY <1>3
<1>13. OrderInv'
  <2> SUFFICES ASSUME recv.on, spent.lost = 0, Live(recv),
                      MsgsInOrder(replies, recv, spent.torn),
                      SendsInOrder(replies, recv, sends, noroute, spent.torn)
               PROVE  /\ MsgsInOrder(replies', recv, spent.torn)
                      /\ SendsInOrder(replies', recv, sends, noroute, spent.torn)
    BY DEF OrderInv
  <2>1. ASSUME NEW i \in DOMAIN replies', replies'[i].guid = recv.m_guid,
               replies'[i].kind = "data"
        PROVE  Announced(replies', recv, i - 1, replies'[i].of, spent.torn)
    <3>1. i \in DOMAIN replies /\ i \in 1 .. Len(replies) /\ replies'[i] = replies[i]
      BY <2>1, <1>2, <1>3
    <3>2. /\ i - 1 \in Nat /\ i - 1 <= i - 1
          /\ \A j \in 1 .. i - 1 : j \in 1 .. Len(replies)
      BY <3>1, <1>3, PlaceBefore
    <3>3. Announced(replies, recv, i - 1, replies[i].of, spent.torn)
      BY <2>1, <3>1 DEF MsgsInOrder
    <3>4. \A j \in 1 .. i - 1 : replies'[j] = replies[j]
      BY <3>2, <1>12
    <3> QED BY <3>1, <3>2, <3>3, <3>4, AnnouncedFurther
  <2>2. ASSUME NEW t \in sends, t.guid = recv.m_guid, t.guid \notin noroute, Streaming(t)
        PROVE  Announced(replies', recv, Len(replies'), t.of, spent.torn)
    <3>1. Announced(replies, recv, Len(replies), t.of, spent.torn)
      BY <2>2 DEF SendsInOrder
    <3>2. Len(replies) \in Nat /\ Len(replies') \in Nat /\ Len(replies) <= Len(replies')
      BY <1>3
    <3> QED BY <3>1, <3>2, <1>12, AnnouncedFurther
  <2> QED BY <2>1, <2>2 DEF MsgsInOrder, SendsInOrder
<1> QED BY <1>6, <1>7, <1>8, <1>11, <1>13 DEF FitInv, SameInv

\* A request that continues a transfer, or begins one.
LEMMA AnsweredKeeps ==
  ASSUME TransferInv, IdsLeft, NEW q \in requests, requests' = requests \ {q},
         NEW t \in Upload, t.guid = q.guid, SendFits(t), ~Streaming(t),
         spent.torn = 0 => t.reads = t.of,
         spent.changes = 0 => t.of = disk,
         \A u \in sends' : u \in sends \/ u = t,
         IsFiniteSet(sends'), Cardinality(sends') <= UploadLimit,
         UNCHANGED <<disk, indexed, recv, out, stat, replies, noroute, spent>>
  PROVE  TransferInv'
<1> USE DEF TransferInv
<1>1. Onward /\ Fewer(replies', replies)
  BY SpendIs, SameMessages
<1>2. \A u \in sends' : u \in sends \/ u = t
  OBVIOUS
<1>3. TypeInv'
  BY <1>2 DEF TypeInv
<1>4. SendsFit' /\ MsgsFit' /\ SameMsgs'
  <2>1. SendsFit'
    BY <1>2 DEF FitInv, SendsFit
  <2>2. MsgsFit'
    BY DEF FitInv, MsgsFit
  <2>3. SameMsgs'
    BY <1>2 DEF SameInv, SameMsgs
  <2> QED BY <2>1, <2>2, <2>3
<1>5. RecvFit' /\ StatFits(stat') /\ DoneInv' /\ SameFile' /\ KeptInv'
  BY <1>1, RecvKept
\* Nothing has gone out under the id of the request, and there is no other with it.
<1>6. IdsInv'
  <2>1. \A p \in requests' : p \in requests /\ p.guid # q.guid
    BY DEF IdsInv, AsksDiffer
  <2>2. \A i \in DOMAIN replies : replies[i].guid # q.guid
    BY DEF IdsInv, Unanswered
  <2>3. \A u \in sends : u.guid # q.guid
    BY DEF IdsInv, Unanswered
  <2>4. Unanswered'
    BY <2>1, <1>2 DEF IdsInv, Unanswered
  <2>5. AsksDiffer'
    BY <2>1 DEF IdsInv, AsksDiffer
  <2>6. SendsDiffer'
    BY <2>3, <1>2 DEF IdsInv, SendsDiffer
  <2>7. MsgsAgree'
    BY DEF IdsInv, MsgsAgree
  <2>8. MsgsOfSends'
    BY <2>2, <1>2 DEF IdsInv, MsgsOfSends
  <2> QED BY <2>4, <2>5, <2>6, <2>7, <2>8 DEF IdsInv
<1>7. OrderInv'
  <2>1. SendsInOrder(replies, recv, sends, noroute, spent.torn)
          => SendsInOrder(replies, recv, sends', noroute, spent.torn)
    BY <1>2 DEF SendsInOrder
  <2> QED BY <2>1 DEF OrderInv
<1> QED BY <1>3, <1>4, <1>5, <1>6, <1>7 DEF FitInv, SameInv

LEMMA GotRequestKeeps ==
  ASSUME TransferInv, IdsLeft, NEW q \in requests, GotRequest(q)
  PROVE  TransferInv'
<1> USE DEF TransferInv
<1>1. /\ requests' = requests \ {q} /\ q \in Ask /\ q.guid \in Guid
      /\ UNCHANGED <<disk, indexed, recv, out, stat, noroute, spent>>
  BY DEF GotRequest, TypeInv, Ask
<1>2. IsFiniteSet(sends) /\ Cardinality(sends) <= UploadLimit /\ Cardinality(sends) \in Nat
      /\ UploadLimit \in Nat
  BY FS_CardinalityType, Constants DEF TypeInv
\* What a transfer answers with fits if the transfer does.
<1> DEFINE fits(t) == /\ t \in Upload /\ t.guid = q.guid /\ SendFits(t) /\ ~Streaming(t)
                      /\ spent.torn = 0 => t.reads = t.of
                      /\ spent.changes = 0 => t.of = disk
<1>3. ASSUME NEW u \in Upload, u.guid = q.guid, SendFits(u),
             spent.torn = 0 => u.reads = u.of, spent.changes = 0 => u.of = disk
      PROVE  fits(Answering(u, q))
  <2>1. LET t == Answering(u, q)
        IN  /\ t \in Upload /\ t.guid = u.guid /\ t.of = u.of /\ t.reads = u.reads
            /\ t.chunks_to_send \subseteq u.chunks_to_send \cup Chunks(Size[u.of])
            /\ t.m_err # NoErr \/ t.m_need_reply
    BY <1>1, <1>3, AnsweringIs
  <2> QED BY <2>1, <1>3 DEF SendFits, Streaming
<1>4. CASE \E s \in sends : s.guid = q.prev
  <2>1. PICK s \in sends :
          sends' = (sends \ {s}) \cup {Answering([s EXCEPT !.guid = q.guid], q)}
    BY <1>4 DEF GotRequest
  <2> DEFINE u == [s EXCEPT !.guid = q.guid]
             t == Answering(u, q)
  <2>2. /\ s \in Upload /\ SendFits(s) /\ (spent.torn = 0 => s.reads = s.of)
        /\ (spent.changes = 0 => s.of = disk)
    BY DEF TypeInv, FitInv, SendsFit, SameInv, SameMsgs
  <2>3. u \in Upload /\ u.guid = q.guid /\ SendFits(u)
        /\ (spent.torn = 0 => u.reads = u.of) /\ (spent.changes = 0 => u.of = disk)
    BY <2>2, <1>1 DEF Upload, SendFits
  <2> HIDE DEF u
  <2>4. fits(t)
    BY <2>3, <1>3
  <2>5. sends' = (sends \ {s}) \cup {t} /\ UNCHANGED replies
    BY <2>1, <1>4 DEF GotRequest, u
  <2> HIDE DEF t
  <2>6. IsFiniteSet(sends') /\ Cardinality(sends') <= Cardinality(sends)
    BY <2>5, <1>2, SwapIs
  <2>7. Cardinality(sends') \in Nat
    BY <2>6, FS_CardinalityType
  <2>8. Cardinality(sends') <= UploadLimit
    BY <2>6, <2>7, <1>2
  <2> QED BY <2>4, <2>5, <2>6, <2>8, <1>1, AnsweredKeeps
<1>5. CASE ~\E s \in sends : s.guid = q.prev
  <2>1. FirstRequest(q)
    BY <1>5 DEF GotRequest
  <2>2. CASE sends' = sends /\ (UNCHANGED replies
                                \/ replies' = Append(replies, ErrorReply(q.guid, NotFound)))
    BY <2>2, <1>1, RefusedKeeps
  <2>3. CASE /\ indexed /\ disk # Gone /\ Cardinality(sends) < UploadLimit
             /\ sends' = sends \cup {Answering(NewSend(q.guid), q)} /\ UNCHANGED replies
    <3> DEFINE u == NewSend(q.guid)
               t == Answering(u, q)
    <3>1. disk \in Version
      BY <2>3 DEF TypeInv
    <3>2. u \in Upload /\ u.guid = q.guid /\ SendFits(u)
          /\ (spent.torn = 0 => u.reads = u.of) /\ (spent.changes = 0 => u.of = disk)
      BY <3>1, <1>1 DEF NewSend, Upload, SendFits
    <3> HIDE DEF u
    <3>3. fits(t)
      BY <3>2, <1>3
    <3>4. sends' = sends \cup {t}
      BY <2>3 DEF u
    <3> HIDE DEF t
    <3>5. IsFiniteSet(sends') /\ \/ Cardinality(sends') = Cardinality(sends)
                                 \/ Cardinality(sends') = Cardinality(sends) + 1
      BY <3>4, <1>2, FS_AddElement
    <3>6. Cardinality(sends') <= UploadLimit
      BY <3>5, <2>3, <1>2
    <3> QED BY <3>3, <3>4, <3>5, <3>6, <2>3, <1>1, AnsweredKeeps
  <2>4. \/ q.abort # 0 \/ Cardinality(sends) >= UploadLimit
        \/ q.abort = 0 /\ Cardinality(sends) < UploadLimit
    BY <1>2
  <2> QED BY <2>1, <2>2, <2>3, <2>4 DEF FirstRequest
<1> QED BY <1>4, <1>5

\* What is over or killed between two messages sends nothing.
LEMMA QuietKeeps ==
  ASSUME TransferInv, IdsLeft, Onward, UNCHANGED <<recv, out, stat, requests, replies>>,
         sends' \subseteq sends, noroute \subseteq noroute', noroute' \subseteq Guid,
         disk' = disk, indexed' \in BOOLEAN
  PROVE  TransferInv'
<1> USE DEF TransferInv
<1>1. Fewer(replies', replies) /\ AtMostOneAsk
  BY SameMessages DEF AtMostOneAsk
<1>2. TypeInv'
  <2>1. IsFiniteSet(sends) /\ Cardinality(sends) <= UploadLimit /\ UploadLimit \in Nat
    BY Constants DEF TypeInv
  <2>2. IsFiniteSet(sends') /\ Cardinality(sends') <= Cardinality(sends)
    BY <2>1, FS_Subset
  <2>3. Cardinality(sends) \in Nat /\ Cardinality(sends') \in Nat
    BY <2>1, <2>2, FS_CardinalityType
  <2>4. Cardinality(sends') <= UploadLimit
    BY <2>1, <2>2, <2>3
  <2> QED BY <2>2, <2>4 DEF TypeInv, Onward
<1>3. SendsFit' /\ MsgsFit' /\ SameMsgs'
  BY <1>1, MsgsKept
<1>4. RecvFit' /\ StatFits(stat') /\ DoneInv' /\ SameFile' /\ KeptInv'
  BY RecvKept
<1>5. IdsInv'
  BY <1>1, IdsKept
<1>6. OrderInv'
  BY OrderKept
<1> QED BY <1>2, <1>3, <1>4, <1>5, <1>6 DEF FitInv, SameInv

LEMMA QuietActions ==
  ASSUME TransferInv, IdsLeft,
         \/ \E s \in sends : SendEnded(s) \/ LoseRoute(s)
         \/ RestartUploader
  PROVE  TransferInv'
<1> USE DEF TransferInv
<1>1. ASSUME NEW s \in sends, SendEnded(s) PROVE TransferInv'
  <2>1. /\ Onward /\ UNCHANGED <<recv, out, stat, requests, replies, disk, noroute>>
        /\ sends' \subseteq sends /\ noroute \subseteq Guid /\ indexed' \in BOOLEAN
    BY <1>1, SpendIs DEF SendEnded, TypeInv
  <2> QED BY <2>1, QuietKeeps
<1>2. ASSUME NEW s \in sends, LoseRoute(s) PROVE TransferInv'
  <2>1. s.guid \in Guid
    BY DEF TypeInv, Upload
  <2>2. /\ Onward /\ UNCHANGED <<recv, out, stat, requests, replies, disk, sends>>
        /\ noroute \subseteq noroute' /\ noroute' \subseteq Guid /\ indexed' \in BOOLEAN
    BY <1>2, <2>1, SpendIs DEF LoseRoute, TypeInv
  <2> QED BY <2>2, QuietKeeps
<1>3. ASSUME RestartUploader PROVE TransferInv'
  <2>1. /\ Onward /\ UNCHANGED <<recv, out, stat, requests, replies, disk, noroute>>
        /\ sends' = {} /\ noroute \subseteq Guid /\ indexed' \in BOOLEAN
    BY <1>3, SpendIs DEF RestartUploader, TypeInv
  <2> QED BY <2>1, QuietKeeps
<1> QED BY <1>1, <1>2, <1>3

\* What becomes of an upload when the file changes.
Refiled(f) ==
  /\ f \in [sends -> Upload] /\ \A t \in sends' : \E s \in sends : t = f[s]
  /\ \A s \in sends : /\ f[s] \in sends' /\ f[s].guid = s.guid /\ f[s].of = s.of
                      /\ f[s].chunks_to_send = s.chunks_to_send
                      /\ f[s].m_need_reply = s.m_need_reply /\ f[s].m_err = s.m_err
                      /\ spent'.torn = 0 => f[s].reads = s.reads

\* The file changes: an upload reads something else from then on, or is cut off from its name.
LEMMA ChangeKeeps ==
  ASSUME TransferInv, IdsLeft, Onward, spent'.changes # 0, NEW f, Refiled(f),
         disk' \in Version \cup {Gone},
         UNCHANGED <<indexed, recv, out, stat, requests, replies, noroute>>
  PROVE  TransferInv'
<1> USE DEF TransferInv
<1>1. /\ f \in [sends -> Upload] /\ \A t \in sends' : \E s \in sends : t = f[s]
      /\ \A s \in sends : f[s] \in sends'
  BY DEF Refiled
<1>2. \A s \in sends : /\ f[s] \in Upload /\ f[s].guid = s.guid /\ f[s].of = s.of
                       /\ f[s].chunks_to_send = s.chunks_to_send
                       /\ f[s].m_need_reply = s.m_need_reply /\ f[s].m_err = s.m_err
                       /\ spent'.torn = 0 => f[s].reads = s.reads
  BY <1>1 DEF Refiled
<1>3. /\ spent'.torn = 0 => spent.torn = 0
      /\ spent'.lost = 0 => spent.lost = 0
  BY DEF Onward
<1>4. TypeInv'
  <2>1. IsFiniteSet(sends) /\ Cardinality(sends) <= UploadLimit /\ UploadLimit \in Nat
    BY Constants DEF TypeInv
  <2>2. f \in Surjection(sends, sends')
    <3>1. f \in [sends -> sends'] /\ \A t \in sends' : \E s \in sends : f[s] = t
      BY <1>1
    <3> QED BY <3>1 DEF Surjection
  <2>3. IsFiniteSet(sends') /\ Cardinality(sends') <= Cardinality(sends)
    BY <2>1, <2>2, FS_Surjection
  <2>4. Cardinality(sends) \in Nat /\ Cardinality(sends') \in Nat
    BY <2>1, <2>3, FS_CardinalityType
  <2>5. Cardinality(sends') <= UploadLimit
    BY <2>1, <2>3, <2>4
  <2>6. sends' \subseteq Upload
    BY <1>1, <1>2
  <2> QED BY <2>3, <2>5, <2>6 DEF TypeInv, Onward
<1>5. SendsFit' /\ MsgsFit' /\ SameMsgs'
  <2>1. SendsFit'
    <3>1. ASSUME NEW t \in sends'
          PROVE  SendFits(t) /\ (spent'.torn = 0 => t.reads = t.of)
      <4>1. PICK s \in sends : t = f[s]
        BY <1>1
      <4>2. SendFits(s) /\ (spent.torn = 0 => s.reads = s.of)
        BY DEF FitInv, SendsFit
      <4> QED BY <4>1, <4>2, <1>2, <1>3 DEF SendFits
    <3> QED BY <3>1 DEF SendsFit
  <2>2. MsgsFit'
    BY DEF FitInv, MsgsFit
  <2>3. SameMsgs'
    BY DEF SameMsgs
  <2> QED BY <2>1, <2>2, <2>3
<1>6. RecvFit' /\ StatFits(stat') /\ DoneInv' /\ SameFile' /\ KeptInv'
  BY RecvKept
<1>7. \A t \in sends' : \E s \in sends : t = f[s] /\ t.guid = s.guid /\ t.of = s.of
  BY <1>1, <1>2
<1>8. IdsInv'
  <2>1. Unanswered'
    <3>1. ASSUME NEW q \in requests, NEW t \in sends' PROVE t.guid # q.guid
      BY <1>7 DEF IdsInv, Unanswered
    <3> QED BY <3>1 DEF IdsInv, Unanswered
  <2>2. AsksDiffer'
    BY DEF IdsInv, AsksDiffer
  <2>3. SendsDiffer'
    <3>1. ASSUME NEW t \in sends', NEW u \in sends', t.guid = u.guid PROVE t = u
      <4>1. PICK s \in sends : t = f[s] /\ t.guid = s.guid
        BY <1>7
      <4>2. PICK r \in sends : u = f[r] /\ u.guid = r.guid
        BY <1>7
      <4>3. s = r
        BY <3>1, <4>1, <4>2 DEF IdsInv, SendsDiffer
      <4> QED BY <4>1, <4>2, <4>3
    <3> QED BY <3>1 DEF SendsDiffer
  <2>4. MsgsAgree'
    BY <1>3 DEF IdsInv, MsgsAgree
  <2>5. MsgsOfSends'
    <3>1. ASSUME spent'.torn = 0, NEW t \in sends', NEW i \in DOMAIN replies,
                 replies[i].guid = t.guid
          PROVE  MsgOf(replies[i], t.of)
      <4>1. PICK s \in sends : t.guid = s.guid /\ t.of = s.of
        BY <1>7
      <4> QED BY <3>1, <4>1, <1>3 DEF IdsInv, MsgsOfSends
    <3> QED BY <3>1 DEF MsgsOfSends
  <2> QED BY <2>1, <2>2, <2>3, <2>4, <2>5 DEF IdsInv
<1>9. OrderInv'
  <2>1. ASSUME SendsInOrder(replies, recv, sends, noroute, spent.torn), NEW t \in sends',
               t.guid = recv.m_guid, t.guid \notin noroute, Streaming(t)
        PROVE  Announced(replies, recv, Len(replies), t.of, spent'.torn)
    <3>1. PICK s \in sends : t = f[s]
      BY <1>1
    <3>2. s.guid = recv.m_guid /\ s.guid \notin noroute /\ Streaming(s) /\ t.of = s.of
      BY <2>1, <3>1, <1>2 DEF Streaming
    <3>3. Announced(replies, recv, Len(replies), s.of, spent.torn)
      BY <2>1, <3>2 DEF SendsInOrder
    <3> QED BY <3>2, <3>3, <1>3 DEF Announced
  <2>2. MsgsInOrder(replies, recv, spent.torn) => MsgsInOrder(replies, recv, spent'.torn)
    BY <1>3 DEF MsgsInOrder, Announced
  <2> QED BY <2>1, <2>2, <1>3 DEF OrderInv, SendsInOrder
<1> QED BY <1>4, <1>5, <1>6, <1>8, <1>9 DEF FitInv, SameInv

LEMMA RewriteFileKeeps ==
  ASSUME TransferInv, IdsLeft, RewriteFile
  PROVE  TransferInv'
<1> DEFINE f == [s \in sends |-> [s EXCEPT !.reads = IF s.linked THEN disk' ELSE s.reads]]
           n == IF \E s \in sends : s.linked THEN spent.torn + 1 ELSE spent.torn
<1>1. spent \in Spending /\ sends \subseteq Upload
  BY DEF TransferInv, TypeInv
<1>2. /\ disk' \in Version
      /\ sends' = {[s EXCEPT !.reads = IF s.linked THEN disk' ELSE @] : s \in sends}
      /\ spent' = [spent EXCEPT !.changes = @ + 1,
                                !.torn = IF \E s \in sends : s.linked THEN @ + 1 ELSE @]
      /\ UNCHANGED <<indexed, recv, out, stat, requests, replies, noroute>>
  BY DEF RewriteFile
<1>3. n \in Nat /\ (n = 0 => spent.torn = 0 /\ \A s \in sends : ~s.linked)
  BY <1>1 DEF Spending
<1>4. spent' = [spent EXCEPT !.changes = spent.changes + 1, !.torn = n]
  BY <1>2, <1>1 DEF Spending
<1> HIDE DEF n
<1>5. Onward /\ spent'.changes # 0 /\ spent'.torn = n
  <2> DEFINE c == spent.changes + 1
  <2>3. c \in Nat /\ c # 0
    BY <1>1 DEF Spending
  <2>4. spent' = [spent EXCEPT !.changes = c, !.torn = n]
    BY <1>4
  <2> HIDE DEF c
  <2>5. n \in Nat
    BY <1>3
  <2>1. /\ spent' \in Spending /\ spent'.torn = n /\ spent'.changes = c
        /\ spent'.lost = spent.lost /\ spent'.crashes = spent.crashes
    BY <1>1, <2>3, <2>4, <2>5 DEF Spending
  <2>2. spent'.changes # 0
    BY <2>1, <2>3
  <2> QED BY <2>1, <2>2, <1>3 DEF Onward
<1>6. ASSUME NEW s \in Upload, NEW v \in Version
      PROVE  LET t == [s EXCEPT !.reads = v]
             IN  /\ t \in Upload /\ t.guid = s.guid /\ t.of = s.of
                 /\ t.chunks_to_send = s.chunks_to_send
                 /\ t.m_need_reply = s.m_need_reply /\ t.m_err = s.m_err /\ t.reads = v
  BY DEF Upload
<1>7. \A s \in sends : s \in Upload /\ (IF s.linked THEN disk' ELSE s.reads) \in Version
  BY <1>1, <1>2 DEF Upload
<1>8. \A s \in sends : /\ f[s] \in Upload /\ f[s].guid = s.guid /\ f[s].of = s.of
                       /\ f[s].chunks_to_send = s.chunks_to_send
                       /\ f[s].m_need_reply = s.m_need_reply /\ f[s].m_err = s.m_err
                       /\ f[s].reads = IF s.linked THEN disk' ELSE s.reads
                       /\ f[s] = [s EXCEPT !.reads = IF s.linked THEN disk' ELSE @]
  <2> SUFFICES ASSUME NEW s \in sends
               PROVE  /\ f[s] \in Upload /\ f[s].guid = s.guid /\ f[s].of = s.of
                      /\ f[s].chunks_to_send = s.chunks_to_send
                      /\ f[s].m_need_reply = s.m_need_reply /\ f[s].m_err = s.m_err
                      /\ f[s].reads = IF s.linked THEN disk' ELSE s.reads
                      /\ f[s] = [s EXCEPT !.reads = IF s.linked THEN disk' ELSE @]
    OBVIOUS
  <2> DEFINE v == IF s.linked THEN disk' ELSE s.reads
  <2>1. s \in Upload /\ v \in Version
    BY <1>7
  <2>2. f[s] = [s EXCEPT !.reads = v]
    OBVIOUS
  <2>3. f[s] = [s EXCEPT !.reads = IF s.linked THEN disk' ELSE @]
    BY <2>1 DEF Upload
  <2>4. v = IF s.linked THEN disk' ELSE s.reads
    OBVIOUS
  <2> HIDE DEF v, f
  <2> QED BY <2>1, <2>2, <2>3, <2>4, <1>6
<1>9. DOMAIN f = sends
  OBVIOUS
<1>10. f \in [sends -> Upload]
  BY <1>8
<1> HIDE DEF f
<1>11. \A s \in sends : spent'.torn = 0 => f[s].reads = s.reads
  BY <1>3, <1>5, <1>8
<1>12. Refiled(f)
  BY <1>2, <1>8, <1>10, <1>11 DEF Refiled
<1> QED BY <1>2, <1>5, <1>12, ChangeKeeps

LEMMA ReplaceFileKeeps ==
  ASSUME TransferInv, IdsLeft, ReplaceFile
  PROVE  TransferInv'
<1> DEFINE f == [s \in sends |-> [s EXCEPT !.linked = FALSE]]
<1>1. sends \subseteq Upload
  BY DEF TransferInv, TypeInv
<1>2. /\ disk' \in Version \cup {Gone} /\ Onward /\ spent'.changes # 0
      /\ sends' = {[s EXCEPT !.linked = FALSE] : s \in sends}
      /\ UNCHANGED <<indexed, recv, out, stat, requests, replies, noroute>>
  BY SpendIs DEF ReplaceFile, TransferInv
<1>3. \A s \in sends : /\ f[s] \in Upload /\ f[s].guid = s.guid /\ f[s].of = s.of
                       /\ f[s].chunks_to_send = s.chunks_to_send
                       /\ f[s].m_need_reply = s.m_need_reply /\ f[s].m_err = s.m_err
                       /\ f[s].reads = s.reads /\ f[s] = [s EXCEPT !.linked = FALSE]
  BY <1>1 DEF Upload
<1>4. f \in [sends -> Upload]
  BY <1>3
<1> HIDE DEF f
<1>5. Refiled(f)
  <2>1. \A s \in sends : f[s] \in sends'
    BY <1>2, <1>3
  <2>2. \A t \in sends' : \E s \in sends : t = f[s]
    BY <1>2, <1>3
  <2> QED BY <2>1, <2>2, <1>3, <1>4 DEF Refiled
<1> QED BY <1>2, <1>5, ChangeKeeps

LEMMA LoseKeeps ==
  ASSUME TransferInv, IdsLeft, Lose
  PROVE  TransferInv'
<1> USE DEF TransferInv
<1>1. /\ Onward /\ spent'.lost # 0 /\ UNCHANGED <<disk, indexed, sends, recv, out, stat, noroute>>
  BY SpendIs DEF Lose
<1>2. replies \in Seq(Msg)
  BY DEF TypeInv
<1>3. requests' \subseteq requests /\ Fewer(replies', replies) /\ replies' \in Seq(Msg)
  <2>1. CASE UNCHANGED requests /\ \E i \in DOMAIN replies : replies' = Without(replies, i)
    BY <2>1, <1>2, WithoutIs DEF Fewer
  <2>2. CASE UNCHANGED replies /\ \E q \in requests : requests' = requests \ {q}
    BY <2>2, <1>2, SameMessages
  <2> QED BY <2>1, <2>2 DEF Lose, Without
<1>4. AtMostOneAsk
  BY <1>3 DEF AtMostOneAsk
<1>5. TypeInv'
  BY <1>1, <1>3 DEF TypeInv, Onward
<1>6. SendsFit' /\ MsgsFit' /\ SameMsgs'
  BY <1>1, <1>3, MsgsKept
<1>7. RecvFit' /\ StatFits(stat') /\ DoneInv' /\ SameFile' /\ KeptInv'
  BY <1>1, RecvKept
<1>8. IdsInv'
  BY <1>1, <1>3, <1>4, IdsKept
<1>9. OrderInv'
  BY <1>1 DEF OrderInv
<1> QED BY <1>5, <1>6, <1>7, <1>8, <1>9 DEF FitInv, SameInv
\* Something goes out under the id of an upload: what is of the file, and in its order.
LEMMA SentKeeps ==
  ASSUME TransferInv, IdsLeft, NEW s \in sends,
         replies' \in Seq(Msg), Len(replies) <= Len(replies'),
         \A i \in DOMAIN replies : i \in DOMAIN replies' /\ replies'[i] = replies[i],
         \A i \in DOMAIN replies' \ DOMAIN replies :
           /\ replies'[i].guid = s.guid /\ MsgFits(replies'[i])
           /\ spent.torn = 0 => MsgOf(replies'[i], s.of)
           /\ replies'[i].kind = "data" /\ recv.m_guid = s.guid
                => \/ \E k \in 1 .. i - 1 : /\ k \in DOMAIN replies' \ DOMAIN replies
                                            /\ replies'[k].kind = "header"
                   \/ Announced(replies, recv, Len(replies), s.of, spent.torn)
                   \/ ~recv.on \/ ~Live(recv) \/ spent.lost # 0,
         NEW t \in Upload, t.guid = s.guid, t.of = s.of, t.reads = s.reads, SendFits(t),
         Streaming(t) /\ t.guid \notin noroute =>
           \/ \E k \in DOMAIN replies' \ DOMAIN replies : replies'[k].kind = "header"
           \/ Streaming(s),
         sends' \subseteq (sends \ {s}) \cup {t},
         IsFiniteSet(sends'), Cardinality(sends') <= UploadLimit, Onward, spent'.torn = spent.torn,
         UNCHANGED <<disk, indexed, recv, out, stat, requests, noroute>>
  PROVE  TransferInv'
<1> USE DEF TransferInv
<1> DEFINE New == DOMAIN replies' \ DOMAIN replies
<1>1. /\ DOMAIN replies = 1 .. Len(replies) /\ Len(replies) \in Nat
      /\ DOMAIN replies' = 1 .. Len(replies') /\ Len(replies') \in Nat
  BY DEF TypeInv
<1>2. \A i \in DOMAIN replies' :
        \/ i \in DOMAIN replies /\ replies'[i] = replies[i]
        \/ /\ i \in New /\ replies'[i].guid = s.guid /\ MsgFits(replies'[i])
           /\ spent.torn = 0 => MsgOf(replies'[i], s.of)
  OBVIOUS
<1>3. \A u \in sends' : u \in sends \ {s} \/ u = t
  OBVIOUS
<1>4. disk' = disk /\ recv' = recv /\ requests' = requests /\ noroute' = noroute
  OBVIOUS
<1>5. TypeInv'
  <2>1. sends' \subseteq Upload
    BY <1>3 DEF TypeInv
  <2> QED BY <2>1, <1>4 DEF TypeInv, Onward
<1>6. SendsFit' /\ MsgsFit' /\ SameMsgs'
  <2>1. SendsFit'
    BY <1>3, <1>4 DEF FitInv, SendsFit
  <2>2. MsgsFit'
    BY <1>2 DEF FitInv, MsgsFit
  <2>3. SameMsgs'
    <3> SUFFICES ASSUME spent'.changes = 0 PROVE SameMsgs'
      BY DEF SameMsgs
    <3>1. /\ disk \in Version /\ spent.torn = 0 /\ \A u \in sends : u.of = disk
          /\ \A i \in DOMAIN replies : MsgOf(replies[i], disk)
      BY DEF SameInv, SameMsgs, Onward
    <3>2. \A u \in sends' : u.of = disk
      BY <3>1, <1>3
    <3>3. \A i \in DOMAIN replies' : MsgOf(replies'[i], disk)
      BY <3>1, <1>2
    <3> QED BY <3>1, <3>2, <3>3, <1>4 DEF SameMsgs
  <2> QED BY <2>1, <2>2, <2>3
<1>7. RecvFit' /\ StatFits(stat') /\ DoneInv' /\ SameFile' /\ KeptInv'
  BY RecvKept
<1>8. IdsInv'
  <2>1. Unanswered'
    BY <1>2, <1>3, <1>4 DEF IdsInv, Unanswered
  <2>2. AsksDiffer'
    BY <1>4 DEF IdsInv, AsksDiffer
  <2>3. \A i \in DOMAIN replies' :
          replies'[i].guid = s.guid /\ spent.torn = 0 => MsgOf(replies'[i], s.of)
    BY <1>2 DEF IdsInv, MsgsOfSends
  <2>4. MsgsAgree'
    <3> SUFFICES ASSUME spent.torn = 0, NEW i \in DOMAIN replies', NEW j \in DOMAIN replies',
                        replies'[i].guid = replies'[j].guid, replies'[i].kind = "header",
                        replies'[j].kind = "data"
                 PROVE  HashOf(replies'[j].of) = replies'[i].hash
      BY DEF MsgsAgree
    <3>1. CASE replies'[i].guid = s.guid
      BY <3>1, <2>3 DEF MsgOf
    <3>2. CASE replies'[i].guid # s.guid
      BY <3>2, <1>2 DEF IdsInv, MsgsAgree
    <3> QED BY <3>1, <3>2
  <2>5. MsgsOfSends'
    <3> SUFFICES ASSUME spent.torn = 0, NEW u \in sends', NEW i \in DOMAIN replies',
                        replies'[i].guid = u.guid
                 PROVE  MsgOf(replies'[i], u.of)
      BY DEF MsgsOfSends
    <3>1. CASE u.guid = s.guid
      <4>1. u.of = s.of
        BY <3>1, <1>3 DEF IdsInv, SendsDiffer
      <4> QED BY <3>1, <4>1, <2>3
    <3>2. CASE u.guid # s.guid
      <4>1. u \in sends
        BY <3>2, <1>3
      <4> QED BY <4>1, <3>2, <1>2 DEF IdsInv, MsgsOfSends
    <3> QED BY <3>1, <3>2
  <2>6. SendsDiffer'
    BY <1>3 DEF IdsInv, SendsDiffer
  <2> QED BY <2>1, <2>2, <2>4, <2>5, <2>6 DEF IdsInv
\* What was announced stays announced, and a header announces what comes behind it.
<1>9. ASSUME NEW n \in Nat, n <= Len(replies), NEW m \in Nat, n <= m, NEW v, NEW w,
             NEW torn, torn = 0 => v = w, Announced(replies, recv, n, v, torn)
      PROVE  Announced(replies', recv, m, w, torn)
  <2>1. CASE recv.lasthdr /\ (torn = 0 => recv.m_hash = HashOf(v))
    BY <2>1, <1>9 DEF Announced
  <2>2. CASE \E i \in 1 .. n : replies[i].guid = recv.m_guid /\ replies[i].kind = "header"
    <3>1. PICK i \in 1 .. n : replies[i].guid = recv.m_guid /\ replies[i].kind = "header"
      BY <2>2
    <3>2. i \in DOMAIN replies /\ i \in 1 .. m
      BY <1>1, <1>9
    <3> QED BY <3>1, <3>2 DEF Announced
  <2> QED BY <2>1, <2>2, <1>9 DEF Announced
<1>10. ASSUME NEW m \in Nat, NEW k \in 1 .. m, k \in New, replies'[k].kind = "header",
              recv.m_guid = s.guid, NEW v
       PROVE  Announced(replies', recv, m, v, spent.torn)
  BY <1>2, <1>10 DEF Announced
<1>11. OrderInv'
  <2> SUFFICES ASSUME recv.on, spent.lost = 0, Live(recv),
                      MsgsInOrder(replies, recv, spent.torn),
                      SendsInOrder(replies, recv, sends, noroute, spent.torn)
               PROVE  /\ MsgsInOrder(replies', recv, spent.torn)
                      /\ SendsInOrder(replies', recv, sends', noroute, spent.torn)
    BY <1>4 DEF OrderInv, Onward
  <2>1. ASSUME NEW j \in DOMAIN replies', replies'[j].guid = recv.m_guid,
               replies'[j].kind = "data"
        PROVE  Announced(replies', recv, j - 1, replies'[j].of, spent.torn)
    <3>1. j - 1 \in Nat /\ j \in Nat
      BY <1>1
    <3>2. CASE j \in DOMAIN replies
      <4>1. Announced(replies, recv, j - 1, replies[j].of, spent.torn) /\ replies'[j] = replies[j]
        BY <3>2, <2>1 DEF MsgsInOrder
      <4>2. j - 1 <= Len(replies) /\ j - 1 <= j - 1
        BY <3>2, <1>1
      <4> QED BY <4>1, <4>2, <3>1, <1>9
    <3>3. CASE j \in New
      <4>1. replies'[j].guid = s.guid /\ (spent.torn = 0 => s.of = replies'[j].of)
        BY <3>3, <2>1, <1>2 DEF MsgOf
      <4>2. \/ \E k \in 1 .. j - 1 : k \in New /\ replies'[k].kind = "header"
            \/ Announced(replies, recv, Len(replies), s.of, spent.torn)
        BY <3>3, <2>1, <4>1
      <4>3. ASSUME NEW k \in 1 .. j - 1, k \in New, replies'[k].kind = "header"
            PROVE  Announced(replies', recv, j - 1, replies'[j].of, spent.torn)
        BY <4>1, <4>3, <3>1, <2>1, <1>10
      <4>4. ASSUME Announced(replies, recv, Len(replies), s.of, spent.torn)
            PROVE  Announced(replies', recv, j - 1, replies'[j].of, spent.torn)
        <5>1. Len(replies) <= j - 1
          BY <3>3, <3>1, <1>1
        <5>2. Len(replies) <= Len(replies)
          BY <1>1
        <5> QED BY <4>1, <4>4, <5>1, <5>2, <3>1, <1>1, <1>9
      <4> QED BY <4>1, <4>2, <4>3, <4>4
    <3> QED BY <3>2, <3>3
  <2>2. ASSUME NEW u \in sends', u.guid = recv.m_guid, u.guid \notin noroute, Streaming(u)
        PROVE  Announced(replies', recv, Len(replies'), u.of, spent.torn)
    <3>1. ASSUME Announced(replies, recv, Len(replies), u.of, spent.torn)
          PROVE  Announced(replies', recv, Len(replies'), u.of, spent.torn)
      <4>1. Len(replies) <= Len(replies)
        BY <1>1
      <4> QED BY <3>1, <4>1, <1>1, <1>9
    <3>2. CASE u \in sends
      BY <2>2, <3>1, <3>2 DEF SendsInOrder
    <3>3. CASE u \notin sends
      <4>1. u = t /\ u.guid = s.guid /\ u.of = s.of
        BY <3>3, <1>3
      <4>2. \/ \E k \in New : replies'[k].kind = "header"
            \/ Streaming(s)
        BY <4>1, <2>2
      <4>3. ASSUME NEW k \in New, replies'[k].kind = "header"
            PROVE  Announced(replies', recv, Len(replies'), u.of, spent.torn)
        <5>1. k \in 1 .. Len(replies')
          BY <1>1
        <5> QED BY <5>1, <4>1, <4>3, <2>2, <1>1, <1>10
      <4>4. Streaming(s) => Announced(replies, recv, Len(replies), u.of, spent.torn)
        BY <4>1, <2>2 DEF SendsInOrder
      <4> QED BY <4>2, <4>3, <4>4, <3>1
    <3> QED BY <3>2, <3>3
  <2> QED BY <2>1, <2>2 DEF MsgsInOrder, SendsInOrder
<1> QED BY <1>5, <1>6, <1>7, <1>8, <1>11 DEF FitInv, SameInv

\* None of the messages is new and says that the file was not found.
NotRefused ==
  \A i \in DOMAIN replies' : \/ \E k \in DOMAIN replies : replies'[i] = replies[k]
                             \/ replies'[i].kind # "error" \/ replies'[i].err # NotFound

LEMMA RunSendKeeps ==
  ASSUME TransferInv, IdsLeft, NEW s \in sends, RunSend(s)
  PROVE  TransferInv' /\ NotRefused
<1> DEFINE lost == s.guid \in noroute
           room == ~lost /\ s.chunks_to_send # {} /\ Len(replies) < QueueRoom
           x    == Min(s.chunks_to_send)
           h    == s.m_need_reply /\ ~lost
           left == IF room THEN s.chunks_to_send \ {x} ELSE s.chunks_to_send
           t    == [s EXCEPT !.m_need_reply = FALSE, !.chunks_to_send = left]
           new  == DOMAIN replies' \ DOMAIN replies
<1>1. /\ s \in Upload /\ SendFits(s) /\ replies \in Seq(Msg) /\ s.of \in Version
      /\ s.reads \in Version /\ (spent.torn = 0 => s.reads = s.of)
      /\ sends \subseteq Upload /\ IsFiniteSet(sends) /\ Cardinality(sends) <= UploadLimit
  BY DEF TransferInv, TypeInv, FitInv, SendsFit, Upload
<1>2. /\ replies' = Behind(replies, h, Header(s), room, Data(s, x))
      /\ sends' = (sends \ {s}) \cup {[s EXCEPT !.m_need_reply = FALSE,
                                          !.chunks_to_send = IF room THEN @ \ {x} ELSE @]}
      /\ s.m_err = NoErr
      /\ UNCHANGED <<disk, indexed, recv, out, stat, requests, noroute, spent>>
  <2>1. replies' = replies \o (IF h THEN <<Header(s)>> ELSE <<>>)
                           \o (IF room THEN <<Data(s, x)>> ELSE <<>>)
    BY Zenon DEF RunSend
  <2>2. replies' = Behind(replies, h, Header(s), room, Data(s, x))
    BY <2>1, Zenon DEF Behind
  <2>3. sends' = (sends \ {s}) \cup {[s EXCEPT !.m_need_reply = FALSE,
                                          !.chunks_to_send = IF room THEN @ \ {x} ELSE @]}
    BY Zenon DEF RunSend
  <2>4. s.m_err = NoErr /\ UNCHANGED <<disk, indexed, recv, out, stat, requests, noroute, spent>>
    BY Zenon DEF RunSend
  <2> QED BY <2>2, <2>3, <2>4, Zenon
<1>3. h \in BOOLEAN /\ room \in BOOLEAN
  BY <1>1 DEF Upload
<1>4. Size[s.of] \in Nat \ {0} /\ HashOf(s.of) \in Hash
  BY <1>1, SizeIs
<1>5. room => x \in s.chunks_to_send /\ x \in Nat /\ x < Size[s.of]
  <2>1. s.chunks_to_send \in SUBSET Nat
    BY <1>1 DEF Upload
  <2>2. s.chunks_to_send # {} => x \in s.chunks_to_send
    BY <2>1, LeastIs
  <2> QED BY <2>1, <2>2, <1>1, <1>4 DEF SendFits, Chunks
<1>6. /\ Header(s) \in Msg /\ Header(s).guid = s.guid /\ MsgFits(Header(s))
      /\ MsgOf(Header(s), s.of) /\ Header(s).kind = "header"
  <2>1. Header(s) \in HeaderMsg /\ Header(s).guid = s.guid /\ Header(s).kind = "header"
        /\ Header(s).hash = HashOf(s.of) /\ Header(s).len = Size[s.of]
    BY <1>1, <1>4 DEF Header, HeaderMsg, Upload
  <2> QED BY <2>1, <1>1 DEF Msg, MsgFits, MsgOf
<1>7. room => /\ Data(s, x) \in Msg /\ Data(s, x).guid = s.guid /\ MsgFits(Data(s, x))
              /\ Data(s, x).kind = "data"
              /\ spent.torn = 0 => MsgOf(Data(s, x), s.of)
  <2> SUFFICES ASSUME room
               PROVE  /\ Data(s, x) \in Msg /\ Data(s, x).guid = s.guid /\ MsgFits(Data(s, x))
                      /\ Data(s, x).kind = "data"
                      /\ spent.torn = 0 => MsgOf(Data(s, x), s.of)
    OBVIOUS
  <2>1. PICK y \in Nat : y = x /\ y < Size[s.of]
    BY <1>5
  <2>2. PICK v \in Version \cup {"none"} :
          /\ Data(s, y) = [guid |-> s.guid, kind |-> "data", index |-> y, of |-> v]
          /\ y < Size[s.reads] => v = s.reads
    BY <1>1 DEF Data
  <2>3. /\ Data(s, y) \in DataMsg /\ Data(s, y).guid = s.guid /\ Data(s, y).kind = "data"
        /\ Data(s, y).of = v
    BY <2>2, <1>1 DEF DataMsg, Upload
  <2>4. Data(s, y) \in Msg /\ MsgFits(Data(s, y))
    BY <2>3 DEF Msg, MsgFits
  <2>5. spent.torn = 0 => MsgOf(Data(s, y), s.of)
    BY <2>1, <2>2, <2>3, <1>1 DEF MsgOf
  <2> QED BY <2>1, <2>3, <2>4, <2>5
<1>8. /\ t \in Upload /\ t.guid = s.guid /\ SendFits(t) /\ sends' = (sends \ {s}) \cup {t}
      /\ t.of = s.of /\ t.reads = s.reads
      /\ t.chunks_to_send \subseteq s.chunks_to_send /\ t.m_err = s.m_err
  <2>1. left \subseteq s.chunks_to_send /\ left \in SUBSET Nat
    BY <1>1 DEF Upload
  <2>2. [s EXCEPT !.m_need_reply = FALSE, !.chunks_to_send = IF room THEN @ \ {x} ELSE @] = t
    <3> HIDE DEF room, x
    <3>1. CASE room
      BY <3>1, <1>1 DEF Upload
    <3>2. CASE ~room
      BY <3>2, <1>1 DEF Upload
    <3> QED BY <3>1, <3>2
  <2>3. sends' = (sends \ {s}) \cup {t}
    BY <1>2, <2>2, Zenon
  <2> HIDE DEF left
  <2>4. t \in Upload /\ t.guid = s.guid /\ t.of = s.of /\ t.reads = s.reads
        /\ t.chunks_to_send = left /\ t.m_err = s.m_err
    BY <2>1, <1>1 DEF Upload
  <2> QED BY <2>1, <2>3, <2>4, <1>1 DEF SendFits
<1> HIDE DEF t, x
<1>9. /\ replies' \in Seq(Msg) /\ Len(replies) <= Len(replies')
      /\ \A i \in DOMAIN replies : i \in DOMAIN replies' /\ replies'[i] = replies[i]
      /\ h => Len(replies) + 1 \in DOMAIN replies' /\ replies'[Len(replies) + 1] = Header(s)
      /\ room => Len(replies') \in DOMAIN replies' /\ replies'[Len(replies')] = Data(s, x)
                 /\ (h => Len(replies) + 1 < Len(replies'))
      /\ \A i \in new :
           \/ h /\ i = Len(replies) + 1 /\ replies'[i] = Header(s)
           \/ room /\ i = Len(replies') /\ replies'[i] = Data(s, x) /\ i > Len(replies)
  <2> HIDE DEF h, room
  <2>1. room => Data(s, x) \in Msg
    BY <1>7
  <2> QED BY <2>1, <1>1, <1>2, <1>3, <1>6, BehindIs
<1>10. Len(replies) + 1 \notin DOMAIN replies /\ Len(replies) \in Nat /\ Len(replies') \in Nat
  BY <1>1, <1>9
<1>11. ~h /\ room => Streaming(s)
  BY <1>2 DEF Streaming
<1>12. recv.m_guid = s.guid /\ recv.on /\ Live(recv) /\ spent.lost = 0 /\ s.guid \notin noroute
         /\ Streaming(s) => Announced(replies, recv, Len(replies), s.of, spent.torn)
  BY DEF TransferInv, OrderInv, SendsInOrder
<1>13. Streaming(t) /\ t.guid \notin noroute => h \/ Streaming(s)
  BY <1>8, <1>1 DEF Streaming, Upload
<1>14. room => s.guid \notin noroute
  OBVIOUS
<1> HIDE DEF h, room
<1>15. \A i \in new :
         /\ replies'[i].guid = s.guid /\ MsgFits(replies'[i])
         /\ spent.torn = 0 => MsgOf(replies'[i], s.of)
         /\ replies'[i].kind = "data" /\ recv.m_guid = s.guid
              => \/ \E k \in 1 .. i - 1 : k \in new /\ replies'[k].kind = "header"
                 \/ Announced(replies, recv, Len(replies), s.of, spent.torn)
                 \/ ~recv.on \/ ~Live(recv) \/ spent.lost # 0
  <2> SUFFICES ASSUME NEW i \in new
               PROVE  /\ replies'[i].guid = s.guid /\ MsgFits(replies'[i])
                      /\ spent.torn = 0 => MsgOf(replies'[i], s.of)
                      /\ replies'[i].kind = "data" /\ recv.m_guid = s.guid
                           => \/ \E k \in 1 .. i - 1 : k \in new /\ replies'[k].kind = "header"
                              \/ Announced(replies, recv, Len(replies), s.of, spent.torn)
                              \/ ~recv.on \/ ~Live(recv) \/ spent.lost # 0
    OBVIOUS
  <2>1. CASE h /\ replies'[i] = Header(s)
    BY <2>1, <1>6
  <2>2. CASE room /\ i = Len(replies') /\ replies'[i] = Data(s, x)
    <3>1. h => Len(replies) + 1 \in 1 .. i - 1 /\ Len(replies) + 1 \in new
               /\ replies'[Len(replies) + 1].kind = "header"
      BY <2>2, <1>6, <1>9, <1>10
    <3> QED BY <2>2, <3>1, <1>7, <1>11, <1>12, <1>14
  <2> QED BY <2>1, <2>2, <1>9
<1>16. Streaming(t) /\ t.guid \notin noroute =>
         \/ \E k \in new : replies'[k].kind = "header"
         \/ Streaming(s)
  <2>1. h => \E k \in new : replies'[k].kind = "header"
    BY <1>6, <1>9, <1>10
  <2> QED BY <2>1, <1>13
<1>17. IsFiniteSet(sends') /\ Cardinality(sends') <= UploadLimit
  <2>1. IsFiniteSet(sends') /\ Cardinality(sends') <= Cardinality(sends)
    BY <1>1, <1>8, SwapIs
  <2>2. Cardinality(sends') \in Nat /\ Cardinality(sends) \in Nat /\ UploadLimit \in Nat
    BY <2>1, <1>1, FS_CardinalityType, Constants
  <2> QED BY <2>1, <2>2, <1>1
<1>18. Onward
  BY <1>2, SpendIs DEF TransferInv
<1>19. sends' \subseteq (sends \ {s}) \cup {t} /\ spent'.torn = spent.torn
  BY <1>2, <1>8
<1>20. NotRefused
  <2>1. Header(s).kind = "header" /\ Data(s, x).kind = "data"
    BY DEF Header, Data
  <2> QED BY <2>1, <1>9 DEF NotRefused
<1> QED BY <1>2, <1>8, <1>9, <1>15, <1>16, <1>17, <1>18, <1>19, <1>20, SentKeeps

LEMMA CancelUploadKeeps ==
  ASSUME TransferInv, IdsLeft, NEW s \in sends, CancelUpload(s)
  PROVE  TransferInv' /\ NotRefused
<1> DEFINE e   == ErrorReply(s.guid, RemoteAbort)
           new == DOMAIN replies' \ DOMAIN replies
<1>1. /\ s \in Upload /\ SendFits(s) /\ spent \in Spending /\ replies \in Seq(Msg)
      /\ IsFiniteSet(sends) /\ Cardinality(sends) <= UploadLimit
  BY DEF TransferInv, TypeInv, FitInv, SendsFit
<1>2. e \in Msg /\ e.guid = s.guid /\ e.kind = "error" /\ e.err # NotFound
  BY <1>1, ErrorsDiffer DEF ErrorReply, Msg, ErrorMsg, Upload
<1>3. /\ Onward /\ sends' = sends \ {s} /\ (replies' = replies \/ replies' = Append(replies, e))
      /\ UNCHANGED <<disk, indexed, recv, out, stat, requests, noroute>>
  BY SpendIs DEF CancelUpload, TransferInv
<1> HIDE DEF e
<1>4. /\ replies' \in Seq(Msg) /\ Len(replies) <= Len(replies')
      /\ \A i \in DOMAIN replies : i \in DOMAIN replies' /\ replies'[i] = replies[i]
      /\ \A i \in new : replies'[i] = e
  <2>1. CASE replies' = replies
    BY <2>1, <1>1
  <2>2. CASE replies' = Append(replies, e)
    <3>1. /\ replies' \in Seq(Msg) /\ Len(replies') = Len(replies) + 1
          /\ \A i \in 1 .. Len(replies) : replies'[i] = replies[i]
          /\ replies'[Len(replies) + 1] = e
      BY <2>2, <1>1, <1>2, AppendProperties
    <3>2. DOMAIN replies = 1 .. Len(replies) /\ DOMAIN replies' = 1 .. Len(replies) + 1
          /\ Len(replies) \in Nat
      BY <3>1, <1>1
    <3> QED BY <3>1, <3>2
  <2> QED BY <2>1, <2>2, <1>3
<1>5. \A i \in new :
        /\ replies'[i].guid = s.guid /\ MsgFits(replies'[i]) /\ MsgOf(replies'[i], s.of)
        /\ replies'[i].kind # "data"
  BY <1>2, <1>4 DEF MsgFits, MsgOf
<1>6. IsFiniteSet(sends') /\ Cardinality(sends') <= UploadLimit
  <2>1. IsFiniteSet(sends') /\ Cardinality(sends') <= Cardinality(sends)
    BY <1>1, <1>3, FS_Subset
  <2>2. Cardinality(sends') \in Nat /\ Cardinality(sends) \in Nat /\ UploadLimit \in Nat
    BY <2>1, <1>1, FS_CardinalityType, Constants
  <2> QED BY <2>1, <2>2, <1>1
<1>7. sends' \subseteq (sends \ {s}) \cup {s} /\ spent'.torn = spent.torn
  BY <1>1, <1>3 DEF CancelUpload, Spend, Spending
<1>8. NotRefused
  BY <1>2, <1>4 DEF NotRefused
<1> QED BY <1>1, <1>3, <1>4, <1>5, <1>6, <1>7, <1>8, SentKeeps

-----------------------------------------------------------------------------
(* The invariant, and what it says of a download.                          *)

LEMMA TransferStarts == Init => TransferInv
<1> SUFFICES ASSUME Init PROVE TransferInv
  OBVIOUS
<1>1. /\ disk \in Version /\ indexed \in BOOLEAN /\ spent.torn = 0 /\ sends = {} /\ recv = Idle /\ out = Nothing /\ stat = Absent
      /\ requests = {} /\ replies = <<>> /\ noroute = {} /\ ~recv.on /\ spent \in Spending
  BY DEF Init, Idle, Spending
<1>2. DOMAIN replies = {} /\ replies \in Seq(Msg)
  BY <1>1
<1>3. TypeInv
  <2>1. Cardinality(sends) <= UploadLimit /\ IsFiniteSet(sends)
    BY <1>1, FS_EmptySet, Constants
  <2> QED BY <2>1, <1>1, <1>2, NoState, NothingIs DEF TypeInv
<1>4. FitInv /\ DoneInv /\ SameInv /\ IdsInv /\ OrderInv /\ KeptInv
  BY <1>1, <1>2, NoState
     DEF FitInv, SendsFit, MsgsFit, RecvFit, StatFits, DoneInv, SameInv, SameMsgs, SameFile,
         Holds, IdsInv, Unanswered, AsksDiffer, SendsDiffer, MsgsAgree, MsgsOfSends, OrderInv, KeptInv
<1> QED BY <1>3, <1>4 DEF TransferInv

LEMMA TransferStep == TransferInv /\ IdsLeft /\ [Next]_vars => TransferInv'
<1> SUFFICES ASSUME TransferInv, IdsLeft, [Next]_vars PROVE TransferInv'
  OBVIOUS
<1>1. CASE UNCHANGED vars
  <2>1. /\ Onward /\ UNCHANGED <<recv, out, stat, requests, replies, disk, noroute, sends>>
        /\ noroute \subseteq Guid /\ indexed' \in BOOLEAN
    BY <1>1, SpendIs DEF vars, TransferInv, TypeInv
  <2> QED BY <2>1, QuietKeeps
<1>2. CASE Next
  BY <1>2, StartKeeps, RunEndedKeeps, RunRecvKeeps, GotReplyKeeps, CancelDownloadKeeps,
     CrashDownloaderKeeps, GotRequestKeeps, RunSendKeeps, CancelUploadKeeps, QuietActions,
     RewriteFileKeeps, ReplaceFileKeeps, LoseKeeps DEF Next
<1> QED BY <1>1, <1>2

\* The invariant holds of every run in which ids do not run out.
THEOREM TransferInvariant == Spec /\ []IdsLeft => []TransferInv
BY TransferStarts, TransferStep, PTL DEF Spec

\* ValidIsWritten: what is marked valid, in the download and in the state file, is in the
\* file (xfers.cpp:1192-1225), and the types hold.
THEOREM ValidStaysWritten == Spec /\ []IdsLeft => []ValidIsWritten
<1>1. TransferInv /\ IdsLeft => ValidIsWritten
  <2> SUFFICES ASSUME TransferInv, IdsLeft PROVE ValidIsWritten
    OBVIOUS
  <2>1. TypeOK
    BY DEF TransferInv, TypeInv, FitInv, RecvFit, RecvFits, TypeOK
  <2>2. spent.changes = 0 \/ (spent.lost = 0 /\ spent.crashes = 0 /\ spent.torn = 0) =>
          (recv.on /\ recv.m_hash # NoHash => \A c \in recv.valid : out[c] = recv.m_hash)
    BY DEF TransferInv, SameInv, SameFile, KeptInv, Holds
  <2>3. spent.changes = 0 => (stat.hash # NoHash => \A c \in stat.valid : out[c] = stat.hash)
    BY DEF TransferInv, SameInv, SameFile, Holds
  <2> QED BY <2>1, <2>2, <2>3 DEF ValidIsWritten
<1> QED BY <1>1, TransferInvariant, PTL

\* CompletedIsTheFile: a download that reads "Completed" is the file that was hashed
\* (xfers.cpp:1226-1262), where files are hashed at all.
THEOREM CompletedStaysTheFile ==
  ASSUME Hashed
  PROVE  Spec /\ []IdsLeft => []CompletedIsTheFile
<1>1. TransferInv => CompletedIsTheFile
  <2> SUFFICES ASSUME TransferInv, recv.on, recv.m_done, recv.m_err = NoErr
               PROVE  recv.m_hash \in Version /\
                      \A c \in Chunks(Size[recv.m_hash]) : out[c] = recv.m_hash
    BY DEF CompletedIsTheFile
  <2>1. RecvFits(recv, stat) /\ HashMatches(recv, out)
    BY DEF TransferInv, FitInv, RecvFit, DoneInv
  <2>2. PICK v \in Version : recv.m_hash = HashOf(v) /\ recv.m_chunk_total = Size[v]
    BY <2>1 DEF RecvFits
  <2>3. recv.m_hash = v /\ v # NoHash
    BY <2>2, SizeIs DEF HashOf
  <2> QED BY <2>1, <2>2, <2>3 DEF HashMatches
<1> QED BY <1>1, TransferInvariant, PTL

-----------------------------------------------------------------------------
(* As long as the file stays and the uploader runs, the file is found.     *)

FoundInv ==
  spent.changes = 0 /\ spent.crashes = 0 =>
    /\ indexed /\ disk # Gone
    /\ \A i \in DOMAIN replies : replies[i].kind = "error" => replies[i].err # NotFound
    /\ recv.on => recv.m_err # NotFound

LEMMA FoundKept ==
  ASSUME FoundInv, Onward, UNCHANGED <<indexed, disk>>, NotRefused,
         recv'.on => (recv.on /\ recv'.m_err = recv.m_err) \/ recv'.m_err # NotFound
  PROVE  FoundInv'
BY DEF FoundInv, Onward, NotRefused

LEMMA FoundByDownload ==
  ASSUME TransferInv, IdsLeft, FoundInv,
         StartDownload \/ RunEnded \/ RunRecv \/ CancelDownload \/ CrashDownloader
  PROVE  FoundInv'
<1>1. UNCHANGED <<indexed, disk, replies>> /\ NotRefused
  BY DEF StartDownload, RunEnded, RunRecv, CancelDownload, CrashDownloader, NotRefused
<1>2. Onward
  BY SpendIs DEF StartDownload, RunEnded, RunRecv, CancelDownload, CrashDownloader, TransferInv
<1>3. recv'.on => (recv.on /\ recv'.m_err = recv.m_err) \/ recv'.m_err # NotFound
  <2>1. CASE StartDownload
    <3>1. recv' = Asked(Fresh)
      BY <2>1 DEF StartDownload, Fresh
    <3>2. Asked(Fresh).m_err = Fresh.m_err /\ Fresh.m_err = NoErr
      BY FreshDownload, FreshIs, AskedIs DEF TransferInv, Fresh
    <3> QED BY <3>1, <3>2, ErrorsDiffer
  <2>2. CASE RunEnded \/ CancelDownload \/ CrashDownloader
    BY <2>2 DEF RunEnded, CancelDownload, CrashDownloader, Idle
  <2>3. CASE RunRecv
    <3>1. recv.on /\ recv \in Begun /\ NewGuid \in Guid
      BY <2>3, OnIs, FreshIs DEF RunRecv, TransferInv
    <3>2. \/ recv' = Asked(recv) \/ UNCHANGED recv
          \/ recv' = [recv EXCEPT !.m_err = TimedOut, !.chunks_coming = Many]
      BY <2>3 DEF RunRecv
    <3>3. Asked(recv).m_err = recv.m_err
      BY <3>1, AskedIs
    <3>4. [recv EXCEPT !.m_err = TimedOut, !.chunks_coming = Many].m_err = TimedOut
      BY <3>1 DEF Begun
    <3> QED BY <3>1, <3>2, <3>3, <3>4, ErrorsDiffer
  <2> QED BY <2>1, <2>2, <2>3
<1> QED BY <1>1, <1>2, <1>3, FoundKept

LEMMA FoundByReply ==
  ASSUME TransferInv, IdsLeft, FoundInv, GotReply
  PROVE  FoundInv'
<1>1. /\ replies # <<>> /\ replies' = Tail(replies) /\ replies \in Seq(Msg)
      /\ UNCHANGED <<indexed, disk, spent>>
  BY DEF GotReply, TransferInv, TypeInv
<1> DEFINE m == Head(replies)
<1>2. m \in Msg /\ m = replies[1] /\ 1 \in DOMAIN replies /\ NotRefused
  BY <1>1, TailIs DEF NotRefused
<1>3. Onward
  BY <1>1, SpendIs DEF TransferInv
<1>4. CASE UNCHANGED recv
  BY <1>1, <1>2, <1>3, <1>4, FoundKept
<1>5. CASE recv.on /\ Live(recv) /\ recv.m_guid = m.guid
  <2>1. recv \in Download
    BY <1>5, OnIs DEF TransferInv
  <2>2. CASE m.kind = "error"
    <3>1. recv' = [recv EXCEPT !.m_err = m.err]
      BY <1>5, <2>2 DEF GotReply, Live
    <3>2. recv'.m_err = m.err
      BY <2>1, <3>1 DEF Download
    <3>3. SUFFICES ASSUME spent.changes = 0, spent.crashes = 0 PROVE FoundInv'
      BY <1>1 DEF FoundInv
    <3>4. m.err # NotFound
      BY <1>2, <2>2, <3>3 DEF FoundInv
    <3> QED BY <1>1, <1>2, <1>3, <3>2, <3>4, FoundKept
  <2>3. CASE m.kind = "header"
    <3>1. recv' = GotHeader(recv, m) /\ m \in HeaderMsg
      BY <1>2, <1>5, <2>3, MsgIs DEF GotReply, Live
    <3>2. recv'.m_err = recv.m_err
      BY <2>1, <3>1, HeaderTaken
    <3> QED BY <1>1, <1>2, <1>3, <1>5, <3>2, FoundKept
  <2>4. CASE m.kind = "data"
    <3>1. GotChunk(recv, m) /\ m \in DataMsg
      BY <1>2, <1>5, <2>4, MsgIs DEF GotReply, Live
    <3>2. Refused(NoHeader) \/ Refused(OutOfRange) \/ Taken(m)
      BY <2>1, <3>1, ChunkIs
    <3>3. \A err : Refused(err) => recv'.m_err = err
      BY <2>1 DEF Refused, Download
    <3>4. Taken(m) => recv'.m_err = recv.m_err \/ recv'.m_err \in {NoErr, Mismatch}
      BY DEF Taken
    <3>5. recv'.m_err = recv.m_err \/ recv'.m_err # NotFound
      BY <3>2, <3>3, <3>4, ErrorsDiffer
    <3> QED BY <1>1, <1>2, <1>3, <1>5, <3>5, FoundKept
  <2> QED BY <2>2, <2>3, <2>4, <1>2, MsgIs
<1> QED BY <1>4, <1>5 DEF GotReply, Live

LEMMA FoundByRequest ==
  ASSUME TransferInv, FoundInv, NEW q \in requests, GotRequest(q)
  PROVE  FoundInv'
<1>1. UNCHANGED <<disk, indexed, recv, spent>>
  BY DEF GotRequest
<1>2. SUFFICES ASSUME spent.changes = 0, spent.crashes = 0 PROVE FoundInv'
  BY <1>1 DEF FoundInv
<1>3. UNCHANGED replies
  BY <1>2 DEF FoundInv, GotRequest, FirstRequest
<1> QED BY <1>1, <1>3 DEF FoundInv

LEMMA FoundStep == TransferInv /\ IdsLeft /\ FoundInv /\ [Next]_vars => FoundInv'
<1> SUFFICES ASSUME TransferInv, IdsLeft, FoundInv, [Next]_vars PROVE FoundInv'
  OBVIOUS
<1>1. CASE UNCHANGED vars
  BY <1>1 DEF vars, FoundInv
<1>2. ASSUME NEW s \in sends, RunSend(s) \/ CancelUpload(s) PROVE FoundInv'
  <2>1. NotRefused
    BY <1>2, RunSendKeeps, CancelUploadKeeps
  <2>2. UNCHANGED <<indexed, disk, recv>> /\ Onward
    BY <1>2, SpendIs DEF RunSend, CancelUpload, TransferInv
  <2> QED BY <2>1, <2>2, FoundKept
<1>3. ASSUME NEW s \in sends, SendEnded(s) \/ LoseRoute(s) PROVE FoundInv'
  BY <1>3 DEF SendEnded, LoseRoute, FoundInv
<1>4. CASE Lose
  <2>1. UNCHANGED <<indexed, disk, recv>> /\ Onward
    BY <1>4, SpendIs DEF Lose, TransferInv
  <2>2. replies \in Seq(Msg)
    BY DEF TransferInv, TypeInv
  <2>3. NotRefused
    <3>1. CASE \E i \in DOMAIN replies : replies' = Without(replies, i)
      BY <3>1, <2>2, WithoutIs DEF NotRefused
    <3>2. CASE UNCHANGED replies
      BY <3>2 DEF NotRefused
    <3> QED BY <3>1, <3>2, <1>4 DEF Lose, Without
  <2> QED BY <2>1, <2>3, FoundKept
<1>5. CASE RewriteFile \/ ReplaceFile \/ RestartUploader
  <2>1. spent'.changes # 0 \/ spent'.crashes # 0
    <3>1. spent \in Spending
      BY DEF TransferInv, TypeInv
    <3>2. RewriteFile => spent'.changes # 0
      BY <3>1 DEF RewriteFile, Spending
    <3>3. ReplaceFile \/ RestartUploader => spent'.changes # 0 \/ spent'.crashes # 0
      BY SpendIs DEF ReplaceFile, RestartUploader, TransferInv
    <3> QED BY <1>5, <3>2, <3>3
  <2> QED BY <2>1 DEF FoundInv
<1> QED BY <1>1, <1>2, <1>3, <1>4, <1>5, FoundByDownload, FoundByReply, FoundByRequest DEF Next

LEMMA FoundStarts == Init => FoundInv
<1> SUFFICES ASSUME Init PROVE FoundInv
  OBVIOUS
<1>1. indexed /\ disk # Gone /\ DOMAIN replies = {} /\ ~recv.on
  BY Constants DEF Init, Idle, Gone
<1> QED BY <1>1 DEF FoundInv

\* FailsForCause: "data with no header" is read only if something was lost, "SHA mismatch"
\* only if the file changed, "File not found" only if it did or the uploader was started
\* again (xfers.cpp:182, 1131-1190, 1255; waste_core.cpp:478).
THEOREM FailureHasCause == Spec /\ []IdsLeft => []FailsForCause
<1>1. TransferInv /\ FoundInv => FailsForCause
  BY DEF TransferInv, SameInv, SameFile, OrderInv, FoundInv, FailsForCause
<1>2. Spec /\ []IdsLeft => []FoundInv
  <2>1. TransferInv /\ IdsLeft /\ FoundInv /\ [Next]_vars => FoundInv'
    BY FoundStep
  <2> QED BY <2>1, TransferInvariant, FoundStarts, PTL DEF Spec
<1> QED BY <1>1, <1>2, TransferInvariant, PTL
=============================================================================
