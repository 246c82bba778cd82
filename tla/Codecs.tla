------------------------------- MODULE Codecs -------------------------------
(***************************************************************************)
(* The payloads of the messages (m_*.cpp): what Make() writes and what the *)
(* constructor from a buffer reads.  A payload is a sequence of cells of B *)
(* values; the lengths of fields are scaled down, their order, their       *)
(* limits and their tests are the code's.  The two messages that are put   *)
(* together step by step, the request for chunks and the search reply, are *)
(* state machines; one of them runs, as they share nothing.                *)
(***************************************************************************)
EXTENDS Integers, Sequences, SequencesExt

CONSTANTS B,              \* 256 values of a byte
          IntLen,         \* 4 bytes of an int
          GuidLen,        \* 16; SHA_OUTSIZE, 20, is scaled with it
          NickLen,        \* 32
          TextLen,        \* 256
          FILE_CHUNKSIZE, FILE_MAX_CHUNKS_PER_REQ,
          SEARCHREPLY_MAX_FILESIZE, SEARCHREPLY_MAX_METASIZE,
          MaxItems,       \* 255 items of a search reply
          MESSAGE_MAX_PAYLOAD_ROUTE,
          MaxFn,          \* 2048
          CMLC_MAX_CAPS,
          KeyBits,        \* the lengths of keys that are accepted
          ModulusLen,     \* MAX_RSA_MODULUS_LEN
          Chunks,         \* chunks that a receiver may lack
          Names           \* names and metadata of items

ASSUME CellsFit ==
    /\ FILE_MAX_CHUNKS_PER_REQ \in 1 .. B /\ MaxItems \in 1 .. B - 1
    /\ CMLC_MAX_CAPS \in Nat \ {0}
    /\ KeyBits \subseteq 1 .. B ^ 2 - 1 /\ ModulusLen \in 1 .. B - 1

Nothing == <<>>
ShorterOf(x, y) == IF x < y THEN x ELSE y

\* Integers are written with the least significant byte first.
Put(x, len) == [i \in 1 .. len |-> (x \div B ^ (i - 1)) % B]
Word(x) == Put(x, IntLen)
Short(x) == Put(x, 2)
Got(cells) == FoldRight(LAMBDA c, x : x * B + c, cells, 0)
MinusOne == B ^ IntLen - 1

\* memcpy of len bytes of a field that holds a shorter string, the rest being zero.
Field(s, len) == [i \in 1 .. len |-> IF i <= Len(s) THEN s[i] ELSE 0]
CString(s) == Append(s, 0)
StrLen(cells) ==
    LET ends == {i \in 1 .. Len(cells) : cells[i] = 0}
    IN  IF ends = {} THEN Len(cells) ELSE (CHOOSE i \in ends : \A j \in ends : i <= j) - 1
Text(cells) == SubSeq(cells, 1, StrLen(cells))

\* What a string field of limit bytes keeps of s.
Cut(s, limit) == SubSeq(s, 1, ShorterOf(Len(s), limit - 1))

From(data, at) == SubSeq(data, at, Len(data))
Cells(data, at, len) == SubSeq(data, at, at + len - 1)
\* A string that ends within the limit, or none; what follows it.
HasString(data, limit) == StrLen(data) < ShorterOf(Len(data), limit)
After(data) == From(data, StrLen(data) + 2)

-----------------------------------------------------------------------------
(* Messages written at once *)

MakeChatReply(m) == SubSeq(m.nick, 1, ShorterOf(Len(m.nick), NickLen - 1))
ReadChatReply(data) == [nick |-> IF Len(data) > NickLen - 1 THEN Nothing ELSE data]

MakeChat(m) == CString(m.src) \o CString(m.dest) \o CString(m.chatstring)
ReadChat(data) ==
    LET second == After(data)
        third == After(second)
        okSrc == HasString(data, NickLen)
        okDest == okSrc /\ HasString(second, NickLen)
        okText == okDest /\ HasString(third, TextLen)
    IN  [src |-> IF okSrc THEN Text(data) ELSE Nothing,
         dest |-> IF okDest THEN Text(second) ELSE Nothing,
         chatstring |-> IF okText THEN Text(third) ELSE Nothing]

\* The leading zeros of modulus and exponent are not sent.
Stripped(cells) ==
    LET digits == {i \in 1 .. Len(cells) : cells[i] # 0}
    IN  IF digits = {} THEN Nothing ELSE From(cells, CHOOSE i \in digits : \A j \in digits : i <= j)
Padded(cells) == [i \in 1 .. ModulusLen - Len(cells) |-> 0] \o cells
MakeKeydist(m) ==
    IF m.bits = 0 THEN Nothing
    ELSE LET mod == Stripped(m.modulus)
             exp == Stripped(m.exponent)
         IN  Field(m.nick, NickLen - 1) \o <<m.flags>> \o Short(m.bits)
                 \o Short(Len(mod)) \o Short(Len(exp)) \o mod \o exp
KeydistFixed == NickLen - 1 + 1 + 2 + 2 + 2
NoKey == [bits |-> 0, modulus |-> Padded(Nothing), exponent |-> Padded(Nothing)]
ReadKeydist(data) ==
    LET at(i) == Got(Cells(data, NickLen + i, 2))
        modlen == at(3)
        explen == at(5)
        who == [nick |-> Text(Cells(data, 1, NickLen - 1)), flags |-> data[NickLen]]
    IN  IF Len(data) < KeydistFixed \/ Len(data) > KeydistFixed + 2 * ModulusLen
        THEN NoKey @@ [nick |-> Nothing, flags |-> 0]
        ELSE IF \/ at(1) \notin KeyBits
                \/ modlen > ModulusLen \/ explen > ModulusLen
                \/ Len(data) - KeydistFixed < modlen + explen
             THEN NoKey @@ who
             ELSE [bits |-> at(1), modulus |-> Padded(Cells(data, KeydistFixed + 1, modlen)),
                   exponent |-> Padded(Cells(data, KeydistFixed + modlen + 1, explen))] @@ who

\* Capabilities beyond the limit are dropped on both sides.
MakeCaps(m) ==
    LET caps == SubSeq(m.caps, 1, ShorterOf(Len(m.caps), CMLC_MAX_CAPS))
    IN  FoldLeft(LAMBDA data, c : data \o Word(c[1]) \o Word(c[2]), <<>>, caps)
ReadCaps(data) ==
    [caps |-> [x \in 1 .. ShorterOf(Len(data) \div (2 * IntLen), CMLC_MAX_CAPS) |->
                  <<Got(Cells(data, 2 * IntLen * (x - 1) + 1, IntLen)),
                    Got(Cells(data, 2 * IntLen * (x - 1) + IntLen + 1, IntLen))>>]]

MakePing(m) == Short(m.port) \o Word(m.ip) \o m.nick
ReadPing(data) ==
    IF Len(data) < 2 + IntLen THEN [nick |-> Nothing, ip |-> 0, port |-> 0]
    ELSE LET nick == From(data, IntLen + 3)
         IN  [port |-> Got(Cells(data, 1, 2)), ip |-> Got(Cells(data, 3, IntLen)),
              nick |-> IF Len(nick) > NickLen THEN Nothing ELSE nick]

\* A guid is one value here, written GuidLen times.
Guid(g) == [i \in 1 .. GuidLen |-> g]
UploadFixed == GuidLen + 2 * IntLen + NickLen + IntLen + NickLen - 1
MakeUpload(m) ==
    IF m.fn = Nothing \/ Len(m.fn) > MaxFn THEN Nothing
    ELSE Guid(m.guid) \o Word(m.low) \o Word(m.high) \o Field(m.dest, NickLen) \o Word(m.idx)
             \o Field(m.nick, NickLen - 1) \o m.fn
ReadUpload(data) ==
    LET int(at) == Got(Cells(data, at, IntLen))
        dest == GuidLen + 2 * IntLen + 1
    IN  IF Len(data) < UploadFixed + 1 \/ Len(data) > UploadFixed + MaxFn THEN Nothing
        ELSE [guid |-> data[1], low |-> int(GuidLen + 1), high |-> int(GuidLen + IntLen + 1),
              dest |-> Text(Cells(data, dest, NickLen)), idx |-> int(dest + NickLen),
              nick |-> Text(Cells(data, dest + NickLen + IntLen, NickLen - 1)),
              fn |-> From(data, UploadFixed + 1)]

\* An error is the length of a reply that is too short for an index; index -1 is the header.
MakeSendReply(m) ==
    IF m.error # 0 THEN [i \in 1 .. ShorterOf(m.error, IntLen - 1) |-> 0]
    ELSE IF m.index # MinusOne
         THEN IF Len(m.data) > FILE_CHUNKSIZE THEN Nothing ELSE Word(m.index) \o m.data
         ELSE Word(m.index) \o Word(m.low) \o Word(m.high) \o Word(m.create) \o Word(m.mod)
                  \o Word(m.chunkcnt) \o Guid(m.hash) \o Word(m.ip) \o Short(m.port)
EmptyReply == [error |-> 0, index |-> 0, data |-> Nothing, low |-> 0, high |-> 0, create |-> 0,
               mod |-> 0, chunkcnt |-> 0, hash |-> 0, ip |-> 0, port |-> 0]
ReadSendReply(data) ==
    LET int(k) == Got(Cells(data, k * IntLen + 1, IntLen))
        behind == 6 * IntLen + GuidLen
    IN  IF Len(data) < IntLen THEN [EmptyReply EXCEPT !.error = Len(data)]
        ELSE IF int(0) # MinusOne
             THEN [EmptyReply EXCEPT !.index = int(0),
                      !.data = IF Len(data) - IntLen > FILE_CHUNKSIZE THEN Nothing
                               ELSE From(data, IntLen + 1)]
             ELSE IF Len(data) < behind + IntLen + 2 THEN [EmptyReply EXCEPT !.index = MinusOne]
                  ELSE [EmptyReply EXCEPT !.index = MinusOne, !.low = int(1), !.high = int(2),
                           !.create = int(3), !.mod = int(4), !.chunkcnt = int(5),
                           !.hash = data[6 * IntLen + 1],
                           !.ip = Got(Cells(data, behind + 1, IntLen)),
                           !.port = Got(Cells(data, behind + IntLen + 1, 2))]

MakeSearch(m) == IF m.searchstring = Nothing THEN Nothing
                 ELSE Short(m.conspeed) \o CString(m.searchstring)
ReadSearch(data) ==
    IF Len(data) < 2 THEN [conspeed |-> 0, searchstring |-> Nothing]
    ELSE [conspeed |-> Got(Cells(data, 1, 2)),
          searchstring |-> IF HasString(From(data, 3), TextLen) THEN Text(From(data, 3)) ELSE Nothing]

-----------------------------------------------------------------------------
(* The request for chunks, with runs of consecutive chunks *)

NewRequest == [abort |-> 0, guid |-> 1, prev |-> 2, idx |-> 1, hash |-> 3, nick |-> <<1>>,
               ip |-> 2, port |-> 1, runs |-> <<>>, used |-> 0]

add_need_chunk(r, idx) ==
    IF r.used >= FILE_MAX_CHUNKS_PER_REQ THEN r
    ELSE IF r.runs # <<>> /\ Last(r.runs).offs + Last(r.runs).len + 1 = idx
         THEN [r EXCEPT !.runs[Len(r.runs)].len = @ + 1, !.used = @ + 1]
         ELSE [r EXCEPT !.runs = Append(@, [offs |-> idx, len |-> 0]), !.used = @ + 1]

MakeRequest(r) ==
    LET head == Guid(r.guid) \o Guid(r.prev)
    IN  IF r.abort # 0 THEN IF r.abort = 2 THEN Append(head, 0) ELSE head
        ELSE FoldLeft(LAMBDA data, run : data \o Word(run.offs) \o <<run.len>>,
                      head \o Word(r.idx) \o Guid(r.hash) \o Field(r.nick, NickLen - 1)
                           \o Word(r.ip) \o Short(r.port),
                      r.runs)

\* The runs are spread out again, up to the limit.
Spread(data) ==
    LET runs == Len(data) \div (IntLen + 1)
        run(x) == Cells(data, (x - 1) * (IntLen + 1) + 1, IntLen + 1)
        spread(x) == [k \in 1 .. run(x)[IntLen + 1] + 1 |-> Got(Cells(run(x), 1, IntLen)) + k - 1]
        all == FoldLeft(LAMBDA chunks, x : chunks \o spread(x), <<>>, [x \in 1 .. runs |-> x])
    IN  SubSeq(all, 1, ShorterOf(Len(all), FILE_MAX_CHUNKS_PER_REQ))
ReadRequest(data) ==
    LET hash == 2 * GuidLen + IntLen + 1
        nick == hash + GuidLen
        ip == nick + NickLen - 1
        ids == [guid |-> data[1], prev |-> data[GuidLen + 1]]
    IN  IF Len(data) < ip + IntLen + 1
        THEN ids @@ [abort |-> IF Len(data) > 2 * GuidLen THEN 2 ELSE 1, chunks |-> <<>>]
        ELSE ids @@ [abort |-> 0, idx |-> Got(Cells(data, 2 * GuidLen + 1, IntLen)),
                     hash |-> data[hash], nick |-> Text(Cells(data, nick, NickLen - 1)),
                     ip |-> Got(Cells(data, ip, IntLen)), port |-> Got(Cells(data, ip + IntLen, 2)),
                     chunks |-> Spread(From(data, ip + IntLen + 2))]

-----------------------------------------------------------------------------
(* The search reply, with as many items as fit into a message *)

EmptySearchReply == [items |-> <<>>, size |-> 1 + IntLen + GuidLen, conspeed |-> 1, guid |-> 2]
ItemSize(name, meta) ==
    4 * IntLen + ShorterOf(Len(name), SEARCHREPLY_MAX_FILESIZE - 1) + 1
               + ShorterOf(Len(meta), SEARCHREPLY_MAX_METASIZE - 1) + 1

\* Mutant of would_fit: the number of items, one byte of the message, is not looked at.
WouldFitAnyNumber(r, name, meta) == r.size + ItemSize(name, meta) <= MESSAGE_MAX_PAYLOAD_ROUTE
would_fit(r, name, meta) ==
    /\ Len(r.items) < MaxItems
    /\ r.size + ItemSize(name, meta) <= MESSAGE_MAX_PAYLOAD_ROUTE

add_item(r, id, name, meta) ==
    LET item == [id |-> id, low |-> 1, high |-> 0, time |-> 2,
                 name |-> SubSeq(name, 1, ShorterOf(Len(name), SEARCHREPLY_MAX_FILESIZE - 1)),
                 meta |-> SubSeq(meta, 1, ShorterOf(Len(meta), SEARCHREPLY_MAX_METASIZE - 1))]
    IN  [r EXCEPT !.items = Append(@, item), !.size = @ + ItemSize(name, meta)]
clear_items(r) == [r EXCEPT !.items = <<>>, !.size = 1 + IntLen + GuidLen]

MakeSearchReply(r) ==
    FoldLeft(LAMBDA data, it : data \o Word(it.id) \o Word(it.low) \o Word(it.high) \o Word(it.time)
                                   \o CString(it.name) \o CString(it.meta),
             <<Len(r.items) % B>> \o Word(r.conspeed), r.items) \o Guid(r.guid)

\* A reply that is too short, has no item or is cut off in one has no items at all.
ReadItem(s, x) ==
    LET int(k) == Got(Cells(s.rest, k * IntLen + 1, IntLen))
        name == From(s.rest, 4 * IntLen + 1)
        meta == After(name)
    IN  IF \/ ~s.ok \/ Len(s.rest) < 4 * IntLen
           \/ ~HasString(name, SEARCHREPLY_MAX_FILESIZE) \/ ~HasString(meta, SEARCHREPLY_MAX_METASIZE)
        THEN [s EXCEPT !.ok = FALSE]
        ELSE [ok |-> TRUE, rest |-> After(meta),
              items |-> Append(s.items, [id |-> int(0), low |-> int(1), high |-> int(2), time |-> int(3),
                                         name |-> Text(name), meta |-> Text(meta)])]
ReadSearchReply(data) ==
    LET start == [ok |-> TRUE, rest |-> From(data, IntLen + 2), items |-> <<>>]
        read == FoldLeft(ReadItem, start, [x \in 1 .. data[1] |-> x])
        whole == read.ok /\ Len(read.rest) >= GuidLen
    IN  IF Len(data) < 1 + IntLen + GuidLen + 3 * IntLen \/ data[1] = 0
        THEN [items |-> <<>>, conspeed |-> 0, guid |-> 0]
        ELSE [items |-> IF whole THEN read.items ELSE <<>>, conspeed |-> Got(Cells(data, 2, IntLen)),
              guid |-> IF whole THEN read.rest[1] ELSE 0]

-----------------------------------------------------------------------------
VARIABLES request,  \* the request a receiver puts together
          lacking,  \* the chunks it was told to ask for
          reply,    \* the search reply an answering host puts together
          found     \* <<id, name, meta>> of what it found since the last message

codecVars == <<request, lacking, reply, found>>

CodecsInit ==
    /\ \E abort \in 0 .. 2 : request = [NewRequest EXCEPT !.abort = abort]
    /\ lacking = <<>> /\ reply = EmptySearchReply /\ found = <<>>

\* The receiver goes through the chunks in order (xfers.cpp:672-682, 962-970).
Need ==
    /\ found = <<>>
    /\ \E idx \in Chunks :
        /\ \A i \in 1 .. Len(lacking) : lacking[i] < idx
        /\ lacking' = Append(lacking, idx) /\ request' = add_need_chunk(request, idx)
    /\ UNCHANGED <<reply, found>>
\* An item that does not fit is the first of the next message (filedb.cpp:360-379).
Find ==
    /\ lacking = <<>>
    /\ \E name, meta \in Names :
        LET fits == would_fit(reply, name, meta)
            id == IF fits THEN Len(found) ELSE 0
        IN  /\ reply' = add_item(IF fits THEN reply ELSE clear_items(reply), id, name, meta)
            /\ found' = Append(IF fits THEN found ELSE <<>>, <<id, name, meta>>)
    /\ UNCHANGED <<request, lacking>>
CodecsNext == Need \/ Find

-----------------------------------------------------------------------------
(* Properties *)

\* What the sender reads from a request is what the receiver lacked, chunk for chunk and in
\* order, up to the limit, however the chunks fell into runs (m_file.cpp:87-99, 160-178).
RequestAsksForWhatIsLacking ==
    LET read == ReadRequest(MakeRequest(request))
    IN  /\ read.abort = request.abort
        /\ request.abort = 0 =>
               read.chunks = SubSeq(lacking, 1, ShorterOf(Len(lacking), FILE_MAX_CHUNKS_PER_REQ))

\* A search reply fits into a message, has exactly the size it was said to have, and is read
\* as the items put into it, names and metadata cut at their limits (m_search.cpp:54-235).
ReplyCarriesItems ==
    found # <<>> =>
        LET data == MakeSearchReply(reply)
            read == ReadSearchReply(data)
        IN  /\ Len(data) = reply.size /\ Len(data) <= MESSAGE_MAX_PAYLOAD_ROUTE
            /\ read.guid = reply.guid /\ Len(read.items) = Len(found)
            /\ \A i \in 1 .. Len(found) :
                   /\ read.items[i].id = found[i][1]
                   /\ read.items[i].name = Cut(found[i][2], SEARCHREPLY_MAX_FILESIZE)
                   /\ read.items[i].meta = Cut(found[i][3], SEARCHREPLY_MAX_METASIZE)

\* Every message written at once is read back as it was, for strings up to their limits,
\* integers with any top byte, leading zeros in a key, data of any length and errors up to
\* the last that a reply can tell from its index.
MessagesReadBack ==
    \A s, t \in Names : \A x \in {0, 1, B ^ 2 - 2} :
        LET nick == Cut(s, NickLen)
            chat == [src |-> nick, dest |-> Cut(t, NickLen), chatstring |-> Cut(t, TextLen)]
            ping == [nick |-> nick, ip |-> x, port |-> x]
            upload == [guid |-> 1, low |-> x, high |-> 0, dest |-> Cut(t, NickLen), idx |-> MinusOne,
                       nick |-> nick, fn |-> t]
            search == [conspeed |-> x, searchstring |-> Cut(t, TextLen)]
            data == [EmptyReply EXCEPT !.index = x, !.data = Cut(t, FILE_CHUNKSIZE + 1)]
            header == [EmptyReply EXCEPT !.index = MinusOne, !.low = x, !.create = 2, !.mod = x,
                                         !.chunkcnt = 1, !.hash = 3, !.ip = MinusOne, !.port = x]
        IN  /\ ReadChatReply(MakeChatReply([nick |-> nick])) = [nick |-> nick]
            /\ ReadChat(MakeChat(chat)) = chat
            /\ ReadPing(MakePing(ping)) = ping
            /\ t # Nothing => ReadUpload(MakeUpload(upload)) = upload
            /\ search.searchstring # Nothing => ReadSearch(MakeSearch(search)) = search
            /\ ReadSendReply(MakeSendReply(data)) = data
            /\ ReadSendReply(MakeSendReply(header)) = header
            /\ \A n \in 1 .. 4 : ReadSendReply(MakeSendReply([header EXCEPT !.error = n]))
                                    = [EmptyReply EXCEPT !.error = ShorterOf(n, IntLen - 1)]
            /\ \A bits \in KeyBits :
                   LET key == [bits |-> bits, modulus |-> Padded(Cut(s \o <<0>> \o t, ModulusLen + 1)),
                               exponent |-> Padded(Cut(t, ModulusLen + 1)), nick |-> nick, flags |-> 1]
                   IN  ReadKeydist(MakeKeydist(key)) = key
            /\ \A n \in 0 .. CMLC_MAX_CAPS + 1 :
                   LET caps == [i \in 1 .. n |-> <<x, i>>]
                   IN  ReadCaps(MakeCaps([caps |-> caps])).caps = Cut(caps, CMLC_MAX_CAPS + 1)
=============================================================================
