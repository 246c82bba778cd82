--------------------------- MODULE WindowsProofs ----------------------------
(***************************************************************************)
(* Theorems about the lists of the Windows program's main thread: the hosts *)
(* (HostList), the files offered to others (Uploads), and the downloads    *)
(* with the queue of those to come (XferQueue), for any hosts, names,      *)
(* connections, offers, files, peers and limits.                           *)
(***************************************************************************)
EXTENDS HostList, Uploads, XferQueue, SelectionProofs

-----------------------------------------------------------------------------
(* The host list: rows and what they point to *)

\* Hosts are addresses, or names that resolve to addresses.
Address == Hosts \cup Own \cup (Range(Resolves) \ {NoIp})
Place == Address \cup DOMAIN Resolves
\* A row without a port is of a connection.
HostRow == {r \in [host : Place, port : {Incoming, 1}, rat : Int, con : 0 .. MaxCons] :
              r.con = NoCon => r.port # Incoming}
Link == [id : 1 .. MaxCons, host : Place, port : {Incoming, 1}, interface : Own \cup {NoIp}, open : BOOLEAN]
HostsTyped == rows \in Seq(HostRow) /\ g_new_net \in Seq(Link) /\ queues \in Seq(Link)

\* No two connections have one number.
Apart(s, t) ==
  /\ \A i, j \in 1 .. Len(s) : s[i].id = s[j].id => i = j
  /\ \A i, j \in 1 .. Len(t) : t[i].id = t[j].id => i = j
  /\ \A i \in 1 .. Len(s), j \in 1 .. Len(t) : s[i].id # t[j].id

\* What the rows point to, of which no two point to the same; and what there is to point to.
Pointer(row) == [id |-> row.con, host |-> Remote(row.host), port |-> row.port]
PointerSet(row) == IF row.con = NoCon THEN {} ELSE {Pointer(row)}
Pointers(list) == UNION {PointerSet(list[x]) : x \in 1 .. Len(list)}
Single(list) == \A x, y \in 1 .. Len(list) : list[x].con = list[y].con /\ list[x].con # NoCon => x = y
EndOf(c) == [id |-> c.id, host |-> Remote(c.host), port |-> c.port]
Tied(pointers, live) ==
  /\ pointers \subseteq {EndOf(c) : c \in live}
  /\ \A c \in live : c.open => \E p \in pointers : p.id = c.id

\* A host that is known has a row of its address, with a port.
HasRow(list, ip) == \E x \in 1 .. Len(list) : list[x].host = ip /\ list[x].port # Incoming
KnownKept == known \subseteq Address /\ (passedOver \/ \A ip \in known : HasRow(rows, ip))

AllTied == HostsTyped /\ Apart(g_new_net, queues) /\ Single(rows) /\ Tied(Pointers(rows), Live)
HostsInv == AllTied /\ KnownKept

\* One more row at a place.
Put(s, t, i, r) ==
  /\ t \in Seq(HostRow) /\ Len(t) = Len(s) + 1 /\ t[i] = r
  /\ \A j \in 1 .. i - 1 : t[j] = s[j]
  /\ \A j \in i + 1 .. Len(s) + 1 : t[j] = s[j - 1]

LEMMA InsertedIs ==
  ASSUME NEW s \in Seq(HostRow), NEW r \in HostRow, NEW i \in 1 .. Len(s) + 1
  PROVE  Put(s, InsertAt(s, i, r), i, r)
<1> DEFINE a == SubSeq(s, 1, i - 1)  b == SubSeq(s, i, Len(s))  ar == Append(a, r)
<1>1. Len(s) \in Nat /\ i \in Nat /\ 1 <= i /\ i <= Len(s) + 1
  OBVIOUS
<1>2. a \in Seq(HostRow) /\ Len(a) = i - 1 /\ \A j \in 1 .. i - 1 : a[j] = s[j]
  BY <1>1
<1>3. b \in Seq(HostRow) /\ Len(b) = Len(s) - i + 1 /\ \A j \in 1 .. Len(s) - i + 1 : b[j] = s[i + j - 1]
  BY <1>1
<1> HIDE DEF a, b
<1>4. ar \in Seq(HostRow) /\ Len(ar) = i /\ ar[i] = r /\ \A j \in 1 .. i - 1 : ar[j] = s[j]
  BY <1>1, <1>2, AppendProperties
<1>5. InsertAt(s, i, r) = ar \o b
  <2>1. InsertAt(s, i, r) = a \o <<r>> \o b
    BY DEF InsertAt, a, b
  <2>2. a \o <<r>> = ar
    BY <1>2
  <2> QED BY <2>1, <2>2
<1> HIDE DEF ar
<1>6. /\ ar \o b \in Seq(HostRow) /\ Len(ar \o b) = Len(ar) + Len(b)
      /\ \A j \in 1 .. Len(ar) + Len(b) : (ar \o b)[j] = IF j <= Len(ar) THEN ar[j] ELSE b[j - Len(ar)]
  BY <1>3, <1>4, ConcatProperties
<1>7. Len(ar) + Len(b) = Len(s) + 1
  BY <1>1, <1>3, <1>4
<1>8. ASSUME NEW j \in 1 .. i PROVE (ar \o b)[j] = ar[j]
  BY <1>1, <1>4, <1>6, <1>7
<1>9. ASSUME NEW j \in i + 1 .. Len(s) + 1 PROVE (ar \o b)[j] = s[j - 1]
  <2>1. j \in 1 .. Len(ar) + Len(b) /\ ~(j <= i) /\ j - i \in 1 .. Len(s) - i + 1 /\ i + (j - i) - 1 = j - 1
    BY <1>1, <1>7
  <2> QED BY <1>3, <1>4, <1>6, <2>1
<1>10. i \in 1 .. i /\ \A j \in 1 .. i - 1 : j \in 1 .. i
  BY <1>1
<1> QED BY <1>4, <1>5, <1>6, <1>7, <1>8, <1>9, <1>10 DEF Put

LEMMA AheadIs ==
  ASSUME NEW s \in Seq(HostRow), NEW r \in HostRow
  PROVE  Put(s, <<r>> \o s, 1, r)
<1> DEFINE t == <<r>> \o s
<1>1. Len(s) \in Nat /\ <<r>> \in Seq(HostRow) /\ Len(<<r>>) = 1 /\ <<r>>[1] = r
  OBVIOUS
<1>2. /\ t \in Seq(HostRow) /\ Len(t) = 1 + Len(s)
      /\ \A j \in 1 .. 1 + Len(s) : t[j] = IF j <= 1 THEN <<r>>[j] ELSE s[j - 1]
  BY <1>1, ConcatProperties
<1> HIDE DEF t
<1>3. t[1] = r
  BY <1>1, <1>2
<1>4. \A j \in 2 .. Len(s) + 1 : t[j] = s[j - 1]
  BY <1>1, <1>2
<1> QED BY <1>1, <1>2, <1>3, <1>4 DEF Put, t

\* A row that points to nothing another row points to.
Unpointed(s, r) == r.con = NoCon \/ \A x \in 1 .. Len(s) : s[x].con # r.con

LEMMA PutKeeps ==
  ASSUME NEW s \in Seq(HostRow), NEW r \in HostRow, NEW i \in 1 .. Len(s) + 1, NEW t, Put(s, t, i, r)
  PROVE  /\ t \in Seq(HostRow) /\ Pointers(t) = Pointers(s) \cup PointerSet(r)
         /\ Single(s) /\ Unpointed(s, r) => Single(t)
         /\ \A ip : HasRow(s, ip) => HasRow(t, ip)
         /\ r.port # Incoming => HasRow(t, r.host)
<1>1. /\ Len(s) \in Nat /\ i \in Nat /\ t \in Seq(HostRow) /\ Len(t) = Len(s) + 1
      /\ i \in 1 .. Len(t) /\ t[i] = r
  BY DEF Put
<1>2. \A x \in 1 .. Len(s) : \E j \in 1 .. Len(t) : t[j] = s[x] /\ j # i
  <2> TAKE x \in 1 .. Len(s)
  <2>1. CASE x < i
    <3>1. x \in 1 .. i - 1 /\ x \in 1 .. Len(t) /\ x # i
      BY <1>1, <2>1
    <3> QED BY <3>1 DEF Put
  <2>2. CASE x >= i
    <3>1. x + 1 \in i + 1 .. Len(s) + 1 /\ x + 1 \in 1 .. Len(t) /\ x + 1 # i /\ (x + 1) - 1 = x
      BY <1>1, <2>2
    <3>2. t[x + 1] = s[(x + 1) - 1]
      BY <3>1 DEF Put
    <3> QED BY <3>1, <3>2
  <2> QED BY <1>1, <2>1, <2>2
<1>3. \A j \in 1 .. Len(t) : j = i \/ (j < i /\ j \in 1 .. Len(s) /\ t[j] = s[j])
                             \/ (j > i /\ j - 1 \in 1 .. Len(s) /\ t[j] = s[j - 1])
  <2> TAKE j \in 1 .. Len(t)
  <2>1. j \in Nat /\ 1 <= j /\ j <= Len(s) + 1
    BY <1>1
  <2>2. CASE j < i
    <3>1. j \in 1 .. i - 1 /\ j \in 1 .. Len(s)
      BY <1>1, <2>1, <2>2
    <3> QED BY <2>2, <3>1 DEF Put
  <2>3. CASE j > i
    <3>1. j \in i + 1 .. Len(s) + 1 /\ j - 1 \in 1 .. Len(s)
      BY <1>1, <2>1, <2>3
    <3> QED BY <2>3, <3>1 DEF Put
  <2> QED BY <1>1, <2>1, <2>2, <2>3
<1>4. Pointers(t) = Pointers(s) \cup PointerSet(r)
  <2>1. ASSUME NEW p \in Pointers(t) PROVE p \in Pointers(s) \cup PointerSet(r)
    <3>1. PICK j \in 1 .. Len(t) : p \in PointerSet(t[j])
      BY <2>1 DEF Pointers
    <3> QED BY <1>1, <1>3, <3>1 DEF Pointers
  <2>2. ASSUME NEW p \in Pointers(s) PROVE p \in Pointers(t)
    <3>1. PICK x \in 1 .. Len(s) : p \in PointerSet(s[x])
      BY <2>2 DEF Pointers
    <3> QED BY <1>2, <3>1 DEF Pointers
  <2>3. PointerSet(r) \subseteq Pointers(t)
    BY <1>1 DEF Pointers
  <2> QED BY <2>1, <2>2, <2>3
<1>5. Single(s) /\ Unpointed(s, r) => Single(t)
  <2> SUFFICES ASSUME Single(s), Unpointed(s, r), NEW x \in 1 .. Len(t), NEW y \in 1 .. Len(t),
                      t[x].con = t[y].con, t[x].con # NoCon
               PROVE  x = y
    BY DEF Single
  <2>1. x \in Nat /\ y \in Nat
    BY <1>1
  <2>2. CASE x = i \/ y = i
    BY <1>1, <1>3, <2>2 DEF Unpointed
  <2>3. CASE x # i /\ y # i
    <3> DEFINE px == IF x < i THEN x ELSE x - 1  py == IF y < i THEN y ELSE y - 1
    <3>1. px \in 1 .. Len(s) /\ t[x] = s[px] /\ (px < i \/ px >= i)
      BY <1>1, <1>3, <2>1, <2>3
    <3>2. py \in 1 .. Len(s) /\ t[y] = s[py]
      BY <1>1, <1>3, <2>1, <2>3
    <3>3. px = py
      <4> HIDE DEF px, py
      <4> QED BY <3>1, <3>2 DEF Single
    <3> QED BY <1>1, <2>1, <2>3, <3>3
  <2> QED BY <2>2, <2>3
<1>6. ASSUME NEW ip, HasRow(s, ip) PROVE HasRow(t, ip)
  BY <1>2, <1>6 DEF HasRow
<1>7. r.port # Incoming => HasRow(t, r.host)
  BY <1>1 DEF HasRow
<1> QED BY <1>1, <1>4, <1>5, <1>6, <1>7

\* A row less.
LEMMA RowRemoved ==
  ASSUME NEW s \in Seq(HostRow), NEW i \in 1 .. Len(s), Single(s)
  PROVE  LET t == RemoveAt(s, i)
         IN  /\ t \in Seq(HostRow) /\ Len(t) = Len(s) - 1 /\ Single(t)
             /\ Pointers(t) = Pointers(s) \ PointerSet(s[i])
             /\ s[i].con # NoCon => \A x \in 1 .. Len(t) : t[x].con # s[i].con
             /\ \A x \in 1 .. Len(t) : \E y \in 1 .. Len(s) : t[x] = s[y]
             /\ \A ip : HasRow(s, ip) => HasRow(t, ip) \/ (s[i].host = ip /\ s[i].port # Incoming)
<1> DEFINE t == RemoveAt(s, i)
<1>1. /\ t \in Seq(HostRow) /\ Len(t) = Len(s) - 1
      /\ \A j \in 1 .. i - 1 : t[j] = s[j]
      /\ \A j \in i .. Len(s) - 1 : t[j] = s[j + 1]
  BY RemovedIs
<1>2. Len(s) \in Nat /\ i \in Nat /\ 1 <= i /\ i <= Len(s) /\ \A x \in 1 .. Len(s) : s[x] \in HostRow
  OBVIOUS
<1> HIDE DEF t
<1>3. \A j \in 1 .. Len(t) : (j < i /\ j \in 1 .. Len(s) /\ t[j] = s[j])
                             \/ (j >= i /\ j + 1 \in 1 .. Len(s) /\ t[j] = s[j + 1])
  <2> TAKE j \in 1 .. Len(t)
  <2>1. j \in Nat /\ 1 <= j /\ j <= Len(s) - 1
    BY <1>1, <1>2
  <2>2. CASE j < i
    <3>1. j \in 1 .. i - 1 /\ j \in 1 .. Len(s)
      BY <1>2, <2>1, <2>2
    <3> QED BY <1>1, <2>2, <3>1
  <2>3. CASE j >= i
    <3>1. j \in i .. Len(s) - 1 /\ j + 1 \in 1 .. Len(s)
      BY <1>2, <2>1, <2>3
    <3> QED BY <1>1, <2>3, <3>1
  <2> QED BY <1>2, <2>1, <2>2, <2>3
<1>4. \A j \in 1 .. Len(t) : \E x \in 1 .. Len(s) : x # i /\ t[j] = s[x]
  <2> TAKE j \in 1 .. Len(t)
  <2>1. j \in Nat
    BY <1>1
  <2>2. CASE j < i
    BY <1>2, <1>3, <2>1, <2>2
  <2>3. CASE j >= i
    <3>1. j + 1 # i /\ j + 1 \in 1 .. Len(s) /\ t[j] = s[j + 1]
      BY <1>2, <1>3, <2>1, <2>3
    <3> QED BY <3>1
  <2> QED BY <1>2, <2>1, <2>2, <2>3
<1>5. \A x \in 1 .. Len(s) : x # i => \E j \in 1 .. Len(t) : t[j] = s[x]
  <2> SUFFICES ASSUME NEW x \in 1 .. Len(s), x # i PROVE \E j \in 1 .. Len(t) : t[j] = s[x]
    OBVIOUS
  <2>1. CASE x < i
    <3>1. x \in 1 .. i - 1 /\ x \in 1 .. Len(t)
      BY <1>1, <1>2, <2>1
    <3> QED BY <1>1, <3>1
  <2>2. CASE x > i
    <3>1. x - 1 \in i .. Len(s) - 1 /\ x - 1 \in 1 .. Len(t) /\ (x - 1) + 1 = x
      BY <1>1, <1>2, <2>2
    <3>2. t[x - 1] = s[(x - 1) + 1]
      BY <1>1, <3>1
    <3> QED BY <3>1, <3>2
  <2> QED BY <1>2, <2>1, <2>2
<1>6. Single(t)
  <2> SUFFICES ASSUME NEW x \in 1 .. Len(t), NEW y \in 1 .. Len(t), t[x].con = t[y].con, t[x].con # NoCon
               PROVE  x = y
    BY DEF Single
  <2> DEFINE px == IF x < i THEN x ELSE x + 1  py == IF y < i THEN y ELSE y + 1
  <2>1. x \in Nat /\ y \in Nat
    BY <1>1
  <2>2. px \in 1 .. Len(s) /\ t[x] = s[px]
    BY <1>2, <1>3, <2>1
  <2>3. py \in 1 .. Len(s) /\ t[y] = s[py]
    BY <1>2, <1>3, <2>1
  <2>4. px = py
    <3> HIDE DEF px, py
    <3> QED BY <2>2, <2>3 DEF Single
  <2> QED BY <1>2, <2>1, <2>4
<1>7. \A x \in 1 .. Len(s) : x # i /\ s[i].con # NoCon => s[x].con # s[i].con
  BY DEF Single
<1>8. s[i].con # NoCon => \A x \in 1 .. Len(t) : t[x].con # s[i].con
  BY <1>4, <1>7
<1>9. Pointers(t) = Pointers(s) \ PointerSet(s[i])
  <2>1. ASSUME NEW p \in Pointers(t) PROVE p \in Pointers(s) \ PointerSet(s[i])
    <3>1. PICK j \in 1 .. Len(t) : p \in PointerSet(t[j])
      BY <2>1 DEF Pointers
    <3>2. p \in Pointers(s)
      BY <1>4, <3>1 DEF Pointers
    <3>3. p.id = t[j].con
      BY <3>1 DEF PointerSet, Pointer
    <3>4. p \notin PointerSet(s[i])
      BY <1>8, <3>3 DEF PointerSet, Pointer
    <3> QED BY <3>2, <3>4
  <2>2. ASSUME NEW p \in Pointers(s), p \notin PointerSet(s[i]) PROVE p \in Pointers(t)
    <3>1. PICK x \in 1 .. Len(s) : p \in PointerSet(s[x])
      BY <2>2 DEF Pointers
    <3>2. x # i
      BY <2>2, <3>1
    <3> QED BY <1>5, <3>1, <3>2 DEF Pointers
  <2> QED BY <2>1, <2>2
<1>10. ASSUME NEW ip, HasRow(s, ip) PROVE HasRow(t, ip) \/ (s[i].host = ip /\ s[i].port # Incoming)
  <2>1. PICK x \in 1 .. Len(s) : s[x].host = ip /\ s[x].port # Incoming
    BY <1>10 DEF HasRow
  <2>2. CASE x = i
    BY <2>1, <2>2
  <2>3. CASE x # i
    BY <1>5, <2>1, <2>3 DEF HasRow
  <2> QED BY <2>2, <2>3
<1>11. \A x \in 1 .. Len(t) : \E y \in 1 .. Len(s) : t[x] = s[y]
  BY <1>4
<1> QED BY <1>1, <1>6, <1>8, <1>9, <1>10, <1>11 DEF t

\* A row that is another: it points to what it did, or to nothing another row points to.
PointsAlone(s, i, r) == r.con = s[i].con \/ Unpointed(s, r)
Changed(s, t, i, r) == t = [s EXCEPT ![i] = r]
LEMMA RowChanged ==
  ASSUME NEW s \in Seq(HostRow), NEW i \in 1 .. Len(s), NEW r \in HostRow, Single(s),
         PointsAlone(s, i, r), NEW t, Changed(s, t, i, r)
  PROVE  /\ t \in Seq(HostRow) /\ Len(t) = Len(s) /\ Single(t)
         /\ Pointers(t) = (Pointers(s) \ PointerSet(s[i])) \cup PointerSet(r)
         /\ \A ip : HasRow(s, ip) => HasRow(t, ip) \/ (s[i].host = ip /\ s[i].port # Incoming)
         /\ r.port # Incoming => HasRow(t, r.host)
<1>1. /\ t \in Seq(HostRow) /\ Len(t) = Len(s) /\ Len(s) \in Nat
      /\ \A x \in 1 .. Len(s) : t[x] = IF x = i THEN r ELSE s[x]
  BY DEF Changed
<1>2. \A x \in 1 .. Len(s) : x # i /\ s[i].con # NoCon => s[x].con # s[i].con
  BY DEF Single
<1>3. Single(t)
  <2> SUFFICES ASSUME NEW x \in 1 .. Len(s), NEW y \in 1 .. Len(s), t[x].con = t[y].con, t[x].con # NoCon
               PROVE  x = y
    BY <1>1 DEF Single
  <2>1. CASE x # i /\ y # i
    BY <1>1, <2>1 DEF Single
  <2>2. CASE x = i /\ y # i
    BY <1>1, <1>2, <2>2 DEF PointsAlone, Unpointed
  <2>3. CASE y = i /\ x # i
    BY <1>1, <1>2, <2>3 DEF PointsAlone, Unpointed
  <2> QED BY <2>1, <2>2, <2>3
<1>4. Pointers(t) = (Pointers(s) \ PointerSet(s[i])) \cup PointerSet(r)
  <2>1. ASSUME NEW p \in Pointers(t), p \notin PointerSet(r) PROVE p \in Pointers(s) \ PointerSet(s[i])
    <3>1. PICK x \in 1 .. Len(s) : p \in PointerSet(t[x])
      BY <1>1, <2>1 DEF Pointers
    <3>2. x # i /\ p \in PointerSet(s[x])
      BY <1>1, <2>1, <3>1
    <3>3. p.id = s[x].con
      BY <3>2 DEF PointerSet, Pointer
    <3>4. p \notin PointerSet(s[i])
      BY <1>2, <3>2, <3>3 DEF PointerSet, Pointer
    <3> QED BY <3>2, <3>4 DEF Pointers
  <2>2. ASSUME NEW p \in Pointers(s), p \notin PointerSet(s[i]) PROVE p \in Pointers(t)
    <3>1. PICK x \in 1 .. Len(s) : p \in PointerSet(s[x])
      BY <2>2 DEF Pointers
    <3>2. x # i /\ t[x] = s[x]
      BY <1>1, <2>2, <3>1
    <3> QED BY <1>1, <3>1, <3>2 DEF Pointers
  <2>3. PointerSet(r) \subseteq Pointers(t)
    <3>1. t[i] = r /\ i \in 1 .. Len(t)
      BY <1>1
    <3> QED BY <3>1 DEF Pointers
  <2> QED BY <2>1, <2>2, <2>3
<1>5. ASSUME NEW ip, HasRow(s, ip) PROVE HasRow(t, ip) \/ (s[i].host = ip /\ s[i].port # Incoming)
  <2>1. PICK x \in 1 .. Len(s) : s[x].host = ip /\ s[x].port # Incoming
    BY <1>5 DEF HasRow
  <2>2. CASE x = i
    BY <2>1, <2>2
  <2>3. CASE x # i
    BY <1>1, <2>1, <2>3 DEF HasRow
  <2> QED BY <2>2, <2>3
<1>6. r.port # Incoming => HasRow(t, r.host)
  <2>1. t[i] = r /\ i \in 1 .. Len(t)
    BY <1>1
  <2> QED BY <2>1 DEF HasRow
<1> QED BY <1>1, <1>3, <1>4, <1>5, <1>6

LEMMA ClampedIs ==
  ASSUME NEW rating \in Int
  PROVE  Clamped(rating) \in Int
<1>1. Best \in Int
  BY HostsAssumption
<1> QED BY <1>1 DEF Clamped

\* A row under another rating.
LEMMA Rerated ==
  ASSUME NEW s \in Seq(HostRow), NEW i \in 1 .. Len(s), NEW n \in Int, Single(s)
  PROVE  LET t == [s EXCEPT ![i].rat = n]
         IN  /\ t \in Seq(HostRow) /\ Single(t) /\ Pointers(t) = Pointers(s)
             /\ \A ip : HasRow(s, ip) => HasRow(t, ip)
<1> DEFINE r == [s[i] EXCEPT !.rat = n]  t == [s EXCEPT ![i] = r]
<1>1. s[i] \in HostRow
  OBVIOUS
<1>2. r \in HostRow /\ r.con = s[i].con /\ r.host = s[i].host /\ r.port = s[i].port
  BY <1>1 DEF HostRow
<1> HIDE DEF r
<1> DEFINE u == [s EXCEPT ![i] = r]
<1>7. u = t /\ Changed(s, u, i, r)
  BY DEF Changed
<1> HIDE DEF t, u
<1>8. PointsAlone(s, i, r)
  BY <1>2 DEF PointsAlone
<1>9. /\ u \in Seq(HostRow) /\ Single(u) /\ Pointers(u) = (Pointers(s) \ PointerSet(s[i])) \cup PointerSet(r)
      /\ \A ip : HasRow(s, ip) => HasRow(u, ip) \/ (s[i].host = ip /\ s[i].port # Incoming)
      /\ r.port # Incoming => HasRow(u, r.host)
  BY <1>2, <1>7, <1>8, RowChanged
<1>3. /\ u \in Seq(HostRow) /\ Single(u) /\ Pointers(u) = (Pointers(s) \ PointerSet(s[i])) \cup PointerSet(r)
      /\ \A ip : HasRow(s, ip) => HasRow(u, ip)
  BY <1>2, <1>9, Zenon
<1>4. PointerSet(r) = PointerSet(s[i])
  BY <1>2 DEF PointerSet, Pointer
<1>5. PointerSet(s[i]) \subseteq Pointers(s)
  BY DEF Pointers
<1>6. Pointers(u) = Pointers(s)
  BY <1>3, <1>4, <1>5
<1> QED BY <1>3, <1>6, <1>7 DEF r, t

LEMMA AddToNetqKeeps ==
  ASSUME NEW list \in Seq(HostRow), Single(list), NEW qs, NEW ip \in Place \cup {NoIp},
         NEW port \in {Incoming, 1}, port # Incoming, NEW rated \in Int, NEW replace
  PROVE  LET t == AddToNetq(list, qs, ip, port, rated, replace)
         IN  /\ t \in Seq(HostRow) /\ Single(t) /\ Pointers(t) = Pointers(list)
             /\ \A h : HasRow(list, h) => HasRow(t, h)
             /\ May(ip, qs) => HasRow(t, ip)
<1> DEFINE rating == Clamped(rated)
           same == {x \in 1 .. Len(list) : list[x].host = ip /\ list[x].port = port}
           x0 == IF same = {} THEN Len(list) ELSE Min(same)
           better == {x \in 1 .. x0 : rating > list[x].rat}
           irat == list[x0].rat
           newrat == IF same = {} \/ irat >= rating THEN rating ELSE IF irat < Middle THEN irat + 1 ELSE irat
           rest == IF same = {} THEN list ELSE RemoveAt(list, x0)
           bestpos == IF better = {} THEN Len(rest) + 1 ELSE Min(better)
           r == Row(ip, port, newrat, NoCon)
           t == AddToNetq(list, qs, ip, port, rated, replace)
<1>1. \/ t = list /\ (~May(ip, qs) \/ (same # {} /\ list[x0].con # NoCon))
      \/ t = [list EXCEPT ![x0].rat = newrat] /\ same # {}
      \/ t = InsertAt(rest, bestpos, r) /\ (same # {} => list[x0].con = NoCon) /\ May(ip, qs)
  BY Zenon DEF AddToNetq
<1>2. Len(list) \in Nat /\ \A x \in 1 .. Len(list) : list[x] \in HostRow
  OBVIOUS
<1>3. same # {} => x0 \in 1 .. Len(list) /\ list[x0].host = ip /\ list[x0].port = port
  <2>1. same \in SUBSET Nat
    OBVIOUS
  <2>2. same # {} => Min(same) \in same
    <3> HIDE DEF same
    <3> QED BY <2>1, MinIs
  <2> QED BY <2>2
<1>4. x0 \in 0 .. Len(list)
  <2> HIDE DEF same
  <2>1. CASE same = {}
    BY <1>2, <2>1
  <2>2. CASE same # {}
    BY <1>2, <1>3, <2>2
  <2> QED BY <2>1, <2>2
<1>5. rating \in Int
  BY ClampedIs
<1>6. newrat \in Int
  <2>1. same # {} => irat \in Int
    BY <1>2, <1>3 DEF HostRow
  <2>2. Middle \in Int
    BY HostsAssumption
  <2> HIDE DEF irat, same, rating
  <2> QED BY <1>5, <2>1, <2>2
<1>7. better # {} => Min(better) \in 1 .. x0
  <2>1. better \in SUBSET Nat
    <3> HIDE DEF x0, rating
    <3> QED BY <1>4
  <2>2. better # {} => Min(better) \in better
    <3> HIDE DEF better
    <3> QED BY <2>1, MinIs
  <2> QED BY <2>2
<1>8. same # {} => HasRow(list, ip)
  <2> HIDE DEF same, x0
  <2> QED BY <1>3 DEF HasRow
<1> HIDE DEF same, x0, newrat, better, rating, t
<1>9. CASE t = list /\ (~May(ip, qs) \/ (same # {} /\ list[x0].con # NoCon))
  BY <1>8, <1>9 DEF t
<1>10. CASE t = [list EXCEPT ![x0].rat = newrat] /\ same # {}
  <2>1. /\ t \in Seq(HostRow) /\ Single(t) /\ Pointers(t) = Pointers(list)
        /\ \A h : HasRow(list, h) => HasRow(t, h)
    BY <1>3, <1>6, <1>10, Rerated
  <2> QED BY <1>8, <1>10, <2>1 DEF t
<1>11. CASE t = InsertAt(rest, bestpos, r) /\ (same # {} => list[x0].con = NoCon) /\ May(ip, qs)
  <2>1. r \in HostRow /\ r.con = NoCon /\ r.host = ip /\ r.port = port
    <3>1. 0 \in 0 .. MaxCons
      BY HostsAssumption
    <3>2. ip \in Place
      BY <1>11 DEF May
    <3> QED BY <1>6, <3>1, <3>2 DEF Row, HostRow, NoCon
  <2>2. /\ rest \in Seq(HostRow) /\ Single(rest) /\ Pointers(rest) = Pointers(list)
        /\ \A h : HasRow(list, h) => HasRow(rest, h) \/ (h = ip /\ port # Incoming)
        /\ Len(rest) = IF same = {} THEN Len(list) ELSE Len(list) - 1
    <3>1. CASE same = {}
      BY <3>1
    <3>2. CASE same # {}
      <4>1. PointerSet(list[x0]) = {}
        BY <1>11, <3>2 DEF PointerSet
      <4>2. LET u == RemoveAt(list, x0)
            IN  /\ u \in Seq(HostRow) /\ Len(u) = Len(list) - 1 /\ Single(u)
                /\ Pointers(u) = Pointers(list) \ PointerSet(list[x0])
                /\ \A h : HasRow(list, h) => HasRow(u, h) \/ (list[x0].host = h /\ list[x0].port # Incoming)
        BY <1>3, <3>2, RowRemoved
      <4> QED BY <1>3, <3>2, <4>1, <4>2
    <3> QED BY <3>1, <3>2
  <2>3. bestpos \in 1 .. Len(rest) + 1
    <3>1. Len(rest) \in Nat
      BY <2>2
    <3>2. CASE better = {}
      BY <3>1, <3>2
    <3>3. CASE better # {}
      <4>1. x0 <= Len(rest) + 1
        BY <1>2, <1>4, <2>2
      <4> HIDE DEF rest
      <4> QED BY <1>4, <1>7, <3>1, <3>3, <4>1
    <3> QED BY <3>2, <3>3
  <2> HIDE DEF rest, r, bestpos
  <2>4. Put(rest, t, bestpos, r)
    BY <1>11, <2>1, <2>2, <2>3, InsertedIs
  <2>5. Unpointed(rest, r)
    BY <2>1 DEF Unpointed
  <2>6. /\ t \in Seq(HostRow) /\ Pointers(t) = Pointers(rest) \cup PointerSet(r) /\ Single(t)
        /\ \A h : HasRow(rest, h) => HasRow(t, h)
        /\ r.port # Incoming => HasRow(t, r.host)
    BY <2>1, <2>2, <2>3, <2>4, <2>5, PutKeeps
  <2>7. PointerSet(r) = {}
    BY <2>1 DEF PointerSet
  <2> QED BY <2>1, <2>2, <2>6, <2>7 DEF t
<1> QED BY <1>1, <1>9, <1>10, <1>11

-----------------------------------------------------------------------------
(* The host list: connections *)

LEMMA ApartTurned ==
  ASSUME NEW s, NEW t, Apart(s, t)
  PROVE  Apart(t, s)
<1>1. \A i \in 1 .. Len(t), j \in 1 .. Len(s) : t[i].id # s[j].id
  <2> SUFFICES ASSUME NEW i \in 1 .. Len(t), NEW j \in 1 .. Len(s), t[i].id = s[j].id PROVE FALSE
    OBVIOUS
  <2>1. s[j].id # t[i].id
    BY Zenon DEF Apart
  <2> QED BY <2>1
<1> QED BY <1>1, Zenon DEF Apart

LEMMA LinkRemoved ==
  ASSUME NEW s \in Seq(Link), NEW t \in Seq(Link), Apart(s, t), NEW i \in 1 .. Len(s)
  PROVE  LET u == RemoveAt(s, i)
         IN  u \in Seq(Link) /\ Apart(u, t) /\ Range(u) = Range(s) \ {s[i]} /\ s[i] \notin Range(t)
<1> DEFINE u == RemoveAt(s, i)
<1>1. /\ u \in Seq(Link) /\ Len(u) = Len(s) - 1
      /\ \A j \in 1 .. i - 1 : u[j] = s[j]
      /\ \A j \in i .. Len(s) - 1 : u[j] = s[j + 1]
  BY RemovedIs
<1>2. Len(s) \in Nat /\ i \in Nat /\ 1 <= i /\ i <= Len(s)
  OBVIOUS
<1> HIDE DEF u
<1>3. \A j \in 1 .. Len(u) : (j < i /\ j \in 1 .. Len(s) /\ u[j] = s[j])
                             \/ (j >= i /\ j + 1 \in 1 .. Len(s) /\ u[j] = s[j + 1])
  <2> TAKE j \in 1 .. Len(u)
  <2>1. j \in Nat /\ 1 <= j /\ j <= Len(s) - 1
    BY <1>1, <1>2
  <2>2. CASE j < i
    <3>1. j \in 1 .. i - 1 /\ j \in 1 .. Len(s)
      BY <1>2, <2>1, <2>2
    <3> QED BY <1>1, <2>2, <3>1
  <2>3. CASE j >= i
    <3>1. j \in i .. Len(s) - 1 /\ j + 1 \in 1 .. Len(s)
      BY <1>2, <2>1, <2>3
    <3> QED BY <1>1, <2>3, <3>1
  <2> QED BY <1>2, <2>1, <2>2, <2>3
<1>4. \A j \in 1 .. Len(u) : \E x \in 1 .. Len(s) : x # i /\ u[j] = s[x]
  <2> TAKE j \in 1 .. Len(u)
  <2>1. j \in Nat
    BY <1>1
  <2>2. CASE j < i
    BY <1>2, <1>3, <2>1, <2>2
  <2>3. CASE j >= i
    <3>1. j + 1 # i /\ j + 1 \in 1 .. Len(s) /\ u[j] = s[j + 1]
      BY <1>2, <1>3, <2>1, <2>3
    <3> QED BY <3>1
  <2> QED BY <1>2, <2>1, <2>2, <2>3
<1>5. \A x \in 1 .. Len(s) : x # i => \E j \in 1 .. Len(u) : u[j] = s[x]
  <2> SUFFICES ASSUME NEW x \in 1 .. Len(s), x # i PROVE \E j \in 1 .. Len(u) : u[j] = s[x]
    OBVIOUS
  <2>1. CASE x < i
    <3>1. x \in 1 .. i - 1 /\ x \in 1 .. Len(u)
      BY <1>1, <1>2, <2>1
    <3> QED BY <1>1, <3>1
  <2>2. CASE x > i
    <3>1. x - 1 \in i .. Len(s) - 1 /\ x - 1 \in 1 .. Len(u) /\ (x - 1) + 1 = x
      BY <1>1, <1>2, <2>2
    <3>2. u[x - 1] = s[(x - 1) + 1]
      BY <1>1, <3>1
    <3> QED BY <3>1, <3>2
  <2> QED BY <1>2, <2>1, <2>2
<1>6. \A x, y \in 1 .. Len(s) : s[x].id = s[y].id => x = y
  BY DEF Apart
<1>7. \A x \in 1 .. Len(s), y \in 1 .. Len(t) : s[x].id # t[y].id
  BY DEF Apart
<1>8. Apart(u, t)
  <2>1. \A x, y \in 1 .. Len(u) : u[x].id = u[y].id => x = y
    <3> SUFFICES ASSUME NEW x \in 1 .. Len(u), NEW y \in 1 .. Len(u), u[x].id = u[y].id PROVE x = y
      OBVIOUS
    <3> DEFINE px == IF x < i THEN x ELSE x + 1  py == IF y < i THEN y ELSE y + 1
    <3>1. x \in Nat /\ y \in Nat
      BY <1>1
    <3>2. px \in 1 .. Len(s) /\ u[x] = s[px]
      BY <1>2, <1>3, <3>1
    <3>3. py \in 1 .. Len(s) /\ u[y] = s[py]
      BY <1>2, <1>3, <3>1
    <3>4. px = py
      <4> HIDE DEF px, py
      <4> QED BY <1>6, <3>2, <3>3
    <3> QED BY <1>2, <3>1, <3>4
  <2>2. \A x \in 1 .. Len(u), y \in 1 .. Len(t) : u[x].id # t[y].id
    BY <1>4, <1>7
  <2> QED BY <2>1, <2>2 DEF Apart
<1>9. Range(u) = Range(s) \ {s[i]}
  <2>1. DOMAIN u = 1 .. Len(u) /\ DOMAIN s = 1 .. Len(s)
    BY <1>1
  <2>2. ASSUME NEW c \in Range(u) PROVE c \in Range(s) \ {s[i]}
    <3>1. PICK j \in 1 .. Len(u) : c = u[j]
      BY <2>1, <2>2 DEF Range
    <3>2. PICK x \in 1 .. Len(s) : x # i /\ u[j] = s[x]
      BY <1>4, <3>1
    <3>3. s[x] # s[i]
      BY <1>6, <3>2
    <3> QED BY <2>1, <3>1, <3>2, <3>3 DEF Range
  <2>3. ASSUME NEW c \in Range(s), c # s[i] PROVE c \in Range(u)
    <3>1. PICK x \in 1 .. Len(s) : c = s[x]
      BY <2>1, <2>3 DEF Range
    <3>2. PICK j \in 1 .. Len(u) : u[j] = s[x]
      BY <1>5, <2>3, <3>1
    <3> QED BY <2>1, <3>1, <3>2 DEF Range
  <2> QED BY <2>2, <2>3
<1>10. s[i] \notin Range(t)
  <2>1. DOMAIN t = 1 .. Len(t)
    OBVIOUS
  <2> QED BY <1>7, <2>1 DEF Range
<1> QED BY <1>1, <1>8, <1>9, <1>10 DEF u

\* A number none of these connections has.
Fresh(c, s, t) ==
  (\A i \in 1 .. Len(s) : s[i].id # c.id) /\ (\A j \in 1 .. Len(t) : t[j].id # c.id)

LEMMA LinkAdded ==
  ASSUME NEW s \in Seq(Link), NEW t \in Seq(Link), Apart(s, t), NEW c \in Link, Fresh(c, s, t)
  PROVE  LET u == Append(s, c) IN u \in Seq(Link) /\ Apart(u, t) /\ Range(u) = Range(s) \cup {c}
<1> DEFINE u == Append(s, c)
<1>1. /\ u \in Seq(Link) /\ Len(u) = Len(s) + 1 /\ Len(s) \in Nat
      /\ \A i \in 1 .. Len(s) : u[i] = s[i]
      /\ u[Len(s) + 1] = c
  BY AppendProperties
<1> HIDE DEF u
<1>2. \A i \in 1 .. Len(u) : (i \in 1 .. Len(s) /\ u[i] = s[i]) \/ (i = Len(s) + 1 /\ u[i] = c)
  BY <1>1
<1>3. \A x, y \in 1 .. Len(u) : u[x].id = u[y].id => x = y
  <2>1. \A x, y \in 1 .. Len(s) : s[x].id = s[y].id => x = y
    BY DEF Apart
  <2> QED BY <1>2, <2>1 DEF Fresh
<1>4. \A x \in 1 .. Len(u), y \in 1 .. Len(t) : u[x].id # t[y].id
  <2>1. \A x \in 1 .. Len(s), y \in 1 .. Len(t) : s[x].id # t[y].id
    BY DEF Apart
  <2> QED BY <1>2, <2>1 DEF Fresh
<1>5. Apart(u, t)
  BY <1>3, <1>4 DEF Apart
<1>6. Range(u) = Range(s) \cup {c}
  <2>1. DOMAIN u = 1 .. Len(u) /\ DOMAIN s = 1 .. Len(s)
    BY <1>1
  <2>2. ASSUME NEW d \in Range(u) PROVE d \in Range(s) \cup {c}
    <3>1. PICK j \in 1 .. Len(u) : d = u[j]
      BY <2>1, <2>2 DEF Range
    <3> QED BY <1>2, <2>1, <3>1 DEF Range
  <2>3. ASSUME NEW d \in Range(s) \cup {c} PROVE d \in Range(u)
    <3>1. CASE d = c
      <4>1. Len(s) + 1 \in 1 .. Len(u)
        BY <1>1
      <4> QED BY <1>1, <2>1, <3>1, <4>1 DEF Range
    <3>2. CASE d \in Range(s)
      <4>1. PICK x \in 1 .. Len(s) : d = s[x]
        BY <2>1, <3>2 DEF Range
      <4>2. x \in 1 .. Len(u) /\ u[x] = d
        BY <1>1, <4>1
      <4> QED BY <2>1, <4>2 DEF Range
    <3> QED BY <2>3, <3>1, <3>2
  <2> QED BY <2>2, <2>3
<1> QED BY <1>1, <1>5, <1>6 DEF u

LEMMA LinksOf ==
  ASSUME NEW s \in Seq(Link)
  PROVE  Range(s) = {s[i] : i \in 1 .. Len(s)} /\ Range(s) \subseteq Link
<1>1. DOMAIN s = 1 .. Len(s) /\ \A i \in 1 .. Len(s) : s[i] \in Link
  OBVIOUS
<1> QED BY <1>1 DEF Range

\* A number is of one connection only.
LEMMA OneOfEach ==
  ASSUME NEW s \in Seq(Link), NEW t \in Seq(Link), Apart(s, t),
         NEW c \in Range(s) \cup Range(t), NEW d \in Range(s) \cup Range(t), c.id = d.id
  PROVE  c = d
<1>1. Range(s) = {s[i] : i \in 1 .. Len(s)} /\ Range(t) = {t[i] : i \in 1 .. Len(t)}
  BY LinksOf
<1>2. CASE c \in Range(s) /\ d \in Range(s)
  BY <1>1, <1>2 DEF Apart
<1>3. CASE c \in Range(t) /\ d \in Range(t)
  BY <1>1, <1>3 DEF Apart
<1>4. CASE c \in Range(s) /\ d \in Range(t)
  BY <1>1, <1>4 DEF Apart
<1>5. CASE c \in Range(t) /\ d \in Range(s)
  BY <1>1, <1>5 DEF Apart
<1> QED BY <1>2, <1>3, <1>4, <1>5

LEMMA TiedAdded ==
  ASSUME NEW P, NEW L, NEW c, Tied(P, L)
  PROVE  Tied(P \cup {EndOf(c)}, L \cup {c})
<1>1. EndOf(c).id = c.id
  BY DEF EndOf
<1> QED BY <1>1 DEF Tied

\* A connection is gone and no row points to it.
LEMMA TiedRemoved ==
  ASSUME NEW P, NEW L, NEW c \in L, Tied(P, L), \A d, e \in L : d.id = e.id => d = e
  PROVE  Tied({p \in P : p.id # c.id}, L \ {c})
<1>1. ASSUME NEW p \in P, p.id # c.id PROVE p \in {EndOf(d) : d \in L \ {c}}
  <2>1. PICK d \in L : p = EndOf(d)
    BY DEF Tied
  <2>2. p.id = d.id
    BY <2>1 DEF EndOf
  <2> QED BY <1>1, <2>1, <2>2
<1>2. ASSUME NEW d \in L \ {c}, d.open PROVE \E p \in {q \in P : q.id # c.id} : p.id = d.id
  BY <1>2 DEF Tied
<1> QED BY <1>1, <1>2 DEF Tied

\* What the others point to, if the row at a points to c.
LEMMA OthersPoint ==
  ASSUME NEW s \in Seq(HostRow), Single(s), NEW a \in 1 .. Len(s), s[a].con # NoCon
  PROVE  Pointers(s) \ PointerSet(s[a]) = {p \in Pointers(s) : p.id # s[a].con}
<1>1. ASSUME NEW p \in Pointers(s), p.id = s[a].con PROVE p \in PointerSet(s[a])
  <2>1. PICK x \in 1 .. Len(s) : p \in PointerSet(s[x])
    BY DEF Pointers
  <2>2. s[x].con # NoCon /\ p = Pointer(s[x]) /\ p.id = s[x].con
    BY <2>1 DEF PointerSet, Pointer
  <2>3. x = a
    BY <1>1, <2>2 DEF Single
  <2> QED BY <2>1, <2>3
<1>2. ASSUME NEW p \in PointerSet(s[a]) PROVE p.id = s[a].con
  BY <1>2 DEF PointerSet, Pointer
<1> QED BY <1>1, <1>2

LEMMA PointersOf ==
  ASSUME NEW s \in Seq(HostRow), NEW x \in 1 .. Len(s), s[x].con # NoCon
  PROVE  Pointer(s[x]) \in Pointers(s) /\ Pointer(s[x]).id = s[x].con
<1>1. Pointer(s[x]) \in PointerSet(s[x])
  BY DEF PointerSet
<1> QED BY <1>1 DEF Pointers, Pointer

-----------------------------------------------------------------------------
(* The host list: steps *)

LEMMA AddressIsNoName == \A ip \in Address \cup {NoIp} : Remote(ip) = ip /\ ip \notin DOMAIN Resolves
BY HostsAssumption DEF Address, Remote

LEMMA RemoteIs == \A h \in Place : Remote(h) \in Address \cup {NoIp}
<1> TAKE h \in Place
<1>1. CASE h \in DOMAIN Resolves
  <2>1. Resolves[h] \in Range(Resolves)
    BY <1>1 DEF Range
  <2> QED BY <1>1, <2>1 DEF Remote, Address
<1>2. CASE h \notin DOMAIN Resolves
  BY <1>2 DEF Remote, Place
<1> QED BY <1>1, <1>2

LEMMA LiveIs ==
  ASSUME AllTied
  PROVE  /\ Live \subseteq Link /\ \A c, d \in Live : c.id = d.id => c = d
         /\ \A p \in Pointers(rows) : \E c \in Live : p = EndOf(c) /\ p.id = c.id
         /\ \A i \in 1 .. Len(g_new_net) : g_new_net[i] \in Live
         /\ \A i \in 1 .. Len(queues) : queues[i] \in Live
<1>1. g_new_net \in Seq(Link) /\ queues \in Seq(Link) /\ Apart(g_new_net, queues)
  BY DEF AllTied, HostsTyped
<1>2. /\ Range(g_new_net) = {g_new_net[i] : i \in 1 .. Len(g_new_net)} /\ Range(g_new_net) \subseteq Link
      /\ Range(queues) = {queues[i] : i \in 1 .. Len(queues)} /\ Range(queues) \subseteq Link
  BY <1>1, LinksOf
<1>3. \A c, d \in Live : c.id = d.id => c = d
  BY <1>1, OneOfEach DEF Live
<1>4. \A p \in Pointers(rows) : \E c \in Live : p = EndOf(c) /\ p.id = c.id
  BY DEF AllTied, Tied, EndOf
<1> QED BY <1>2, <1>3, <1>4 DEF Live

\* A number is left for one more connection.
LEMMA NewIs ==
  ASSUME AllTied, CanConnect, NEW host \in Place, NEW port \in {Incoming, 1}
  PROVE  LET c == New(host, port)
         IN  /\ c \in Link /\ c.host = host /\ c.port = port /\ c.id # NoCon
             /\ Fresh(c, g_new_net, queues) /\ \A p \in Pointers(rows) : p.id # c.id
<1> DEFINE c == New(host, port)  left == (1 .. MaxCons) \ Ids
<1>1. MaxCons \in Nat
  BY HostsAssumption
<1>2. Ids \subseteq 1 .. MaxCons
  BY LiveIs DEF Ids, Link
<1>3. left # {}
  <2>1. SUFFICES ASSUME left = {} PROVE FALSE
    OBVIOUS
  <2>2. Ids = 1 .. MaxCons
    BY <1>2, <2>1
  <2>3. Cardinality(1 .. MaxCons) = MaxCons
    BY <1>1, FS_Interval
  <2> QED BY <1>1, <2>2, <2>3 DEF CanConnect
<1>4. Min(left) \in left
  <2>1. left \in SUBSET Nat
    BY <1>1
  <2> HIDE DEF left
  <2> QED BY <1>3, <2>1, MinIs
<1>5. c = [id |-> Min(left), host |-> host, port |-> port, interface |-> NoIp, open |-> TRUE]
  BY DEF New
<1> HIDE DEF c
<1>6. c.id = Min(left) /\ c.host = host /\ c.port = port
  BY <1>5
<1>7. c.id \in 1 .. MaxCons /\ c.id \notin Ids
  BY <1>4, <1>6
<1>8. c \in Link
  BY <1>5, <1>6, <1>7 DEF Link
<1>9. \A d \in Live : d.id # c.id
  BY <1>7 DEF Ids
<1>10. c.id # NoCon
  BY <1>7 DEF NoCon
<1>11. Fresh(c, g_new_net, queues)
  BY <1>9, LiveIs DEF Fresh
<1>12. \A p \in Pointers(rows) : p.id # c.id
  BY <1>9, LiveIs
<1> QED BY <1>6, <1>8, <1>10, <1>11, <1>12 DEF c

\* One more connection to a host whose row is put ahead of the others.
LEMMA ConnectionAdded ==
  ASSUME AllTied, CanConnect, NEW host \in Place, NEW port \in {Incoming, 1}, NEW rating \in Int,
         NEW list \in Seq(HostRow), Single(list), Pointers(list) = Pointers(rows),
         g_new_net' = Append(g_new_net, New(host, port)), queues' = queues,
         rows' = <<Row(host, port, rating, New(host, port).id)>> \o list
  PROVE  /\ AllTied' /\ \A ip : HasRow(list, ip) => HasRow(rows', ip)
         /\ port # Incoming => HasRow(rows', host)
<1> DEFINE c == New(host, port)  r == Row(host, port, rating, c.id)
<1>1. /\ c \in Link /\ c.host = host /\ c.port = port /\ c.id # NoCon
      /\ Fresh(c, g_new_net, queues) /\ \A p \in Pointers(rows) : p.id # c.id
  BY NewIs
<1>2. g_new_net' = Append(g_new_net, c) /\ rows' = <<r>> \o list
  OBVIOUS
<1> HIDE DEF c
<1>3. r = [host |-> host, port |-> port, rat |-> rating, con |-> c.id]
  BY DEF Row
<1>4. r \in HostRow /\ r.con = c.id /\ r.port = port /\ r.host = host
  <2>1. c.id \in 0 .. MaxCons
    BY <1>1 DEF Link
  <2> QED BY <1>1, <1>3, <2>1 DEF HostRow
<1> HIDE DEF r
<1>5. Put(list, rows', 1, r)
  BY <1>2, <1>4, AheadIs
<1>6. Unpointed(list, r)
  <2> SUFFICES ASSUME NEW x \in 1 .. Len(list), list[x].con = r.con PROVE FALSE
    BY DEF Unpointed
  <2>1. list[x].con # NoCon
    BY <1>1, <1>4
  <2>2. Pointer(list[x]) \in Pointers(list) /\ Pointer(list[x]).id = list[x].con
    BY <2>1, PointersOf
  <2> QED BY <1>1, <1>4, <2>2
<1>7. 1 \in 1 .. Len(list) + 1 /\ list \in Seq(HostRow)
  OBVIOUS
<1> DEFINE u == rows'
<1>17. Put(list, u, 1, r)
  BY <1>5
<1> HIDE DEF u
<1>16. /\ u \in Seq(HostRow) /\ Pointers(u) = Pointers(list) \cup PointerSet(r)
       /\ Single(list) /\ Unpointed(list, r) => Single(u)
       /\ \A ip : HasRow(list, ip) => HasRow(u, ip)
       /\ r.port # Incoming => HasRow(u, r.host)
  BY <1>4, <1>7, <1>17, PutKeeps
<1>8. /\ rows' \in Seq(HostRow) /\ Pointers(rows') = Pointers(list) \cup PointerSet(r) /\ Single(rows')
      /\ \A ip : HasRow(list, ip) => HasRow(rows', ip)
      /\ r.port # Incoming => HasRow(rows', r.host)
  BY <1>6, <1>16 DEF u
<1>9. PointerSet(r) = {EndOf(c)}
  BY <1>1, <1>4 DEF PointerSet, Pointer, EndOf
<1>10. g_new_net \in Seq(Link) /\ queues \in Seq(Link) /\ Apart(g_new_net, queues) /\ Tied(Pointers(rows), Live)
  BY DEF AllTied, HostsTyped
<1>11. g_new_net' \in Seq(Link) /\ Apart(g_new_net', queues) /\ Range(g_new_net') = Range(g_new_net) \cup {c}
  BY <1>1, <1>2, <1>10, LinkAdded
<1>12. Live' = Live \cup {c}
  BY <1>11 DEF Live
<1>13. Tied(Pointers(rows) \cup {EndOf(c)}, Live \cup {c})
  BY <1>10, TiedAdded
<1>14. Tied(Pointers(rows'), Live')
  BY <1>8, <1>9, <1>12, <1>13
<1>15. AllTied'
  BY <1>8, <1>10, <1>11, <1>14 DEF AllTied, HostsTyped
<1> QED BY <1>4, <1>8, <1>15

LEMMA RatingsAre == {Best, Told, Middle, FailCost, BreakCost} \subseteq Int /\ Told \in Int /\ Best \in Int /\ FailCost \in Int /\ BreakCost \in Int
BY HostsAssumption

LEMMA PingKeeps == HostsInv /\ GotPing => HostsInv'
<1> SUFFICES ASSUME HostsInv, GotPing PROVE HostsInv'
  OBVIOUS
<1>1. PICK ip \in Hosts \cup Own, q \in 1 .. Len(queues) :
        /\ rows' = AddToNetq(rows, queues, ip, 1, Told, FALSE)
        /\ known' = known \cup (IF May(ip, queues) THEN {ip} ELSE {})
  BY DEF GotPing
<1>2. g_new_net' = g_new_net /\ queues' = queues /\ passedOver' = passedOver
  BY DEF GotPing
<1>3. rows \in Seq(HostRow) /\ Single(rows) /\ ip \in Address /\ ip \in Place \cup {NoIp}
  BY DEF HostsInv, AllTied, HostsTyped, Address, Place
<1>4. 1 \in {Incoming, 1} /\ 1 # Incoming
  BY DEF Incoming
<1> DEFINE u == AddToNetq(rows, queues, ip, 1, Told, FALSE)
<1>9. /\ u \in Seq(HostRow) /\ Single(u) /\ Pointers(u) = Pointers(rows)
      /\ \A h : HasRow(rows, h) => HasRow(u, h)
      /\ May(ip, queues) => HasRow(u, ip)
  BY <1>3, <1>4, RatingsAre, AddToNetqKeeps
<1>5. /\ rows' \in Seq(HostRow) /\ Single(rows') /\ Pointers(rows') = Pointers(rows)
      /\ \A h : HasRow(rows, h) => HasRow(rows', h)
      /\ May(ip, queues) => HasRow(rows', ip)
  BY <1>1, <1>9, Zenon
<1>6. Live' = Live
  BY <1>2 DEF Live
<1>7. AllTied'
  BY <1>2, <1>5, <1>6 DEF HostsInv, AllTied, HostsTyped
<1>8. KnownKept'
  BY <1>1, <1>2, <1>3, <1>5 DEF HostsInv, KnownKept
<1> QED BY <1>7, <1>8 DEF HostsInv

LEMMA AcceptKeeps == HostsInv /\ Accept => HostsInv'
<1> SUFFICES ASSUME HostsInv, Accept PROVE HostsInv'
  OBVIOUS
<1>1. PICK ip \in Hosts :
        /\ g_new_net' = Append(g_new_net, New(ip, Incoming))
        /\ rows' = <<Row(ip, Incoming, Best, New(ip, Incoming).id)>> \o rows
  BY DEF Accept
<1>2. CanConnect /\ queues' = queues /\ passedOver' = passedOver /\ known' = known
  BY DEF Accept
<1>3. AllTied /\ rows \in Seq(HostRow) /\ Single(rows) /\ ip \in Place
  BY DEF HostsInv, AllTied, HostsTyped, Address, Place
<1>4. AllTied' /\ \A h : HasRow(rows, h) => HasRow(rows', h)
  BY <1>1, <1>2, <1>3, RatingsAre, ConnectionAdded
<1> QED BY <1>2, <1>4 DEF HostsInv, KnownKept

\* A row that has no connection gets a new one.
LEMMA ConnectionGiven ==
  ASSUME AllTied, CanConnect, NEW x \in 1 .. Len(rows), rows[x].con = NoCon,
         g_new_net' = Append(g_new_net, New(rows[x].host, 1)), queues' = queues,
         rows' = [rows EXCEPT ![x].con = New(rows[x].host, 1).id]
  PROVE  AllTied' /\ \A ip : HasRow(rows, ip) => HasRow(rows', ip)
<1> DEFINE c == New(rows[x].host, 1)  r == [rows[x] EXCEPT !.con = c.id]  u == [rows EXCEPT ![x] = r]
<1>1. /\ rows \in Seq(HostRow) /\ Single(rows) /\ g_new_net \in Seq(Link) /\ queues \in Seq(Link)
      /\ Apart(g_new_net, queues) /\ Tied(Pointers(rows), Live)
  BY DEF AllTied, HostsTyped
<1>2. rows[x] \in HostRow
  BY <1>1
<1>3. rows[x].host \in Place /\ rows[x].port = 1
  BY <1>2 DEF HostRow
<1>4. /\ c \in Link /\ c.host = rows[x].host /\ c.port = 1 /\ c.id # NoCon
      /\ Fresh(c, g_new_net, queues) /\ \A p \in Pointers(rows) : p.id # c.id
  <2>1. 1 \in {Incoming, 1}
    OBVIOUS
  <2> QED BY <1>3, <2>1, NewIs
<1>5. g_new_net' = Append(g_new_net, c) /\ rows' = u
  BY <1>1
<1> HIDE DEF c
<1>6. r \in HostRow /\ r.con = c.id /\ r.host = rows[x].host /\ r.port = rows[x].port
  <2>1. c.id \in 0 .. MaxCons
    BY <1>4 DEF Link
  <2> QED BY <1>2, <1>4, <2>1 DEF HostRow
<1>7. Changed(rows, u, x, r)
  BY DEF Changed
<1> HIDE DEF r, u
<1>8. PointsAlone(rows, x, r)
  <2> SUFFICES ASSUME NEW y \in 1 .. Len(rows), rows[y].con = r.con PROVE FALSE
    BY DEF PointsAlone, Unpointed
  <2>1. rows[y].con # NoCon
    BY <1>4, <1>6
  <2>2. Pointer(rows[y]) \in Pointers(rows) /\ Pointer(rows[y]).id = rows[y].con
    BY <1>1, <2>1, PointersOf
  <2> QED BY <1>4, <1>6, <2>2
<1>9. /\ u \in Seq(HostRow) /\ Single(u)
      /\ Pointers(u) = (Pointers(rows) \ PointerSet(rows[x])) \cup PointerSet(r)
      /\ \A ip : HasRow(rows, ip) => HasRow(u, ip) \/ (rows[x].host = ip /\ rows[x].port # Incoming)
      /\ r.port # Incoming => HasRow(u, r.host)
  BY <1>1, <1>6, <1>7, <1>8, RowChanged
<1>10. PointerSet(rows[x]) = {} /\ PointerSet(r) = {EndOf(c)}
  BY <1>3, <1>4, <1>6 DEF PointerSet, Pointer, EndOf
<1>11. Pointers(u) = Pointers(rows) \cup {EndOf(c)}
  BY <1>9, <1>10
<1>12. g_new_net' \in Seq(Link) /\ Apart(g_new_net', queues) /\ Range(g_new_net') = Range(g_new_net) \cup {c}
  BY <1>1, <1>4, <1>5, LinkAdded
<1>13. Live' = Live \cup {c}
  BY <1>12 DEF Live
<1>17. Tied(Pointers(rows) \cup {EndOf(c)}, Live \cup {c})
  BY <1>1, TiedAdded
<1>14. Tied(Pointers(u), Live')
  BY <1>11, <1>13, <1>17
<1>15. AllTied'
  BY <1>1, <1>5, <1>9, <1>12, <1>14 DEF AllTied, HostsTyped
<1>16. \A ip : HasRow(rows, ip) => HasRow(rows', ip)
  BY <1>5, <1>6, <1>9
<1> QED BY <1>15, <1>16

LEMMA AskedKeeps == HostsInv /\ ConnectToHostIfOK => HostsInv'
<1> SUFFICES ASSUME HostsInv, ConnectToHostIfOK PROVE HostsInv'
  OBVIOUS
<1> DEFINE of(ip) == {x \in 1 .. Len(rows) : rows[x].host = ip}
<1>1. PICK ip \in Hosts \cup Own :
        /\ \A x \in of(ip) : rows[x].con = NoCon
        /\ g_new_net' = Append(g_new_net, New(ip, 1))
        /\ rows' = IF of(ip) = {} THEN <<Row(ip, 1, Told, New(ip, 1).id)>> \o rows
                   ELSE [rows EXCEPT ![Min(of(ip))].con = New(ip, 1).id]
  BY Zenon DEF ConnectToHostIfOK
<1>2. CanConnect /\ queues' = queues /\ passedOver' = passedOver /\ known' = known
  BY DEF ConnectToHostIfOK
<1>3. AllTied /\ rows \in Seq(HostRow) /\ Single(rows) /\ ip \in Place /\ 1 \in {Incoming, 1}
  BY DEF HostsInv, AllTied, HostsTyped, Address, Place
<1>4. AllTied' /\ \A h : HasRow(rows, h) => HasRow(rows', h)
  <2>1. CASE of(ip) = {}
    BY <1>1, <1>2, <1>3, <2>1, RatingsAre, ConnectionAdded
  <2>2. CASE of(ip) # {}
    <3>1. of(ip) \in SUBSET Nat
      OBVIOUS
    <3>2. Min(of(ip)) \in of(ip)
      <4> HIDE DEF of
      <4> QED BY <2>2, <3>1, MinIs
    <3>3. PICK x \in 1 .. Len(rows) : x = Min(of(ip)) /\ rows[x].host = ip /\ rows[x].con = NoCon
      BY <1>1, <3>2
    <3> HIDE DEF of
    <3>4. rows' = [rows EXCEPT ![x].con = New(rows[x].host, 1).id]
      BY <1>1, <2>2, <3>3, Zenon
    <3> QED BY <1>1, <1>2, <1>3, <3>3, <3>4, ConnectionGiven
  <2> QED BY <2>1, <2>2
<1> QED BY <1>2, <1>4 DEF HostsInv, KnownKept

\* The row at x, which has no connection, is taken away and put ahead with a new connection.
LEMMA ConnectionMoved ==
  ASSUME HostsInv, NEW x \in 1 .. Len(rows), rows[x].con = NoCon, NEW host \in Place,
         NEW port \in {Incoming, 1}, NEW rating \in Int,
         AddConnection(RemoveAt(rows, x), host, port, rating), queues' = queues, known' = known,
         ~passedOver' => ~passedOver /\ host = rows[x].host /\ port = rows[x].port
  PROVE  HostsInv'
<1> DEFINE list == RemoveAt(rows, x)
<1>1. AllTied /\ rows \in Seq(HostRow) /\ Single(rows)
  BY DEF HostsInv, AllTied, HostsTyped
<1>2. /\ list \in Seq(HostRow) /\ Single(list) /\ Pointers(list) = Pointers(rows) \ PointerSet(rows[x])
      /\ \A ip : HasRow(rows, ip) => HasRow(list, ip) \/ (rows[x].host = ip /\ rows[x].port # Incoming)
  BY <1>1, RowRemoved
<1>3. /\ CanConnect /\ g_new_net' = Append(g_new_net, New(host, port))
      /\ rows' = <<Row(host, port, rating, New(host, port).id)>> \o list
  BY DEF AddConnection
<1> HIDE DEF list
<1>4. Pointers(list) = Pointers(rows)
  BY <1>2 DEF PointerSet
<1>5. /\ AllTied' /\ \A ip : HasRow(list, ip) => HasRow(rows', ip)
      /\ port # Incoming => HasRow(rows', host)
  BY <1>1, <1>2, <1>3, <1>4, ConnectionAdded
<1>6. KnownKept'
  <2>1. known' \subseteq Address /\ (passedOver \/ \A ip \in known' : HasRow(rows, ip))
    BY DEF HostsInv, KnownKept
  <2>2. CASE passedOver'
    BY <2>1, <2>2 DEF KnownKept
  <2>3. CASE ~passedOver'
    BY <1>2, <1>5, <2>1, <2>3 DEF KnownKept
  <2> QED BY <2>2, <2>3
<1> QED BY <1>5, <1>6 DEF HostsInv

LEMMA LookedIs ==
  ASSUME AllTied, NEW x \in 1 .. Len(rows)
  PROVE  Looked(x) \in 1 .. Len(rows)
<1>1. rows \in Seq(HostRow) /\ Len(rows) \in Nat
  BY DEF AllTied, HostsTyped
<1>2. LookedAtAfter(x) \subseteq 1 .. Len(rows)
  BY <1>1 DEF LookedAtAfter
<1>3. IsFiniteSet(LookedAtAfter(x)) /\ LookedAtAfter(x) \in SUBSET Int
  <2>1. IsFiniteSet(1 .. Len(rows))
    BY <1>1, FS_Interval
  <2> QED BY <1>1, <1>2, <2>1, FS_Subset
<1>4. LookedAtAfter(x) # {} => Max(LookedAtAfter(x)) \in LookedAtAfter(x)
  BY <1>3, MaxIs
<1> QED BY <1>2, <1>4 DEF Looked

LEMMA ChosenIs ==
  ASSUME AllTied, NEW x \in Chosen
  PROVE  x \in 1 .. Len(rows) /\ rows[x].con = NoCon
<1> DEFINE eligible == {y \in 1 .. Len(rows) : Eligible(y)}
           best == {y \in eligible : \A z \in eligible : rows[z].rat <= rows[y].rat}
<1>1. Chosen = IF best = {} THEN {} ELSE {Min(best)}
  BY DEF Chosen
<1>2. best \in SUBSET Nat /\ best \subseteq eligible
  OBVIOUS
<1>3. x \in best
  <2> HIDE DEF best
  <2> QED BY <1>1, <1>2, MinIs
<1>4. x \in 1 .. Len(rows) /\ Eligible(x)
  BY <1>3
<1> QED BY <1>4, Zenon DEF Eligible

LEMMA KeepUpKeeps == HostsInv /\ KeepUp => HostsInv'
<1> SUFFICES ASSUME HostsInv, KeepUp PROVE HostsInv'
  OBVIOUS
<1>1. PICK x \in Chosen :
        /\ AddConnection(RemoveAt(rows, x), rows[Looked(x)].host, rows[Looked(x)].port, rows[x].rat)
        /\ passedOver' = (passedOver \/ Looked(x) # x)
  BY DEF KeepUp
<1>2. queues' = queues /\ known' = known
  BY DEF KeepUp
<1>3. AllTied /\ rows \in Seq(HostRow)
  BY DEF HostsInv, AllTied, HostsTyped
<1>4. x \in 1 .. Len(rows) /\ rows[x].con = NoCon
  BY <1>3, ChosenIs
<1>5. Looked(x) \in 1 .. Len(rows)
  BY <1>3, <1>4, LookedIs
<1>6. rows[Looked(x)].host \in Place /\ rows[Looked(x)].port \in {Incoming, 1} /\ rows[x].rat \in Int
  <2>1. rows[Looked(x)] \in HostRow /\ rows[x] \in HostRow
    BY <1>3, <1>4, <1>5
  <2> QED BY <2>1 DEF HostRow
<1>7. ~passedOver' => ~passedOver /\ Looked(x) = x
  BY <1>1
<1> QED BY <1>1, <1>2, <1>4, <1>6, <1>7, ConnectionMoved

LEMMA AddHostKeeps == HostsInv /\ AddHost => HostsInv'
<1> SUFFICES ASSUME HostsInv, AddHost PROVE HostsInv'
  OBVIOUS
<1>1. PICK host \in Hosts \cup DOMAIN Resolves : AddConnection(rows, host, 1, 1)
  BY DEF AddHost
<1>2. queues' = queues /\ known' = known /\ passedOver' = passedOver
  BY DEF AddHost
<1>3. AllTied /\ rows \in Seq(HostRow) /\ Single(rows) /\ host \in Place /\ 1 \in {Incoming, 1} /\ 1 \in Int
  BY DEF HostsInv, AllTied, HostsTyped, Address, Place
<1>4. AllTied' /\ \A ip : HasRow(rows, ip) => HasRow(rows', ip)
  BY <1>1, <1>2, <1>3, ConnectionAdded DEF AddConnection
<1> QED BY <1>2, <1>4 DEF HostsInv, KnownKept

LEMMA ConnectRowKeeps == HostsInv /\ ConnectRow => HostsInv'
<1> SUFFICES ASSUME HostsInv, ConnectRow PROVE HostsInv'
  OBVIOUS
<1>1. PICK x \in 1 .. Len(rows) :
        rows[x].con = NoCon /\ AddConnection(RemoveAt(rows, x), rows[x].host, rows[x].port, rows[x].rat)
  BY DEF ConnectRow
<1>2. queues' = queues /\ known' = known /\ passedOver' = passedOver
  BY DEF ConnectRow
<1>3. rows[x] \in HostRow
  BY DEF HostsInv, AllTied, HostsTyped
<1>4. rows[x].host \in Place /\ rows[x].port \in {Incoming, 1} /\ rows[x].rat \in Int
  BY <1>3 DEF HostRow
<1> QED BY <1>1, <1>2, <1>4, ConnectionMoved

\* What is left when a connection of either list is gone.
Gone(c) == Live' = Live \ {c} /\ queues' \in Seq(Link) /\ g_new_net' \in Seq(Link) /\ Apart(g_new_net', queues')

LEMMA MadeIsGone ==
  ASSUME AllTied, NEW i \in 1 .. Len(g_new_net), g_new_net' = RemoveAt(g_new_net, i), queues' = queues
  PROVE  g_new_net[i] \in Live /\ Gone(g_new_net[i])
<1>1. g_new_net \in Seq(Link) /\ queues \in Seq(Link) /\ Apart(g_new_net, queues)
  BY DEF AllTied, HostsTyped
<1> DEFINE u == RemoveAt(g_new_net, i)  c == g_new_net[i]
<1>2. u \in Seq(Link) /\ Apart(u, queues) /\ Range(u) = Range(g_new_net) \ {c} /\ c \notin Range(queues)
  BY <1>1, LinkRemoved
<1> HIDE DEF u
<1>3. g_new_net' = u
  BY DEF u
<1>4. Live' = Live \ {c}
  BY <1>2, <1>3 DEF Live
<1> QED BY <1>1, <1>2, <1>3, <1>4, LiveIs DEF Gone

LEMMA QueueIsGone ==
  ASSUME AllTied, NEW i \in 1 .. Len(queues), queues' = RemoveAt(queues, i), g_new_net' = g_new_net
  PROVE  queues[i] \in Live /\ Gone(queues[i])
<1>1. g_new_net \in Seq(Link) /\ queues \in Seq(Link) /\ Apart(queues, g_new_net)
  BY ApartTurned DEF AllTied, HostsTyped
<1> DEFINE u == RemoveAt(queues, i)  c == queues[i]
<1>2. u \in Seq(Link) /\ Apart(u, g_new_net) /\ Range(u) = Range(queues) \ {c} /\ c \notin Range(g_new_net)
  BY <1>1, LinkRemoved
<1> HIDE DEF u
<1>3. queues' = u /\ Apart(g_new_net, u)
  BY <1>2, ApartTurned DEF u
<1>4. Live' = Live \ {c}
  BY <1>2, <1>3 DEF Live
<1> QED BY <1>1, <1>2, <1>3, <1>4, LiveIs DEF Gone

\* The row of a connection, if it has one.
LEMMA RowOfIs ==
  ASSUME AllTied, NEW c \in Live
  PROVE  \/ RowOf(c) = {} /\ \A p \in Pointers(rows) : p.id # c.id
         \/ /\ RowOf(c) = {Min(RowOf(c))} /\ Min(RowOf(c)) \in 1 .. Len(rows)
            /\ rows[Min(RowOf(c))].con = c.id /\ c.id # NoCon
            /\ Pointer(rows[Min(RowOf(c))]) = EndOf(c)
            /\ PointerSet(rows[Min(RowOf(c))]) = {EndOf(c)}
<1>1. rows \in Seq(HostRow) /\ Single(rows)
  BY DEF AllTied, HostsTyped
<1>2. c.id # NoCon
  BY LiveIs DEF Link, NoCon
<1>3. CASE RowOf(c) = {}
  <2>1. ASSUME NEW p \in Pointers(rows), p.id = c.id PROVE FALSE
    <3>1. PICK x \in 1 .. Len(rows) : p \in PointerSet(rows[x])
      BY DEF Pointers
    <3>2. rows[x].con = c.id
      BY <2>1, <3>1 DEF PointerSet, Pointer
    <3> QED BY <1>3, <3>2 DEF RowOf
  <2> QED BY <1>3, <2>1
<1>4. CASE RowOf(c) # {}
  <2> DEFINE a == Min(RowOf(c))
  <2>1. RowOf(c) \in SUBSET Nat
    BY DEF RowOf
  <2>2. a \in RowOf(c)
    BY <1>4, <2>1, MinIs
  <2>3. a \in 1 .. Len(rows) /\ rows[a].con = c.id
    BY <2>2 DEF RowOf
  <2> HIDE DEF a
  <2>4. \A x \in RowOf(c) : x = a
    BY <1>2, <2>3 DEF RowOf, Single, AllTied
  <2>5. Pointer(rows[a]) \in Pointers(rows) /\ Pointer(rows[a]).id = c.id
    BY <1>1, <1>2, <2>3, PointersOf
  <2>6. PICK d \in Live : Pointer(rows[a]) = EndOf(d) /\ d.id = c.id
    BY <2>5, LiveIs
  <2>7. d = c
    BY <2>6, LiveIs
  <2>8. PointerSet(rows[a]) = {EndOf(c)}
    BY <1>2, <2>3, <2>6, <2>7 DEF PointerSet
  <2>9. RowOf(c) = {a}
    BY <2>2, <2>4
  <2> QED BY <1>2, <2>3, <2>6, <2>7, <2>8, <2>9 DEF a
<1> QED BY <1>3, <1>4

\* A connection is gone and its row, too.
LEMMA RowGone ==
  ASSUME AllTied, NEW c \in Live
  PROVE  LET t == IF RowOf(c) = {} THEN rows ELSE RemoveAt(rows, Min(RowOf(c)))
         IN  /\ t \in Seq(HostRow) /\ Single(t) /\ Tied(Pointers(t), Live \ {c})
             /\ \A ip \in Address : HasRow(rows, ip) =>
                    HasRow(t, ip) \/ (Remote(c.host) = ip /\ c.port # Incoming /\ RowOf(c) # {})
<1> DEFINE a == Min(RowOf(c))  t == IF RowOf(c) = {} THEN rows ELSE RemoveAt(rows, a)
<1>1. rows \in Seq(HostRow) /\ Single(rows) /\ Tied(Pointers(rows), Live)
  BY DEF AllTied, HostsTyped
<1>2. Tied({p \in Pointers(rows) : p.id # c.id}, Live \ {c})
  BY <1>1, LiveIs, TiedRemoved
<1>3. CASE RowOf(c) = {} /\ \A p \in Pointers(rows) : p.id # c.id
  <2>1. Pointers(rows) = {p \in Pointers(rows) : p.id # c.id}
    BY <1>3
  <2>2. Tied(Pointers(rows), Live \ {c})
    BY <1>2, <2>1, Zenon
  <2> QED BY <1>1, <1>3, <2>2
<1>4. CASE /\ RowOf(c) = {a} /\ a \in 1 .. Len(rows) /\ rows[a].con = c.id /\ c.id # NoCon
           /\ Pointer(rows[a]) = EndOf(c)
  <2> DEFINE u == RemoveAt(rows, a)
  <2>1. /\ u \in Seq(HostRow) /\ Single(u) /\ Pointers(u) = Pointers(rows) \ PointerSet(rows[a])
        /\ \A ip : HasRow(rows, ip) => HasRow(u, ip) \/ (rows[a].host = ip /\ rows[a].port # Incoming)
    BY <1>1, <1>4, RowRemoved
  <2>2. Pointers(rows) \ PointerSet(rows[a]) = {p \in Pointers(rows) : p.id # rows[a].con}
    BY <1>1, <1>4, OthersPoint
  <2>3. Pointers(u) = {p \in Pointers(rows) : p.id # c.id}
    BY <1>4, <2>1, <2>2, Zenon
  <2>4. Tied(Pointers(u), Live \ {c})
    BY <1>2, <2>3, Zenon
  <2>5. rows[a].port = c.port /\ Remote(rows[a].host) = Remote(c.host)
    BY <1>4 DEF Pointer, EndOf
  <2>6. t = u
    BY <1>4
  <2> HIDE DEF u, t
  <2>7. \A ip \in Address : HasRow(rows, ip) =>
            HasRow(u, ip) \/ (Remote(c.host) = ip /\ c.port # Incoming /\ RowOf(c) # {})
    BY <1>4, <2>1, <2>5, AddressIsNoName
  <2> QED BY <2>1, <2>4, <2>6, <2>7 DEF t
<1> QED BY <1>3, <1>4, RowOfIs

LEMMA RefusedKeeps == HostsInv /\ Refused => HostsInv'
<1> SUFFICES ASSUME HostsInv, Refused PROVE HostsInv'
  OBVIOUS
<1>1. PICK i \in 1 .. Len(g_new_net) :
        LET c == g_new_net[i]
        IN  /\ g_new_net' = RemoveAt(g_new_net, i)
            /\ rows' = IF RowOf(c) = {} THEN rows ELSE RemoveAt(rows, Min(RowOf(c)))
            /\ known' = known \ {Remote(c.host)}
  BY DEF Refused
<1> DEFINE c == g_new_net[i]
<1>2. queues' = queues /\ passedOver' = passedOver /\ AllTied
  BY DEF Refused, HostsInv
<1>3. c \in Live /\ Gone(c)
  BY <1>1, <1>2, MadeIsGone
<1> HIDE DEF c
<1> DEFINE t == IF RowOf(c) = {} THEN rows ELSE RemoveAt(rows, Min(RowOf(c)))
<1>4. /\ t \in Seq(HostRow) /\ Single(t) /\ Tied(Pointers(t), Live \ {c})
      /\ \A ip \in Address : HasRow(rows, ip) =>
             HasRow(t, ip) \/ (Remote(c.host) = ip /\ c.port # Incoming /\ RowOf(c) # {})
  BY <1>2, <1>3, RowGone
<1>5. rows' = t /\ known' = known \ {Remote(c.host)}
  BY <1>1 DEF c
<1> HIDE DEF t
<1>6. AllTied'
  BY <1>3, <1>4, <1>5 DEF AllTied, HostsTyped, Gone
<1>7. KnownKept'
  BY <1>2, <1>4, <1>5 DEF HostsInv, KnownKept
<1> QED BY <1>6, <1>7 DEF HostsInv

LEMMA FailedRatingIs ==
  ASSUME AllTied, NEW a \in 1 .. Len(rows)
  PROVE  FailedRating(a) \in Int
<1> DEFINE rest == RemoveAt(rows, a)  D == (1 .. Len(rest)) \ {a}
           others == {rest[i].rat : i \in D}
<1>1. rows \in Seq(HostRow) /\ rest \in Seq(HostRow) /\ Len(rest) \in Nat
  BY RemovedIs DEF AllTied, HostsTyped
<1> HIDE DEF rest
<1>2. others \in SUBSET Int
  <2>1. \A i \in D : rest[i] \in HostRow
    BY <1>1
  <2> QED BY <2>1 DEF HostRow
<1>3. IsFiniteSet(D)
  <2>1. IsFiniteSet(1 .. Len(rest))
    BY <1>1, FS_Interval
  <2> QED BY <2>1, FS_Subset
<1>4. IsFiniteSet(others)
  <2> DEFINE g == [i \in D |-> rest[i].rat]
  <2>1. g \in Surjection(D, others)
    BY DEF Surjection
  <2> HIDE DEF g, D, others
  <2> QED BY <1>3, <2>1, FS_Surjection
<1>5. Max(others \cup {0}) \in Int
  <2>1. IsFiniteSet(others \cup {0})
    BY <1>4, FS_AddElement
  <2> HIDE DEF others
  <2>2. (others \cup {0}) \in SUBSET Int /\ others \cup {0} # {}
    BY <1>2
  <2> QED BY <2>1, <2>2, MaxIs
<1>6. rows[a].rat - FailCost \in Int
  <2>1. rows[a] \in HostRow
    BY <1>1
  <2> QED BY <2>1, RatingsAre DEF HostRow
<1> DEFINE irat == IF queues # <<>> THEN rows[a].rat - FailCost ELSE Max(others \cup {0}) - 1
<1>7. FailedRating(a) = IF irat < 0 THEN 0 ELSE irat
  BY DEF FailedRating, rest
<1>8. irat \in Int
  <2> HIDE DEF others
  <2> QED BY <1>5, <1>6
<1> HIDE DEF irat
<1> QED BY <1>7, <1>8

LEMMA FailsKeeps == HostsInv /\ Fails => HostsInv'
<1> SUFFICES ASSUME HostsInv, Fails PROVE HostsInv'
  OBVIOUS
<1> DEFINE Again(c) == LET a == Min(RowOf(c))
                       IN  AddToNetq(RemoveAt(rows, a), queues, Remote(c.host), c.port, FailedRating(a), TRUE)
<1>1. PICK i \in 1 .. Len(g_new_net) :
        LET c == g_new_net[i]
        IN  /\ g_new_net' = RemoveAt(g_new_net, i)
            /\ rows' = IF RowOf(c) = {} THEN rows
                       ELSE IF c.port = Incoming THEN RemoveAt(rows, Min(RowOf(c))) ELSE Again(c)
            /\ known' = IF May(Remote(c.host), queues) THEN known ELSE known \ {Remote(c.host)}
  BY DEF Fails
<1> DEFINE c == g_new_net[i]
<1>2. queues' = queues /\ passedOver' = passedOver /\ AllTied
  BY DEF Fails, HostsInv
<1>3. c \in Live /\ Gone(c)
  BY <1>1, <1>2, MadeIsGone
<1>4. c \in Link
  BY <1>2, <1>3, LiveIs
<1> DEFINE t == IF RowOf(c) = {} THEN rows ELSE RemoveAt(rows, Min(RowOf(c)))
<1>5. /\ rows' = IF RowOf(c) # {} /\ c.port # Incoming THEN Again(c) ELSE t
      /\ known' = IF May(Remote(c.host), queues) THEN known ELSE known \ {Remote(c.host)}
  BY <1>1
<1> HIDE DEF c
<1>6. /\ t \in Seq(HostRow) /\ Single(t) /\ Tied(Pointers(t), Live \ {c})
      /\ \A ip \in Address : HasRow(rows, ip) =>
             HasRow(t, ip) \/ (Remote(c.host) = ip /\ c.port # Incoming /\ RowOf(c) # {})
  BY <1>2, <1>3, RowGone
<1>7. /\ rows' \in Seq(HostRow) /\ Single(rows') /\ Pointers(rows') = Pointers(t)
      /\ \A h : HasRow(t, h) => HasRow(rows', h)
      /\ RowOf(c) # {} /\ c.port # Incoming /\ May(Remote(c.host), queues) => HasRow(rows', Remote(c.host))
  <2>1. CASE RowOf(c) # {} /\ c.port # Incoming
    <3> DEFINE a == Min(RowOf(c))
               u == AddToNetq(t, queues, Remote(c.host), c.port, FailedRating(a), TRUE)
    <3>1. a \in 1 .. Len(rows)
      BY <1>2, <1>3, <2>1, RowOfIs
    <3>2. FailedRating(a) \in Int
      BY <1>2, <3>1, FailedRatingIs
    <3>3. Remote(c.host) \in Place \cup {NoIp} /\ c.port \in {Incoming, 1}
      BY <1>4, RemoteIs DEF Link, Place
    <3>4. rows' = u
      BY <1>5, <2>1
    <3> DEFINE ip == Remote(c.host)  n == FailedRating(a)
    <3>6. u = AddToNetq(t, queues, ip, c.port, n, TRUE) /\ n \in Int /\ ip \in Place \cup {NoIp}
      BY <3>2, <3>3
    <3>7. t \in Seq(HostRow) /\ Single(t)
      BY <1>6
    <3> DEFINE w == AddToNetq(t, queues, ip, 1, n, TRUE)
    <3>10. c.port = 1 /\ 1 \in {Incoming, 1} /\ 1 # Incoming
      BY <2>1, <3>3 DEF Incoming
    <3> HIDE DEF t, a, u, n, ip
    <3>9. /\ w \in Seq(HostRow) /\ Single(w) /\ Pointers(w) = Pointers(t)
          /\ \A h : HasRow(t, h) => HasRow(w, h)
          /\ May(ip, queues) => HasRow(w, ip)
      BY <3>6, <3>7, <3>10, AddToNetqKeeps
    <3> HIDE DEF w
    <3>8. /\ u \in Seq(HostRow) /\ Single(u) /\ Pointers(u) = Pointers(t)
          /\ \A h : HasRow(t, h) => HasRow(u, h)
          /\ May(ip, queues) => HasRow(u, ip)
      BY <3>6, <3>9, <3>10, Zenon DEF w
    <3>5. /\ u \in Seq(HostRow) /\ Single(u) /\ Pointers(u) = Pointers(t)
          /\ \A h : HasRow(t, h) => HasRow(u, h)
          /\ May(Remote(c.host), queues) => HasRow(u, Remote(c.host))
      BY <3>8 DEF ip
    <3> QED BY <3>4, <3>5, Zenon
  <2>2. CASE ~(RowOf(c) # {} /\ c.port # Incoming)
    <3>1. rows' = t
      BY <1>5, <2>2
    <3> HIDE DEF t
    <3> QED BY <1>6, <2>2, <3>1
  <2> QED BY <2>1, <2>2
<1> HIDE DEF t
<1>8. AllTied'
  BY <1>3, <1>6, <1>7 DEF AllTied, HostsTyped, Gone
<1>9. KnownKept'
  <2>1. known \subseteq Address /\ known' \subseteq known
    BY <1>5 DEF HostsInv, KnownKept
  <2>2. SUFFICES ASSUME ~passedOver', NEW ip \in known' PROVE HasRow(rows', ip)
    BY <2>1 DEF KnownKept
  <2>3. HasRow(rows, ip) /\ ip \in Address
    BY <1>2, <2>1, <2>2 DEF HostsInv, KnownKept
  <2>4. CASE HasRow(t, ip)
    BY <1>7, <2>4
  <2>5. CASE Remote(c.host) = ip /\ c.port # Incoming /\ RowOf(c) # {}
    BY <1>5, <1>7, <2>2, <2>5
  <2> QED BY <1>6, <2>3, <2>4, <2>5
<1> QED BY <1>8, <1>9 DEF HostsInv

LEMMA ConnectedKeeps == HostsInv /\ Connected => HostsInv'
<1> SUFFICES ASSUME HostsInv, Connected PROVE HostsInv'
  OBVIOUS
<1>1. PICK i \in 1 .. Len(g_new_net), interface \in Own :
        LET c == g_new_net[i]
        IN  /\ Remote(c.host) # NoIp
            /\ g_new_net' = RemoveAt(g_new_net, i)
            /\ queues' = Append(queues, [c EXCEPT !.interface = interface])
            /\ rows' = [x \in 1 .. Len(rows) |->
                           IF x \notin RowOf(c) THEN rows[x]
                           ELSE Row(Remote(c.host), c.port, IF c.port = Incoming THEN rows[x].rat ELSE Best, c.id)]
  BY DEF Connected
<1> DEFINE c == g_new_net[i]  d == [c EXCEPT !.interface = interface]  made == RemoveAt(g_new_net, i)
<1>2. passedOver' = passedOver /\ known' = known /\ AllTied
  BY DEF Connected, HostsInv
<1>3. /\ g_new_net \in Seq(Link) /\ queues \in Seq(Link) /\ Apart(g_new_net, queues)
      /\ rows \in Seq(HostRow) /\ Single(rows) /\ Tied(Pointers(rows), Live)
  BY <1>2 DEF AllTied, HostsTyped
<1>4. c \in Link /\ c \in Live
  BY <1>2, LiveIs
<1>5. d \in Link /\ d.id = c.id /\ EndOf(d) = EndOf(c) /\ d.open = c.open
  BY <1>4 DEF Link, EndOf
<1>6. made \in Seq(Link) /\ Apart(made, queues) /\ Range(made) = Range(g_new_net) \ {c} /\ c \notin Range(queues)
  BY <1>3, LinkRemoved
<1>7. /\ g_new_net' = made /\ queues' = Append(queues, d)
      /\ rows' = [x \in 1 .. Len(rows) |->
                     IF x \notin RowOf(c) THEN rows[x]
                     ELSE Row(Remote(c.host), c.port, IF c.port = Incoming THEN rows[x].rat ELSE Best, c.id)]
      /\ Remote(c.host) # NoIp
  BY <1>1
<1> HIDE DEF c, d, made
<1>8. Fresh(d, queues, made)
  <2>1. Range(made) = {made[j] : j \in 1 .. Len(made)} /\ Range(queues) = {queues[j] : j \in 1 .. Len(queues)}
    BY <1>3, <1>6, LinksOf
  <2>2. \A e \in Range(made) \cup Range(queues) : e.id # d.id
    <3> SUFFICES ASSUME NEW e \in Range(made) \cup Range(queues), e.id = d.id PROVE FALSE
      OBVIOUS
    <3>1. e \in Live /\ e # c
      BY <1>6 DEF Live
    <3> QED BY <1>2, <1>4, <1>5, <3>1, LiveIs
  <2> QED BY <2>1, <2>2 DEF Fresh
<1>9. queues' \in Seq(Link) /\ Apart(queues', made) /\ Range(queues') = Range(queues) \cup {d}
  <2>1. Apart(queues, made)
    BY <1>6, ApartTurned
  <2> DEFINE u == Append(queues, d)
  <2>2. u \in Seq(Link) /\ Apart(u, made) /\ Range(u) = Range(queues) \cup {d}
    BY <1>3, <1>5, <1>6, <1>8, <2>1, LinkAdded
  <2> HIDE DEF u
  <2>3. queues' = u
    BY <1>7 DEF u
  <2> QED BY <2>2, <2>3
<1>10. Live' = (Live \ {c}) \cup {d}
  BY <1>6, <1>7, <1>9 DEF Live
<1>11. Apart(g_new_net', queues')
  BY <1>7, <1>9, ApartTurned
<1>12. /\ rows' \in Seq(HostRow) /\ Single(rows') /\ Pointers(rows') = Pointers(rows)
       /\ \A ip \in Address : HasRow(rows, ip) => HasRow(rows', ip)
  <2>1. CASE RowOf(c) = {}
    <3>1. rows' = [x \in 1 .. Len(rows) |-> rows[x]]
      BY <1>7, <2>1
    <3>2. rows' = rows
      BY <1>3, <3>1
    <3> QED BY <1>3, <3>2
  <2>2. CASE RowOf(c) # {}
    <3> DEFINE a == Min(RowOf(c))
               r == Row(Remote(c.host), c.port, IF c.port = Incoming THEN rows[a].rat ELSE Best, c.id)
               u == [rows EXCEPT ![a] = r]
    <3>1. /\ RowOf(c) = {a} /\ a \in 1 .. Len(rows) /\ rows[a].con = c.id /\ c.id # NoCon
          /\ Pointer(rows[a]) = EndOf(c) /\ PointerSet(rows[a]) = {EndOf(c)}
      BY <1>2, <1>4, <2>2, RowOfIs
    <3> HIDE DEF a
    <3>2. rows[a] \in HostRow
      BY <1>3, <3>1
    <3>3. rows[a].port = c.port /\ Remote(rows[a].host) = Remote(c.host)
      BY <3>1 DEF Pointer, EndOf
    <3>4. Remote(c.host) \in Address
      BY <1>4, <1>7, RemoteIs DEF Link
    <3>5. r = [host |-> Remote(c.host), port |-> c.port,
               rat |-> IF c.port = Incoming THEN rows[a].rat ELSE Best, con |-> c.id]
      BY DEF Row
    <3>6. /\ r \in HostRow /\ r.con = c.id /\ r.host = Remote(c.host) /\ r.port = c.port
      <4>1. (IF c.port = Incoming THEN rows[a].rat ELSE Best) \in Int
        BY <3>2, RatingsAre DEF HostRow
      <4>2. c.id \in 0 .. MaxCons /\ c.port \in {Incoming, 1} /\ Remote(c.host) \in Place
        BY <1>4, <3>4 DEF Link, Place
      <4> QED BY <3>1, <3>5, <4>1, <4>2 DEF HostRow
    <3>7. rows' = u
      <4> DEFINE Renamed(x) == IF x \notin RowOf(c) THEN rows[x]
                            ELSE Row(Remote(c.host), c.port, IF c.port = Incoming THEN rows[x].rat ELSE Best, c.id)
      <4>1. \A x \in 1 .. Len(rows) : Renamed(x) = IF x = a THEN r ELSE rows[x]
        BY <3>1
      <4>2. rows' = [x \in 1 .. Len(rows) |-> Renamed(x)]
        BY <1>7
      <4>3. DOMAIN rows = 1 .. Len(rows)
        BY <1>3
      <4> HIDE DEF Renamed, r
      <4>4. u = [x \in 1 .. Len(rows) |-> IF x = a THEN r ELSE rows[x]]
        BY <4>3
      <4> HIDE DEF u
      <4> QED BY <4>1, <4>2, <4>4
    <3>8. Changed(rows, u, a, r)
      BY DEF Changed
    <3> HIDE DEF r, u
    <3>9. PointsAlone(rows, a, r)
      BY <3>1, <3>6 DEF PointsAlone
    <3>10. /\ u \in Seq(HostRow) /\ Single(u)
           /\ Pointers(u) = (Pointers(rows) \ PointerSet(rows[a])) \cup PointerSet(r)
           /\ \A ip : HasRow(rows, ip) => HasRow(u, ip) \/ (rows[a].host = ip /\ rows[a].port # Incoming)
           /\ r.port # Incoming => HasRow(u, r.host)
      BY <1>3, <3>1, <3>6, <3>8, <3>9, RowChanged
    <3>11. Remote(r.host) = Remote(c.host)
      BY <3>4, <3>6, AddressIsNoName
    <3>12. PointerSet(r) = {EndOf(c)}
      BY <3>1, <3>6, <3>11 DEF PointerSet, Pointer, EndOf
    <3>13. EndOf(c) \in Pointers(rows)
      BY <1>3, <3>1, PointersOf
    <3>14. Pointers(u) = Pointers(rows)
      BY <3>1, <3>10, <3>12, <3>13
    <3>15. \A ip \in Address : HasRow(rows, ip) => HasRow(u, ip)
      BY <3>3, <3>6, <3>10, AddressIsNoName
    <3> QED BY <3>7, <3>10, <3>14, <3>15
  <2> QED BY <2>1, <2>2
<1>13. Tied(Pointers(rows), Live')
  <2>1. \A p \in Pointers(rows) : p \in {EndOf(e) : e \in Live'}
    BY <1>3, <1>5, <1>10 DEF Tied
  <2>2. \A e \in Live' : e.open => \E p \in Pointers(rows) : p.id = e.id
    BY <1>3, <1>4, <1>5, <1>10 DEF Tied
  <2> QED BY <2>1, <2>2 DEF Tied
<1>14. AllTied'
  BY <1>6, <1>7, <1>9, <1>11, <1>12, <1>13 DEF AllTied, HostsTyped
<1>15. KnownKept'
  BY <1>2, <1>12 DEF HostsInv, KnownKept
<1> QED BY <1>14, <1>15 DEF HostsInv

LEMMA QueueEndsKeeps == HostsInv /\ QueueEnds => HostsInv'
<1> SUFFICES ASSUME HostsInv, QueueEnds PROVE HostsInv'
  OBVIOUS
<1> DEFINE Rated(row, idle) == IF idle THEN Clamped(row.rat - BreakCost) ELSE row.rat
           Parted(row, idle) == [row EXCEPT !.con = NoCon, !.rat = Rated(row, idle)]
<1>1. PICK q \in 1 .. Len(queues), idle \in BOOLEAN :
        /\ queues' = RemoveAt(queues, q)
        /\ rows' = IF RowOf(queues[q]) = {} THEN rows
                   ELSE LET x == Min(RowOf(queues[q]))
                        IN  IF rows[x].port = Incoming THEN RemoveAt(rows, x)
                            ELSE [rows EXCEPT ![x].con = NoCon,
                                              ![x].rat = IF idle THEN Clamped(@ - BreakCost) ELSE @]
  BY DEF QueueEnds
<1> DEFINE c == queues[q]  a == Min(RowOf(c))
<1>2. passedOver' = passedOver /\ known' = known /\ g_new_net' = g_new_net /\ AllTied
  BY DEF QueueEnds, HostsInv
<1>3. c \in Live /\ Gone(c)
  BY <1>1, <1>2, QueueIsGone
<1>4. rows \in Seq(HostRow) /\ Single(rows) /\ Tied(Pointers(rows), Live)
  BY <1>2 DEF AllTied, HostsTyped
<1>5. rows' = IF RowOf(c) = {} THEN rows
              ELSE IF rows[a].port = Incoming THEN RemoveAt(rows, a)
              ELSE [rows EXCEPT ![a].con = NoCon, ![a].rat = IF idle THEN Clamped(@ - BreakCost) ELSE @]
  BY <1>1
<1> HIDE DEF c
<1> DEFINE t == IF RowOf(c) = {} THEN rows ELSE RemoveAt(rows, a)
<1>6. /\ t \in Seq(HostRow) /\ Single(t) /\ Tied(Pointers(t), Live \ {c})
      /\ \A ip \in Address : HasRow(rows, ip) =>
             HasRow(t, ip) \/ (Remote(c.host) = ip /\ c.port # Incoming /\ RowOf(c) # {})
  BY <1>2, <1>3, RowGone
<1>7. /\ rows' \in Seq(HostRow) /\ Single(rows') /\ Tied(Pointers(rows'), Live \ {c})
      /\ \A ip \in Address : HasRow(rows, ip) => HasRow(rows', ip)
  <2>1. CASE RowOf(c) = {}
    BY <1>5, <1>6, <2>1
  <2>2. CASE RowOf(c) # {} /\ rows[a].port = Incoming
    <3>1. rows' = t
      BY <1>5, <2>2
    <3>2. c.port = Incoming
      BY <1>2, <1>3, <2>2, RowOfIs DEF Pointer, EndOf
    <3> HIDE DEF t
    <3> QED BY <1>6, <3>1, <3>2
  <2>3. CASE RowOf(c) # {} /\ rows[a].port # Incoming
    <3>1. /\ RowOf(c) = {a} /\ a \in 1 .. Len(rows) /\ rows[a].con = c.id /\ c.id # NoCon
          /\ PointerSet(rows[a]) = {EndOf(c)}
      BY <1>2, <1>3, <2>3, RowOfIs
    <3> HIDE DEF a
    <3>2. rows[a] \in HostRow
      BY <1>4, <3>1
    <3> DEFINE r == Parted(rows[a], idle)  u == [rows EXCEPT ![a] = r]
    <3>3. rows' = u
      BY <1>5, <2>3, <3>1
    <3>4. Rated(rows[a], idle) \in Int
      <4>1. rows[a].rat \in Int /\ rows[a].rat - BreakCost \in Int
        BY <3>2, RatingsAre DEF HostRow
      <4> QED BY <4>1, ClampedIs
    <3> HIDE DEF Rated
    <3>5. r \in HostRow /\ r.con = NoCon /\ r.host = rows[a].host /\ r.port = rows[a].port
      <4>1. NoCon \in 0 .. MaxCons
        BY HostsAssumption DEF NoCon
      <4> QED BY <2>3, <3>2, <3>4, <4>1 DEF HostRow
    <3>6. Changed(rows, u, a, r)
      BY DEF Changed
    <3> HIDE DEF r, u
    <3>7. PointsAlone(rows, a, r)
      BY <3>5 DEF PointsAlone, Unpointed
    <3>8. /\ u \in Seq(HostRow) /\ Single(u)
          /\ Pointers(u) = (Pointers(rows) \ PointerSet(rows[a])) \cup PointerSet(r)
          /\ \A ip : HasRow(rows, ip) => HasRow(u, ip) \/ (rows[a].host = ip /\ rows[a].port # Incoming)
          /\ r.port # Incoming => HasRow(u, r.host)
      BY <1>4, <3>1, <3>5, <3>6, <3>7, RowChanged
    <3>9. Pointers(u) = Pointers(t)
      <4>1. PointerSet(r) = {}
        BY <3>5 DEF PointerSet
      <4> DEFINE w == RemoveAt(rows, a)
      <4>2. Pointers(w) = Pointers(rows) \ PointerSet(rows[a])
        BY <1>4, <3>1, RowRemoved
      <4>3. t = w
        BY <2>3 DEF a
      <4> HIDE DEF t, w
      <4> QED BY <3>8, <4>1, <4>2, <4>3
    <3>10. \A ip : HasRow(rows, ip) => HasRow(u, ip)
      BY <2>3, <3>5, <3>8 DEF a
    <3> HIDE DEF t
    <3> QED BY <1>6, <3>3, <3>8, <3>9, <3>10
  <2> QED BY <2>1, <2>2, <2>3
<1> HIDE DEF t, a
<1>8. AllTied'
  BY <1>3, <1>7 DEF AllTied, HostsTyped, Gone
<1>9. KnownKept'
  BY <1>2, <1>7 DEF HostsInv, KnownKept
<1> QED BY <1>8, <1>9 DEF HostsInv

LEMMA ClosedIs ==
  ASSUME NEW s \in Seq(Link), NEW id
  PROVE  LET u == Closed(s, id)
         IN  /\ u \in Seq(Link) /\ Len(u) = Len(s)
             /\ \A i \in 1 .. Len(s) : /\ u[i].id = s[i].id /\ EndOf(u[i]) = EndOf(s[i])
                                       /\ u[i].open => s[i].open /\ s[i].id # id
<1> DEFINE u == Closed(s, id)
<1>1. u = [i \in 1 .. Len(s) |-> IF s[i].id = id THEN [s[i] EXCEPT !.open = FALSE] ELSE s[i]]
  BY DEF Closed
<1>2. \A i \in 1 .. Len(s) : s[i] \in Link
  OBVIOUS
<1>3. \A i \in 1 .. Len(s) : u[i] = IF s[i].id = id THEN [s[i] EXCEPT !.open = FALSE] ELSE s[i]
  BY <1>1
<1> HIDE DEF u
<1>4. ASSUME NEW i \in 1 .. Len(s)
      PROVE  /\ u[i] \in Link /\ u[i].id = s[i].id /\ EndOf(u[i]) = EndOf(s[i])
             /\ u[i].open => s[i].open /\ s[i].id # id
  <2>1. CASE s[i].id = id
    <3>1. u[i] = [s[i] EXCEPT !.open = FALSE] /\ s[i] \in Link
      BY <1>2, <1>3, <2>1
    <3>2. u[i] \in Link /\ u[i].id = s[i].id /\ u[i].host = s[i].host /\ u[i].port = s[i].port /\ ~u[i].open
      BY <3>1 DEF Link
    <3> QED BY <2>1, <3>2 DEF EndOf
  <2>2. CASE s[i].id # id
    BY <1>2, <1>3, <2>2
  <2> QED BY <2>1, <2>2
<1>5. u \in Seq(Link) /\ Len(u) = Len(s)
  BY <1>1, <1>4
<1> QED BY <1>4, <1>5 DEF u

LEMMA RemoveRowKeeps == HostsInv /\ RemoveRow => HostsInv'
<1> SUFFICES ASSUME HostsInv, RemoveRow PROVE HostsInv'
  OBVIOUS
<1>1. PICK x \in 1 .. Len(rows) :
        /\ rows' = RemoveAt(rows, x) /\ known' = known \ {rows[x].host}
        /\ g_new_net' = Closed(g_new_net, rows[x].con) /\ queues' = Closed(queues, rows[x].con)
  BY DEF RemoveRow
<1>2. passedOver' = passedOver /\ AllTied
  BY DEF RemoveRow, HostsInv
<1>3. /\ g_new_net \in Seq(Link) /\ queues \in Seq(Link) /\ Apart(g_new_net, queues)
      /\ rows \in Seq(HostRow) /\ Single(rows) /\ Tied(Pointers(rows), Live)
  BY <1>2 DEF AllTied, HostsTyped
<1> DEFINE id == rows[x].con  t == RemoveAt(rows, x)
           m == Closed(g_new_net, id)  n == Closed(queues, id)
<1>4. /\ m \in Seq(Link) /\ Len(m) = Len(g_new_net)
      /\ \A i \in 1 .. Len(g_new_net) : /\ m[i].id = g_new_net[i].id /\ EndOf(m[i]) = EndOf(g_new_net[i])
                                        /\ m[i].open => g_new_net[i].open /\ g_new_net[i].id # id
  BY <1>3, ClosedIs
<1>5. /\ n \in Seq(Link) /\ Len(n) = Len(queues)
      /\ \A i \in 1 .. Len(queues) : /\ n[i].id = queues[i].id /\ EndOf(n[i]) = EndOf(queues[i])
                                     /\ n[i].open => queues[i].open /\ queues[i].id # id
  BY <1>3, ClosedIs
<1>6. /\ t \in Seq(HostRow) /\ Single(t) /\ Pointers(t) = Pointers(rows) \ PointerSet(rows[x])
      /\ \A ip : HasRow(rows, ip) => HasRow(t, ip) \/ (rows[x].host = ip /\ rows[x].port # Incoming)
  BY <1>3, RowRemoved
<1>7. g_new_net' = m /\ queues' = n /\ rows' = t
  BY <1>1
<1> HIDE DEF m, n, t
<1>8. Apart(m, n)
  <2>1. /\ \A i, j \in 1 .. Len(g_new_net) : g_new_net[i].id = g_new_net[j].id => i = j
        /\ \A i, j \in 1 .. Len(queues) : queues[i].id = queues[j].id => i = j
        /\ \A i \in 1 .. Len(g_new_net), j \in 1 .. Len(queues) : g_new_net[i].id # queues[j].id
    BY <1>3 DEF Apart
  <2>2. Len(m) = Len(g_new_net) /\ \A i \in 1 .. Len(g_new_net) : m[i].id = g_new_net[i].id
    BY <1>4
  <2>3. Len(n) = Len(queues) /\ \A i \in 1 .. Len(queues) : n[i].id = queues[i].id
    BY <1>5
  <2>4. ASSUME NEW i \in 1 .. Len(m), NEW j \in 1 .. Len(m), m[i].id = m[j].id PROVE i = j
    BY <2>1, <2>2, <2>4
  <2>5. ASSUME NEW i \in 1 .. Len(n), NEW j \in 1 .. Len(n), n[i].id = n[j].id PROVE i = j
    BY <2>1, <2>3, <2>5
  <2>6. ASSUME NEW i \in 1 .. Len(m), NEW j \in 1 .. Len(n) PROVE m[i].id # n[j].id
    BY <2>1, <2>2, <2>3
  <2> QED BY <2>4, <2>5, <2>6 DEF Apart
<1>9. /\ Range(m) = {m[i] : i \in 1 .. Len(m)} /\ Range(n) = {n[i] : i \in 1 .. Len(n)}
      /\ Range(g_new_net) = {g_new_net[i] : i \in 1 .. Len(g_new_net)}
      /\ Range(queues) = {queues[i] : i \in 1 .. Len(queues)}
  BY <1>3, <1>4, <1>5, LinksOf
<1> DEFINE M == Range(m)  N == Range(n)  G == Range(g_new_net)  Q == Range(queues)
<1>a. Live = G \cup Q /\ Live' = M \cup N
  BY <1>7 DEF Live
<1> HIDE DEF M, N, G, Q
<1>b. /\ \A c \in G : \E d \in M : EndOf(d) = EndOf(c)
      /\ \A d \in M : \E c \in G : d.id = c.id /\ (d.open => c.open /\ c.id # id)
  <2>1. M = {m[i] : i \in 1 .. Len(m)} /\ G = {g_new_net[i] : i \in 1 .. Len(g_new_net)}
    BY <1>9 DEF M, G
  <2> QED BY <2>1, <1>4
<1>c. /\ \A c \in Q : \E d \in N : EndOf(d) = EndOf(c)
      /\ \A d \in N : \E c \in Q : d.id = c.id /\ (d.open => c.open /\ c.id # id)
  <2>1. N = {n[i] : i \in 1 .. Len(n)} /\ Q = {queues[i] : i \in 1 .. Len(queues)}
    BY <1>9 DEF N, Q
  <2> QED BY <2>1, <1>5
<1>10. \A c \in Live : \E d \in Live' : EndOf(d) = EndOf(c)
  BY <1>a, <1>b, <1>c
<1>11. \A d \in Live' : \E c \in Live : d.id = c.id /\ (d.open => c.open /\ c.id # id)
  BY <1>a, <1>b, <1>c
<1>12. Tied(Pointers(t), Live')
  <2>1. \A p \in Pointers(t) : p \in {EndOf(d) : d \in Live'}
    BY <1>3, <1>6, <1>10 DEF Tied
  <2>2. ASSUME NEW d \in Live', d.open PROVE \E p \in Pointers(t) : p.id = d.id
    <3>1. PICK c \in Live : d.id = c.id /\ c.open /\ c.id # id
      BY <1>11, <2>2
    <3>2. PICK p \in Pointers(rows) : p.id = c.id
      BY <1>3, <3>1 DEF Tied
    <3>3. p \notin PointerSet(rows[x])
      BY <3>1, <3>2 DEF PointerSet, Pointer
    <3> QED BY <1>6, <3>1, <3>2, <3>3
  <2> QED BY <2>1, <2>2 DEF Tied
<1>13. AllTied'
  BY <1>4, <1>5, <1>6, <1>7, <1>8, <1>12 DEF AllTied, HostsTyped
<1>14. KnownKept'
  BY <1>1, <1>2, <1>6, <1>7 DEF HostsInv, KnownKept
<1> QED BY <1>13, <1>14 DEF HostsInv

LEMMA AccessKeeps ==
  ASSUME HostsInv, UNCHANGED <<rows, g_new_net, queues, known, passedOver>>
  PROVE  HostsInv'
BY DEF HostsInv, AllTied, HostsTyped, KnownKept, Live

-----------------------------------------------------------------------------
(* The host list: a restart *)

LoadStep(s, f, n) ==
  IF n = 0 THEN <<>>
  ELSE IF s[n].port = Incoming \/ s[n].host \in DOMAIN Resolves THEN f[n - 1]
  ELSE AddToNetq(f[n - 1], <<>>, s[n].host, s[n].port, s[n].rat, TRUE)
Load(s) == CHOOSE f : f = [n \in 0 .. Len(s) |-> LoadStep(s, f, n)]

LEMMA ReloadedIs == Reloaded = Load(rows)[Len(rows)]
BY DEF Reloaded, Load, LoadStep

LEMMA LoadExists ==
  ASSUME NEW s \in Seq(HostRow)
  PROVE  \E f : f = [n \in 0 .. Len(s) |-> LoadStep(s, f, n)]
<1> DEFINE Solves(f, m) == f = [n \in 0 .. m |-> LoadStep(s, f, n)]
           bad == {m \in Nat : ~\E f : Solves(f, m)}
<1>1. SUFFICES ASSUME bad # {} PROVE FALSE
  BY DEF bad
<1>2. PICK m \in bad : \A k \in bad : m <= k
  BY <1>1, LeastOf
<1>3. m # 0
  <2>1. Solves([n \in 0 .. 0 |-> <<>>], 0)
    BY DEF LoadStep
  <2> QED BY <1>2, <2>1
<1>4. m - 1 \in Nat /\ m - 1 \notin bad
  BY <1>2, <1>3
<1>5. PICK f : Solves(f, m - 1)
  BY <1>4
<1> DEFINE g == [n \in 0 .. m |-> IF n < m THEN f[n] ELSE LoadStep(s, f, m)]
<1>6. ASSUME NEW n \in 0 .. m PROVE g[n] = LoadStep(s, g, n)
  <2>1. CASE n < m
    <3>1. n \in 0 .. m - 1 /\ (n # 0 => n - 1 \in 0 .. m /\ n - 1 < m)
      BY <1>2, <2>1
    <3>2. f[n] = LoadStep(s, f, n)
      BY <1>5, <3>1
    <3>3. n # 0 => g[n - 1] = f[n - 1]
      BY <3>1
    <3> QED BY <2>1, <3>2, <3>3 DEF LoadStep
  <2>2. CASE n = m
    <3>1. g[m - 1] = f[m - 1]
      BY <1>2, <1>4
    <3>2. g[m] = LoadStep(s, f, m)
      BY <1>2
    <3> HIDE DEF g
    <3>3. LoadStep(s, g, m) = LoadStep(s, f, m)
      BY <1>3, <3>1 DEF LoadStep
    <3> QED BY <2>2, <3>2, <3>3
  <2> QED BY <1>2, <2>1, <2>2
<1>7. Solves(g, m)
  <2> DEFINE h == [n \in 0 .. m |-> LoadStep(s, g, n)]
  <2>1. \A n \in 0 .. m : g[n] = h[n]
    BY <1>6
  <2>2. DOMAIN g = 0 .. m /\ DOMAIN h = 0 .. m
    OBVIOUS
  <2>3. g = [n \in 0 .. m |-> g[n]] /\ h = [n \in 0 .. m |-> h[n]]
    OBVIOUS
  <2>4. g = h
    <3> HIDE DEF g, h
    <3> QED BY <2>1, <2>3
  <2> QED BY <2>4
<1> QED BY <1>2, <1>7

LEMMA LoadIs ==
  ASSUME NEW s \in Seq(HostRow)
  PROVE  \A n \in 0 .. Len(s) : Load(s)[n] = LoadStep(s, Load(s), n)
<1> DEFINE Solves(f) == f = [n \in 0 .. Len(s) |-> LoadStep(s, f, n)]
<1>1. \E f : Solves(f)
  BY LoadExists
<1>2. Load(s) = CHOOSE f : Solves(f)
  BY DEF Load
<1> HIDE DEF Solves
<1>3. Solves(CHOOSE f : Solves(f))
  BY <1>1, Zenon
<1>4. Solves(Load(s))
  BY <1>2, <1>3
<1> DEFINE l == Load(s)
<1>5. l = [n \in 0 .. Len(s) |-> LoadStep(s, l, n)]
  BY <1>4 DEF Solves
<1> HIDE DEF l
<1>6. \A n \in 0 .. Len(s) : l[n] = LoadStep(s, l, n)
  BY <1>5
<1> QED BY <1>6 DEF l

\* What has been read up to place m: no connections, and every known host up to there that may be.
LoadedUpTo(s, list, m) ==
  /\ list \in Seq(HostRow) /\ Single(list) /\ Pointers(list) = {}
  /\ \A j \in 1 .. m : s[j].port # Incoming /\ s[j].host \in Address /\ May(s[j].host, <<>>) => HasRow(list, s[j].host)

LEMMA LoadedIs ==
  ASSUME NEW s \in Seq(HostRow)
  PROVE  LoadedUpTo(s, Load(s)[Len(s)], Len(s))
<1> DEFINE f == Load(s)
           bad == {m \in Nat : m <= Len(s) /\ ~LoadedUpTo(s, f[m], m)}
<1>1. Len(s) \in Nat
  OBVIOUS
<1>2. SUFFICES ASSUME bad # {} PROVE FALSE
  BY <1>1
<1>3. \A n \in 0 .. Len(s) : f[n] = LoadStep(s, f, n)
  BY LoadIs
<1> HIDE DEF f
<1>4. PICK m \in bad : \A k \in bad : m <= k
  BY <1>2, LeastOf
<1>5. m \in 0 .. Len(s) /\ ~LoadedUpTo(s, f[m], m) /\ f[m] = LoadStep(s, f, m)
  BY <1>1, <1>3, <1>4
<1>6. CASE m = 0
  <2>1. f[m] = <<>>
    BY <1>5, <1>6 DEF LoadStep
  <2>2. LoadedUpTo(s, <<>>, 0)
    BY DEF LoadedUpTo, Single, Pointers
  <2> QED BY <1>5, <1>6, <2>1, <2>2
<1>7. CASE m # 0
  <2>1. m - 1 \in Nat /\ m - 1 \notin bad /\ m - 1 <= Len(s) /\ m \in 1 .. Len(s)
    BY <1>1, <1>4, <1>5, <1>7
  <2> DEFINE l == f[m - 1]  h == s[m].host
  <2>2. LoadedUpTo(s, l, m - 1)
    BY <2>1
  <2>3. l \in Seq(HostRow) /\ Single(l) /\ Pointers(l) = {}
    BY <2>2 DEF LoadedUpTo
  <2>4. s[m] \in HostRow
    BY <2>1
  <2>5. h \in Place /\ s[m].port \in {Incoming, 1} /\ s[m].rat \in Int
    BY <2>4 DEF HostRow
  <2>6. \A j \in 1 .. m : j = m \/ j \in 1 .. m - 1
    BY <2>1
  <2>7. CASE s[m].port = Incoming \/ h \in DOMAIN Resolves
    <3>1. f[m] = l
      BY <1>5, <1>7, <2>7 DEF LoadStep
    <3>2. ~(s[m].port # Incoming /\ h \in Address)
      BY <2>7, AddressIsNoName
    <3>3. LoadedUpTo(s, l, m)
      BY <2>2, <2>6, <3>2 DEF LoadedUpTo
    <3> QED BY <1>5, <3>1, <3>3
  <2>8. CASE s[m].port # Incoming /\ h \notin DOMAIN Resolves
    <3> DEFINE u == AddToNetq(l, <<>>, h, 1, s[m].rat, TRUE)
    <3>1. s[m].port = 1 /\ 1 \in {Incoming, 1} /\ 1 # Incoming
      BY <2>5, <2>8 DEF Incoming
    <3>2. f[m] = u
      BY <1>5, <1>7, <2>8, <3>1 DEF LoadStep
    <3>3. h \in Place \cup {NoIp}
      BY <2>5
    <3> HIDE DEF h, l
    <3>4. /\ u \in Seq(HostRow) /\ Single(u) /\ Pointers(u) = Pointers(l)
          /\ \A ip : HasRow(l, ip) => HasRow(u, ip)
          /\ May(h, <<>>) => HasRow(u, h)
      BY <2>3, <2>5, <3>1, <3>3, AddToNetqKeeps
    <3> HIDE DEF u
    <3>5. LoadedUpTo(s, u, m)
      BY <2>2, <2>3, <2>6, <3>4 DEF LoadedUpTo, h
    <3> QED BY <1>5, <3>2, <3>5
  <2> QED BY <2>7, <2>8
<1> QED BY <1>6, <1>7

LEMMA RestartKeeps == HostsInv /\ Restart => HostsInv'
<1> SUFFICES ASSUME HostsInv, Restart PROVE HostsInv'
  OBVIOUS
<1>1. /\ rows' = Reloaded /\ g_new_net' = <<>> /\ queues' = <<>>
      /\ known' = {ip \in known : May(ip, <<>>)} /\ passedOver' = passedOver
  BY DEF Restart
<1>2. rows \in Seq(HostRow) /\ known \subseteq Address /\ (passedOver \/ \A ip \in known : HasRow(rows, ip))
  BY DEF HostsInv, AllTied, HostsTyped, KnownKept
<1>3. LoadedUpTo(rows, rows', Len(rows))
  <2>1. LoadedUpTo(rows, Load(rows)[Len(rows)], Len(rows))
    BY <1>2, LoadedIs
  <2> QED BY <1>1, <2>1, ReloadedIs, Zenon
<1>4. rows' \in Seq(HostRow) /\ Single(rows') /\ Pointers(rows') = {}
  BY <1>3 DEF LoadedUpTo
<1>5. Live' = {}
  BY <1>1 DEF Live, Range
<1>6. AllTied'
  BY <1>1, <1>4, <1>5 DEF AllTied, HostsTyped, Apart, Tied
<1>7. KnownKept'
  <2>1. ASSUME ~passedOver', NEW ip \in known' PROVE HasRow(rows', ip)
    <3>1. ip \in Address /\ May(ip, <<>>) /\ HasRow(rows, ip)
      BY <1>1, <1>2, <2>1
    <3>2. PICK x \in 1 .. Len(rows) : rows[x].host = ip /\ rows[x].port # Incoming
      BY <3>1 DEF HasRow
    <3> QED BY <1>3, <3>1, <3>2 DEF LoadedUpTo
  <2> QED BY <1>1, <1>2, <2>1 DEF KnownKept
<1> QED BY <1>6, <1>7 DEF HostsInv

-----------------------------------------------------------------------------
(* The host list: theorems *)

LEMMA HostsStart == HostsInit => HostsInv
<1> SUFFICES ASSUME HostsInit PROVE HostsInv
  OBVIOUS
<1>1. rows = <<>> /\ g_new_net = <<>> /\ queues = <<>> /\ known = {}
  BY DEF HostsInit
<1>2. Live = {} /\ Pointers(rows) = {}
  BY <1>1 DEF Live, Range, Pointers
<1>3. AllTied
  BY <1>1, <1>2 DEF AllTied, HostsTyped, Apart, Single, Tied
<1> QED BY <1>1, <1>3 DEF HostsInv, KnownKept

LEMMA HostsStep == HostsInv /\ [HostsNext]_hostVars => HostsInv'
<1> SUFFICES ASSUME HostsInv, [HostsNext]_hostVars PROVE HostsInv'
  OBVIOUS
<1>1. CASE UNCHANGED hostVars
  BY <1>1, AccessKeeps DEF hostVars
<1>2. CASE ChangeAccessList
  BY <1>2, AccessKeeps DEF ChangeAccessList
<1> QED BY <1>1, <1>2, PingKeeps, AcceptKeeps, AskedKeeps, KeepUpKeeps, FailsKeeps, RefusedKeeps,
           ConnectedKeeps, QueueEndsKeeps, AddHostKeeps, ConnectRowKeeps, RemoveRowKeeps, RestartKeeps, Zenon
    DEF HostsNext

\* The list of hosts and the connections agree, whatever is connected, broken off, moved, removed
\* or read again (netkern.cpp:255-401, mqueuelist.cpp:216-245).
THEOREM RowsStayConnected == HostsSpec => []RowsOfConnections
<1>1. HostsInv => RowsOfConnections
  <2> SUFFICES ASSUME HostsInv PROVE RowsOfConnections
    OBVIOUS
  <2>1. AllTied /\ rows \in Seq(HostRow) /\ Single(rows) /\ Tied(Pointers(rows), Live)
    BY DEF HostsInv, AllTied, HostsTyped
  <2>2. ASSUME NEW x \in 1 .. Len(rows), rows[x].con # NoCon
        PROVE  /\ \E c \in Live : c.id = rows[x].con /\ Remote(c.host) = Remote(rows[x].host)
               /\ \A y \in 1 .. Len(rows) : rows[y].con = rows[x].con => x = y
    <3>1. Pointer(rows[x]) \in Pointers(rows)
      BY <2>1, <2>2, PointersOf
    <3>2. PICK c \in Live : Pointer(rows[x]) = EndOf(c)
      BY <2>1, <3>1 DEF Tied
    <3>3. c.id = rows[x].con /\ Remote(c.host) = Remote(rows[x].host)
      BY <3>2 DEF Pointer, EndOf
    <3> QED BY <2>1, <2>2, <3>3 DEF Single
  <2>3. ASSUME NEW c \in Live, c.open PROVE RowOf(c) # {}
    <3>1. PICK p \in Pointers(rows) : p.id = c.id
      BY <2>1, <2>3 DEF Tied
    <3> QED BY <2>1, <3>1, RowOfIs
  <2> QED BY <2>2, <2>3 DEF RowsOfConnections
<1> QED BY <1>1, HostsStart, HostsStep, PTL DEF HostsSpec

\* A host that was heard of is forgotten only for a reason (netq.cpp:26-91, netkern.cpp:273-309).
THEOREM HostsAreKept == HostsSpec => []HostsStay
<1>1. HostsInv => HostsStay
  <2> SUFFICES ASSUME HostsInv, ~passedOver, NEW ip \in known PROVE ip \in {Remote(h) : h \in InList(rows)}
    BY DEF HostsStay
  <2>1. ip \in Address /\ HasRow(rows, ip)
    BY DEF HostsInv, KnownKept
  <2>2. ip \in InList(rows) /\ Remote(ip) = ip
    BY <2>1, AddressIsNoName DEF HasRow, InList
  <2> QED BY <2>2
<1> QED BY <1>1, HostsStart, HostsStep, PTL DEF HostsSpec

-----------------------------------------------------------------------------
(* Uploads: every offer keeps its place *)

IsURow(r) == r = URow(r.file, r.to, r.status)
IsUSend(s) == s = [id |-> s.id, place |-> s.place, file |-> s.file, asked |-> s.asked, err |-> s.err]

\* What the other host may ask for, now or once the queue was told.
Known == heard \cup Range(waiting)
OfferPlaced == [place : 1 .. Len(slots), offer : Offers]

UploadsTyped ==
  /\ slots \in Seq(Offers \cup {None}) /\ IsSeq(waiting) /\ IsSeq(sends) /\ IsSeq(srows)
  /\ Known \subseteq OfferPlaced /\ open \subseteq Offers
  /\ \A r \in Range(srows) : IsURow(r)
  /\ \A s \in Range(sends) : IsUSend(s)

\* An offer has one place for ever, and is in no other.
OnePlace ==
  /\ \A r, q \in Known : r.offer = q.offer => r = q
  /\ \A i \in 1 .. Len(slots) : slots[i] # None => \E r \in Known : r.place = i /\ r.offer = slots[i]
\* It has one row at most, which goes when what it offers is sent.
Once(list) ==
  \A x, y \in 1 .. Len(list), o \in Offers : list[x].to = ToOffer(o) /\ list[y].to = ToOffer(o) => x = y
OneRow ==
  /\ Once(srows)
  /\ \A r \in Range(srows), o \in Offers : r.to = ToOffer(o) => \E q \in Known : q.offer = o
AskedFor ==
  \A s \in Range(sends) :
    /\ s.file = NameOf[s.asked]
    /\ \E r \in Known : r.offer = s.asked /\ r.place = s.place
    /\ slots[s.place] = s.asked => \A r \in Range(srows) : r.to # ToOffer(s.asked)
\* Rows point to what there is.
Pointed(row) ==
  row.to # ToNothing =>
    \/ \E o \in Range(slots) \ {None} : row.to = ToOffer(o)
    \/ \E s \in Range(sends) : row.to = ToSend(s.id)
Straight == crossed \/ (open \subseteq Range(slots) /\ ~wild /\ \A row \in Range(srows) : Pointed(row))

UploadsInv == UploadsTyped /\ OnePlace /\ OneRow /\ AskedFor /\ Straight

LEMMA PointersApart ==
  /\ \A o, p : ToOffer(o) = ToOffer(p) => o = p
  /\ \A o, i : ToOffer(o) # ToSend(i)
  /\ \A o : ToOffer(o) # ToNothing
  /\ \A i : ToSend(i) # ToNothing
<1>1. \A o, p : ToOffer(o) = ToOffer(p) => o = p
  BY DEF ToOffer
<1>2. \A o, i : ToOffer(o) # ToSend(i)
  BY DEF ToOffer, ToSend
<1>3. \A o : ToOffer(o) # ToNothing
  BY DEF ToOffer, ToNothing
<1>4. \A i : ToSend(i) # ToNothing
  BY DEF ToSend, ToNothing
<1> QED BY <1>1, <1>2, <1>3, <1>4

LEMMA RowFields ==
  \A f, t, e : /\ IsURow(URow(f, t, e)) /\ URow(f, t, e).file = f
               /\ URow(f, t, e).to = t /\ URow(f, t, e).status = e
BY DEF IsURow, URow

LEMMA WithinOnce ==
  ASSUME NEW s, NEW t, IsSeq(s), IsSeq(t), Within(t, s)
  PROVE  Range(t) \subseteq Range(s) /\ (Once(s) => Once(t))
<1>1. PICK f \in [1 .. Len(t) -> 1 .. Len(s)] :
         \A j, k \in 1 .. Len(t) : t[k] = s[f[k]] /\ (f[j] = f[k] => j = k)
  BY DEF Within
<1>2. Range(t) \subseteq Range(s)
  <2> SUFFICES ASSUME NEW e \in Range(t) PROVE e \in Range(s)
    OBVIOUS
  <2>1. PICK k \in 1 .. Len(t) : t[k] = e
    BY SeqIs DEF IsSeq
  <2>2. f[k] \in 1 .. Len(s) /\ e = s[f[k]]
    BY <1>1, <2>1
  <2>3. s[f[k]] \in Range(s)
    BY <2>2, SeqIs DEF IsSeq
  <2> QED BY <2>2, <2>3
<1>3. ASSUME Once(s) PROVE Once(t)
  <2> SUFFICES ASSUME NEW x \in 1 .. Len(t), NEW y \in 1 .. Len(t), NEW o \in Offers,
                      t[x].to = ToOffer(o), t[y].to = ToOffer(o)
               PROVE  x = y
    BY DEF Once
  <2>1. f[x] \in 1 .. Len(s) /\ f[y] \in 1 .. Len(s) /\ t[x] = s[f[x]] /\ t[y] = s[f[y]]
    BY <1>1
  <2>2. f[x] = f[y]
    BY <1>3, <2>1 DEF Once
  <2> QED BY <1>1, <2>2
<1> QED BY <1>2, <1>3

LEMMA RowFirst ==
  ASSUME NEW s, IsSeq(s), NEW r
  PROVE  LET t == <<r>> \o s
         IN  /\ IsSeq(t) /\ Range(t) = {r} \cup Range(s)
             /\ (/\ Once(s)
                 /\ \A o \in Offers, q \in Range(s) : r.to = ToOffer(o) => q.to # ToOffer(o)) => Once(t)
<1> DEFINE t == <<r>> \o s
           S == {r} \cup Range(s)
<1>1. s \in Seq(S) /\ <<r>> \in Seq(S) /\ Len(s) \in Nat
  BY DEF IsSeq
<1>2. /\ t \in Seq(S) /\ Len(t) = Len(s) + 1 /\ t[1] = r
      /\ \A i \in 2 .. Len(s) + 1 : t[i] = s[i - 1]
  BY <1>1
<1> HIDE DEF t
<1>3. IsSeq(t) /\ Range(t) \subseteq S
  BY <1>2, SeqIs
<1>4. S \subseteq Range(t)
  <2>1. r \in Range(t)
    <3>1. 1 \in 1 .. Len(t)
      BY <1>1, <1>2
    <3> QED BY <1>2, <1>3, <3>1, SeqIs DEF IsSeq
  <2>2. ASSUME NEW e \in Range(s) PROVE e \in Range(t)
    <3>1. PICK i \in 1 .. Len(s) : s[i] = e
      BY SeqIs DEF IsSeq
    <3>2. i + 1 \in 1 .. Len(t) /\ t[i + 1] = e
      BY <1>1, <1>2, <3>1
    <3>3. t[i + 1] \in Range(t)
      BY <1>2, <3>2, SeqIs
    <3> QED BY <3>2, <3>3
  <2> QED BY <2>1, <2>2
<1>5. ASSUME Once(s), \A o \in Offers, q \in Range(s) : r.to = ToOffer(o) => q.to # ToOffer(o)
      PROVE  Once(t)
  <2>1. \A i \in 2 .. Len(s) + 1 : i - 1 \in 1 .. Len(s) /\ t[i] = s[i - 1] /\ t[i] \in Range(s)
    <3>1. \A i \in 2 .. Len(s) + 1 : i - 1 \in 1 .. Len(s)
      BY <1>1
    <3>2. \A i \in 1 .. Len(s) : s[i] \in Range(s)
      BY SeqIs DEF IsSeq
    <3> QED BY <1>2, <3>1, <3>2
  <2>2. \A i \in 1 .. Len(t) : i = 1 \/ i \in 2 .. Len(s) + 1
    BY <1>1, <1>2
  <2> SUFFICES ASSUME NEW x \in 1 .. Len(t), NEW y \in 1 .. Len(t), NEW o \in Offers,
                      t[x].to = ToOffer(o), t[y].to = ToOffer(o)
               PROVE  x = y
    BY DEF Once
  <2>3. CASE x = 1 /\ y = 1
    BY <2>3
  <2>4. CASE x = 1 /\ y \in 2 .. Len(s) + 1
    BY <1>2, <1>5, <2>1, <2>4
  <2>5. CASE y = 1 /\ x \in 2 .. Len(s) + 1
    BY <1>2, <1>5, <2>1, <2>5
  <2>6. CASE x \in 2 .. Len(s) + 1 /\ y \in 2 .. Len(s) + 1
    <3>1. /\ x - 1 \in 1 .. Len(s) /\ s[x - 1].to = ToOffer(o)
          /\ y - 1 \in 1 .. Len(s) /\ s[y - 1].to = ToOffer(o)
      BY <2>1, <2>6
    <3>2. x - 1 = y - 1
      BY <1>5, <3>1 DEF Once
    <3> QED BY <1>1, <2>6, <3>2
  <2> QED BY <2>2, <2>3, <2>4, <2>5, <2>6
<1> QED BY <1>3, <1>4, <1>5 DEF t

LEMMA EndedIs ==
  ASSUME NEW list, IsSeq(list), \A s \in Range(list) : IsUSend(s), NEW id, NEW err
  PROVE  LET t == Ended(list, id, err)
         IN  /\ IsSeq(t) /\ \A s \in Range(t) : IsUSend(s)
             /\ \A s \in Range(t) : \E q \in Range(list) :
                   s.id = q.id /\ s.place = q.place /\ s.file = q.file /\ s.asked = q.asked
             /\ \A q \in Range(list) : \E s \in Range(t) : s.id = q.id
<1> DEFINE t == Ended(list, id, err)
           As(s, q) == /\ IsUSend(s) /\ s.id = q.id /\ s.place = q.place
                       /\ s.file = q.file /\ s.asked = q.asked
<1>1. /\ t = [i \in 1 .. Len(list) |-> IF list[i].id = id THEN [list[i] EXCEPT !.err = err] ELSE list[i]]
      /\ Len(list) \in Nat
  BY DEF Ended, IsSeq
<1>2. ASSUME NEW q, IsUSend(q) PROVE As([q EXCEPT !.err = err], q)
  <2>1. [q EXCEPT !.err = err] = [id |-> q.id, place |-> q.place, file |-> q.file, asked |-> q.asked, err |-> err]
    BY <1>2 DEF IsUSend
  <2> DEFINE u == [q EXCEPT !.err = err]
  <2>2. /\ u.id = q.id /\ u.place = q.place /\ u.file = q.file /\ u.asked = q.asked /\ u.err = err
        /\ u = [id |-> q.id, place |-> q.place, file |-> q.file, asked |-> q.asked, err |-> err]
    BY <2>1
  <2> HIDE DEF u
  <2>3. IsUSend(u)
    BY <2>2 DEF IsUSend
  <2>4. As(u, q)
    BY <2>2, <2>3
  <2> QED BY <2>4 DEF u
<1> HIDE DEF t
<1>3. ASSUME NEW i \in 1 .. Len(list) PROVE As(t[i], list[i])
  <2>1. list[i] \in Range(list) /\ IsUSend(list[i])
    BY SeqIs DEF IsSeq
  <2>2. t[i] = IF list[i].id = id THEN [list[i] EXCEPT !.err = err] ELSE list[i]
    BY <1>1
  <2>3. As(list[i], list[i])
    BY <2>1
  <2>4. As([list[i] EXCEPT !.err = err], list[i])
    BY <1>2, <2>1
  <2> HIDE DEF As
  <2> QED BY <2>2, <2>3, <2>4
<1>4. t \in Seq({t[i] : i \in 1 .. Len(list)}) /\ Len(t) = Len(list)
  BY <1>1
<1>5. IsSeq(t)
  BY <1>4, SeqIs
<1>6. ASSUME NEW s \in Range(t) PROVE \E q \in Range(list) : As(s, q)
  <2>1. PICK i \in 1 .. Len(list) : t[i] = s
    BY <1>4, SeqIs
  <2>2. list[i] \in Range(list)
    BY SeqIs DEF IsSeq
  <2> HIDE DEF As
  <2> QED BY <1>3, <2>1, <2>2
<1>7. ASSUME NEW q \in Range(list) PROVE \E s \in Range(t) : As(s, q)
  <2>1. PICK i \in 1 .. Len(list) : list[i] = q
    BY SeqIs DEF IsSeq
  <2>2. t[i] \in Range(t)
    BY <1>4, SeqIs
  <2> HIDE DEF As
  <2> QED BY <1>3, <2>1, <2>2
<1>8. /\ \A s \in Range(t) : IsUSend(s)
      /\ \A s \in Range(t) : \E q \in Range(list) :
            s.id = q.id /\ s.place = q.place /\ s.file = q.file /\ s.asked = q.asked
      /\ \A q \in Range(list) : \E s \in Range(t) : s.id = q.id
  BY <1>6, <1>7
<1> QED BY <1>5, <1>8 DEF t

LEMMA UploadsStart == UploadsInit => UploadsInv
<1> SUFFICES ASSUME UploadsInit PROVE UploadsInv
  OBVIOUS
<1>1. /\ slots = <<>> /\ waiting = <<>> /\ heard = {} /\ sends = <<>> /\ srows = <<>>
      /\ open = {} /\ crossed = FALSE /\ wild = FALSE
  BY DEF UploadsInit
<1>2. <<>> \in Seq({}) /\ Range(<<>>) = {} /\ Len(<<>>) = 0 /\ 1 .. 0 = {}
  BY DEF Range
<1>3. UploadsTyped
  BY <1>1, <1>2 DEF UploadsTyped, IsSeq, Known
<1>4. OnePlace /\ OneRow /\ AskedFor /\ Straight
  BY <1>1, <1>2 DEF OnePlace, OneRow, Once, AskedFor, Straight, Known
<1> QED BY <1>3, <1>4 DEF UploadsInv

\* What is in the places, when one was given away.
LEMMA SlotsAre ==
  ASSUME UploadsTyped
  PROVE  /\ Len(slots) \in Nat /\ \A i \in 1 .. Len(slots) : slots[i] \in Offers \cup {None}
         /\ \A i \in 1 .. Len(slots) : slots[i] \in Range(slots)
         /\ \A o \in Range(slots) : \E i \in 1 .. Len(slots) : slots[i] = o
         /\ \A r \in Known : r.place \in 1 .. Len(slots) /\ r.offer \in Offers
<1>1. slots \in Seq(Offers \cup {None})
  BY DEF UploadsTyped
<1>2. /\ Len(slots) \in Nat /\ \A i \in 1 .. Len(slots) : slots[i] \in Offers \cup {None}
  BY <1>1
<1>3. /\ \A i \in 1 .. Len(slots) : slots[i] \in Range(slots)
      /\ \A o \in Range(slots) : \E i \in 1 .. Len(slots) : slots[i] = o
  BY <1>1, SeqIs
<1>4. \A r \in Known : r.place \in 1 .. Len(slots) /\ r.offer \in Offers
  BY DEF UploadsTyped, OfferPlaced
<1> QED BY <1>2, <1>3, <1>4

LEMMA OfferKeeps ==
  ASSUME NEW o \in Offers, UploadsInv, Offer(o)
  PROVE  UploadsInv'
<1> DEFINE place == IF Empty = {} THEN Len(slots) + 1 ELSE Min(Empty)
           asked == [place |-> place, offer |-> o]
           row == URow(NameOf[o], ToOffer(o), "Pending")
<1>1. /\ o \notin open /\ \A r \in Known : r.offer # o
      /\ slots' = IF Empty = {} THEN Append(slots, o) ELSE [slots EXCEPT ![place] = o]
      /\ waiting' = Append(waiting, asked) /\ srows' = <<row>> \o srows /\ open' = open \cup {o}
      /\ heard' = heard /\ sends' = sends /\ crossed' = crossed /\ wild' = wild
  BY DEF Offer, Known
<1>2. UploadsTyped /\ OnePlace /\ OneRow /\ AskedFor /\ Straight
  BY DEF UploadsInv
<1>3. /\ Len(slots) \in Nat /\ \A i \in 1 .. Len(slots) : slots[i] \in Offers \cup {None}
      /\ slots \in Seq(Offers \cup {None})
  BY <1>2, SlotsAre DEF UploadsTyped
<1>4. /\ slots' \in Seq(Offers \cup {None}) /\ Len(slots') \in Nat /\ Len(slots) <= Len(slots')
      /\ place \in 1 .. Len(slots') /\ slots'[place] = o
      /\ \A i \in 1 .. Len(slots') : i # place => i \in 1 .. Len(slots) /\ slots'[i] = slots[i]
      /\ place \in 1 .. Len(slots) => slots[place] = None
  <2>1. CASE Empty = {}
    BY <1>1, <1>3, <2>1, AppendProperties
  <2>2. CASE Empty # {}
    <3>1. Empty \in SUBSET Nat
      BY <1>3 DEF Empty
    <3>2. place \in 1 .. Len(slots) /\ slots[place] = None
      BY <2>2, <3>1, MinIs DEF Empty
    <3> HIDE DEF place
    <3>3. slots' = [slots EXCEPT ![place] = o]
      BY <1>1, <2>2
    <3>4. slots' \in Seq(Offers \cup {None}) /\ Len(slots') = Len(slots)
      BY <1>3, <3>2, <3>3
    <3>5. slots'[place] = o /\ \A i \in 1 .. Len(slots) : i # place => slots'[i] = slots[i]
      BY <1>3, <3>2, <3>3
    <3> QED BY <1>3, <3>2, <3>4, <3>5
  <2> QED BY <2>1, <2>2
<1> HIDE DEF place
<1>5. IsSeq(waiting') /\ Range(waiting') = Range(waiting) \cup {asked}
  BY <1>1, <1>2, AddedLast DEF UploadsTyped
<1>6. Known' = Known \cup {asked}
  BY <1>1, <1>5 DEF Known
<1>7. asked.place = place /\ asked.offer = o /\ row.to = ToOffer(o) /\ IsURow(row)
  BY RowFields
<1>8. asked \in OfferPlaced'
  BY <1>4 DEF OfferPlaced
<1> HIDE DEF asked, row
<1>9. /\ IsSeq(srows') /\ Range(srows') = {row} \cup Range(srows)
      /\ (/\ Once(srows)
          /\ \A p \in Offers, q \in Range(srows) : row.to = ToOffer(p) => q.to # ToOffer(p)) => Once(srows')
  BY <1>1, <1>2, RowFirst DEF UploadsTyped
<1>10. \A r \in Range(srows) : r.to # ToOffer(o)
  BY <1>1, <1>2 DEF OneRow
<1>11. UploadsTyped'
  <2>1. Known' \subseteq OfferPlaced'
    <3>1. OfferPlaced \subseteq OfferPlaced'
      BY <1>3, <1>4 DEF OfferPlaced
    <3> QED BY <1>2, <1>6, <1>8, <3>1 DEF UploadsTyped
  <2>2. /\ \A r \in Range(srows') : IsURow(r)
        /\ IsSeq(sends') /\ \A s \in Range(sends') : IsUSend(s)
        /\ open' \subseteq Offers
    BY <1>1, <1>2, <1>7, <1>9 DEF UploadsTyped
  <2> QED BY <1>4, <1>5, <1>9, <2>1, <2>2 DEF UploadsTyped
<1>12. OnePlace'
  <2>1. \A r, q \in Known' : r.offer = q.offer => r = q
    BY <1>1, <1>2, <1>6, <1>7 DEF OnePlace
  <2>2. ASSUME NEW i \in 1 .. Len(slots'), slots'[i] # None
        PROVE  \E r \in Known' : r.place = i /\ r.offer = slots'[i]
    <3>1. CASE i = place
      BY <1>4, <1>6, <1>7, <3>1
    <3>2. CASE i # place
      BY <1>2, <1>4, <1>6, <2>2, <3>2 DEF OnePlace
    <3> QED BY <3>1, <3>2
  <2> QED BY <2>1, <2>2 DEF OnePlace
<1>13. OneRow'
  <2>1. Once(srows')
    BY <1>2, <1>7, <1>9, <1>10, PointersApart DEF OneRow
  <2>2. ASSUME NEW r \in Range(srows'), NEW p \in Offers, r.to = ToOffer(p)
        PROVE  \E q \in Known' : q.offer = p
    <3>1. CASE r = row
      BY <1>6, <1>7, <2>2, <3>1, PointersApart
    <3>2. CASE r \in Range(srows)
      BY <1>2, <1>6, <2>2, <3>2 DEF OneRow
    <3> QED BY <1>9, <3>1, <3>2
  <2>3. Once(srows)'
    BY <2>1 DEF Once
  <2> QED BY <2>2, <2>3 DEF OneRow
<1>14. AskedFor'
  <2> SUFFICES ASSUME NEW s \in Range(sends)
               PROVE  /\ s.file = NameOf[s.asked]
                      /\ \E r \in Known' : r.offer = s.asked /\ r.place = s.place
                      /\ slots'[s.place] = s.asked => \A r \in Range(srows') : r.to # ToOffer(s.asked)
    BY <1>1 DEF AskedFor
  <2>1. PICK r \in Known : r.offer = s.asked /\ r.place = s.place
    BY <1>2 DEF AskedFor
  <2>2. s.asked # o /\ s.place \in 1 .. Len(slots)
    BY <1>1, <1>2, <2>1, SlotsAre
  <2>3. ASSUME slots'[s.place] = s.asked PROVE \A q \in Range(srows') : q.to # ToOffer(s.asked)
    <3>1. s.place # place /\ s.place \in 1 .. Len(slots')
      BY <1>3, <1>4, <2>2, <2>3
    <3>2. slots[s.place] = s.asked
      BY <1>4, <2>3, <3>1
    <3> QED BY <1>2, <1>7, <1>9, <2>2, <3>2, PointersApart DEF AskedFor
  <2> QED BY <1>2, <1>6, <2>1, <2>3 DEF AskedFor
<1>15. Straight'
  <2> SUFFICES ASSUME ~crossed PROVE Straight'
    BY <1>1 DEF Straight
  <2>1. open \subseteq Range(slots) /\ ~wild /\ \A r \in Range(srows) : Pointed(r)
    BY <1>2 DEF Straight
  <2>2. \A i \in 1 .. Len(slots') : slots'[i] \in Range(slots')
    BY <1>4, SeqIs
  <2>3. ASSUME NEW p \in Range(slots), p # None PROVE p \in Range(slots')
    <3>1. PICK i \in 1 .. Len(slots) : slots[i] = p
      BY <1>2, SlotsAre
    <3>2. i # place /\ i \in 1 .. Len(slots')
      BY <1>3, <1>4, <2>3, <3>1
    <3> QED BY <1>4, <2>2, <3>1, <3>2
  <2>4. o \in Range(slots') /\ o # None
    BY <1>4, <2>2, NoneIsNoOffer
  <2>5. open' \subseteq Range(slots')
    <3>1. \A p \in open : p # None
      BY <1>2, NoneIsNoOffer DEF UploadsTyped
    <3> QED BY <1>1, <2>1, <2>3, <2>4, <3>1
  <2>6. ASSUME NEW q \in Range(srows'), q.to # ToNothing
        PROVE  \/ \E p \in Range(slots') \ {None} : q.to = ToOffer(p)
               \/ \E s \in Range(sends') : q.to = ToSend(s.id)
    <3>1. CASE q = row
      BY <1>7, <2>4, <3>1
    <3>2. CASE q \in Range(srows)
      BY <1>1, <2>1, <2>3, <2>6, <3>2 DEF Pointed
    <3> QED BY <1>9, <3>1, <3>2
  <2> QED BY <1>1, <2>1, <2>5, <2>6 DEF Straight, Pointed
<1> QED BY <1>11, <1>12, <1>13, <1>14, <1>15 DEF UploadsInv

LEMMA TellKeeps == UploadsInv /\ TellOffer => UploadsInv'
<1> SUFFICES ASSUME UploadsInv, TellOffer PROVE UploadsInv'
  OBVIOUS
<1>1. /\ waiting # <<>> /\ waiting' = Tail(waiting) /\ heard' = heard \cup {Head(waiting)}
      /\ UNCHANGED <<slots, sends, srows, open, crossed, wild>>
  BY DEF TellOffer
<1>2. IsSeq(waiting)
  BY DEF UploadsInv, UploadsTyped
<1> DEFINE S == Range(waiting)
<1>3. /\ Tail(waiting) \in Seq(S) /\ Len(Tail(waiting)) = Len(waiting) - 1 /\ Head(waiting) = waiting[1]
      /\ Head(waiting) \in S /\ Len(waiting) \in Nat /\ Len(waiting) # 0
      /\ \A i \in 1 .. Len(Tail(waiting)) : Tail(waiting)[i] = waiting[i + 1]
  BY <1>1, <1>2, HeadTailProperties DEF IsSeq
<1>4. IsSeq(waiting') /\ Range(waiting') \subseteq S
  BY <1>1, <1>3, SeqIs
<1>5. ASSUME NEW r \in S PROVE r = Head(waiting) \/ r \in Range(waiting')
  <2>1. PICK i \in 1 .. Len(waiting) : waiting[i] = r
    BY <1>2, SeqIs DEF IsSeq
  <2>2. CASE i # 1
    <3>1. i - 1 \in 1 .. Len(waiting') /\ waiting'[i - 1] = r
      BY <1>1, <1>3, <2>1, <2>2
    <3> QED BY <1>1, <1>3, <3>1, SeqIs
  <2> QED BY <1>3, <2>1, <2>2
<1>6. Known' = Known
  BY <1>1, <1>3, <1>4, <1>5 DEF Known
<1>7. OfferPlaced' = OfferPlaced
  BY <1>1 DEF OfferPlaced
<1> QED BY <1>1, <1>4, <1>6, <1>7
        DEF UploadsInv, UploadsTyped, OnePlace, OneRow, Once, AskedFor, Straight, Pointed

\* A send begins: the row of the offer goes, a row of the send comes.
LEMMA RequestKeeps ==
  ASSUME NEW r \in heard, UploadsInv, FileRequest(r)
  PROVE  UploadsInv'
<1>1. /\ UNCHANGED <<slots, waiting, heard, open, crossed, wild>> /\ r \in Known
      /\ UploadsTyped /\ OnePlace /\ OneRow /\ AskedFor /\ Straight
  BY DEF FileRequest, Known, UploadsInv
<1>2. Known' = Known /\ OfferPlaced' = OfferPlaced
  BY <1>1 DEF Known, OfferPlaced
<1>3. CASE UNCHANGED <<sends, srows>>
  BY <1>1, <1>2, <1>3 DEF UploadsInv, UploadsTyped, OnePlace, OneRow, Once, AskedFor, Straight, Pointed
<1>4. CASE ~UNCHANGED <<sends, srows>>
  <2> DEFINE o == slots[r.place]
             err == Refusal(o, r.offer)
             x == FirstRow(ToOffer(o))
             shown == IF x > Len(srows) THEN srows ELSE RemoveAt(srows, x)
             TimedOut(row) == row.to = ToNothing /\ row.status = "TimedOut" /\ row.file = NameOf[o]
             at == {y \in 1 .. Len(shown) : ~TimedOut(shown[y])}
             others == Picked(shown, at)
             begun == [id |-> UnusedId, place |-> r.place, file |-> NameOf[o], asked |-> r.offer, err |-> NoError]
             row == URow(NameOf[o], ToSend(begun.id), "Sending")
             failed == URow(NameOf[o], ToNothing, err)
  <2>1. /\ o # None
        /\ IF err = NoError THEN sends' = Append(sends, begun) /\ srows' = <<row>> \o others
           ELSE sends' = sends /\ srows' = IF send_autoclear THEN others ELSE <<failed>> \o others
    BY <1>4 DEF FileRequest, Where, Places
  <2>2. IsSeq(srows) /\ Len(srows) \in Nat
    BY <1>1 DEF UploadsTyped, IsSeq
  <2>3. o \in Offers
    BY <1>1, <2>1, SlotsAre
  <2> HIDE DEF o
  <2> DEFINE here == {y \in 1 .. Len(srows) : srows[y].to = ToOffer(o)}
  <2>4. /\ x \in Nat /\ x >= 1
        /\ x <= Len(srows) => srows[x].to = ToOffer(o)
        /\ \A y \in here : x <= y
    <3>1. here \cup {Len(srows) + 1} \in SUBSET Nat /\ here \cup {Len(srows) + 1} # {}
      BY <2>2
    <3>2. x = Min(here \cup {Len(srows) + 1})
      BY DEF FirstRow
    <3>3. x \in here \cup {Len(srows) + 1} /\ \A y \in here : x <= y
      BY <3>1, <3>2, MinIs
    <3> HIDE DEF x
    <3> QED BY <2>2, <3>3
  <2> HIDE DEF x
  <2>5. /\ IsSeq(shown) /\ Range(shown) \subseteq Range(srows) /\ Once(shown)
        /\ \A q \in Range(shown) : q.to # ToOffer(o)
    <3>1. CASE x > Len(srows)
      <4>1. \A q \in Range(srows) : \E y \in 1 .. Len(srows) : srows[y] = q
        BY <2>2, SeqIs DEF IsSeq
      <4>2. \A y \in 1 .. Len(srows) : srows[y].to # ToOffer(o)
        BY <2>2, <2>4, <3>1
      <4> QED BY <1>1, <2>2, <3>1, <4>1, <4>2 DEF OneRow
    <3>2. CASE ~(x > Len(srows))
      <4>1. x \in 1 .. Len(srows) /\ srows[x].to = ToOffer(o)
        BY <2>2, <2>4, <3>2
      <4>2. /\ IsSeq(RemoveAt(srows, x)) /\ Within(RemoveAt(srows, x), srows)
            /\ \A e \in Range(RemoveAt(srows, x)) : \E j \in 1 .. Len(srows) : j # x /\ srows[j] = e
        BY <2>2, <4>1, RemovedWithin
      <4>3. \A e \in Range(RemoveAt(srows, x)) : e.to # ToOffer(o)
        BY <1>1, <2>3, <4>1, <4>2 DEF OneRow, Once
      <4>4. Range(RemoveAt(srows, x)) \subseteq Range(srows) /\ Once(RemoveAt(srows, x))
        BY <1>1, <2>2, <4>2, WithinOnce DEF OneRow
      <4> QED BY <3>2, <4>2, <4>3, <4>4
    <3> QED BY <3>1, <3>2
  <2> HIDE DEF shown
  <2>6. /\ IsSeq(others) /\ Range(others) \subseteq Range(srows) /\ Once(others)
        /\ \A q \in Range(others) : q.to # ToOffer(o)
    <3> HIDE DEF at
    <3>1. IsSeq(others) /\ Within(others, shown)
      BY <2>5, PickedWithin
    <3>2. Range(others) \subseteq Range(shown) /\ Once(others)
      BY <2>5, <3>1, WithinOnce
    <3> QED BY <2>5, <3>1, <3>2
  <2> HIDE DEF at, others
  <2>7. /\ IsURow(row) /\ row.to = ToSend(begun.id) /\ IsURow(failed) /\ failed.to = ToNothing
    BY RowFields
  <2>8. /\ IsUSend(begun) /\ begun.place = r.place /\ begun.file = NameOf[o] /\ begun.asked = r.offer
    BY DEF IsUSend
  <2> HIDE DEF begun, row, failed
  <2>9. /\ IsSeq(<<row>> \o others) /\ Range(<<row>> \o others) = {row} \cup Range(others)
        /\ Once(<<row>> \o others)
    BY <2>6, <2>7, PointersApart, RowFirst
  <2>10. /\ IsSeq(<<failed>> \o others) /\ Range(<<failed>> \o others) = {failed} \cup Range(others)
         /\ Once(<<failed>> \o others)
    BY <2>6, <2>7, PointersApart, RowFirst
  <2>11. /\ IsSeq(srows') /\ Once(srows')
         /\ \A q \in Range(srows') : \/ q \in Range(others)
                                     \/ q = row /\ err = NoError
                                     \/ q = failed
    BY <2>1, <2>6, <2>9, <2>10
  <2>12. /\ IsSeq(sends') /\ Range(sends) \subseteq Range(sends')
         /\ err = NoError => begun \in Range(sends')
         /\ \A s \in Range(sends') : s \in Range(sends) \/ (s = begun /\ err = NoError)
    <3>1. IsSeq(sends)
      BY <1>1 DEF UploadsTyped
    <3>2. IsSeq(Append(sends, begun)) /\ Range(Append(sends, begun)) = Range(sends) \cup {begun}
      BY <3>1, AddedLast
    <3>3. CASE err = NoError
      <4>1. sends' = Append(sends, begun)
        BY <2>1, <3>3
      <4> QED BY <3>2, <3>3, <4>1
    <3>4. CASE err # NoError
      <4>1. sends' = sends
        BY <2>1, <3>4
      <4> QED BY <3>1, <3>4, <4>1
    <3> QED BY <3>3, <3>4
  <2>13. UploadsTyped'
    <3>1. /\ \A q \in Range(srows') : IsURow(q)
          /\ \A s \in Range(sends') : IsUSend(s)
      BY <1>1, <2>6, <2>7, <2>8, <2>11, <2>12 DEF UploadsTyped
    <3> QED BY <1>1, <1>2, <2>11, <2>12, <3>1 DEF UploadsTyped
  <2>14. OnePlace'
    BY <1>1, <1>2 DEF OnePlace
  <2>15. OneRow'
    <3>1. Once(srows)'
      BY <2>11 DEF Once
    <3>2. ASSUME NEW q \in Range(srows'), NEW p \in Offers, q.to = ToOffer(p)
          PROVE  \E k \in Known' : k.offer = p
      <4>1. q \in Range(srows)
        BY <2>6, <2>7, <2>11, <3>2, PointersApart
      <4> QED BY <1>1, <1>2, <3>2, <4>1 DEF OneRow
    <3> QED BY <3>1, <3>2 DEF OneRow
  <2>16. \A q \in Range(srows'), p \in Offers : q.to = ToOffer(p) => q \in Range(others)
    BY <2>7, <2>11, PointersApart
  <2>17. AskedFor'
    <3> SUFFICES ASSUME NEW s \in Range(sends')
                 PROVE  /\ s.file = NameOf[s.asked]
                        /\ \E k \in Known : k.offer = s.asked /\ k.place = s.place
                        /\ slots[s.place] = s.asked => \A q \in Range(srows') : q.to # ToOffer(s.asked)
      BY <1>1, <1>2 DEF AskedFor
    <3>1. CASE s \in Range(sends)
      <4>1. s.asked \in Offers
        BY <1>1, <3>1, SlotsAre DEF AskedFor
      <4> QED BY <1>1, <2>6, <2>16, <3>1, <4>1 DEF AskedFor
    <3>2. CASE s = begun /\ err = NoError
      <4>1. NameOf[o] = NameOf[r.offer]
        BY <3>2, Zenon DEF Refusal, NoError
      <4>2. slots[s.place] = s.asked => s.asked = o
        BY <2>8, <3>2 DEF o
      <4> QED BY <1>1, <2>3, <2>6, <2>8, <2>16, <3>2, <4>1, <4>2
    <3> QED BY <2>12, <3>1, <3>2
  <2>18. Straight'
    <3> SUFFICES ASSUME ~crossed PROVE Straight'
      BY <1>1 DEF Straight
    <3>1. open \subseteq Range(slots) /\ ~wild /\ \A q \in Range(srows) : Pointed(q)
      BY <1>1 DEF Straight
    <3>2. ASSUME NEW q \in Range(srows'), q.to # ToNothing
          PROVE  \/ \E p \in Range(slots) \ {None} : q.to = ToOffer(p)
                 \/ \E s \in Range(sends') : q.to = ToSend(s.id)
      <4>1. CASE q \in Range(others)
        BY <2>6, <2>12, <3>1, <3>2, <4>1 DEF Pointed
      <4>2. CASE q = row /\ err = NoError
        BY <2>7, <2>12, <4>2
      <4> QED BY <2>7, <2>11, <3>2, <4>1, <4>2
    <3> QED BY <1>1, <3>1, <3>2 DEF Straight, Pointed
  <2> QED BY <2>13, <2>14, <2>15, <2>17, <2>18 DEF UploadsInv
<1> QED BY <1>3, <1>4

\* Rows that point to nothing any more.
Cut(t, s) ==
  /\ Len(s) \in Nat /\ t = [x \in 1 .. Len(s) |-> t[x]]
  /\ \A x \in 1 .. Len(s) : t[x] = s[x] \/ (IsURow(t[x]) /\ t[x].to = ToNothing)

LEMMA CutIs ==
  ASSUME NEW s, IsSeq(s), NEW t, Cut(t, s)
  PROVE  /\ IsSeq(t) /\ (Once(s) => Once(t))
         /\ \A r \in Range(t) : r \in Range(s) \/ (IsURow(r) /\ r.to = ToNothing)
<1>1. /\ Len(s) \in Nat /\ t = [x \in 1 .. Len(s) |-> t[x]]
      /\ \A x \in 1 .. Len(s) : t[x] = s[x] \/ (IsURow(t[x]) /\ t[x].to = ToNothing)
  BY DEF Cut
<1>2. t \in Seq({t[x] : x \in 1 .. Len(s)}) /\ Len(t) = Len(s)
  BY <1>1
<1>3. IsSeq(t) /\ \A r \in Range(t) : \E x \in 1 .. Len(s) : t[x] = r
  BY <1>2, SeqIs
<1>4. \A x \in 1 .. Len(s) : s[x] \in Range(s)
  BY SeqIs DEF IsSeq
<1>5. \A r \in Range(t) : r \in Range(s) \/ (IsURow(r) /\ r.to = ToNothing)
  BY <1>1, <1>3, <1>4
<1>6. ASSUME Once(s) PROVE Once(t)
  BY <1>1, <1>2, <1>6, PointersApart DEF Once
<1> QED BY <1>3, <1>5, <1>6

\* A place emptied.
LEMMA PlaceEmptied ==
  ASSUME UploadsTyped, NEW i \in 1 .. Len(slots), NEW t, t = [slots EXCEPT ![i] = None]
  PROVE  /\ t \in Seq(Offers \cup {None}) /\ Len(t) = Len(slots)
         /\ \A j \in 1 .. Len(slots) : t[j] \in {slots[j], None}
         /\ \A o \in Range(slots) : o \notin {None, slots[i]} => o \in Range(t)
<1>1. slots \in Seq(Offers \cup {None}) /\ Len(slots) \in Nat
  BY DEF UploadsTyped
<1>2. t \in Seq(Offers \cup {None}) /\ Len(t) = Len(slots)
  BY <1>1
<1>3. t[i] = None /\ \A j \in 1 .. Len(slots) : j # i => t[j] = slots[j]
  BY <1>1
<1>4. ASSUME NEW o \in Range(slots), o \notin {None, slots[i]} PROVE o \in Range(t)
  <2>1. PICK j \in 1 .. Len(slots) : slots[j] = o
    BY SlotsAre
  <2>2. j \in 1 .. Len(t) /\ t[j] = o
    BY <1>2, <1>3, <1>4, <2>1
  <2> QED BY <1>2, <2>2, SeqIs
<1> QED BY <1>2, <1>3, <1>4

\* What an action that begins nothing has to keep.
Fewer ==
  /\ UNCHANGED <<waiting, heard>> /\ open' \subseteq open
  /\ slots' \in Seq(Offers \cup {None}) /\ Len(slots') = Len(slots)
  /\ \A j \in 1 .. Len(slots) : slots'[j] \in {slots[j], None}
  /\ IsSeq(sends') /\ \A s \in Range(sends') : IsUSend(s)
  /\ \A s \in Range(sends') : \E q \in Range(sends) : s.place = q.place /\ s.file = q.file /\ s.asked = q.asked
  /\ IsSeq(srows') /\ Once(srows')
  /\ \A r \in Range(srows') : r \in Range(srows) \/ (IsURow(r) /\ r.to = ToNothing)

LEMMA FewerKeep ==
  ASSUME UploadsInv, Fewer, Straight'
  PROVE  UploadsInv'
<1>1. UploadsTyped /\ OnePlace /\ OneRow /\ AskedFor
  BY DEF UploadsInv
<1>2. /\ UNCHANGED <<waiting, heard>> /\ open' \subseteq open
      /\ slots' \in Seq(Offers \cup {None}) /\ Len(slots') = Len(slots)
      /\ \A j \in 1 .. Len(slots) : slots'[j] \in {slots[j], None}
      /\ IsSeq(sends') /\ \A s \in Range(sends') : IsUSend(s)
      /\ IsSeq(srows') /\ Once(srows')
  BY DEF Fewer
<1>3. \A s \in Range(sends') : \E q \in Range(sends) : s.place = q.place /\ s.file = q.file /\ s.asked = q.asked
  BY DEF Fewer
<1>4. \A r \in Range(srows') : r \in Range(srows) \/ (IsURow(r) /\ r.to = ToNothing)
  BY DEF Fewer
<1>5. Known' = Known /\ OfferPlaced' = OfferPlaced
  BY <1>2 DEF Known, OfferPlaced
<1>6. UploadsTyped'
  <2>1. \A r \in Range(srows') : IsURow(r)
    BY <1>1, <1>4 DEF UploadsTyped
  <2> QED BY <1>1, <1>2, <1>5, <2>1 DEF UploadsTyped
<1>7. OnePlace'
  BY <1>1, <1>2, <1>5 DEF OnePlace
<1>8. OneRow'
  <2>1. Once(srows)'
    BY <1>2 DEF Once
  <2>2. \A r \in Range(srows'), o \in Offers : r.to = ToOffer(o) => \E q \in Known' : q.offer = o
    BY <1>1, <1>4, <1>5, PointersApart DEF OneRow
  <2> QED BY <2>1, <2>2 DEF OneRow
<1>9. AskedFor'
  <2> SUFFICES ASSUME NEW s \in Range(sends')
               PROVE  /\ s.file = NameOf[s.asked]
                      /\ \E k \in Known : k.offer = s.asked /\ k.place = s.place
                      /\ slots'[s.place] = s.asked => \A r \in Range(srows') : r.to # ToOffer(s.asked)
    BY <1>5 DEF AskedFor
  <2>1. PICK q \in Range(sends) : s.place = q.place /\ s.file = q.file /\ s.asked = q.asked
    BY <1>3
  <2>2. s.place \in 1 .. Len(slots) /\ s.asked \in Offers /\ s.asked # None
    BY <1>1, <2>1, SlotsAre, NoneIsNoOffer DEF AskedFor
  <2>3. slots'[s.place] = s.asked => slots[s.place] = s.asked
    BY <1>2, <2>2
  <2> QED BY <1>1, <1>4, <2>1, <2>3, PointersApart DEF AskedFor
<1> QED BY <1>6, <1>7, <1>8, <1>9 DEF UploadsInv

LEMMA GivesUpKeeps ==
  ASSUME NEW s \in Range(sends), UploadsInv, GivesUp(s)
  PROVE  UploadsInv'
<1>1. PICK err : sends' = Ended(sends, s.id, err)
  BY DEF GivesUp
<1>2. UNCHANGED <<slots, waiting, heard, srows, open, crossed, wild>>
  BY DEF GivesUp
<1>3. UploadsTyped /\ OneRow /\ Straight
  BY DEF UploadsInv
<1>4. IsSeq(sends) /\ \A q \in Range(sends) : IsUSend(q)
  BY <1>3 DEF UploadsTyped
<1>5. /\ IsSeq(sends') /\ \A q \in Range(sends') : IsUSend(q)
      /\ \A t \in Range(sends') : \E q \in Range(sends) :
            t.id = q.id /\ t.place = q.place /\ t.file = q.file /\ t.asked = q.asked
      /\ \A q \in Range(sends) : \E t \in Range(sends') : t.id = q.id
  BY <1>1, <1>4, EndedIs
<1>6. Fewer
  BY <1>2, <1>3, <1>5 DEF Fewer, UploadsTyped, OneRow
<1>7. Straight'
  BY <1>2, <1>3, <1>5 DEF Straight, Pointed
<1> QED BY <1>6, <1>7, FewerKeep

\* A place of an XferSend is emptied, and what was asked for is no concern of anybody any more.
LEMMA PlaceGone ==
  ASSUME UploadsInv, NEW s \in Range(sends)
  PROVE  /\ s.place \in 1 .. Len(slots) /\ s.asked \in Offers
         /\ crossed \/ slots[s.place] \notin {None, s.asked} \/
               \A o \in open \ {s.asked} : o \in Range(slots) /\ o \notin {None, slots[s.place]}
<1>1. UploadsTyped /\ AskedFor /\ Straight
  BY DEF UploadsInv
<1>2. s.place \in 1 .. Len(slots) /\ s.asked \in Offers
  BY <1>1, SlotsAre DEF AskedFor
<1>3. ASSUME ~crossed, slots[s.place] \in {None, s.asked}, NEW o \in open \ {s.asked}
      PROVE  o \in Range(slots) /\ o \notin {None, slots[s.place]}
  BY <1>1, <1>3, NoneIsNoOffer DEF Straight, UploadsTyped
<1> QED BY <1>2, <1>3

LEMMA HasAllKeeps ==
  ASSUME NEW s \in Range(sends), UploadsInv, HasAll(s)
  PROVE  UploadsInv'
<1> DEFINE here == slots[s.place]
           at == {y \in 1 .. Len(srows) : srows[y].to # ToOffer(here)}
<1>1. PICK err : sends' = Ended(sends, s.id, err)
  BY DEF HasAll
<1>2. /\ slots' = [slots EXCEPT ![s.place] = None]
      /\ srows' = IF here = None THEN srows ELSE Picked(srows, at)
      /\ crossed' = (crossed \/ here \notin {None, s.asked}) /\ open' = open \ {s.asked}
      /\ UNCHANGED <<waiting, heard, wild>>
  BY DEF HasAll, Where, Places
<1>3. UploadsTyped /\ OneRow /\ Straight
  BY DEF UploadsInv
<1>4. IsSeq(srows) /\ IsSeq(sends) /\ (\A q \in Range(sends) : IsUSend(q)) /\ Once(srows)
  BY <1>3 DEF UploadsTyped, OneRow
<1>5. /\ IsSeq(sends') /\ \A q \in Range(sends') : IsUSend(q)
      /\ \A t \in Range(sends') : \E q \in Range(sends) :
            t.id = q.id /\ t.place = q.place /\ t.file = q.file /\ t.asked = q.asked
      /\ \A q \in Range(sends) : \E t \in Range(sends') : t.id = q.id
  BY <1>1, <1>4, EndedIs
<1>6. /\ s.place \in 1 .. Len(slots)
      /\ crossed \/ here \notin {None, s.asked} \/
            \A o \in open \ {s.asked} : o \in Range(slots) /\ o \notin {None, here}
  BY PlaceGone
<1> HIDE DEF here
<1>7. /\ slots' \in Seq(Offers \cup {None}) /\ Len(slots') = Len(slots)
      /\ \A j \in 1 .. Len(slots) : slots'[j] \in {slots[j], None}
      /\ \A o \in Range(slots) : o \notin {None, here} => o \in Range(slots')
  BY <1>2, <1>3, <1>6, PlaceEmptied DEF here
<1>8. /\ IsSeq(srows') /\ Once(srows') /\ Range(srows') \subseteq Range(srows)
      /\ here # None => \A r \in Range(srows') : r.to # ToOffer(here)
  <2>1. CASE here = None
    BY <1>2, <1>4, <2>1
  <2>2. CASE here # None
    <3>1. /\ IsSeq(Picked(srows, at)) /\ Within(Picked(srows, at), srows)
          /\ \A e \in Range(Picked(srows, at)) : \E i \in 1 .. Len(srows) : i \in at /\ srows[i] = e
      <4> HIDE DEF at
      <4> QED BY <1>4, PickedWithin
    <3>2. \A e \in Range(Picked(srows, at)) : e.to # ToOffer(here)
      BY <3>1
    <3> HIDE DEF at
    <3>3. Once(Picked(srows, at)) /\ Range(Picked(srows, at)) \subseteq Range(srows)
      BY <1>4, <3>1, WithinOnce
    <3>4. srows' = Picked(srows, at)
      BY <1>2, <2>2
    <3> QED BY <3>1, <3>2, <3>3, <3>4
  <2> QED BY <2>1, <2>2
<1> HIDE DEF at
<1>9. Fewer
  BY <1>2, <1>5, <1>7, <1>8 DEF Fewer
<1>10. Straight'
  <2> SUFFICES ASSUME ~crossed, here \in {None, s.asked} PROVE Straight'
    BY <1>2 DEF Straight
  <2>1. open \subseteq Range(slots) /\ ~wild /\ \A r \in Range(srows) : Pointed(r)
    BY <1>3 DEF Straight
  <2>2. open' \subseteq Range(slots')
    BY <1>2, <1>6, <1>7
  <2>3. ASSUME NEW r \in Range(srows'), r.to # ToNothing
        PROVE  \/ \E o \in Range(slots') \ {None} : r.to = ToOffer(o)
               \/ \E t \in Range(sends') : r.to = ToSend(t.id)
    <3>1. \/ \E o \in Range(slots) \ {None} : r.to = ToOffer(o)
          \/ \E q \in Range(sends) : r.to = ToSend(q.id)
      BY <1>8, <2>1, <2>3 DEF Pointed
    <3>2. CASE \E o \in Range(slots) \ {None} : r.to = ToOffer(o)
      BY <1>7, <1>8, <3>2
    <3>3. CASE \E q \in Range(sends) : r.to = ToSend(q.id)
      BY <1>5, <3>3
    <3> QED BY <3>1, <3>2, <3>3
  <2> QED BY <1>2, <2>1, <2>2, <2>3 DEF Straight, Pointed
<1> QED BY <1>9, <1>10, FewerKeep

LEMMA RunSendsKeeps == UploadsInv /\ RunSends => UploadsInv'
<1> SUFFICES ASSUME UploadsInv, RunSends PROVE UploadsInv'
  OBVIOUS
<1> DEFINE over == {s \in Range(sends) : s.err # NoError}
           After(row) == IF \E s \in over : row.to = ToSend(s.id)
                         THEN URow(row.file, ToNothing, (CHOOSE s \in over : row.to = ToSend(s.id)).err)
                         ELSE row
           going == {i \in 1 .. Len(sends) : sends[i].err = NoError}
           at == {y \in 1 .. Len(srows) : send_autoclear => \A s \in over : srows[y].to # ToSend(s.id)}
           left == Picked(srows, at)
<1>1. /\ sends' = Picked(sends, going) /\ srows' = [x \in 1 .. Len(left) |-> After(left[x])]
      /\ UNCHANGED <<slots, waiting, heard, open, crossed, wild>>
  BY DEF RunSends, Where, Places
<1>2. UploadsTyped /\ OneRow /\ Straight
  BY DEF UploadsInv
<1>3. /\ IsSeq(srows) /\ Once(srows) /\ \A r \in Range(srows) : IsURow(r)
      /\ IsSeq(sends) /\ \A q \in Range(sends) : IsUSend(q)
  BY <1>2 DEF UploadsTyped, OneRow
<1>4. /\ IsSeq(sends') /\ Range(sends') \subseteq Range(sends)
      /\ \A s \in Range(sends) : s \notin over => s \in Range(sends')
  <2>1. \A i \in 1 .. Len(sends) : sends[i] \in Range(sends)
    BY <1>3, SeqIs DEF IsSeq
  <2>2. \A s \in Range(sends) : \E i \in 1 .. Len(sends) : sends[i] = s
    BY <1>3, SeqIs DEF IsSeq
  <2> DEFINE t == Picked(sends, going)
  <2>3. /\ IsSeq(t) /\ \A e \in Range(t) : \E i \in 1 .. Len(sends) : i \in going /\ sends[i] = e
        /\ \A i \in 1 .. Len(sends) : i \in going => sends[i] \in Range(t)
    <3> HIDE DEF going
    <3> QED BY <1>3, PickedWithin
  <2> HIDE DEF t
  <2>4. \A s \in Range(sends) : s \notin over => \E i \in 1 .. Len(sends) : i \in going /\ sends[i] = s
    BY <2>2
  <2> HIDE DEF going, over
  <2>5. sends' = t
    BY <1>1 DEF t
  <2> QED BY <2>1, <2>3, <2>4, <2>5
<1> HIDE DEF going
<1>5. IsSeq(left) /\ Once(left) /\ Range(left) \subseteq Range(srows)
  <2> HIDE DEF at
  <2>1. IsSeq(left) /\ Within(left, srows)
    BY <1>3, PickedWithin
  <2> QED BY <1>3, <2>1, WithinOnce
<1> HIDE DEF left, at
<1>6. \A row : \/ After(row) = row /\ \A s \in over : row.to # ToSend(s.id)
               \/ IsURow(After(row)) /\ After(row).to = ToNothing
  <2> SUFFICES ASSUME NEW row
               PROVE  \/ After(row) = row /\ \A s \in over : row.to # ToSend(s.id)
                      \/ IsURow(After(row)) /\ After(row).to = ToNothing
    OBVIOUS
  <2> HIDE DEF over
  <2>1. CASE \E s \in over : row.to = ToSend(s.id)
    <3>1. PICK e : After(row) = URow(row.file, ToNothing, e)
      BY <2>1
    <3> HIDE DEF After
    <3> QED BY <3>1, RowFields
  <2> QED BY <2>1
<1> HIDE DEF over, After
<1>7. Len(left) \in Nat /\ \A x \in 1 .. Len(left) : left[x] \in Range(left)
  BY <1>5, SeqIs DEF IsSeq
<1>8. /\ srows' = [x \in 1 .. Len(left) |-> srows'[x]]
      /\ \A x \in 1 .. Len(left) : srows'[x] = After(left[x])
  BY <1>1
<1>9. Cut(srows', left)
  BY <1>6, <1>7, <1>8 DEF Cut
<1>10. /\ IsSeq(srows') /\ Once(srows')
       /\ \A r \in Range(srows') : r \in Range(left) \/ (IsURow(r) /\ r.to = ToNothing)
  BY <1>5, <1>9, CutIs
<1>11. ASSUME NEW r \in Range(srows')
       PROVE  \/ r \in Range(srows) /\ \A s \in over : r.to # ToSend(s.id)
              \/ IsURow(r) /\ r.to = ToNothing
  <2>1. Len(srows') = Len(left)
    BY <1>7, <1>8
  <2>2. PICK x \in 1 .. Len(left) : srows'[x] = r
    BY <1>10, <2>1, SeqIs DEF IsSeq
  <2>3. r = After(left[x]) /\ left[x] \in Range(srows)
    BY <1>5, <1>7, <1>8, <2>2
  <2> QED BY <1>6, <2>3
<1>12. Fewer
  <2>1. \A r \in Range(srows') : r \in Range(srows) \/ (IsURow(r) /\ r.to = ToNothing)
    BY <1>11
  <2>2. slots \in Seq(Offers \cup {None})
    BY <1>2 DEF UploadsTyped
  <2> QED BY <1>1, <1>3, <1>4, <1>10, <2>1, <2>2 DEF Fewer
<1>13. Straight'
  <2>1. ASSUME ~crossed, NEW r \in Range(srows'), r.to # ToNothing
        PROVE  \/ \E o \in Range(slots) \ {None} : r.to = ToOffer(o)
               \/ \E s \in Range(sends') : r.to = ToSend(s.id)
    BY <1>2, <1>4, <1>11, <2>1 DEF Straight, Pointed
  <2> QED BY <1>1, <1>2, <2>1 DEF Straight, Pointed
<1> QED BY <1>12, <1>13, FewerKeep

LEMMA ClearEndedKeeps == UploadsInv /\ ClearEnded => UploadsInv'
<1> SUFFICES ASSUME UploadsInv, ClearEnded PROVE UploadsInv'
  OBVIOUS
<1> DEFINE at == {y \in 1 .. Len(srows) : srows[y].to # ToNothing}
<1>1. /\ srows' = Picked(srows, at)
      /\ UNCHANGED <<slots, waiting, heard, sends, open, crossed, wild>>
  BY DEF ClearEnded, Where, Places
<1>2. UploadsTyped /\ OneRow /\ Straight
  BY DEF UploadsInv
<1>3. IsSeq(srows) /\ Once(srows)
  BY <1>2 DEF UploadsTyped, OneRow
<1> HIDE DEF at
<1>4. IsSeq(srows') /\ Within(srows', srows)
  BY <1>1, <1>3, PickedWithin
<1>5. Once(srows') /\ Range(srows') \subseteq Range(srows)
  BY <1>3, <1>4, WithinOnce
<1>6. Fewer
  BY <1>1, <1>2, <1>4, <1>5 DEF Fewer, UploadsTyped
<1>7. Straight'
  BY <1>1, <1>2, <1>5 DEF Straight, Pointed
<1> QED BY <1>6, <1>7, FewerKeep

LEMMA AbortKeeps ==
  ASSUME NEW x \in 1 .. Len(srows), UploadsInv, AbortRow(x)
  PROVE  UploadsInv'
<1> DEFINE offered == {i \in 1 .. Len(slots) : slots[i] # None /\ srows[x].to = ToOffer(slots[i])}
           sending == {s \in Range(sends) : srows[x].to = ToSend(s.id)}
           i == Min(offered)
<1>1. UNCHANGED <<waiting, heard>> /\ srows[x].to # ToNothing
  BY DEF AbortRow
<1>2. UploadsTyped /\ OneRow /\ AskedFor /\ Straight
  BY DEF UploadsInv
<1>3. /\ IsSeq(srows) /\ Once(srows) /\ IsSeq(sends) /\ \A q \in Range(sends) : IsUSend(q)
      /\ slots \in Seq(Offers \cup {None}) /\ Len(slots) \in Nat
      /\ Len(srows) \in Nat /\ srows = [y \in 1 .. Len(srows) |-> srows[y]]
      /\ \A y \in 1 .. Len(srows) : srows[y] \in Range(srows)
  <2>1. IsSeq(srows) /\ IsSeq(sends)
    BY <1>2 DEF UploadsTyped
  <2>2. /\ Len(srows) \in Nat /\ srows = [y \in 1 .. Len(srows) |-> srows[y]]
        /\ \A y \in 1 .. Len(srows) : srows[y] \in Range(srows)
    BY <2>1, SeqIs DEF IsSeq
  <2> QED BY <1>2, <2>1, <2>2, SlotsAre DEF UploadsTyped, OneRow
<1>4. \/ /\ offered # {}
         /\ slots' = [slots EXCEPT ![i] = None]
         /\ srows' = [srows EXCEPT ![x] = URow(@.file, ToNothing, "Aborted")]
         /\ open' = open \ {slots[i]} /\ UNCHANGED <<sends, crossed, wild>>
      \/ /\ offered = {} /\ UNCHANGED <<srows, wild>>
         /\ \E s \in sending :
              /\ sends' = Ended(sends, s.id, "Aborted")
              /\ crossed' = (crossed \/ slots[s.place] \notin {None, s.asked})
              /\ slots' = [slots EXCEPT ![s.place] = None] /\ open' = open \ {s.asked}
      \/ /\ offered = {} /\ sending = {} /\ UNCHANGED <<slots, sends, srows, open, crossed>>
  BY DEF AbortRow
\* An offer that was not sent yet.
<1>5. ASSUME offered # {}, slots' = [slots EXCEPT ![i] = None],
             srows' = [srows EXCEPT ![x] = URow(@.file, ToNothing, "Aborted")],
             open' = open \ {slots[i]}, UNCHANGED <<sends, crossed, wild>>
      PROVE  UploadsInv'
  <2>1. i \in 1 .. Len(slots) /\ slots[i] \in Offers /\ slots[i] # None /\ srows[x].to = ToOffer(slots[i])
    <3>1. offered \in SUBSET Nat
      BY <1>3
    <3>2. i \in offered
      <4> HIDE DEF offered
      <4> QED BY <1>5, <3>1, MinIs
    <3> HIDE DEF i
    <3> QED BY <1>3, <3>2
  <2> HIDE DEF i
  <2>2. /\ slots' \in Seq(Offers \cup {None}) /\ Len(slots') = Len(slots)
        /\ \A j \in 1 .. Len(slots) : slots'[j] \in {slots[j], None}
        /\ \A o \in Range(slots) : o \notin {None, slots[i]} => o \in Range(slots')
    BY <1>2, <1>5, <2>1, PlaceEmptied
  <2> DEFINE row == URow(srows[x].file, ToNothing, "Aborted")
  <2>3. IsURow(row) /\ row.to = ToNothing
    BY RowFields
  <2>4. srows' = [y \in 1 .. Len(srows) |-> IF y = x THEN row ELSE srows[y]]
    BY <1>3, <1>5
  <2> HIDE DEF row
  <2>5. /\ srows' = [y \in 1 .. Len(srows) |-> srows'[y]] /\ srows'[x] = row
        /\ \A y \in 1 .. Len(srows) : y # x => srows'[y] = srows[y]
    BY <2>4
  <2>6. Cut(srows', srows)
    BY <1>3, <2>3, <2>5 DEF Cut
  <2>7. /\ IsSeq(srows') /\ Once(srows')
        /\ \A r \in Range(srows') : r \in Range(srows) \/ (IsURow(r) /\ r.to = ToNothing)
    BY <1>3, <2>6, CutIs
  <2>8. \A r \in Range(srows') : r.to # ToOffer(slots[i])
    <3> SUFFICES ASSUME NEW r \in Range(srows'), r.to = ToOffer(slots[i]) PROVE FALSE
      OBVIOUS
    <3>1. Len(srows') = Len(srows)
      BY <1>3, <2>4
    <3>2. PICK y \in 1 .. Len(srows) : srows'[y] = r
      BY <2>7, <3>1, SeqIs DEF IsSeq
    <3>3. y # x /\ srows[y].to = ToOffer(slots[i])
      BY <2>3, <2>5, <3>2, PointersApart
    <3> QED BY <1>3, <2>1, <3>3 DEF Once
  <2>9. Fewer
    BY <1>1, <1>3, <1>5, <2>2, <2>7 DEF Fewer
  <2>10. Straight'
    <3> SUFFICES ASSUME ~crossed PROVE Straight'
      BY <1>5 DEF Straight
    <3>1. open \subseteq Range(slots) /\ ~wild /\ \A r \in Range(srows) : Pointed(r)
      BY <1>2 DEF Straight
    <3>2. open' \subseteq Range(slots')
      BY <1>2, <1>5, <2>2, <3>1, NoneIsNoOffer DEF UploadsTyped
    <3>3. ASSUME NEW r \in Range(srows'), r.to # ToNothing
          PROVE  \/ \E o \in Range(slots') \ {None} : r.to = ToOffer(o)
                 \/ \E t \in Range(sends') : r.to = ToSend(t.id)
      <4>1. \/ \E o \in Range(slots) \ {None} : r.to = ToOffer(o)
            \/ \E q \in Range(sends) : r.to = ToSend(q.id)
        BY <2>7, <3>1, <3>3 DEF Pointed
      <4> QED BY <1>5, <2>2, <2>8, <4>1
    <3> QED BY <1>5, <3>1, <3>2, <3>3 DEF Straight, Pointed
  <2> QED BY <2>9, <2>10, FewerKeep
\* An XferSend.
<1>6. ASSUME NEW s \in sending, UNCHANGED <<srows, wild>>, sends' = Ended(sends, s.id, "Aborted"),
             crossed' = (crossed \/ slots[s.place] \notin {None, s.asked}),
             slots' = [slots EXCEPT ![s.place] = None], open' = open \ {s.asked}
      PROVE  UploadsInv'
  <2> DEFINE here == slots[s.place]
  <2>1. s \in Range(sends)
    OBVIOUS
  <2>2. /\ IsSeq(sends') /\ \A q \in Range(sends') : IsUSend(q)
        /\ \A t \in Range(sends') : \E q \in Range(sends) :
              t.id = q.id /\ t.place = q.place /\ t.file = q.file /\ t.asked = q.asked
        /\ \A q \in Range(sends) : \E t \in Range(sends') : t.id = q.id
    BY <1>3, <1>6, EndedIs
  <2>3. /\ s.place \in 1 .. Len(slots) /\ s.asked \in Offers
        /\ crossed \/ here \notin {None, s.asked} \/
              \A o \in open \ {s.asked} : o \in Range(slots) /\ o \notin {None, here}
    BY <2>1, PlaceGone
  <2>4. /\ slots' \in Seq(Offers \cup {None}) /\ Len(slots') = Len(slots)
        /\ \A j \in 1 .. Len(slots) : slots'[j] \in {slots[j], None}
        /\ \A o \in Range(slots) : o \notin {None, here} => o \in Range(slots')
    BY <1>2, <1>6, <2>3, PlaceEmptied
  <2>5. Fewer
    BY <1>1, <1>3, <1>6, <2>2, <2>4 DEF Fewer
  <2>6. here = s.asked => \A r \in Range(srows) : r.to # ToOffer(here)
    BY <1>2, <2>1 DEF AskedFor
  <2> HIDE DEF here
  <2>7. Straight'
    <3> SUFFICES ASSUME ~crossed, here \in {None, s.asked} PROVE Straight'
      BY <1>6 DEF Straight, here
    <3>1. open \subseteq Range(slots) /\ ~wild /\ \A r \in Range(srows) : Pointed(r)
      BY <1>2 DEF Straight
    <3>2. open' \subseteq Range(slots')
      BY <1>6, <2>3, <2>4
    <3>3. ASSUME NEW r \in Range(srows'), r.to # ToNothing
          PROVE  \/ \E o \in Range(slots') \ {None} : r.to = ToOffer(o)
                 \/ \E t \in Range(sends') : r.to = ToSend(t.id)
      <4>1. r \in Range(srows)
        BY <1>6
      <4>2. \/ \E o \in Range(slots) \ {None} : r.to = ToOffer(o)
            \/ \E q \in Range(sends) : r.to = ToSend(q.id)
        BY <3>1, <3>3, <4>1 DEF Pointed
      <4>3. CASE \E o \in Range(slots) \ {None} : r.to = ToOffer(o)
        BY <2>4, <2>6, <4>1, <4>3
      <4>4. CASE \E q \in Range(sends) : r.to = ToSend(q.id)
        BY <2>2, <4>4
      <4> QED BY <4>2, <4>3, <4>4
    <3> QED BY <1>6, <3>1, <3>2, <3>3 DEF Straight, Pointed
  <2> QED BY <2>5, <2>7, FewerKeep
\* What is neither: only where places were crossed.
<1>7. ASSUME offered = {}, sending = {}, UNCHANGED <<slots, sends, srows, open, crossed>>
      PROVE  UploadsInv'
  <2>1. crossed
    <3> SUFFICES ASSUME ~crossed PROVE FALSE
      OBVIOUS
    <3>1. Pointed(srows[x])
      BY <1>2, <1>3 DEF Straight
    <3>2. ~\E o \in Range(slots) \ {None} : srows[x].to = ToOffer(o)
      BY <1>2, <1>7, SlotsAre
    <3> QED BY <1>1, <1>7, <3>1, <3>2 DEF Pointed
  <2>2. Fewer
    BY <1>1, <1>2, <1>3, <1>7 DEF Fewer, UploadsTyped
  <2>3. Straight'
    BY <1>7, <2>1 DEF Straight
  <2> QED BY <2>2, <2>3, FewerKeep
<1> HIDE DEF offered, sending, i
<1> QED BY <1>4, <1>5, <1>6, <1>7

LEMMA UploadsStep == UploadsInv /\ [UploadsNext]_uploadVars => UploadsInv'
<1> SUFFICES ASSUME UploadsInv, [UploadsNext]_uploadVars PROVE UploadsInv'
  OBVIOUS
<1>1. CASE UNCHANGED uploadVars
  BY <1>1 DEF uploadVars, UploadsInv, UploadsTyped, OnePlace, OneRow, Once, AskedFor, Straight, Pointed,
              Known, OfferPlaced
<1>2. ASSUME NEW s \in Range(sends), HasAll(s) \/ GivesUp(s) PROVE UploadsInv'
  BY <1>2, HasAllKeeps, GivesUpKeeps
<1> QED BY <1>1, <1>2, OfferKeeps, TellKeeps, RunSendsKeeps, ClearEndedKeeps, RequestKeeps, AbortKeeps
        DEF UploadsNext

LEMMA UploadsShowRight == UploadsInv => OffersHold
BY DEF UploadsInv, AskedFor, Straight, Pointed, OffersHold

\* Whatever is offered, asked for, sent and aborted, in whatever order and however often: who asks
\* for an offer is sent a file of that name or none, an offer stays until it is got or aborted, and
\* no row points to what is gone, as long as no XferSend of an offer gone before was aborted or
\* completed in a place that another offer has by then.
THEOREM OffersStand == UploadSpec => []OffersHold
BY UploadsStart, UploadsStep, UploadsShowRight, PTL DEF UploadSpec
-----------------------------------------------------------------------------
(* XferQueue: the downloads and the queue of those to come *)

\* How a download may have ended: "" if it goes on.
Outcome == {"Completed", "Timed out", "Refused", "Failed", "Aborted"} \cup {""}
DownloadRows == [file : QFiles, located : BOOLEAN, xfer : 0 .. MaxIds, status : Outcome]
Downloads == [id : 1 .. MaxIds, file : QFiles, err : Outcome]
Limits == [all : Maxima, host : HostMaxima]
AllLists == [queue : Seq(QFiles), count : Int, rows : Seq(DownloadRows), recvs : Seq(Downloads)]

DownloadsTyped ==
    /\ queue \in Seq(QFiles) /\ count \in Int /\ drows \in Seq(DownloadRows) /\ recvs \in Seq(Downloads)
    /\ limits \in Limits /\ most \in Nat /\ limits.all <= most

IsOn(d) == d.err = ""
\* Rows point to downloads of their files, no two to one; a download that goes on has a row with
\* its address, and is the only one of its file.
OneId(dls) == \A i, j \in 1 .. Len(dls) : dls[i].id = dls[j].id => i = j
OnePointer(list) == \A x, y \in 1 .. Len(list) : list[x].xfer = list[y].xfer /\ list[x].xfer # NoXfer => x = y
PointsTo(list, dls) ==
    \A x \in 1 .. Len(list) : list[x].xfer # NoXfer =>
        \E i \in 1 .. Len(dls) : dls[i].id = list[x].xfer /\ dls[i].file = list[x].file
Rowed(list, dls) ==
    \A i \in 1 .. Len(dls) : IsOn(dls[i]) =>
        \E x \in 1 .. Len(list) : list[x].xfer = dls[i].id /\ list[x].located
OneFile(dls) ==
    \A i, j \in 1 .. Len(dls) : IsOn(dls[i]) /\ IsOn(dls[j]) /\ dls[i].file = dls[j].file => i = j
Paired(list, dls) == OneId(dls) /\ OnePointer(list) /\ PointsTo(list, dls) /\ Rowed(list, dls) /\ OneFile(dls)

\* The downloads that go on, by their ids and files.
Active(dls) == {<<dls[i].id, dls[i].file>> : i \in {j \in 1 .. Len(dls) : IsOn(dls[j])}}
ByItself(dls, hand) == {p \in Active(dls) : p[1] \notin hand}
At(ps, peer) == {p \in ps : PeerOf[p[2]] = peer}
WithinLimits(dls, hand, lims, max) ==
    /\ Cardinality(ByItself(dls, hand)) <= max
    /\ lims.host # 0 => \A f \in QFiles : Cardinality(At(ByItself(dls, hand), PeerOf[f])) <= lims.host

Asked(list, q) == Range(q) \cup Located(list)

DownloadsInv ==
    /\ DownloadsTyped /\ count = Len(queue) /\ wanted \subseteq Asked(drows, queue)
    /\ Paired(drows, recvs) /\ WithinLimits(recvs, byHand, limits, most)

-----------------------------------------------------------------------------
(* XferQueue: lists with elements taken out *)

LEMMA PlacesOf ==
  ASSUME NEW S, NEW s \in Seq(S)
  PROVE  \A e : e \in Range(s) <=> \E i \in 1 .. Len(s) : s[i] = e
<1>1. DOMAIN s = 1 .. Len(s)
  OBVIOUS
<1> QED BY <1>1 DEF Range

LEMMA RangeOfPicked ==
  ASSUME NEW S, NEW s \in Seq(S), NEW at \in SUBSET (1 .. Len(s)), NEW t \in Seq(S), PickedUpTo(s, at, Len(s), t)
  PROVE  \A e : e \in Range(t) <=> \E i \in at : s[i] = e
<1>1. PICK f \in [1 .. Len(t) -> 1 .. Len(s)] :
         \A j, k \in 1 .. Len(t) : t[k] = s[f[k]] /\ f[k] \in at /\ (f[j] = f[k] => j = k)
  BY DEF PickedUpTo
<1>2. \A i \in at : \E k \in 1 .. Len(t) : t[k] = s[i]
  BY DEF PickedUpTo
<1>3. \A e : e \in Range(t) <=> \E k \in 1 .. Len(t) : t[k] = e
  BY PlacesOf
<1>4. \A k \in 1 .. Len(t) : f[k] \in at /\ t[k] = s[f[k]]
  BY <1>1
<1> TAKE e
<1>5. ASSUME e \in Range(t) PROVE \E i \in at : s[i] = e
  BY <1>3, <1>4, <1>5
<1>6. ASSUME NEW i \in at, s[i] = e PROVE e \in Range(t)
  BY <1>2, <1>3, <1>6
<1> QED BY <1>5, <1>6

LEMMA PickedRange ==
  ASSUME NEW S, NEW s \in Seq(S), NEW at \in SUBSET (1 .. Len(s))
  PROVE  \A e : e \in Range(Picked(s, at)) <=> \E i \in at : s[i] = e
<1>1. Picked(s, at) \in Seq(S) /\ PickedUpTo(s, at, Len(s), Picked(s, at))
  BY PickedIs
<1> QED BY <1>1, RangeOfPicked

LEMMA RemovedPicks ==
  ASSUME NEW S, NEW s \in Seq(S), NEW i \in 1 .. Len(s)
  PROVE  PickedUpTo(s, (1 .. Len(s)) \ {i}, Len(s), RemoveAt(s, i))
<1> DEFINE r == RemoveAt(s, i)
           f == [k \in 1 .. Len(r) |-> IF k < i THEN k ELSE k + 1]
           at == (1 .. Len(s)) \ {i}
<1>1. Len(r) = Len(s) - 1 /\ (\A j \in 1 .. i - 1 : r[j] = s[j]) /\ (\A j \in i .. Len(s) - 1 : r[j] = s[j + 1])
  BY RemovedIs
<1>2. Len(s) \in Nat /\ i \in Nat /\ 1 <= i /\ i <= Len(s)
  OBVIOUS
<1> HIDE DEF r
<1>3. \A k \in 1 .. Len(r) : f[k] \in 1 .. Len(s) /\ f[k] \in at /\ (k < i => k \in 1 .. i - 1) /\ (~(k < i) => k \in i .. Len(s) - 1)
  BY <1>1, <1>2
<1>4. \A k \in 1 .. Len(r) : r[k] = s[f[k]]
  BY <1>1, <1>3
<1>5. \A j, k \in 1 .. Len(r) : f[j] = f[k] => j = k
  BY <1>1, <1>2
<1>6. f \in [1 .. Len(r) -> 1 .. Len(s)]
  BY <1>3
<1>7. \A j \in 1 .. Len(s) : j \in at => \E k \in 1 .. Len(r) : r[k] = s[j]
  <2> TAKE j \in 1 .. Len(s)
  <2> HAVE j \in at
  <2>1. CASE j < i
    <3>1. j \in 1 .. i - 1 /\ j \in 1 .. Len(r)
      BY <1>1, <1>2, <2>1
    <3> QED BY <1>1, <3>1
  <2>2. CASE j > i
    <3>1. j - 1 \in i .. Len(s) - 1 /\ j - 1 \in 1 .. Len(r) /\ (j - 1) + 1 = j
      BY <1>1, <1>2, <2>2
    <3> QED BY <1>1, <3>1
  <2> QED BY <1>2, <2>1, <2>2
<1> HIDE DEF f, at
<1>8. PickedUpTo(s, at, Len(s), r)
  <2>1. \A j, k \in 1 .. Len(r) : r[k] = s[f[k]] /\ f[k] \in at /\ (f[j] = f[k] => j = k)
    BY <1>3, <1>4, <1>5
  <2> QED BY <1>6, <1>7, <2>1 DEF PickedUpTo
<1> QED BY <1>8 DEF r, at

\* As many are picked as there are places to pick.
LEMMA PickedLength ==
  ASSUME NEW S, NEW s \in Seq(S), NEW at
  PROVE  Len(Picked(s, at)) = Cardinality(at \cap (1 .. Len(s)))
<1> DEFINE u == Upto(s, at)
           n == Len(s)
           T == {m \in 0 .. n : u[m] \in Seq(S) /\ Len(u[m]) = Cardinality(at \cap (1 .. m))}
<1>1. n \in Nat /\ Picked(s, at) = u[n]
  BY KeptIs
<1>2. \A m \in 0 .. n : u[m] = KeptUpTo(s, at, u, m)
  BY UptoIs
<1> HIDE DEF u
<1>3. 0 \in T
  <2>1. u[0] = <<>> /\ 0 \in 0 .. n
    BY <1>1, <1>2 DEF KeptUpTo
  <2>2. at \cap (1 .. 0) = {}
    OBVIOUS
  <2>3. <<>> \in Seq(S) /\ Len(<<>>) = 0
    OBVIOUS
  <2>4. Cardinality({}) = 0
    BY FS_EmptySet
  <2>5. Cardinality(at \cap (1 .. 0)) = 0
    BY <2>2, <2>4, Zenon
  <2> QED BY <2>1, <2>3, <2>5
<1>4. ASSUME NEW m \in 1 .. n, m - 1 \in T PROVE m \in T
  <2>1. m \in Nat /\ m \in 0 .. n /\ m # 0 /\ m - 1 \in Nat /\ s[m] \in S
    BY <1>1
  <2>2. u[m - 1] \in Seq(S) /\ Len(u[m - 1]) = Cardinality(at \cap (1 .. m - 1))
    BY <1>4
  <2>3. u[m] = IF m \in at THEN Append(u[m - 1], s[m]) ELSE u[m - 1]
    BY <1>2, <2>1 DEF KeptUpTo
  <2>4. IsFiniteSet(at \cap (1 .. m - 1))
    <3>1. IsFiniteSet(1 .. m - 1)
      BY <2>1, FS_Interval
    <3> QED BY <3>1, FS_Subset
  <2>5. CASE m \in at
    <3>1. at \cap (1 .. m) = (at \cap (1 .. m - 1)) \cup {m} /\ m \notin at \cap (1 .. m - 1)
      BY <2>1, <2>5
    <3>2. Cardinality((at \cap (1 .. m - 1)) \cup {m}) = Cardinality(at \cap (1 .. m - 1)) + 1
      BY <2>4, <3>1, FS_AddElement
    <3>3. u[m] \in Seq(S) /\ Len(u[m]) = Len(u[m - 1]) + 1
      BY <2>1, <2>2, <2>3, <2>5, AppendProperties
    <3> QED BY <2>1, <2>2, <3>1, <3>2, <3>3
  <2>6. CASE m \notin at
    <3>1. at \cap (1 .. m) = at \cap (1 .. m - 1)
      BY <2>1, <2>6
    <3> QED BY <2>1, <2>2, <2>3, <2>6, <3>1
  <2> QED BY <2>5, <2>6
<1>5. \A m \in 0 .. n : m \in T
  <2> HIDE DEF T, n
  <2> QED BY <1>1, <1>3, <1>4, InTurn
<1>6. n \in 0 .. n
  BY <1>1
<1> QED BY <1>1, <1>5, <1>6

\* Some places and the others make all of them.
PartsOf(S, s, at, taken, left) ==
    /\ taken \in Seq(S) /\ left \in Seq(S) /\ PickedUpTo(s, (1 .. Len(s)) \ at, Len(s), left)
    /\ Len(taken) = Cardinality(at) /\ Len(left) = Len(s) - Cardinality(at) /\ Cardinality(at) \in Nat
    /\ Range(s) = Range(taken) \cup Range(left)

LEMMA PartsAre ==
  ASSUME NEW S, NEW s \in Seq(S), NEW at \in SUBSET (1 .. Len(s))
  PROVE  PartsOf(S, s, at, Picked(s, at), Without(s, at))
<1> DEFINE rest == (1 .. Len(s)) \ at
<1>1. at \cap (1 .. Len(s)) = at /\ rest \cap (1 .. Len(s)) = rest
  BY Zenon
<1>2. IsFiniteSet(1 .. Len(s)) /\ Cardinality(1 .. Len(s)) = Len(s)
  <2>1. Len(s) \in Nat
    OBVIOUS
  <2>2. IsFiniteSet(1 .. Len(s)) /\ Cardinality(1 .. Len(s)) = IF 1 > Len(s) THEN 0 ELSE Len(s) - 1 + 1
    <3>1. 1 \in Int /\ Len(s) \in Int
      BY <2>1
    <3> QED BY <3>1, FS_Interval
  <2> QED BY <2>1, <2>2
<1>3. IsFiniteSet(at) /\ Cardinality(at) \in Nat
  BY <1>2, FS_Subset, FS_CardinalityType
<1>4. Cardinality(rest) = Len(s) - Cardinality(at)
  <2>1. Cardinality((1 .. Len(s)) \ at) = Cardinality(1 .. Len(s)) - Cardinality((1 .. Len(s)) \cap at)
    BY <1>2, FS_Difference
  <2>2. (1 .. Len(s)) \cap at = at
    OBVIOUS
  <2> QED BY <1>2, <2>1, <2>2
<1>5. Without(s, at) = Picked(s, rest)
  BY DEF Without
<1>6. Len(Picked(s, at)) = Cardinality(at) /\ Len(Picked(s, rest)) = Cardinality(rest)
  <2>1. Len(Picked(s, at)) = Cardinality(at \cap (1 .. Len(s)))
    BY PickedLength
  <2>2. Len(Picked(s, rest)) = Cardinality(rest \cap (1 .. Len(s)))
    BY PickedLength
  <2> HIDE DEF rest
  <2> QED BY <1>1, <2>1, <2>2
<1>7. /\ Picked(s, at) \in Seq(S) /\ PickedUpTo(s, at, Len(s), Picked(s, at))
      /\ Picked(s, rest) \in Seq(S) /\ PickedUpTo(s, rest, Len(s), Picked(s, rest))
  BY PickedIs
<1>8. Range(s) = Range(Picked(s, at)) \cup Range(Picked(s, rest))
  <2>1. \A e : e \in Range(s) <=> \E i \in 1 .. Len(s) : s[i] = e
    BY PlacesOf
  <2>2. \A e : e \in Range(Picked(s, at)) <=> \E i \in at : s[i] = e
    BY PickedRange
  <2>3. \A e : e \in Range(Picked(s, rest)) <=> \E i \in rest : s[i] = e
    BY PickedRange
  <2>4. \A i \in 1 .. Len(s) : i \in at \/ i \in rest
    OBVIOUS
  <2>5. \A i \in at : i \in 1 .. Len(s)
    OBVIOUS
  <2>6. \A i \in rest : i \in 1 .. Len(s)
    OBVIOUS
  <2> HIDE DEF rest
  <2> QED BY <2>1, <2>2, <2>3, <2>4, <2>5, <2>6
<1> DEFINE taken == Picked(s, at)  left == Picked(s, rest)
<1>9. /\ taken \in Seq(S) /\ left \in Seq(S) /\ PickedUpTo(s, rest, Len(s), left)
      /\ Len(taken) = Cardinality(at) /\ Len(left) = Cardinality(rest)
      /\ Range(s) = Range(taken) \cup Range(left)
  BY <1>6, <1>7, <1>8
<1> HIDE DEF taken, left
<1>10. PartsOf(S, s, at, taken, left)
  BY <1>3, <1>4, <1>9 DEF PartsOf
<1> QED BY <1>5, <1>10 DEF taken, left

LEMMA LocatedIs ==
  ASSUME NEW S, NEW list \in Seq(S)
  PROVE  \A f : f \in Located(list) <=> \E x \in 1 .. Len(list) : list[x].located /\ list[x].file = f
<1>1. \A e : e \in Range(list) <=> \E x \in 1 .. Len(list) : list[x] = e
  BY PlacesOf
<1> QED BY <1>1 DEF Located

\* Rows that go on without the ones that point to nothing.
LEMMA PairedFewerRows ==
  ASSUME NEW list \in Seq(DownloadRows), NEW dls \in Seq(Downloads), Paired(list, dls),
         NEW at, NEW new, PickedUpTo(list, at, Len(list), new),
         \A x \in 1 .. Len(list) : x \notin at => list[x].xfer = NoXfer
  PROVE  Paired(new, dls)
<1>1. PICK f \in [1 .. Len(new) -> 1 .. Len(list)] :
         \A j, k \in 1 .. Len(new) : new[k] = list[f[k]] /\ f[k] \in at /\ (f[j] = f[k] => j = k)
  BY DEF PickedUpTo
<1>2. \A k \in 1 .. Len(new) : f[k] \in 1 .. Len(list) /\ new[k] = list[f[k]]
  BY <1>1
<1>3. OnePointer(new)
  <2> SUFFICES ASSUME NEW j \in 1 .. Len(new), NEW k \in 1 .. Len(new), new[j].xfer = new[k].xfer, new[j].xfer # NoXfer
               PROVE  j = k
    BY DEF OnePointer
  <2>1. f[j] \in 1 .. Len(list) /\ f[k] \in 1 .. Len(list) /\ list[f[j]].xfer = list[f[k]].xfer /\ list[f[j]].xfer # NoXfer
    BY <1>2
  <2>2. f[j] = f[k]
    BY <2>1 DEF Paired, OnePointer
  <2> QED BY <1>1, <2>2
<1>4. PointsTo(new, dls)
  <2> SUFFICES ASSUME NEW k \in 1 .. Len(new), new[k].xfer # NoXfer
               PROVE  \E i \in 1 .. Len(dls) : dls[i].id = new[k].xfer /\ dls[i].file = new[k].file
    BY DEF PointsTo
  <2>1. f[k] \in 1 .. Len(list) /\ new[k] = list[f[k]]
    BY <1>2
  <2>2. \A x \in 1 .. Len(list) : list[x].xfer # NoXfer =>
           \E i \in 1 .. Len(dls) : dls[i].id = list[x].xfer /\ dls[i].file = list[x].file
    BY DEF Paired, PointsTo
  <2>3. \E i \in 1 .. Len(dls) : dls[i].id = list[f[k]].xfer /\ dls[i].file = list[f[k]].file
    BY <2>1, <2>2
  <2> QED BY <2>1, <2>3
<1>5. Rowed(new, dls)
  <2> SUFFICES ASSUME NEW i \in 1 .. Len(dls), IsOn(dls[i])
               PROVE  \E k \in 1 .. Len(new) : new[k].xfer = dls[i].id /\ new[k].located
    BY DEF Rowed
  <2>1. PICK x \in 1 .. Len(list) : list[x].xfer = dls[i].id /\ list[x].located
    BY DEF Paired, Rowed
  <2>2. dls[i].id # NoXfer
    <3>1. dls[i] \in Downloads
      OBVIOUS
    <3> QED BY <3>1 DEF Downloads, NoXfer
  <2>3. x \in at
    BY <2>1, <2>2
  <2>4. PICK k \in 1 .. Len(new) : new[k] = list[x]
    BY <2>3 DEF PickedUpTo
  <2> QED BY <2>1, <2>4
<1> QED BY <1>3, <1>4, <1>5 DEF Paired

\* The ids and files of a list of downloads; those of one end.
Titled(dls) == {<<dls[i].id, dls[i].file>> : i \in 1 .. Len(dls)}

\* Downloads that go on without one, which no row points to any more.
Others(dls, id) == Picked(dls, {i \in 1 .. Len(dls) : dls[i].id # id})
RowedBut(list, dls, id) ==
    \A i \in 1 .. Len(dls) : IsOn(dls[i]) /\ dls[i].id # id =>
        \E x \in 1 .. Len(list) : list[x].xfer = dls[i].id /\ list[x].located

LEMMA PairedFewerDownloads ==
  ASSUME NEW list \in Seq(DownloadRows), NEW dls \in Seq(Downloads), OneId(dls), OnePointer(list), OneFile(dls),
         NEW id, PointsTo(list, dls), \A x \in 1 .. Len(list) : list[x].xfer # id, RowedBut(list, dls, id),
         NEW new, new = Others(dls, id)
  PROVE  Paired(list, new) /\ Active(new) \subseteq Active(dls) /\ Titled(new) \subseteq Titled(dls)
<1> DEFINE at == {i \in 1 .. Len(dls) : dls[i].id # id}
<1>1. PickedUpTo(dls, at, Len(dls), new)
  BY PickedIs DEF Others
<1>2. PICK f \in [1 .. Len(new) -> 1 .. Len(dls)] :
         \A j, k \in 1 .. Len(new) : new[k] = dls[f[k]] /\ f[k] \in at /\ (f[j] = f[k] => j = k)
  BY <1>1 DEF PickedUpTo
<1>3. \A k \in 1 .. Len(new) : f[k] \in 1 .. Len(dls) /\ new[k] = dls[f[k]] /\ new[k].id # id
  BY <1>2
<1>4. \A j, k \in 1 .. Len(new) : f[j] = f[k] => j = k
  BY <1>2
<1>5. OneId(new)
  BY <1>3, <1>4 DEF OneId
<1>6. OneFile(new)
  <2> SUFFICES ASSUME NEW j \in 1 .. Len(new), NEW k \in 1 .. Len(new),
                      IsOn(new[j]) /\ IsOn(new[k]) /\ new[j].file = new[k].file
               PROVE  j = k
    BY DEF OneFile
  <2>1. f[j] = f[k]
    BY <1>3 DEF OneFile
  <2> QED BY <1>4, <2>1
<1>7. PointsTo(list, new)
  <2> SUFFICES ASSUME NEW x \in 1 .. Len(list), list[x].xfer # NoXfer
               PROVE  \E k \in 1 .. Len(new) : new[k].id = list[x].xfer /\ new[k].file = list[x].file
    BY DEF PointsTo
  <2>1. PICK i \in 1 .. Len(dls) : dls[i].id = list[x].xfer /\ dls[i].file = list[x].file
    BY DEF PointsTo
  <2>2. i \in at
    BY <2>1
  <2>3. PICK k \in 1 .. Len(new) : new[k] = dls[i]
    BY <1>1, <2>2 DEF PickedUpTo
  <2> QED BY <2>1, <2>3
<1>8. Rowed(list, new)
  BY <1>3 DEF Rowed, RowedBut
<1>9. Active(new) \subseteq Active(dls)
  <2> SUFFICES ASSUME NEW p \in Active(new) PROVE p \in Active(dls)
    OBVIOUS
  <2>1. PICK k \in 1 .. Len(new) : IsOn(new[k]) /\ p = <<new[k].id, new[k].file>>
    BY DEF Active
  <2>2. f[k] \in 1 .. Len(dls) /\ IsOn(dls[f[k]]) /\ p = <<dls[f[k]].id, dls[f[k]].file>>
    BY <1>3, <2>1
  <2> QED BY <2>2 DEF Active
<1>10. Titled(new) \subseteq Titled(dls)
  <2> SUFFICES ASSUME NEW p \in Titled(new) PROVE p \in Titled(dls)
    OBVIOUS
  <2>1. PICK k \in 1 .. Len(new) : p = <<new[k].id, new[k].file>>
    BY DEF Titled
  <2>2. f[k] \in 1 .. Len(dls) /\ p = <<dls[f[k]].id, dls[f[k]].file>>
    BY <1>3, <2>1
  <2> QED BY <2>2 DEF Titled
<1> QED BY <1>5, <1>6, <1>7, <1>8, <1>9, <1>10 DEF Paired

\* The limits hold where fewer go on by themselves.
LEMMA ActiveIs ==
  ASSUME NEW dls \in Seq(Downloads)
  PROVE  /\ IsFiniteSet(Active(dls)) /\ Cardinality(Active(dls)) <= Len(dls)
         /\ IsFiniteSet(Titled(dls)) /\ Active(dls) \subseteq Titled(dls)
<1> DEFINE f == [i \in 1 .. Len(dls) |-> <<dls[i].id, dls[i].file>>]
<1>1. Len(dls) \in Nat /\ f \in Surjection(1 .. Len(dls), Titled(dls))
  BY DEF Surjection, Titled
<1>2. IsFiniteSet(1 .. Len(dls)) /\ Cardinality(1 .. Len(dls)) = Len(dls)
  <2>1. IsFiniteSet(1 .. Len(dls)) /\ Cardinality(1 .. Len(dls)) = IF 1 > Len(dls) THEN 0 ELSE Len(dls) - 1 + 1
    <3>1. 1 \in Int /\ Len(dls) \in Int
      BY <1>1
    <3> QED BY <3>1, FS_Interval
  <2> QED BY <1>1, <2>1
<1> HIDE DEF f
<1>3. IsFiniteSet(Titled(dls)) /\ Cardinality(Titled(dls)) <= Len(dls)
  BY <1>1, <1>2, FS_Surjection
<1>4. Active(dls) \subseteq Titled(dls)
  BY DEF Active, Titled
<1>5. IsFiniteSet(Active(dls)) /\ Cardinality(Active(dls)) <= Cardinality(Titled(dls))
  BY <1>3, <1>4, FS_Subset
<1>6. Cardinality(Titled(dls)) \in Nat /\ Cardinality(Active(dls)) \in Nat
  BY <1>3, <1>5, FS_CardinalityType
<1> QED BY <1>1, <1>3, <1>4, <1>5, <1>6

LEMMA StillWithin ==
  ASSUME NEW dls \in Seq(Downloads), NEW hand, NEW lims, lims.host \in Nat, NEW max \in Nat, WithinLimits(dls, hand, lims, max),
         NEW new, NEW hand2, ByItself(new, hand2) \subseteq ByItself(dls, hand), NEW max2 \in Nat, max <= max2,
         NEW lims2, lims2.host = lims.host
  PROVE  WithinLimits(new, hand2, lims2, max2)
<1> DEFINE own == ByItself(dls, hand)  own2 == ByItself(new, hand2)
<1>1. IsFiniteSet(own)
  <2>1. IsFiniteSet(Active(dls)) /\ own \subseteq Active(dls)
    BY ActiveIs DEF ByItself
  <2> QED BY <2>1, FS_Subset
<1> HIDE DEF own, own2
<1>2. \A s \in SUBSET own : \A t \in SUBSET s : Cardinality(t) <= Cardinality(s) /\ Cardinality(s) \in Nat /\ Cardinality(t) \in Nat
  <2> TAKE s \in SUBSET own
  <2> TAKE t \in SUBSET s
  <2>1. IsFiniteSet(s)
    BY <1>1, FS_Subset
  <2>2. IsFiniteSet(t) /\ Cardinality(t) <= Cardinality(s)
    BY <2>1, FS_Subset
  <2> QED BY <2>1, <2>2, FS_CardinalityType
<1>3. own2 \subseteq own /\ Cardinality(own) <= max
  BY DEF own, own2, WithinLimits
<1>4. Cardinality(own2) <= max2
  <2>1. Cardinality(own2) <= Cardinality(own) /\ Cardinality(own) \in Nat /\ Cardinality(own2) \in Nat
    BY <1>2, <1>3
  <2> QED BY <1>3, <2>1
<1>5. ASSUME lims2.host # 0, NEW f \in QFiles PROVE Cardinality(At(own2, PeerOf[f])) <= lims2.host
  <2>1. Cardinality(At(own, PeerOf[f])) <= lims.host
    BY <1>5 DEF own, WithinLimits
  <2>2. At(own2, PeerOf[f]) \subseteq At(own, PeerOf[f]) /\ At(own, PeerOf[f]) \subseteq own
    BY <1>3 DEF At
  <2>3. /\ Cardinality(At(own2, PeerOf[f])) <= Cardinality(At(own, PeerOf[f]))
        /\ Cardinality(At(own2, PeerOf[f])) \in Nat /\ Cardinality(At(own, PeerOf[f])) \in Nat
    BY <1>2, <2>2
  <2> QED BY <2>1, <2>3
<1> QED BY <1>4, <1>5 DEF WithinLimits, own2

-----------------------------------------------------------------------------
(* XferQueue: a download that ends *)

RowsOf(list, id) == {x \in 1 .. Len(list) : list[x].xfer = id}

\* What becomes of the lists, where x is the row of the download, if there is one in own.
ReapsTo(l, d, own, x, n) ==
    /\ n.recvs = Others(l.recvs, d.id)
    /\ \/ own = {} /\ n.rows = l.rows /\ n.queue = l.queue /\ n.count = l.count
       \/ own # {} /\ ~l.rows[x].located /\ n.rows = RemoveAt(l.rows, x) /\ n.queue = l.queue /\ n.count = l.count
       \/ own # {} /\ n.rows = RemoveAt(l.rows, x) /\ n.queue = Append(l.queue, d.file) /\ n.count = l.count + 1
       \/ own # {} /\ n.rows = [l.rows EXCEPT ![x] = [@ EXCEPT !.xfer = NoXfer, !.status = d.err]]
                   /\ n.queue = l.queue /\ n.count = l.count
    /\ n = [queue |-> n.queue, count |-> n.count, rows |-> n.rows, recvs |-> n.recvs]

LEMMA ReapedIs ==
  ASSUME NEW l \in AllLists, NEW d, NEW own, own = RowsOf(l.rows, d.id), NEW x, x = Min(own), NEW n, n = Reaped(l, d)
  PROVE  ReapsTo(l, d, own, x, n)
<1> DEFINE others == [l EXCEPT !.recvs = Others(l.recvs, d.id)]
           rowless == [others EXCEPT !.rows = RemoveAt(@, x)]
           queued == [rowless EXCEPT !.queue = Append(@, d.file), !.count = @ + 1]
           shown == [others EXCEPT !.rows[x].xfer = NoXfer, !.rows[x].status = d.err]
<1>1. n = IF own = {} THEN others
          ELSE IF options.autoclear /\ ~l.rows[x].located THEN rowless
          ELSE IF l.rows[x].located /\ d.err = "Timed out" /\ options.autores THEN queued
          ELSE shown
  <2> DEFINE of == RowsOf(l.rows, d.id)
             rest == [l EXCEPT !.recvs = Others(l.recvs, d.id)]
             gone == [rest EXCEPT !.rows = RemoveAt(@, Min(of))]
  <2>1. Reaped(l, d) = IF of = {} THEN rest
                       ELSE IF options.autoclear /\ ~l.rows[Min(of)].located THEN gone
                       ELSE IF l.rows[Min(of)].located /\ d.err = "Timed out" /\ options.autores
                            THEN [gone EXCEPT !.queue = Append(@, d.file), !.count = @ + 1]
                       ELSE [rest EXCEPT !.rows[Min(of)].xfer = NoXfer, !.rows[Min(of)].status = d.err]
    BY Zenon DEF Reaped, Queued, Others, RowsOf, Where, Places
  <2> QED BY <2>1, Zenon
<1>2. /\ others.recvs = Others(l.recvs, d.id) /\ others.rows = l.rows /\ others.queue = l.queue /\ others.count = l.count
      /\ others = [queue |-> others.queue, count |-> others.count, rows |-> others.rows, recvs |-> others.recvs]
  BY DEF AllLists
<1> HIDE DEF others
<1>3. /\ rowless.recvs = Others(l.recvs, d.id) /\ rowless.rows = RemoveAt(l.rows, x) /\ rowless.queue = l.queue /\ rowless.count = l.count
      /\ rowless = [queue |-> rowless.queue, count |-> rowless.count, rows |-> rowless.rows, recvs |-> rowless.recvs]
  BY <1>2
<1> HIDE DEF rowless
<1>4. /\ queued.recvs = Others(l.recvs, d.id) /\ queued.rows = RemoveAt(l.rows, x)
      /\ queued.queue = Append(l.queue, d.file) /\ queued.count = l.count + 1
      /\ queued = [queue |-> queued.queue, count |-> queued.count, rows |-> queued.rows, recvs |-> queued.recvs]
  <2>1. l.count \in Int /\ rowless.count \in Int
    BY <1>3 DEF AllLists
  <2>2. rowless = [queue |-> l.queue, count |-> l.count, rows |-> RemoveAt(l.rows, x), recvs |-> Others(l.recvs, d.id)]
    BY <1>3
  <2>3. queued = [queue |-> Append(l.queue, d.file), count |-> l.count + 1, rows |-> RemoveAt(l.rows, x), recvs |-> Others(l.recvs, d.id)]
    <3> DEFINE nq == Append(l.queue, d.file)  nc == l.count + 1  nr == RemoveAt(l.rows, x)  nd == Others(l.recvs, d.id)
    <3>1. rowless.queue = l.queue /\ rowless.count = l.count
      BY <1>3
    <3>2. queued = [rowless EXCEPT !.queue = nq, !.count = nc]
      BY <3>1, Zenon
    <3>3. rowless = [queue |-> l.queue, count |-> l.count, rows |-> nr, recvs |-> nd]
      BY <2>2
    <3> HIDE DEF queued, nq, nc, nr, nd
    <3>4. queued = [queue |-> nq, count |-> nc, rows |-> nr, recvs |-> nd]
      BY <3>2, <3>3
    <3> QED BY <3>4 DEF nq, nc, nr, nd
  <2> HIDE DEF queued
  <2> QED BY <2>3
<1>5. /\ shown.recvs = Others(l.recvs, d.id) /\ shown.queue = l.queue /\ shown.count = l.count
      /\ shown.rows = [l.rows EXCEPT ![x] = [@ EXCEPT !.xfer = NoXfer, !.status = d.err]]
      /\ shown = [queue |-> shown.queue, count |-> shown.count, rows |-> shown.rows, recvs |-> shown.recvs]
  <2> DEFINE list == [l.rows EXCEPT ![x] = [@ EXCEPT !.xfer = NoXfer, !.status = d.err]]
  <2>1. [others EXCEPT !.rows = list] = [queue |-> l.queue, count |-> l.count, rows |-> list, recvs |-> Others(l.recvs, d.id)]
    <3> HIDE DEF list
    <3> QED BY <1>2
  <2>2. shown = [others EXCEPT !.rows = list]
    BY <1>2
  <2> HIDE DEF list, shown
  <2>3. shown = [queue |-> l.queue, count |-> l.count, rows |-> list, recvs |-> Others(l.recvs, d.id)]
    BY <2>1, <2>2
  <2> QED BY <2>3 DEF list
<1> HIDE DEF queued, shown
<1>6. CASE own = {}
  BY <1>1, <1>2, <1>6 DEF ReapsTo
<1>7. CASE own # {} /\ n = rowless /\ ~l.rows[x].located
  BY <1>3, <1>7 DEF ReapsTo
<1>8. CASE own # {} /\ n = queued
  BY <1>4, <1>8 DEF ReapsTo
<1>9. CASE own # {} /\ n = shown
  BY <1>5, <1>9 DEF ReapsTo
<1> QED BY <1>1, <1>6, <1>7, <1>8, <1>9 DEF ReapsTo

\* A row that no longer points to anything is still one of the file.
LetsGo(list, x, new) ==
    /\ new \in Seq(DownloadRows) /\ Len(new) = Len(list)
    /\ \A y \in 1 .. Len(list) :
          /\ new[y].file = list[y].file /\ new[y].located = list[y].located
          /\ new[y].xfer = IF y = x THEN NoXfer ELSE list[y].xfer

LEMMA RowEnded ==
  ASSUME NEW list \in Seq(DownloadRows), NEW x \in 1 .. Len(list), NEW err \in Outcome,
         NEW new, new = [list EXCEPT ![x] = [@ EXCEPT !.xfer = NoXfer, !.status = err]]
  PROVE  LetsGo(list, x, new)
<1> DEFINE row == [list[x] EXCEPT !.xfer = NoXfer, !.status = err]
<1>1. list[x] \in DownloadRows
  OBVIOUS
<1>2. row \in DownloadRows /\ row.file = list[x].file /\ row.located = list[x].located /\ row.xfer = NoXfer
  <2>1. NoXfer \in 0 .. MaxIds
    BY QueueAssumption DEF NoXfer
  <2> DEFINE E == Outcome
  <2>2. err \in E /\ list[x] \in [file : QFiles, located : BOOLEAN, xfer : 0 .. MaxIds, status : E]
    BY <1>1 DEF DownloadRows
  <2> HIDE DEF E
  <2>3. row \in [file : QFiles, located : BOOLEAN, xfer : 0 .. MaxIds, status : E]
    BY <2>1, <2>2
  <2>4. row.file = list[x].file /\ row.located = list[x].located /\ row.xfer = NoXfer
    BY <2>2
  <2> QED BY <2>3, <2>4 DEF DownloadRows, E
<1>3. new = [list EXCEPT ![x] = row]
  BY Zenon
<1> HIDE DEF row
<1>4. new \in Seq(DownloadRows) /\ Len(new) = Len(list) /\ \A y \in 1 .. Len(list) : new[y] = IF y = x THEN row ELSE list[y]
  BY <1>2, <1>3
<1> QED BY <1>2, <1>4 DEF LetsGo

LEMMA RowsOfAre ==
  ASSUME NEW list \in Seq(DownloadRows), NEW id
  PROVE  RowsOf(list, id) # {} => Min(RowsOf(list, id)) \in 1 .. Len(list) /\ list[Min(RowsOf(list, id))].xfer = id
<1> DEFINE own == RowsOf(list, id)
<1>1. own \in SUBSET Nat /\ \A x \in own : x \in 1 .. Len(list) /\ list[x].xfer = id
  BY DEF RowsOf
<1> HIDE DEF own
<1>2. own # {} => Min(own) \in own
  BY <1>1, MinIs
<1> QED BY <1>1, <1>2 DEF own

LEMMA ReapedTyped ==
  ASSUME NEW l \in AllLists, NEW d \in Downloads
  PROVE  Reaped(l, d) \in AllLists
<1> DEFINE n == Reaped(l, d)  own == RowsOf(l.rows, d.id)  x == Min(own)
<1>1. l.queue \in Seq(QFiles) /\ l.count \in Int /\ l.rows \in Seq(DownloadRows) /\ l.recvs \in Seq(Downloads)
  BY DEF AllLists
<1>2. d.file \in QFiles /\ d.err \in Outcome
  BY DEF Downloads
<1>3. own # {} => x \in 1 .. Len(l.rows)
  BY <1>1, RowsOfAre
<1>4. own = RowsOf(l.rows, d.id) /\ x = Min(own) /\ n = Reaped(l, d)
  OBVIOUS
<1> HIDE DEF n, own, x
<1>5. /\ n.recvs = Others(l.recvs, d.id)
      /\ \/ own = {} /\ n.rows = l.rows /\ n.queue = l.queue /\ n.count = l.count
         \/ own # {} /\ ~l.rows[x].located /\ n.rows = RemoveAt(l.rows, x) /\ n.queue = l.queue /\ n.count = l.count
         \/ own # {} /\ n.rows = RemoveAt(l.rows, x) /\ n.queue = Append(l.queue, d.file) /\ n.count = l.count + 1
         \/ own # {} /\ n.rows = [l.rows EXCEPT ![x] = [@ EXCEPT !.xfer = NoXfer, !.status = d.err]]
                     /\ n.queue = l.queue /\ n.count = l.count
      /\ n = [queue |-> n.queue, count |-> n.count, rows |-> n.rows, recvs |-> n.recvs]
  <2>1. ReapsTo(l, d, own, x, n)
    BY <1>4, ReapedIs
  <2> QED BY <2>1 DEF ReapsTo
<1>6. n.recvs \in Seq(Downloads)
  BY <1>1, <1>5, PickedIs DEF Others
<1>7. n.queue \in Seq(QFiles) /\ n.count \in Int
  <2>1. Append(l.queue, d.file) \in Seq(QFiles) /\ l.count + 1 \in Int
    BY <1>1, <1>2
  <2> QED BY <1>1, <1>5, <2>1
<1>8. own # {} => RemoveAt(l.rows, x) \in Seq(DownloadRows)
  BY <1>1, <1>3, RemovedIs
<1>9. own # {} => [l.rows EXCEPT ![x] = [@ EXCEPT !.xfer = NoXfer, !.status = d.err]] \in Seq(DownloadRows)
  BY <1>1, <1>2, <1>3, RowEnded DEF LetsGo
<1>10. n.rows \in Seq(DownloadRows)
  BY <1>1, <1>5, <1>8, <1>9
<1>11. [queue |-> n.queue, count |-> n.count, rows |-> n.rows, recvs |-> n.recvs] \in AllLists
  BY <1>6, <1>7, <1>10 DEF AllLists
<1> QED BY <1>5, <1>11 DEF n

\* What is still there of the rows, once the one of a download is taken out or points to nothing.
Released(list, id, r, dls) ==
    /\ r \in Seq(DownloadRows) /\ OnePointer(r) /\ PointsTo(r, dls) /\ \A k \in 1 .. Len(r) : r[k].xfer # id
    /\ \A x \in 1 .. Len(list) : list[x].xfer # id =>
          \E k \in 1 .. Len(r) : r[k].xfer = list[x].xfer /\ r[k].located = list[x].located /\ r[k].file = list[x].file

LEMMA RowTakenOut ==
  ASSUME NEW list \in Seq(DownloadRows), NEW dls, OnePointer(list), PointsTo(list, dls),
         NEW x \in 1 .. Len(list), list[x].xfer # NoXfer
  PROVE  Released(list, list[x].xfer, RemoveAt(list, x), dls)
<1> DEFINE r == RemoveAt(list, x)  at == (1 .. Len(list)) \ {x}
<1>1. PickedUpTo(list, at, Len(list), r)
  BY RemovedPicks
<1>2. r \in Seq(DownloadRows)
  BY RemovedIs
<1> HIDE DEF r
<1>3. PICK f \in [1 .. Len(r) -> 1 .. Len(list)] :
         \A j, k \in 1 .. Len(r) : r[k] = list[f[k]] /\ f[k] \in at /\ (f[j] = f[k] => j = k)
  BY <1>1 DEF PickedUpTo
<1>4. \A k \in 1 .. Len(r) : f[k] \in 1 .. Len(list) /\ r[k] = list[f[k]] /\ f[k] # x
  BY <1>3
<1>5. \A j, k \in 1 .. Len(r) : f[j] = f[k] => j = k
  BY <1>3
<1>6. \A y \in 1 .. Len(list) : list[y].xfer = list[x].xfer => y = x
  BY DEF OnePointer
<1>7. OnePointer(r)
  <2> SUFFICES ASSUME NEW j \in 1 .. Len(r), NEW k \in 1 .. Len(r), r[j].xfer = r[k].xfer, r[j].xfer # NoXfer
               PROVE  j = k
    BY DEF OnePointer
  <2>1. f[j] \in 1 .. Len(list) /\ f[k] \in 1 .. Len(list) /\ list[f[j]].xfer = list[f[k]].xfer /\ list[f[j]].xfer # NoXfer
    BY <1>4
  <2>2. f[j] = f[k]
    BY <2>1 DEF OnePointer
  <2> QED BY <1>5, <2>2
<1>8. PointsTo(r, dls)
  <2> SUFFICES ASSUME NEW k \in 1 .. Len(r), r[k].xfer # NoXfer
               PROVE  \E i \in 1 .. Len(dls) : dls[i].id = r[k].xfer /\ dls[i].file = r[k].file
    BY DEF PointsTo
  <2>1. f[k] \in 1 .. Len(list) /\ r[k] = list[f[k]]
    BY <1>4
  <2>2. \E i \in 1 .. Len(dls) : dls[i].id = list[f[k]].xfer /\ dls[i].file = list[f[k]].file
    BY <2>1 DEF PointsTo
  <2> QED BY <2>1, <2>2
<1>9. \A k \in 1 .. Len(r) : r[k].xfer # list[x].xfer
  BY <1>4, <1>6
<1>10. \A y \in 1 .. Len(list) : list[y].xfer # list[x].xfer => \E k \in 1 .. Len(r) : r[k] = list[y]
  <2> TAKE y \in 1 .. Len(list)
  <2> HAVE list[y].xfer # list[x].xfer
  <2>1. y \in at
    OBVIOUS
  <2> QED BY <1>1, <2>1 DEF PickedUpTo
<1> QED BY <1>2, <1>7, <1>8, <1>9, <1>10 DEF Released, r

LEMMA RowReleased ==
  ASSUME NEW list \in Seq(DownloadRows), NEW dls, OnePointer(list), PointsTo(list, dls),
         NEW x \in 1 .. Len(list), list[x].xfer # NoXfer, NEW err \in Outcome
  PROVE  Released(list, list[x].xfer, [list EXCEPT ![x] = [@ EXCEPT !.xfer = NoXfer, !.status = err]], dls)
<1> DEFINE r == [list EXCEPT ![x] = [@ EXCEPT !.xfer = NoXfer, !.status = err]]
<1>1. LetsGo(list, x, r)
  BY RowEnded
<1> HIDE DEF r
<1>2. \A y \in 1 .. Len(list) : list[y].xfer = list[x].xfer => y = x
  BY DEF OnePointer
<1>3. OnePointer(r)
  BY <1>1 DEF LetsGo, OnePointer
<1>4. PointsTo(r, dls)
  BY <1>1 DEF LetsGo, PointsTo
<1>5. \A k \in 1 .. Len(r) : r[k].xfer # list[x].xfer
  BY <1>1, <1>2 DEF LetsGo
<1> QED BY <1>1, <1>3, <1>4, <1>5 DEF LetsGo, Released, r

LEMMA ReapedKeeps ==
  ASSUME NEW l \in AllLists, NEW d \in Downloads, l.count = Len(l.queue), Paired(l.rows, l.recvs),
         \A i \in 1 .. Len(l.recvs) : l.recvs[i].id = d.id => l.recvs[i].file = d.file,
         NEW n, n = Reaped(l, d)
  PROVE  /\ n.count = Len(n.queue) /\ Paired(n.rows, n.recvs) /\ Asked(l.rows, l.queue) \subseteq Asked(n.rows, n.queue)
         /\ Active(n.recvs) \subseteq Active(l.recvs) /\ Titled(n.recvs) \subseteq Titled(l.recvs)
<1> DEFINE own == RowsOf(l.rows, d.id)  x == Min(own)
<1>1. l.queue \in Seq(QFiles) /\ l.count \in Int /\ l.rows \in Seq(DownloadRows) /\ l.recvs \in Seq(Downloads)
  BY DEF AllLists
<1>2. d.file \in QFiles /\ d.err \in Outcome /\ d.id # NoXfer
  BY DEF Downloads, NoXfer
<1>3. own # {} => x \in 1 .. Len(l.rows) /\ l.rows[x].xfer = d.id
  BY <1>1, RowsOfAre
<1>4. own = {} => \A y \in 1 .. Len(l.rows) : l.rows[y].xfer # d.id
  BY DEF RowsOf
<1>5. own = RowsOf(l.rows, d.id) /\ x = Min(own)
  OBVIOUS
<1> HIDE DEF own, x
<1>6. ReapsTo(l, d, own, x, n)
  BY <1>5, ReapedIs
<1>7. OneId(l.recvs) /\ OnePointer(l.rows) /\ PointsTo(l.rows, l.recvs) /\ Rowed(l.rows, l.recvs) /\ OneFile(l.recvs)
  BY DEF Paired
<1>8. Released(l.rows, d.id, n.rows, l.recvs)
  <2>1. CASE own = {}
    <3>1. n.rows = l.rows
      BY <1>6, <2>1 DEF ReapsTo
    <3> QED BY <1>1, <1>4, <1>7, <2>1, <3>1 DEF Released
  <2>2. CASE own # {}
    <3>1. Released(l.rows, d.id, RemoveAt(l.rows, x), l.recvs)
      BY <1>1, <1>2, <1>3, <1>7, <2>2, RowTakenOut
    <3>2. Released(l.rows, d.id, [l.rows EXCEPT ![x] = [@ EXCEPT !.xfer = NoXfer, !.status = d.err]], l.recvs)
      BY <1>1, <1>2, <1>3, <1>7, <2>2, RowReleased
    <3> QED BY <1>6, <2>2, <3>1, <3>2 DEF ReapsTo
  <2> QED BY <2>1, <2>2
<1>9. n.count = Len(n.queue)
  <2>1. Len(Append(l.queue, d.file)) = Len(l.queue) + 1
    BY <1>1, <1>2
  <2> QED BY <1>6, <2>1 DEF ReapsTo
<1>10. Asked(l.rows, l.queue) \subseteq Asked(n.rows, n.queue)
  <2>1. Range(l.queue) \subseteq Range(n.queue)
    <3>1. Range(Append(l.queue, d.file)) = Range(l.queue) \cup {d.file}
      <4>1. IsSeq(l.queue)
        BY <1>1, SeqIs
      <4> QED BY <4>1, AddedLast
    <3> QED BY <1>6, <3>1 DEF ReapsTo
  <2>2. ASSUME NEW f \in Located(l.rows) PROVE f \in Located(n.rows) \/ f \in Range(n.queue)
    <3>1. PICK y \in 1 .. Len(l.rows) : l.rows[y].located /\ l.rows[y].file = f
      BY <1>1, <2>2, LocatedIs
    <3>2. n.rows \in Seq(DownloadRows)
      BY <1>8 DEF Released
    <3>3. ASSUME NEW k \in 1 .. Len(n.rows), n.rows[k].located, n.rows[k].file = f PROVE f \in Located(n.rows)
      BY <3>2, <3>3, LocatedIs
    <3>4. CASE l.rows[y].xfer # d.id
      <4>1. PICK k \in 1 .. Len(n.rows) : n.rows[k].located = l.rows[y].located /\ n.rows[k].file = l.rows[y].file
        BY <1>8, <3>4 DEF Released
      <4> QED BY <3>1, <3>3, <4>1
    <3>5. CASE l.rows[y].xfer = d.id
      <4>1. own # {} /\ y = x
        <5>1. own # {}
          BY <1>4, <3>5
        <5> QED BY <1>2, <1>3, <1>7, <3>5, <5>1 DEF OnePointer
      <4>2. f = d.file
        <5>1. PICK i \in 1 .. Len(l.recvs) : l.recvs[i].id = l.rows[y].xfer /\ l.recvs[i].file = l.rows[y].file
          BY <1>2, <1>7, <3>5 DEF PointsTo
        <5> QED BY <3>1, <3>5, <5>1
      <4>3. CASE n.queue = Append(l.queue, d.file)
        <5>1. IsSeq(l.queue)
          BY <1>1, SeqIs
        <5>2. Range(Append(l.queue, d.file)) = Range(l.queue) \cup {d.file}
          BY <5>1, AddedLast
        <5> QED BY <4>2, <4>3, <5>2
      <4>4. CASE n.rows = [l.rows EXCEPT ![x] = [@ EXCEPT !.xfer = NoXfer, !.status = d.err]]
        <5>1. Len(n.rows) = Len(l.rows) /\ n.rows[y].file = l.rows[y].file /\ n.rows[y].located = l.rows[y].located
          <6>1. LetsGo(l.rows, x, n.rows)
            BY <1>1, <1>2, <1>3, <4>1, <4>4, RowEnded
          <6> QED BY <6>1 DEF LetsGo
        <5> QED BY <3>1, <3>3, <5>1
      <4> QED BY <1>6, <3>1, <4>1, <4>3, <4>4 DEF ReapsTo
    <3> QED BY <3>4, <3>5
  <2> QED BY <2>1, <2>2 DEF Asked
<1>11. /\ Paired(n.rows, n.recvs) /\ Active(n.recvs) \subseteq Active(l.recvs) /\ Titled(n.recvs) \subseteq Titled(l.recvs)
  <2>1. n.recvs = Others(l.recvs, d.id)
    BY <1>6 DEF ReapsTo
  <2>2. RowedBut(n.rows, l.recvs, d.id)
    <3> SUFFICES ASSUME NEW i \in 1 .. Len(l.recvs), IsOn(l.recvs[i]), l.recvs[i].id # d.id
                 PROVE  \E k \in 1 .. Len(n.rows) : n.rows[k].xfer = l.recvs[i].id /\ n.rows[k].located
      BY DEF RowedBut
    <3>1. PICK y \in 1 .. Len(l.rows) : l.rows[y].xfer = l.recvs[i].id /\ l.rows[y].located
      BY <1>7 DEF Rowed
    <3> QED BY <1>8, <3>1 DEF Released
  <2>3. /\ n.rows \in Seq(DownloadRows) /\ OnePointer(n.rows) /\ PointsTo(n.rows, l.recvs)
        /\ \A k \in 1 .. Len(n.rows) : n.rows[k].xfer # d.id
    BY <1>8 DEF Released
  <2> QED BY <1>1, <1>7, <2>1, <2>2, <2>3, PairedFewerDownloads
<1> QED BY <1>9, <1>10, <1>11

-----------------------------------------------------------------------------
(* XferQueue: a download that is started *)

LEMMA FreeIdIs ==
  ASSUME NEW l \in AllLists, Len(l.recvs) < MaxIds
  PROVE  FreeId(l) \in 1 .. MaxIds /\ \A i \in 1 .. Len(l.recvs) : l.recvs[i].id # FreeId(l)
<1> DEFINE dls == l.recvs
           ids == {dls[i].id : i \in 1 .. Len(dls)}
           f == [i \in 1 .. Len(dls) |-> dls[i].id]
           free == (1 .. MaxIds) \ ids
<1>1. dls \in Seq(Downloads) /\ Len(dls) \in Nat /\ MaxIds \in Nat /\ Len(dls) < MaxIds
  BY QueueAssumption DEF AllLists
<1>2. FreeId(l) = Min(free)
  BY DEF FreeId
<1>3. f \in Surjection(1 .. Len(dls), ids)
  BY DEF Surjection
<1> HIDE DEF dls, f
<1>4. /\ IsFiniteSet(1 .. Len(dls)) /\ Cardinality(1 .. Len(dls)) = Len(dls)
      /\ IsFiniteSet(1 .. MaxIds) /\ Cardinality(1 .. MaxIds) = MaxIds
  <2>1. ASSUME NEW k \in Nat PROVE IsFiniteSet(1 .. k) /\ Cardinality(1 .. k) = k
    <3>1. IsFiniteSet(1 .. k) /\ Cardinality(1 .. k) = IF 1 > k THEN 0 ELSE k - 1 + 1
      <4>1. 1 \in Int /\ k \in Int
        OBVIOUS
      <4> QED BY <4>1, FS_Interval
    <3> QED BY <3>1
  <2> QED BY <1>1, <2>1
<1>5. IsFiniteSet(ids) /\ Cardinality(ids) <= Len(dls)
  <2> HIDE DEF ids
  <2>1. IsFiniteSet(ids) /\ Cardinality(ids) <= Cardinality(1 .. Len(dls))
    BY <1>3, <1>4, FS_Surjection
  <2> QED BY <1>4, <2>1
<1>6. free # {}
  <2> SUFFICES ASSUME free = {} PROVE FALSE
    OBVIOUS
  <2>1. 1 .. MaxIds \subseteq ids
    BY Zenon
  <2> HIDE DEF ids
  <2>2. Cardinality(1 .. MaxIds) <= Cardinality(ids)
    BY <1>5, <2>1, FS_Subset
  <2>3. Cardinality(ids) \in Nat
    BY <1>5, FS_CardinalityType
  <2> QED BY <1>1, <1>4, <1>5, <2>2, <2>3
<1>7. free \in SUBSET Nat
  BY <1>1
<1>8. Min(free) \in free
  <2> HIDE DEF free
  <2> QED BY <1>6, <1>7, MinIs
<1>9. Min(free) \in 1 .. MaxIds /\ \A i \in 1 .. Len(dls) : dls[i].id # Min(free)
  <2> DEFINE m == Min(free)
  <2>1. m \in free
    BY <1>8
  <2> HIDE DEF m
  <2>2. m \in 1 .. MaxIds /\ \A i \in 1 .. Len(dls) : dls[i].id # m
    BY <2>1
  <2> QED BY <2>2 DEF m
<1> QED BY <1>2, <1>9 DEF dls

\* A row put before the others.
LEMMA PutFirst ==
  ASSUME NEW S, NEW s \in Seq(S), NEW e \in S, NEW t, t = <<e>> \o s
  PROVE  /\ t \in Seq(S) /\ Len(t) = Len(s) + 1 /\ 1 \in 1 .. Len(t) /\ t[1] = e
         /\ \A k \in 1 .. Len(s) : k + 1 \in 1 .. Len(t) /\ t[k + 1] = s[k]
         /\ \A k \in 1 .. Len(t) : k = 1 \/ (k - 1 \in 1 .. Len(s) /\ t[k] = s[k - 1])
<1> DEFINE one == <<e>>
<1>1. one \in Seq(S) /\ Len(one) = 1 /\ one[1] = e /\ t = one \o s
  OBVIOUS
<1>2. Len(s) \in Nat
  OBVIOUS
<1> HIDE DEF one
<1>3. /\ t \in Seq(S) /\ Len(t) = 1 + Len(s)
      /\ \A k \in 1 .. 1 + Len(s) : t[k] = IF k <= 1 THEN one[k] ELSE s[k - 1]
  BY <1>1, ConcatProperties
<1>4. \A k \in 1 .. Len(s) : k + 1 \in 1 .. Len(t) /\ t[k + 1] = s[k]
  <2> TAKE k \in 1 .. Len(s)
  <2>1. k + 1 \in 1 .. 1 + Len(s) /\ ~(k + 1 <= 1) /\ (k + 1) - 1 = k
    BY <1>2
  <2> QED BY <1>3, <2>1
<1>5. \A k \in 1 .. Len(t) : k = 1 \/ (k - 1 \in 1 .. Len(s) /\ t[k] = s[k - 1])
  BY <1>2, <1>3
<1>6. 1 \in 1 .. Len(t) /\ t[1] = e
  BY <1>1, <1>2, <1>3
<1> QED BY <1>2, <1>3, <1>4, <1>5, <1>6

\* A download of a file of which none goes on.
NewDownload(id, file) == [id |-> id, file |-> file, err |-> ""]
NewRow(id, file) == DRow(file, TRUE, id, "")

LEMMA NewOnes ==
  ASSUME NEW id \in 1 .. MaxIds, NEW file \in QFiles
  PROVE  /\ NewDownload(id, file) \in Downloads /\ IsOn(NewDownload(id, file))
         /\ NewDownload(id, file).id = id /\ NewDownload(id, file).file = file
         /\ NewRow(id, file) \in DownloadRows /\ NewRow(id, file).xfer = id
         /\ NewRow(id, file).located /\ NewRow(id, file).file = file
<1> DEFINE on == ""  E == Outcome
<1>1. on \in E
  BY Zenon DEF Outcome
<1> HIDE DEF on, E
<1>2. NewDownload(id, file) = [id |-> id, file |-> file, err |-> on]
  BY Zenon DEF NewDownload, on
<1>3. NewRow(id, file) = [file |-> file, located |-> TRUE, xfer |-> id, status |-> on]
  BY Zenon DEF NewRow, DRow, on
<1>4. IsOn(NewDownload(id, file))
  <2>1. NewDownload(id, file).err = on
    BY <1>2
  <2> QED BY <2>1, Zenon DEF IsOn, on
<1>5. NewDownload(id, file) \in [id : 1 .. MaxIds, file : QFiles, err : E]
  BY <1>1, <1>2
<1>6. NewRow(id, file) \in [file : QFiles, located : BOOLEAN, xfer : 0 .. MaxIds, status : E]
  <2>1. id \in 0 .. MaxIds
    OBVIOUS
  <2> QED BY <1>1, <1>3, <2>1
<1>7. NewDownload(id, file).id = id /\ NewDownload(id, file).file = file
  BY <1>2
<1>8. NewRow(id, file).xfer = id /\ NewRow(id, file).located /\ NewRow(id, file).file = file
  BY <1>3
<1> QED BY <1>4, <1>5, <1>6, <1>7, <1>8, Zenon DEF Downloads, DownloadRows, E

LEMMA PairedMore ==
  ASSUME NEW list \in Seq(DownloadRows), NEW dls \in Seq(Downloads), Paired(list, dls),
         NEW id \in 1 .. MaxIds, \A i \in 1 .. Len(dls) : dls[i].id # id, NEW file \in QFiles,
         \A x \in 1 .. Len(list) : list[x].located /\ list[x].file = file => list[x].xfer = NoXfer,
         NEW new, new = <<NewRow(id, file)>> \o list, NEW more, more = Append(dls, NewDownload(id, file))
  PROVE  Paired(new, more)
<1> DEFINE e == NewDownload(id, file)  r == NewRow(id, file)  n == Len(dls) + 1
<1>1. e \in Downloads /\ IsOn(e) /\ e.id = id /\ e.file = file /\ r \in DownloadRows /\ r.xfer = id /\ r.located /\ r.file = file
  BY NewOnes
<1> HIDE DEF e, r
<1>2. /\ new \in Seq(DownloadRows) /\ Len(new) = Len(list) + 1 /\ 1 \in 1 .. Len(new) /\ new[1] = r
      /\ \A k \in 1 .. Len(list) : k + 1 \in 1 .. Len(new) /\ new[k + 1] = list[k]
      /\ \A k \in 1 .. Len(new) : k = 1 \/ (k - 1 \in 1 .. Len(list) /\ new[k] = list[k - 1])
  <2>1. new = <<r>> \o list
    BY DEF r
  <2> QED BY <1>1, <2>1, PutFirst
<1>3. /\ Len(more) = n /\ n \in 1 .. n /\ more[n] = e /\ (\A i \in 1 .. Len(dls) : i \in 1 .. n /\ more[i] = dls[i])
      /\ (\A i \in 1 .. n : i = n \/ i \in 1 .. Len(dls))
  <2>1. more = Append(dls, e)
    BY DEF e
  <2>2. Len(dls) \in Nat
    OBVIOUS
  <2> QED BY <1>1, <2>1, <2>2
<1> HIDE DEF n
<1>4. OneId(dls) /\ OnePointer(list) /\ PointsTo(list, dls) /\ Rowed(list, dls) /\ OneFile(dls)
  BY DEF Paired
<1>5. \A i \in 1 .. Len(dls) : IsOn(dls[i]) => dls[i].file # file
  <2> SUFFICES ASSUME NEW i \in 1 .. Len(dls), IsOn(dls[i]), dls[i].file = file PROVE FALSE
    OBVIOUS
  <2>1. PICK x \in 1 .. Len(list) : list[x].xfer = dls[i].id /\ list[x].located
    BY <1>4 DEF Rowed
  <2>2. dls[i].id # NoXfer
    <3>1. dls[i] \in Downloads
      OBVIOUS
    <3> QED BY <3>1 DEF Downloads, NoXfer
  <2>3. PICK j \in 1 .. Len(dls) : dls[j].id = list[x].xfer /\ dls[j].file = list[x].file
    BY <1>4, <2>1, <2>2 DEF PointsTo
  <2>4. j = i
    BY <1>4, <2>1, <2>3 DEF OneId
  <2> QED BY <2>1, <2>2, <2>3, <2>4
<1>6. OneId(more)
  BY <1>1, <1>3, <1>4 DEF OneId
<1>7. OneFile(more)
  <2> SUFFICES ASSUME NEW j \in 1 .. n, NEW k \in 1 .. n, IsOn(more[j]), IsOn(more[k]), more[j].file = more[k].file
               PROVE  j = k
    BY <1>3 DEF OneFile
  <2>1. CASE j \in 1 .. Len(dls) /\ k \in 1 .. Len(dls)
    BY <1>3, <1>4, <2>1 DEF OneFile
  <2>2. CASE j = n /\ k \in 1 .. Len(dls)
    BY <1>1, <1>3, <1>5, <2>2
  <2>3. CASE k = n /\ j \in 1 .. Len(dls)
    BY <1>1, <1>3, <1>5, <2>3
  <2> QED BY <1>3, <2>1, <2>2, <2>3
<1>8. \A x \in 1 .. Len(list) : list[x].xfer # id
  <2> SUFFICES ASSUME NEW x \in 1 .. Len(list), list[x].xfer = id PROVE FALSE
    OBVIOUS
  <2>1. id # NoXfer
    BY DEF NoXfer
  <2> QED BY <1>4, <2>1 DEF PointsTo
<1>9. OnePointer(new)
  <2> SUFFICES ASSUME NEW j \in 1 .. Len(new), NEW k \in 1 .. Len(new), new[j].xfer = new[k].xfer, new[j].xfer # NoXfer
               PROVE  j = k
    BY DEF OnePointer
  <2>1. CASE j = 1 /\ k = 1
    BY <2>1
  <2>2. CASE j = 1 /\ k # 1
    BY <1>1, <1>2, <1>8, <2>2
  <2>3. CASE k = 1 /\ j # 1
    BY <1>1, <1>2, <1>8, <2>3
  <2>4. CASE j # 1 /\ k # 1
    <3>1. j - 1 \in 1 .. Len(list) /\ k - 1 \in 1 .. Len(list) /\ list[j - 1].xfer = list[k - 1].xfer /\ list[j - 1].xfer # NoXfer
      BY <1>2, <2>4
    <3>2. j - 1 = k - 1
      BY <1>4, <3>1 DEF OnePointer
    <3> QED BY <3>2
  <2> QED BY <2>1, <2>2, <2>3, <2>4
<1>10. PointsTo(new, more)
  <2> SUFFICES ASSUME NEW k \in 1 .. Len(new), new[k].xfer # NoXfer
               PROVE  \E i \in 1 .. n : more[i].id = new[k].xfer /\ more[i].file = new[k].file
    BY <1>3 DEF PointsTo
  <2>1. CASE k = 1
    <3>1. new[k] = r /\ n \in 1 .. n /\ more[n] = e
      BY <1>2, <1>3, <2>1
    <3>2. more[n].id = new[k].xfer /\ more[n].file = new[k].file
      BY <1>1, <3>1
    <3> QED BY <3>1, <3>2
  <2>2. CASE k # 1
    <3>1. k - 1 \in 1 .. Len(list) /\ new[k] = list[k - 1]
      BY <1>2, <2>2
    <3>2. PICK i \in 1 .. Len(dls) : dls[i].id = list[k - 1].xfer /\ dls[i].file = list[k - 1].file
      BY <1>4, <3>1 DEF PointsTo
    <3> QED BY <1>3, <3>1, <3>2
  <2> QED BY <2>1, <2>2
<1>11. Rowed(new, more)
  <2> SUFFICES ASSUME NEW i \in 1 .. n, IsOn(more[i])
               PROVE  \E k \in 1 .. Len(new) : new[k].xfer = more[i].id /\ new[k].located
    BY <1>3 DEF Rowed
  <2>1. CASE i = n
    BY <1>1, <1>2, <1>3, <2>1
  <2>2. CASE i \in 1 .. Len(dls)
    <3>1. PICK x \in 1 .. Len(list) : list[x].xfer = dls[i].id /\ list[x].located
      BY <1>3, <1>4, <2>2 DEF Rowed
    <3> QED BY <1>2, <1>3, <2>2, <3>1
  <2> QED BY <1>3, <2>1, <2>2
<1> QED BY <1>6, <1>7, <1>9, <1>10, <1>11 DEF Paired

\* What starts and what stays: the item leaves the queue; unless its file is under way it is
\* downloaded, with a row at the top.
ActiveRows(list, file) == {y \in 1 .. Len(list) : list[y].located /\ list[y].file = file /\ list[y].xfer # NoXfer}
StartsTo(l, x, id, left, n) ==
    /\ n.queue = RemoveAt(l.queue, x) /\ n.count = l.count - 1
    /\ \/ /\ ActiveRows(l.rows, l.queue[x]) # {} /\ n.rows = left /\ n.recvs = l.recvs
       \/ /\ ActiveRows(l.rows, l.queue[x]) = {} /\ n.rows = <<NewRow(id, l.queue[x])>> \o left
          /\ n.recvs = Append(l.recvs, NewDownload(id, l.queue[x]))
    /\ n = [queue |-> n.queue, count |-> n.count, rows |-> n.rows, recvs |-> n.recvs]

\* The rows that go are of the file and point to nothing.
LEMMA StartedIs ==
  ASSUME NEW l \in AllLists, NEW x, NEW id
  PROVE  \E gone \in SUBSET (1 .. Len(l.rows)) :
            /\ \A y \in gone : l.rows[y].file = l.queue[x] /\ l.rows[y].xfer = NoXfer
            /\ StartsTo(l, x, id, Without(l.rows, gone), Start(l, x, id))
<1> DEFINE file == l.queue[x]
           own == {y \in 1 .. Len(l.rows) : l.rows[y].located /\ l.rows[y].file = file}
           active == {y \in own : l.rows[y].xfer # NoXfer}
           gone == {y \in own : \A z \in active : y < z}
           left == Without(l.rows, gone)
           n == Start(l, x, id)
<1>1. n = [queue |-> RemoveAt(l.queue, x), count |-> l.count - 1,
           rows |-> IF active # {} THEN left ELSE <<NewRow(id, file)>> \o left,
           recvs |-> IF active # {} THEN l.recvs ELSE Append(l.recvs, NewDownload(id, file))]
  BY Zenon DEF Start, Places, NewRow, NewDownload
<1>2. active = ActiveRows(l.rows, file)
  BY DEF ActiveRows
<1>3. gone \in SUBSET (1 .. Len(l.rows)) /\ \A y \in gone : l.rows[y].file = l.queue[x] /\ l.rows[y].xfer = NoXfer
  <2>1. l.rows \in Seq(DownloadRows)
    BY DEF AllLists
  <2>2. ASSUME NEW y \in gone PROVE l.rows[y].xfer = NoXfer
    <3>1. y \in Nat /\ y \in own /\ (y \in active => y < y)
      OBVIOUS
    <3>2. y \notin active
      BY <3>1
    <3> QED BY <3>1, <3>2
  <2> QED BY <2>2
<1> HIDE DEF active, gone, n
<1>4. StartsTo(l, x, id, Without(l.rows, gone), n)
  BY <1>1, <1>2 DEF StartsTo
<1> QED BY <1>3, <1>4 DEF n

LEMMA StartKeeps ==
  ASSUME NEW l \in AllLists, l.count = Len(l.queue), Paired(l.rows, l.recvs), NEW x \in 1 .. Len(l.queue),
         NEW id \in 1 .. MaxIds, \A i \in 1 .. Len(l.recvs) : l.recvs[i].id # id, NEW n, n = Start(l, x, id)
  PROVE  /\ n \in AllLists /\ n.count = Len(n.queue) /\ Paired(n.rows, n.recvs)
         /\ Asked(l.rows, l.queue) \subseteq Asked(n.rows, n.queue)
         /\ n.recvs = l.recvs \/ n.recvs = Append(l.recvs, NewDownload(id, l.queue[x]))
<1> DEFINE file == l.queue[x]
<1>1. l.queue \in Seq(QFiles) /\ l.count \in Int /\ l.rows \in Seq(DownloadRows) /\ l.recvs \in Seq(Downloads) /\ file \in QFiles
  BY DEF AllLists
<1>2. PICK gone \in SUBSET (1 .. Len(l.rows)) :
         /\ \A y \in gone : l.rows[y].file = file /\ l.rows[y].xfer = NoXfer
         /\ StartsTo(l, x, id, Without(l.rows, gone), n)
  BY StartedIs
<1> DEFINE left == Without(l.rows, gone)  rest == (1 .. Len(l.rows)) \ gone
<1>3. left \in Seq(DownloadRows) /\ PickedUpTo(l.rows, rest, Len(l.rows), left)
  <2>1. l.rows \in Seq(DownloadRows) /\ gone \in SUBSET (1 .. Len(l.rows))
    BY <1>1
  <2>2. PartsOf(DownloadRows, l.rows, gone, Picked(l.rows, gone), Without(l.rows, gone))
    BY <2>1, PartsAre
  <2> HIDE DEF left
  <2> QED BY <2>2 DEF PartsOf, left
<1> HIDE DEF left
<1>4. \A y \in 1 .. Len(l.rows) : y \notin gone => \E k \in 1 .. Len(left) : left[k] = l.rows[y]
  BY <1>3 DEF PickedUpTo
<1>5. Paired(left, l.recvs)
  <2>1. \A y \in 1 .. Len(l.rows) : y \notin rest => l.rows[y].xfer = NoXfer
    BY <1>2
  <2> HIDE DEF rest
  <2> QED BY <1>1, <1>3, <2>1, PairedFewerRows
<1>6. StartsTo(l, x, id, left, n)
  BY <1>2 DEF left
<1>7. n.queue \in Seq(QFiles) /\ Len(n.queue) = Len(l.queue) - 1 /\ n.count \in Int /\ n.count = Len(n.queue)
  <2>1. RemoveAt(l.queue, x) \in Seq(QFiles) /\ Len(RemoveAt(l.queue, x)) = Len(l.queue) - 1
    BY <1>1, RemovedIs
  <2>2. n.queue = RemoveAt(l.queue, x) /\ n.count = l.count - 1
    BY <1>6 DEF StartsTo
  <2>3. l.count - 1 \in Int
    BY <1>1
  <2> QED BY <2>1, <2>2, <2>3
<1>8. \A f \in Range(l.queue) : f = file \/ f \in Range(n.queue)
  <2> TAKE f \in Range(l.queue)
  <2>1. PICK j \in 1 .. Len(l.queue) : l.queue[j] = f
    BY <1>1, PlacesOf
  <2>2. PickedUpTo(l.queue, (1 .. Len(l.queue)) \ {x}, Len(l.queue), n.queue)
    BY <1>1, <1>6, RemovedPicks DEF StartsTo
  <2>3. CASE j # x
    <3>1. j \in (1 .. Len(l.queue)) \ {x}
      BY <2>3
    <3>2. \E k \in 1 .. Len(n.queue) : n.queue[k] = l.queue[j]
      BY <2>2, <3>1 DEF PickedUpTo
    <3> QED BY <1>7, <2>1, <3>2, PlacesOf
  <2> QED BY <2>1, <2>3
<1>9. ASSUME n.rows \in Seq(DownloadRows), \E k \in 1 .. Len(n.rows) : n.rows[k].located /\ n.rows[k].file = file,
             \A k \in 1 .. Len(left) : \E j \in 1 .. Len(n.rows) : n.rows[j] = left[k]
      PROVE  Asked(l.rows, l.queue) \subseteq Asked(n.rows, n.queue)
  <2>1. file \in Located(n.rows)
    BY <1>9, LocatedIs
  <2>2. ASSUME NEW f \in Located(l.rows) PROVE f = file \/ f \in Located(n.rows)
    <3>1. PICK y \in 1 .. Len(l.rows) : l.rows[y].located /\ l.rows[y].file = f
      BY <1>1, LocatedIs
    <3>2. CASE y \in gone
      BY <1>2, <3>1, <3>2
    <3>3. CASE y \notin gone
      <4>1. PICK k \in 1 .. Len(left) : left[k] = l.rows[y]
        BY <1>4, <3>3
      <4>2. PICK j \in 1 .. Len(n.rows) : n.rows[j] = left[k]
        BY <1>9
      <4>3. n.rows[j].located /\ n.rows[j].file = f
        BY <3>1, <4>1, <4>2
      <4> QED BY <1>9, <4>3, LocatedIs
    <3> QED BY <3>2, <3>3
  <2> HIDE DEF file
  <2> QED BY <1>8, <2>1, <2>2 DEF Asked
<1>10. CASE ActiveRows(l.rows, file) # {} /\ n.rows = left /\ n.recvs = l.recvs
  <2>1. PICK y \in 1 .. Len(l.rows) : l.rows[y].located /\ l.rows[y].file = file /\ l.rows[y].xfer # NoXfer
    BY <1>10 DEF ActiveRows
  <2>2. \E k \in 1 .. Len(left) : left[k] = l.rows[y]
    BY <1>2, <1>4, <2>1
  <2>3. Asked(l.rows, l.queue) \subseteq Asked(n.rows, n.queue)
    <3>1. \E k \in 1 .. Len(n.rows) : n.rows[k].located /\ n.rows[k].file = file
      BY <1>10, <2>1, <2>2
    <3>2. n.rows \in Seq(DownloadRows) /\ \A k \in 1 .. Len(left) : \E j \in 1 .. Len(n.rows) : n.rows[j] = left[k]
      BY <1>3, <1>10
    <3> QED BY <1>9, <3>1, <3>2
  <2>4. n \in AllLists
    BY <1>1, <1>3, <1>6, <1>7, <1>10 DEF StartsTo, AllLists
  <2> QED BY <1>5, <1>7, <1>10, <2>3, <2>4
<1>11. CASE /\ ActiveRows(l.rows, file) = {} /\ n.rows = <<NewRow(id, file)>> \o left
            /\ n.recvs = Append(l.recvs, NewDownload(id, file))
  <2>1. /\ NewRow(id, file) \in DownloadRows /\ NewRow(id, file).located /\ NewRow(id, file).file = file
        /\ NewDownload(id, file) \in Downloads
    BY <1>1, NewOnes
  <2>2. /\ n.rows \in Seq(DownloadRows) /\ 1 \in 1 .. Len(n.rows) /\ n.rows[1] = NewRow(id, file)
        /\ \A k \in 1 .. Len(left) : k + 1 \in 1 .. Len(n.rows) /\ n.rows[k + 1] = left[k]
    BY <1>3, <1>11, <2>1, PutFirst
  <2>3. \A k \in 1 .. Len(left) : left[k].located /\ left[k].file = file => left[k].xfer = NoXfer
    <3> TAKE k \in 1 .. Len(left)
    <3>1. PICK y \in 1 .. Len(l.rows) : left[k] = l.rows[y]
      BY <1>3 DEF PickedUpTo
    <3>2. y \notin ActiveRows(l.rows, file)
      BY <1>11
    <3> QED BY <3>1, <3>2 DEF ActiveRows
  <2>4. Paired(n.rows, n.recvs)
    <3> HIDE DEF file
    <3> QED BY <1>1, <1>3, <1>5, <1>11, <2>3, PairedMore
  <2>5. Asked(l.rows, l.queue) \subseteq Asked(n.rows, n.queue)
    <3>1. \E k \in 1 .. Len(n.rows) : n.rows[k].located /\ n.rows[k].file = file
      BY <2>1, <2>2
    <3>2. \A k \in 1 .. Len(left) : \E j \in 1 .. Len(n.rows) : n.rows[j] = left[k]
      BY <2>2
    <3> QED BY <1>9, <2>2, <3>1, <3>2
  <2>6. n \in AllLists
    <3>1. n.recvs \in Seq(Downloads)
      BY <1>1, <1>11, <2>1, AppendProperties
    <3> QED BY <1>6, <1>7, <2>2, <3>1 DEF StartsTo, AllLists
  <2> QED BY <1>7, <1>11, <2>4, <2>5, <2>6
<1> QED BY <1>6, <1>10, <1>11 DEF StartsTo

-----------------------------------------------------------------------------
(* XferQueue: a pass of the timer *)

\* The lists after each of the downloads that ended.
ReapsGo(g, base, s, last) ==
    g[0] = base /\ g[Len(s)] = last /\ \A k \in 1 .. Len(s) : g[k] = Reaped(g[k - 1], s[k])

LEMMA ReapedInTurn ==
  ASSUME NEW A, NEW E, NEW base \in A, NEW s \in Seq(E), \A a \in A, e \in E : Reaped(a, e) \in A
  PROVE  \E g \in [0 .. Len(s) -> A] : ReapsGo(g, base, s, FoldLeft(Reaped, base, s))
<1> DEFINE D == SUBSET (1 .. Len(s))
           Further(f, t) == IF t = {} THEN base ELSE Reaped(f[t \ {Max(t)}], s[Max(t)])
           Iter == CHOOSE iter : iter = [t \in D |-> Further(iter, t)]
           next == [p \in A \X E |-> Reaped(p[1], p[2])]
<1>1. FoldLeft(Reaped, base, s) = Iter[1 .. Len(s)]
  <2>1. DOMAIN s = 1 .. Len(s)
    OBVIOUS
  <2> HIDE DEF Reaped
  <2> QED BY <2>1 DEF FoldLeft, MapThenFoldSet
<1>2. next \in [A \X E -> A] /\ \A a \in A, e \in E : next[<<a, e>>] = Reaped(a, e)
  OBVIOUS
<1> HIDE DEF next
<1>3. PICK f \in [D -> A] : FoldsDown(f, base, next, s)
  BY <1>2, FoldExists
<1>4. ASSUME NEW t \in D, t # {} PROVE Max(t) \in 1 .. Len(s) /\ s[Max(t)] \in E /\ t \ {Max(t)} \in D
  <2>1. Len(s) \in Nat
    OBVIOUS
  <2>2. Max(t) \in t
    BY <1>4, <2>1, GreatestIs, Zenon
  <2> DEFINE m == Max(t)
  <2> HIDE DEF m
  <2>3. m \in 1 .. Len(s)
    BY <2>2 DEF m
  <2>4. s[m] \in E /\ t \ {m} \in D
    BY <2>3
  <2> QED BY <2>3, <2>4 DEF m
<1>5. \A t \in D : f[t] = Further(f, t)
  BY <1>2, <1>3, <1>4 DEF FoldsDown
<1>6. f = [t \in D |-> Further(f, t)]
  <2> HIDE DEF Further
  <2> QED BY <1>3, <1>5
<1>7. Iter = [t \in D |-> Further(Iter, t)]
  <2> HIDE DEF Further
  <2> QED BY <1>6, Zenon
<1> HIDE DEF Iter
<1>8. \A t \in D : Iter[t] = Further(Iter, t)
  <2> DEFINE h == [t \in D |-> Further(Iter, t)]
  <2>1. \A t \in D : h[t] = Further(Iter, t)
    <3> HIDE DEF Further
    <3> QED OBVIOUS
  <2> HIDE DEF h, Further
  <2>2. Iter = h
    BY <1>7, Zenon DEF h
  <2> QED BY <2>1, <2>2
<1>9. FallsTo(A, Iter, base, next, s)
  BY <1>2, <1>4, <1>8 DEF FallsTo
<1>10. PICK g \in [0 .. Len(s) -> A] : GoesUp(g, base, next, s, Iter[1 .. Len(s)])
  BY <1>2, <1>9, FoldGoes
<1>11. \A k \in 1 .. Len(s) : g[k] = Reaped(g[k - 1], s[k])
  <2> TAKE k \in 1 .. Len(s)
  <2>1. g[k - 1] \in A /\ s[k] \in E
    OBVIOUS
  <2> QED BY <1>2, <1>10, <2>1 DEF GoesUp
<1>12. g[0] = base /\ g[Len(s)] = Iter[1 .. Len(s)]
  BY <1>10 DEF GoesUp
<1> QED BY <1>1, <1>10, <1>11, <1>12 DEF ReapsGo

\* Told of what ended, the downloads keep their ids and files.
ToldOf(dls, late) ==
    [i \in 1 .. Len(dls) |-> IF dls[i].err = "" /\ dls[i].id \in late THEN [dls[i] EXCEPT !.err = "Timed out"] ELSE dls[i]]

LEMMA ToldAre ==
  ASSUME NEW dls \in Seq(Downloads), NEW late
  PROVE  /\ ToldOf(dls, late) \in Seq(Downloads) /\ Len(ToldOf(dls, late)) = Len(dls)
         /\ \A i \in 1 .. Len(dls) : ToldOf(dls, late)[i].id = dls[i].id /\ ToldOf(dls, late)[i].file = dls[i].file
<1> DEFINE end == "Timed out"  E == Outcome  told == ToldOf(dls, late)
           goes(i) == dls[i].err = "" /\ dls[i].id \in late
<1>1. end \in E
  BY Zenon DEF Outcome
<1>2. told = [i \in 1 .. Len(dls) |-> IF goes(i) THEN [dls[i] EXCEPT !.err = end] ELSE dls[i]]
  BY Zenon DEF ToldOf
<1>3. Downloads = [id : 1 .. MaxIds, file : QFiles, err : E]
  BY DEF Downloads
<1> HIDE DEF end, E, told, goes
<1>4. ASSUME NEW i \in 1 .. Len(dls)
      PROVE  LET d == IF goes(i) THEN [dls[i] EXCEPT !.err = end] ELSE dls[i]
             IN  d \in Downloads /\ d.id = dls[i].id /\ d.file = dls[i].file
  <2>1. dls[i] \in [id : 1 .. MaxIds, file : QFiles, err : E]
    <3>1. dls[i] \in Downloads
      OBVIOUS
    <3> QED BY <1>3, <3>1, Zenon
  <2>2. /\ [dls[i] EXCEPT !.err = end] \in [id : 1 .. MaxIds, file : QFiles, err : E]
        /\ [dls[i] EXCEPT !.err = end].id = dls[i].id /\ [dls[i] EXCEPT !.err = end].file = dls[i].file
    BY <1>1, <2>1
  <2> QED BY <1>3, <2>1, <2>2
<1>5. told \in Seq(Downloads) /\ Len(told) = Len(dls)
  BY <1>2, <1>4
<1>6. \A i \in 1 .. Len(dls) : told[i].id = dls[i].id /\ told[i].file = dls[i].file
  BY <1>2, <1>4
<1> QED BY <1>5, <1>6 DEF told

LEMMA FoldKeeps ==
  ASSUME NEW b \in AllLists, b.count = Len(b.queue), Paired(b.rows, b.recvs),
         NEW s \in Seq(Downloads), \A k \in 1 .. Len(s) : <<s[k].id, s[k].file>> \in Titled(b.recvs),
         NEW n, n = FoldLeft(Reaped, b, s)
  PROVE  /\ n \in AllLists /\ n.count = Len(n.queue) /\ Paired(n.rows, n.recvs)
         /\ Asked(b.rows, b.queue) \subseteq Asked(n.rows, n.queue) /\ Active(n.recvs) \subseteq Active(b.recvs)
<1> DEFINE Fine(l) == /\ l.count = Len(l.queue) /\ Paired(l.rows, l.recvs) /\ Asked(b.rows, b.queue) \subseteq Asked(l.rows, l.queue)
                      /\ Active(l.recvs) \subseteq Active(b.recvs) /\ Titled(l.recvs) \subseteq Titled(b.recvs)
<1>1. PICK g \in [0 .. Len(s) -> AllLists] : ReapsGo(g, b, s, FoldLeft(Reaped, b, s))
  BY ReapedTyped, ReapedInTurn
<1>2. g[0] = b /\ g[Len(s)] = n /\ \A k \in 1 .. Len(s) : g[k] = Reaped(g[k - 1], s[k])
  BY <1>1 DEF ReapsGo
<1> DEFINE S == {k \in 0 .. Len(s) : Fine(g[k])}
<1>3. Len(s) \in Nat
  OBVIOUS
<1>4. 0 \in S
  BY <1>2, <1>3
<1>5. ASSUME NEW k \in 1 .. Len(s), k - 1 \in S PROVE k \in S
  <2> DEFINE l == g[k - 1]  d == s[k]
  <2>1. Fine(l) /\ l \in AllLists /\ d \in Downloads /\ k \in 0 .. Len(s) /\ <<d.id, d.file>> \in Titled(b.recvs)
    BY <1>3, <1>5
  <2>2. g[k] = Reaped(l, d)
    BY <1>2
  <2> HIDE DEF l, d
  <2>3. \A i \in 1 .. Len(l.recvs) : l.recvs[i].id = d.id => l.recvs[i].file = d.file
    <3> SUFFICES ASSUME NEW i \in 1 .. Len(l.recvs), l.recvs[i].id = d.id PROVE l.recvs[i].file = d.file
      OBVIOUS
    <3>1. <<l.recvs[i].id, l.recvs[i].file>> \in Titled(b.recvs)
      BY <2>1 DEF Titled
    <3>2. PICK j \in 1 .. Len(b.recvs) : b.recvs[j].id = d.id /\ b.recvs[j].file = d.file
      BY <2>1 DEF Titled
    <3>3. PICK m \in 1 .. Len(b.recvs) : b.recvs[m].id = l.recvs[i].id /\ b.recvs[m].file = l.recvs[i].file
      BY <3>1 DEF Titled
    <3>4. m = j
      BY <3>2, <3>3 DEF Paired, OneId
    <3> QED BY <3>2, <3>3, <3>4
  <2>4. Fine(g[k])
    BY <2>1, <2>2, <2>3, ReapedKeeps
  <2> HIDE DEF Fine
  <2> QED BY <2>1, <2>4
<1>6. \A k \in 0 .. Len(s) : k \in S
  <2> HIDE DEF S
  <2> QED BY <1>3, <1>4, <1>5, InTurn
<1>7. Len(s) \in 0 .. Len(s)
  BY <1>3
<1> QED BY <1>2, <1>6, <1>7

LEMMA PassKeeps ==
  ASSUME NEW b \in AllLists, b.count = Len(b.queue), Paired(b.rows, b.recvs), NEW due, NEW late,
         b = IF due THEN Started(Lists) ELSE Lists, NEW n, n = RunRecvs(due, late)
  PROVE  /\ n \in AllLists /\ n.count = Len(n.queue) /\ Paired(n.rows, n.recvs)
         /\ Asked(b.rows, b.queue) \subseteq Asked(n.rows, n.queue) /\ Active(n.recvs) \subseteq Active(b.recvs)
<1> DEFINE told == ToldOf(b.recvs, late)
           at == {i \in 1 .. Len(told) : told[i].err # ""}
           s == Picked(told, at)
<1>1. n = FoldLeft(Reaped, b, s)
  BY Zenon DEF RunRecvs, ToldOf, Where, Places
<1>2. b.recvs \in Seq(Downloads)
  BY DEF AllLists
<1>3. told \in Seq(Downloads) /\ Len(told) = Len(b.recvs)
      /\ \A i \in 1 .. Len(b.recvs) : told[i].id = b.recvs[i].id /\ told[i].file = b.recvs[i].file
  BY <1>2, ToldAre
<1> HIDE DEF told, at
<1>4. s \in Seq(Downloads) /\ PickedUpTo(told, at, Len(told), s)
  BY <1>3, PickedIs
<1> HIDE DEF s
<1>5. ASSUME NEW k \in 1 .. Len(s) PROVE <<s[k].id, s[k].file>> \in Titled(b.recvs)
  <2>1. PICK i \in 1 .. Len(told) : s[k] = told[i]
    BY <1>4 DEF PickedUpTo
  <2> QED BY <1>3, <2>1 DEF Titled
<1> QED BY <1>1, <1>4, <1>5, FoldKeeps

\* Of a peer's downloads that go on each has a row with an address.
LEMMA ActiveHaveRows ==
  ASSUME NEW list \in Seq(DownloadRows), NEW dls \in Seq(Downloads), Paired(list, dls), NEW peer
  PROVE  /\ Cardinality(At(Active(dls), peer)) <= Cardinality(From(list, peer))
         /\ IsFiniteSet(At(Active(dls), peer)) /\ Cardinality(From(list, peer)) \in Nat
<1> DEFINE S == At(Active(dls), peer)  T == From(list, peer)
           h == [p \in S |-> CHOOSE x \in T : list[x].xfer = p[1]]
<1>1. T = {x \in 1 .. Len(list) : list[x].xfer # NoXfer /\ list[x].located /\ PeerOf[list[x].file] = peer}
  BY DEF From, Places
<1>2. IsFiniteSet(T)
  <2>1. Len(list) \in Nat
    OBVIOUS
  <2>2. IsFiniteSet(1 .. Len(list))
    <3>1. 1 \in Int /\ Len(list) \in Int
      BY <2>1
    <3> QED BY <3>1, FS_Interval
  <2>3. T \subseteq 1 .. Len(list)
    BY <1>1
  <2> QED BY <2>2, <2>3, FS_Subset
<1>3. \A p \in S : \E i \in 1 .. Len(dls) : IsOn(dls[i]) /\ p = <<dls[i].id, dls[i].file>> /\ PeerOf[dls[i].file] = peer
  <2> TAKE p \in S
  <2>1. p \in Active(dls) /\ PeerOf[p[2]] = peer
    BY DEF At
  <2>2. PICK i \in 1 .. Len(dls) : IsOn(dls[i]) /\ p = <<dls[i].id, dls[i].file>>
    BY <2>1 DEF Active
  <2>3. p[2] = dls[i].file
    BY <2>2
  <2> QED BY <2>1, <2>2, <2>3
<1>4. \A p \in S : \E x \in T : list[x].xfer = p[1]
  <2> TAKE p \in S
  <2>1. PICK i \in 1 .. Len(dls) : IsOn(dls[i]) /\ p = <<dls[i].id, dls[i].file>> /\ PeerOf[dls[i].file] = peer
    BY <1>3
  <2>2. PICK x \in 1 .. Len(list) : list[x].xfer = dls[i].id /\ list[x].located
    BY <2>1 DEF Paired, Rowed
  <2>3. dls[i].id # NoXfer
    <3>1. dls[i] \in Downloads
      OBVIOUS
    <3> QED BY <3>1 DEF Downloads, NoXfer
  <2>4. PICK j \in 1 .. Len(dls) : dls[j].id = list[x].xfer /\ dls[j].file = list[x].file
    BY <2>2, <2>3 DEF Paired, PointsTo
  <2>5. list[x].file = dls[i].file
    BY <2>2, <2>4 DEF Paired, OneId
  <2>6. x \in T /\ p[1] = dls[i].id
    BY <1>1, <2>1, <2>2, <2>3, <2>5
  <2> QED BY <2>2, <2>6
<1> HIDE DEF T, S
<1>5. \A p \in S : h[p] \in T /\ list[h[p]].xfer = p[1]
  BY <1>4
<1>6. \A p, q \in S : p[1] = q[1] => p = q
  <2> TAKE p \in S, q \in S
  <2>1. PICK i \in 1 .. Len(dls) : p = <<dls[i].id, dls[i].file>>
    BY <1>3
  <2>2. PICK j \in 1 .. Len(dls) : q = <<dls[j].id, dls[j].file>>
    BY <1>3
  <2> HAVE p[1] = q[1]
  <2>3. dls[i].id = dls[j].id
    BY <2>1, <2>2
  <2>4. i = j
    BY <2>3 DEF Paired, OneId
  <2> QED BY <2>1, <2>2, <2>4
<1>7. h \in [S -> T]
  BY <1>5
<1> HIDE DEF h
<1>8. h \in Injection(S, T)
  <2>1. \A p, q \in S : h[p] = h[q] => p = q
    BY <1>5, <1>6
  <2> QED BY <1>7, <2>1 DEF Injection, IsInjective
<1>9. IsFiniteSet(S) /\ Cardinality(S) <= Cardinality(T)
  BY <1>2, <1>8, FS_Injection
<1>10. Cardinality(T) \in Nat
  BY <1>2, FS_CardinalityType
<1> QED BY <1>9, <1>10 DEF S, T

\* One more may go on where the limits allow it.
LEMMA CountedIn ==
  ASSUME NEW S, IsFiniteSet(S), NEW T \in SUBSET S
  PROVE  IsFiniteSet(T) /\ Cardinality(T) <= Cardinality(S) /\ Cardinality(T) \in Nat /\ Cardinality(S) \in Nat
BY FS_Subset, FS_CardinalityType

LEMMA OneMoreCounted ==
  ASSUME NEW S, IsFiniteSet(S), NEW e, NEW T, T \subseteq S \cup {e}
  PROVE  IsFiniteSet(T) /\ Cardinality(T) <= Cardinality(S) + 1 /\ Cardinality(T) \in Nat /\ Cardinality(S) \in Nat
<1> DEFINE more == S \cup {e}
<1>1. IsFiniteSet(more) /\ Cardinality(more) = (IF e \in S THEN Cardinality(S) ELSE Cardinality(S) + 1)
  BY FS_AddElement
<1>2. Cardinality(S) \in Nat
  BY FS_CardinalityType
<1>3. T \in SUBSET more
  OBVIOUS
<1> HIDE DEF more
<1>4. IsFiniteSet(T) /\ Cardinality(T) <= Cardinality(more) /\ Cardinality(T) \in Nat /\ Cardinality(more) \in Nat
  BY <1>1, <1>3, CountedIn
<1> QED BY <1>1, <1>2, <1>4

LEMMA StartedWithin ==
  ASSUME NEW list \in Seq(DownloadRows), NEW dls \in Seq(Downloads), Paired(list, dls),
         NEW lims \in Limits, NEW max \in Nat, lims.all <= max, NEW hand, WithinLimits(dls, hand, lims, max),
         Len(dls) < lims.all, NEW id, NEW file,
         lims.host = 0 \/ ~(Cardinality(From(list, PeerOf[file])) >= lims.host),
         NEW new \in Seq(Downloads), Len(new) <= Len(dls) + 1, Active(new) \subseteq Active(dls) \cup {<<id, file>>}
  PROVE  WithinLimits(new, hand, lims, max)
<1> DEFINE own == ByItself(new, hand)
<1>1. lims.all \in Nat /\ lims.host \in Nat /\ Len(dls) \in Nat /\ Len(new) \in Nat
  <2>1. lims.all \in Maxima /\ lims.host \in HostMaxima
    BY DEF Limits
  <2>2. lims.all \in 0 .. MaxIds /\ lims.host \in Nat /\ MaxIds \in Nat
    BY <2>1, QueueAssumption
  <2> QED BY <2>2
<1>2. Cardinality(own) <= max
  <2>1. IsFiniteSet(Active(new)) /\ Cardinality(Active(new)) <= Len(new)
    BY ActiveIs
  <2>2. own \in SUBSET Active(new)
    BY DEF ByItself
  <2> HIDE DEF own
  <2>3. Cardinality(own) <= Cardinality(Active(new)) /\ Cardinality(own) \in Nat /\ Cardinality(Active(new)) \in Nat
    BY <2>1, <2>2, CountedIn
  <2> QED BY <1>1, <2>1, <2>3
<1>3. ASSUME lims.host # 0, NEW f \in QFiles PROVE Cardinality(At(own, PeerOf[f])) <= lims.host
  <2> DEFINE peer == PeerOf[f]  old == At(Active(dls), peer)  ps == At(own, peer)
  <2>1. CASE peer = PeerOf[file]
    <3>1. /\ Cardinality(old) <= Cardinality(From(list, peer)) /\ IsFiniteSet(old)
          /\ Cardinality(From(list, peer)) \in Nat
      BY ActiveHaveRows
    <3>2. ~(Cardinality(From(list, peer)) >= lims.host)
      BY <1>3, <2>1
    <3>3. ps \subseteq old \cup {<<id, file>>}
      BY DEF At, ByItself
    <3> HIDE DEF old, ps, peer
    <3>4. Cardinality(ps) <= Cardinality(old) + 1 /\ Cardinality(ps) \in Nat /\ Cardinality(old) \in Nat
      BY <3>1, <3>3, OneMoreCounted
    <3>5. Cardinality(ps) <= lims.host
      BY <1>1, <3>1, <3>2, <3>4
    <3> QED BY <3>5 DEF ps, peer
  <2>2. CASE peer # PeerOf[file]
    <3> DEFINE was == At(ByItself(dls, hand), peer)
    <3>1. Cardinality(was) <= lims.host
      BY <1>3 DEF WithinLimits
    <3>2. ps \in SUBSET was
      <4> SUFFICES ASSUME NEW p \in ps PROVE p \in was
        OBVIOUS
      <4>1. p \in Active(new) /\ p[1] \notin hand /\ PeerOf[p[2]] = peer
        BY DEF At, ByItself
      <4>2. p # <<id, file>>
        BY <2>2, <4>1
      <4> QED BY <4>1, <4>2 DEF At, ByItself
    <3>3. IsFiniteSet(was)
      <4>1. IsFiniteSet(Active(dls)) /\ was \in SUBSET Active(dls)
        BY ActiveIs DEF At, ByItself
      <4> QED BY <4>1, CountedIn
    <3> HIDE DEF was, ps
    <3>4. Cardinality(ps) <= Cardinality(was) /\ Cardinality(ps) \in Nat /\ Cardinality(was) \in Nat
      BY <3>2, <3>3, CountedIn
    <3>5. Cardinality(ps) <= lims.host
      BY <1>1, <3>1, <3>4
    <3> QED BY <3>5 DEF ps
  <2> QED BY <2>1, <2>2
<1> QED BY <1>2, <1>3 DEF WithinLimits

\* What the program starts by itself keeps what a pass needs.
LEMMA AppendedActive ==
  ASSUME NEW dls \in Seq(Downloads), NEW d \in Downloads, NEW new, new = Append(dls, d)
  PROVE  new \in Seq(Downloads) /\ Len(new) = Len(dls) + 1 /\ Active(new) \subseteq Active(dls) \cup {<<d.id, d.file>>}
<1>1. /\ new \in Seq(Downloads) /\ Len(new) = Len(dls) + 1 /\ Len(dls) \in Nat
      /\ \A i \in 1 .. Len(dls) : new[i] = dls[i]
      /\ new[Len(dls) + 1] = d
  BY AppendProperties
<1>2. \A i \in 1 .. Len(new) : i \in 1 .. Len(dls) \/ i = Len(dls) + 1
  BY <1>1
<1>3. \A i \in 1 .. Len(new) : IsOn(new[i]) =>
        \/ \E j \in 1 .. Len(dls) : IsOn(dls[j]) /\ <<new[i].id, new[i].file>> = <<dls[j].id, dls[j].file>>
        \/ <<new[i].id, new[i].file>> = <<d.id, d.file>>
  <2> TAKE i \in 1 .. Len(new)
  <2>1. CASE i \in 1 .. Len(dls)
    BY <1>1, <2>1
  <2>2. CASE i = Len(dls) + 1
    BY <1>1, <2>2
  <2> QED BY <1>2, <2>1, <2>2
<1> QED BY <1>1, <1>3 DEF Active

LEMMA StartedKeeps ==
  ASSUME DownloadsInv, NEW b, b = Started(Lists)
  PROVE  /\ b \in AllLists /\ b.count = Len(b.queue) /\ Paired(b.rows, b.recvs)
         /\ Asked(drows, queue) \subseteq Asked(b.rows, b.queue) /\ WithinLimits(b.recvs, byHand, limits, most)
<1> DEFINE l == Lists
<1>1. /\ l \in AllLists /\ l.queue = queue /\ l.count = count /\ l.rows = drows /\ l.recvs = recvs
      /\ l.count = Len(l.queue) /\ Paired(l.rows, l.recvs)
  BY DEF DownloadsInv, DownloadsTyped, Lists, AllLists
<1>2. drows \in Seq(DownloadRows) /\ recvs \in Seq(Downloads) /\ limits \in Limits /\ most \in Nat /\ limits.all <= most
      /\ queue \in Seq(QFiles) /\ count = Len(queue) /\ WithinLimits(recvs, byHand, limits, most)
  BY DEF DownloadsInv, DownloadsTyped
<1> HIDE DEF l
<1>3. CASE b = l
  BY <1>1, <1>2, <1>3
<1> DEFINE ready == Startable(l)
<1>4. CASE MayStart(l) /\ ready # {} /\ b = Start(l, Min(ready), FreeId(l))
  <2> DEFINE x == Min(ready)  id == FreeId(l)  file == l.queue[x]
  <2>1. ready = {y \in 1 .. Len(queue) : ~Full(drows, PeerOf[queue[y]])}
    BY <1>1 DEF Startable
  <2>2. Len(recvs) < limits.all
    BY <1>1, <1>4 DEF MayStart
  <2>3. x \in 1 .. Len(queue) /\ ~Full(drows, PeerOf[queue[x]])
    <3>1. ready \in SUBSET Nat
      BY <2>1
    <3> HIDE DEF ready
    <3>2. Min(ready) \in ready
      BY <1>4, <3>1, MinIs
    <3> QED BY <2>1, <3>2
  <2>4. id \in 1 .. MaxIds /\ \A i \in 1 .. Len(recvs) : recvs[i].id # id
    <3>1. Len(l.recvs) < MaxIds
      <4>1. limits.all \in 0 .. MaxIds /\ MaxIds \in Nat
        BY <1>2, QueueAssumption DEF Limits
      <4>2. Len(recvs) \in Nat
        BY <1>2
      <4> QED BY <1>1, <2>2, <4>1, <4>2
    <3> QED BY <1>1, <3>1, FreeIdIs
  <2> HIDE DEF ready, x, id
  <2>5. b = Start(l, x, id)
    BY <1>4 DEF x, id
  <2>6. /\ b \in AllLists /\ b.count = Len(b.queue) /\ Paired(b.rows, b.recvs)
        /\ Asked(l.rows, l.queue) \subseteq Asked(b.rows, b.queue)
        /\ b.recvs = l.recvs \/ b.recvs = Append(l.recvs, NewDownload(id, l.queue[x]))
    BY <1>1, <2>3, <2>4, <2>5, StartKeeps
  <2>7. WithinLimits(b.recvs, byHand, limits, most)
    <3>1. CASE b.recvs = l.recvs
      BY <1>1, <1>2, <3>1
    <3>2. CASE b.recvs = Append(l.recvs, NewDownload(id, l.queue[x]))
      <4>1. l.queue[x] \in QFiles
        BY <1>1, <1>2, <2>3
      <4>2. NewDownload(id, file) \in Downloads /\ NewDownload(id, file).id = id /\ NewDownload(id, file).file = file
        BY <2>4, <4>1, NewOnes
      <4>3. /\ b.recvs \in Seq(Downloads) /\ Len(b.recvs) = Len(recvs) + 1
            /\ Active(b.recvs) \subseteq Active(recvs) \cup {<<id, file>>}
        BY <1>1, <1>2, <3>2, <4>2, AppendedActive
      <4>4. limits.host = 0 \/ ~(Cardinality(From(drows, PeerOf[file])) >= limits.host)
        BY <1>1, <2>3 DEF Full
      <4>5. Len(b.recvs) <= Len(recvs) + 1
        BY <1>2, <4>3
      <4> HIDE DEF file
      <4> QED BY <1>1, <1>2, <2>2, <4>3, <4>4, <4>5, StartedWithin
    <3> QED BY <2>6, <3>1, <3>2
  <2> QED BY <1>1, <2>6, <2>7
<1>5. b = l \/ (MayStart(l) /\ ready # {} /\ b = Start(l, Min(ready), FreeId(l)))
  BY DEF Started, l
<1> QED BY <1>3, <1>4, <1>5

-----------------------------------------------------------------------------
(* XferQueue: one step keeps what the proof needs *)

\* What is forgotten is what is listed no more.
LEMMA Forgotten ==
  ASSUME wanted \subseteq Asked(drows, queue), NEW files, Forget(files), Asked(drows, queue) \subseteq Asked(drows', queue') \cup files
  PROVE  wanted' \subseteq Asked(drows', queue')
BY DEF Forget, Asked

\* Downloads end, and rows lose the addresses of those that ended.
LEMMA PairedEnded ==
  ASSUME NEW list \in Seq(DownloadRows), NEW dls \in Seq(Downloads), Paired(list, dls),
         NEW list2 \in Seq(DownloadRows), Len(list2) = Len(list),
         \A x \in 1 .. Len(list) : list2[x].xfer = list[x].xfer /\ list2[x].file = list[x].file,
         NEW new \in Seq(Downloads), Len(new) = Len(dls),
         \A i \in 1 .. Len(dls) : new[i].id = dls[i].id /\ new[i].file = dls[i].file /\ (IsOn(new[i]) => IsOn(dls[i])),
         \A i \in 1 .. Len(dls), x \in 1 .. Len(list) :
            IsOn(new[i]) /\ list[x].xfer = dls[i].id /\ list[x].located => list2[x].located
  PROVE  Paired(list2, new) /\ Active(new) \subseteq Active(dls)
<1>1. OneId(new)
  <2> SUFFICES ASSUME NEW i \in 1 .. Len(new), NEW j \in 1 .. Len(new), new[i].id = new[j].id PROVE i = j
    BY DEF OneId
  <2>1. dls[i].id = dls[j].id
    OBVIOUS
  <2> QED BY <2>1 DEF Paired, OneId
<1>2. OnePointer(list2)
  <2> SUFFICES ASSUME NEW x \in 1 .. Len(list2), NEW y \in 1 .. Len(list2), list2[x].xfer = list2[y].xfer, list2[x].xfer # NoXfer
               PROVE  x = y
    BY DEF OnePointer
  <2>1. list[x].xfer = list[y].xfer /\ list[x].xfer # NoXfer
    OBVIOUS
  <2> QED BY <2>1 DEF Paired, OnePointer
<1>3. PointsTo(list2, new)
  <2> SUFFICES ASSUME NEW x \in 1 .. Len(list2), list2[x].xfer # NoXfer
               PROVE  \E i \in 1 .. Len(new) : new[i].id = list2[x].xfer /\ new[i].file = list2[x].file
    BY DEF PointsTo
  <2>1. PICK i \in 1 .. Len(dls) : dls[i].id = list[x].xfer /\ dls[i].file = list[x].file
    BY DEF Paired, PointsTo
  <2> QED BY <2>1
<1>4. Rowed(list2, new)
  <2> SUFFICES ASSUME NEW i \in 1 .. Len(new), IsOn(new[i])
               PROVE  \E x \in 1 .. Len(list2) : list2[x].xfer = new[i].id /\ list2[x].located
    BY DEF Rowed
  <2>1. PICK x \in 1 .. Len(list) : list[x].xfer = dls[i].id /\ list[x].located
    BY DEF Paired, Rowed
  <2> QED BY <2>1
<1>5. OneFile(new)
  <2> SUFFICES ASSUME NEW i \in 1 .. Len(new), NEW j \in 1 .. Len(new), IsOn(new[i]), IsOn(new[j]), new[i].file = new[j].file
               PROVE  i = j
    BY DEF OneFile
  <2>1. IsOn(dls[i]) /\ IsOn(dls[j]) /\ dls[i].file = dls[j].file
    OBVIOUS
  <2> QED BY <2>1 DEF Paired, OneFile
<1>6. Active(new) \subseteq Active(dls)
  BY DEF Active
<1> QED BY <1>1, <1>2, <1>3, <1>4, <1>5, <1>6 DEF Paired

\* Lists without a row, and no download that goes on.
LEMMA PairedNoRows ==
  ASSUME NEW list, Len(list) = 0, NEW dls, OneId(dls), \A i \in 1 .. Len(dls) : ~IsOn(dls[i])
  PROVE  Paired(list, dls) /\ Active(dls) = {}
<1>1. \A x \in 1 .. Len(list) : FALSE
  OBVIOUS
<1>2. OnePointer(list) /\ PointsTo(list, dls)
  BY <1>1 DEF OnePointer, PointsTo
<1> QED BY <1>2 DEF Paired, Rowed, OneFile, Active

LEMMA Passes ==
  ASSUME DownloadsInv, NEW due, NEW late, Listed(RunRecvs(due, late)), UNCHANGED <<limits, wanted, most>>
  PROVE  DownloadsInv'
<1> DEFINE b == IF due THEN Started(Lists) ELSE Lists  n == RunRecvs(due, late)
<1>1. limits \in Limits /\ most \in Nat /\ limits.all <= most /\ wanted \subseteq Asked(drows, queue) /\ limits.host \in Nat
  BY QueueAssumption DEF DownloadsInv, DownloadsTyped, Limits
<1>2. /\ b \in AllLists /\ b.count = Len(b.queue) /\ Paired(b.rows, b.recvs)
      /\ Asked(drows, queue) \subseteq Asked(b.rows, b.queue) /\ WithinLimits(b.recvs, byHand, limits, most)
  <2>1. CASE due
    BY <2>1, StartedKeeps
  <2>2. CASE ~due
    BY <2>2 DEF DownloadsInv, DownloadsTyped, Lists, AllLists
  <2> QED BY <2>1, <2>2
<1>3. queue' = n.queue /\ count' = n.count /\ drows' = n.rows /\ recvs' = n.recvs
      /\ byHand' = byHand \cap {d.id : d \in Range(recvs')}
  BY DEF Listed, Become
<1>4. /\ n \in AllLists /\ n.count = Len(n.queue) /\ Paired(n.rows, n.recvs)
      /\ Asked(b.rows, b.queue) \subseteq Asked(n.rows, n.queue) /\ Active(n.recvs) \subseteq Active(b.recvs)
  <2> HIDE DEF n
  <2>1. b = IF due THEN Started(Lists) ELSE Lists
    OBVIOUS
  <2>2. n = RunRecvs(due, late)
    BY DEF n
  <2> HIDE DEF b
  <2> QED BY <1>2, <2>1, <2>2, PassKeeps
<1> HIDE DEF b, n
<1>5. /\ queue' \in Seq(QFiles) /\ count' \in Int /\ drows' \in Seq(DownloadRows) /\ recvs' \in Seq(Downloads)
      /\ b.recvs \in Seq(Downloads)
  BY <1>2, <1>3, <1>4 DEF AllLists
<1>6. ByItself(recvs', byHand') \subseteq ByItself(b.recvs, byHand)
  <2> SUFFICES ASSUME NEW p \in Active(recvs'), p[1] \notin byHand' PROVE p \in Active(b.recvs) /\ p[1] \notin byHand
    BY DEF ByItself
  <2>1. PICK i \in 1 .. Len(recvs') : p = <<recvs'[i].id, recvs'[i].file>>
    BY DEF Active
  <2>2. recvs'[i] \in Range(recvs')
    BY <1>5, PlacesOf
  <2>3. p[1] \in {d.id : d \in Range(recvs')}
    BY <2>1, <2>2
  <2>4. p[1] \notin byHand
    BY <1>3, <2>3
  <2>5. p \in Active(b.recvs)
    BY <1>3, <1>4
  <2> QED BY <2>4, <2>5
<1>7. WithinLimits(recvs', byHand', limits', most')
  <2>1. limits' = limits /\ most' = most /\ most <= most
    BY <1>1
  <2>2. WithinLimits(recvs', byHand', limits, most)
    BY <1>1, <1>2, <1>5, <1>6, <2>1, StillWithin
  <2> QED BY <2>1, <2>2
<1>8. wanted' \subseteq Asked(drows', queue')
  BY <1>1, <1>2, <1>3, <1>4
<1> QED BY <1>1, <1>3, <1>4, <1>5, <1>7, <1>8 DEF DownloadsInv, DownloadsTyped

\* Nothing that counts is another, but for the queue.
LEMMA Requeued ==
  ASSUME DownloadsInv, UNCHANGED <<drows, recvs, limits, byHand, most>>, queue' \in Seq(QFiles), count' = Len(queue'),
         wanted' \subseteq Asked(drows', queue')
  PROVE  DownloadsInv'
<1>1. Len(queue') \in Int
  OBVIOUS
<1> QED BY <1>1 DEF DownloadsInv, DownloadsTyped

\* Downloads end, or rows go, in any way that keeps the rows and the downloads paired.
LEMMA Ends ==
  ASSUME DownloadsInv, UNCHANGED <<limits, byHand, most>>, queue' \in Seq(QFiles), count' = Len(queue'),
         drows' \in Seq(DownloadRows), recvs' \in Seq(Downloads), Paired(drows', recvs'), Active(recvs') \subseteq Active(recvs),
         wanted' \subseteq Asked(drows', queue')
  PROVE  DownloadsInv'
<1>1. /\ limits \in Limits /\ most \in Nat /\ limits.all <= most /\ limits.host \in Nat /\ recvs \in Seq(Downloads)
      /\ WithinLimits(recvs, byHand, limits, most)
  BY QueueAssumption DEF DownloadsInv, DownloadsTyped, Limits
<1>2. ByItself(recvs', byHand') \subseteq ByItself(recvs, byHand)
  BY DEF ByItself
<1>3. WithinLimits(recvs', byHand', limits', most')
  <2>1. limits' = limits /\ most' = most /\ most <= most
    BY <1>1
  <2>2. WithinLimits(recvs', byHand', limits, most)
    BY <1>1, <1>2, <2>1, StillWithin
  <2> QED BY <2>1, <2>2
<1>4. Len(queue') \in Int
  OBVIOUS
<1> QED BY <1>1, <1>3, <1>4 DEF DownloadsInv, DownloadsTyped

\* A download that ended.
Finished(d, err) == [d EXCEPT !.err = err]

LEMMA FinishedIs ==
  ASSUME NEW d \in Downloads, NEW err \in {"Completed", "Refused", "Failed", "Aborted"}
  PROVE  Finished(d, err) \in Downloads /\ Finished(d, err).id = d.id /\ Finished(d, err).file = d.file /\ ~IsOn(Finished(d, err))
<1>1. err \in {"Completed", "Timed out", "Refused", "Failed", "Aborted"}
  OBVIOUS
<1>2. err \in Outcome
  BY <1>1, Zenon DEF Outcome
<1>3. ~(err = "")
  BY Zenon
<1> HIDE DEF Outcome
<1>4. Finished(d, err) \in Downloads /\ Finished(d, err).id = d.id /\ Finished(d, err).file = d.file /\ Finished(d, err).err = err
  BY <1>2 DEF Finished, Downloads
<1>5. ~IsOn(Finished(d, err))
  <2> DEFINE was == Finished(d, err).err
  <2>1. was = err
    BY <1>4
  <2> HIDE DEF was
  <2>2. ~(was = "")
    BY <1>3, <2>1, Zenon
  <2> QED BY <2>2, Zenon DEF IsOn, was
<1> QED BY <1>4, <1>5

LEMMA ComesKeeps ==
  ASSUME DownloadsInv, NEW i \in 1 .. Len(recvs), Comes(i)
  PROVE  DownloadsInv'
<1> DEFINE d == recvs[i]  e == Finished(d, "Completed")
<1>1. /\ drows \in Seq(DownloadRows) /\ recvs \in Seq(Downloads) /\ queue \in Seq(QFiles) /\ count = Len(queue)
      /\ Paired(drows, recvs) /\ wanted \subseteq Asked(drows, queue)
  BY DEF DownloadsInv, DownloadsTyped
<1>2. /\ recvs' = [recvs EXCEPT ![i] = e] /\ UNCHANGED <<queue, count, limits, byHand, most>> /\ Forget({d.file})
      /\ drows' = [x \in 1 .. Len(drows) |-> IF drows[x].xfer = d.id THEN [drows[x] EXCEPT !.located = FALSE] ELSE drows[x]]
  BY Zenon DEF Comes, Finished
<1>3. d \in Downloads
  BY <1>1
<1>4. e \in Downloads /\ e.id = d.id /\ e.file = d.file /\ ~IsOn(e)
  <2>1. "Completed" \in {"Completed", "Refused", "Failed", "Aborted"}
    OBVIOUS
  <2> QED BY <1>3, <2>1, FinishedIs
<1> HIDE DEF e
<1>5. /\ recvs' \in Seq(Downloads) /\ Len(recvs') = Len(recvs)
      /\ \A j \in 1 .. Len(recvs) : recvs'[j] = IF j = i THEN e ELSE recvs[j]
  BY <1>1, <1>2, <1>4
<1>6. \A j \in 1 .. Len(recvs) : recvs'[j].id = recvs[j].id /\ recvs'[j].file = recvs[j].file /\ (IsOn(recvs'[j]) => j # i /\ IsOn(recvs[j]))
  BY <1>4, <1>5
<1>7. /\ drows' \in Seq(DownloadRows) /\ Len(drows') = Len(drows)
      /\ \A x \in 1 .. Len(drows) : drows'[x].xfer = drows[x].xfer /\ drows'[x].file = drows[x].file
                                  /\ (drows[x].located => drows[x].xfer = d.id \/ drows'[x].located)
  <2> DEFINE row(x) == IF drows[x].xfer = d.id THEN [drows[x] EXCEPT !.located = FALSE] ELSE drows[x]
  <2>1. \A x \in 1 .. Len(drows) : row(x) \in DownloadRows /\ row(x).xfer = drows[x].xfer /\ row(x).file = drows[x].file
                                  /\ (drows[x].located => drows[x].xfer = d.id \/ row(x).located)
    <3> TAKE x \in 1 .. Len(drows)
    <3>1. drows[x] \in DownloadRows
      BY <1>1
    <3> QED BY <3>1 DEF DownloadRows
  <2>2. drows' = [x \in 1 .. Len(drows) |-> row(x)]
    BY <1>2
  <2> HIDE DEF row
  <2>3. Len(drows) \in Nat
    BY <1>1
  <2>4. drows' \in [1 .. Len(drows) -> DownloadRows]
    BY <2>1, <2>2
  <2>5. drows' \in Seq(DownloadRows) /\ Len(drows') = Len(drows)
    BY <2>3, <2>4, SeqIs
  <2> QED BY <2>1, <2>2, <2>5
<1>8. \A j \in 1 .. Len(recvs), x \in 1 .. Len(drows) :
        IsOn(recvs'[j]) /\ drows[x].xfer = recvs[j].id /\ drows[x].located => drows'[x].located
  <2> TAKE j \in 1 .. Len(recvs), x \in 1 .. Len(drows)
  <2> HAVE IsOn(recvs'[j]) /\ drows[x].xfer = recvs[j].id /\ drows[x].located
  <2>1. j # i
    BY <1>6
  <2>2. recvs[j].id # d.id
    BY <1>1, <2>1 DEF Paired, OneId
  <2> QED BY <1>7, <2>2
<1>9. Paired(drows', recvs') /\ Active(recvs') \subseteq Active(recvs)
  <2>1. \A j \in 1 .. Len(recvs) : recvs'[j].id = recvs[j].id /\ recvs'[j].file = recvs[j].file /\ (IsOn(recvs'[j]) => IsOn(recvs[j]))
    BY <1>6
  <2>2. \A x \in 1 .. Len(drows) : drows'[x].xfer = drows[x].xfer /\ drows'[x].file = drows[x].file
    BY <1>7
  <2> QED BY <1>1, <1>5, <1>7, <1>8, <2>1, <2>2, PairedEnded
<1>10. Located(drows) \subseteq Located(drows') \cup {d.file}
  <2> SUFFICES ASSUME NEW f \in Located(drows), f \notin Located(drows') PROVE f = d.file
    OBVIOUS
  <2>1. PICK x \in 1 .. Len(drows) : drows[x].located /\ drows[x].file = f
    BY <1>1, LocatedIs
  <2>2. drows[x].xfer = d.id
    <3>1. ~drows'[x].located
      BY <1>7, <2>1, LocatedIs
    <3> QED BY <1>7, <2>1, <3>1
  <2>3. d.id # NoXfer
    BY <1>3 DEF Downloads, NoXfer
  <2>4. PICK j \in 1 .. Len(recvs) : recvs[j].id = d.id /\ recvs[j].file = f
    BY <1>1, <2>1, <2>2, <2>3 DEF Paired, PointsTo
  <2>5. j = i
    BY <1>1, <2>4 DEF Paired, OneId
  <2> QED BY <2>4, <2>5
<1>11. wanted' \subseteq Asked(drows', queue')
  <2>1. Asked(drows, queue) \subseteq Asked(drows', queue') \cup {d.file}
    BY <1>2, <1>10 DEF Asked
  <2> QED BY <1>1, <1>2, <2>1, Forgotten
<1> QED BY <1>1, <1>2, <1>5, <1>7, <1>9, <1>11, Ends

LEMMA BreaksKeeps ==
  ASSUME DownloadsInv, NEW i \in 1 .. Len(recvs), Breaks(i)
  PROVE  DownloadsInv'
<1>1. /\ drows \in Seq(DownloadRows) /\ recvs \in Seq(Downloads) /\ queue \in Seq(QFiles) /\ count = Len(queue)
      /\ Paired(drows, recvs) /\ wanted \subseteq Asked(drows, queue)
  BY DEF DownloadsInv, DownloadsTyped
<1>2. PICK err \in {"Refused", "Failed"} : recvs' = [recvs EXCEPT ![i] = Finished(recvs[i], err)]
  BY Zenon DEF Breaks, Finished
<1>3. UNCHANGED <<queue, count, drows, limits, wanted, byHand, most>>
  BY DEF Breaks
<1> DEFINE e == Finished(recvs[i], err)
<1>4. e \in Downloads /\ e.id = recvs[i].id /\ e.file = recvs[i].file /\ ~IsOn(e)
  <2>1. recvs[i] \in Downloads
    BY <1>1
  <2>2. err \in {"Completed", "Refused", "Failed", "Aborted"}
    OBVIOUS
  <2> QED BY <2>1, <2>2, FinishedIs
<1> HIDE DEF e
<1>5. /\ recvs' \in Seq(Downloads) /\ Len(recvs') = Len(recvs)
      /\ \A j \in 1 .. Len(recvs) : recvs'[j] = IF j = i THEN e ELSE recvs[j]
  BY <1>1, <1>2, <1>4 DEF e
<1>6. \A j \in 1 .. Len(recvs) : recvs'[j].id = recvs[j].id /\ recvs'[j].file = recvs[j].file /\ (IsOn(recvs'[j]) => IsOn(recvs[j]))
  BY <1>4, <1>5
<1>7. Paired(drows', recvs') /\ Active(recvs') \subseteq Active(recvs)
  BY <1>1, <1>3, <1>5, <1>6, PairedEnded
<1> QED BY <1>1, <1>3, <1>5, <1>7, Ends

LEMMA RangeOfJoined ==
  ASSUME NEW S, NEW s \in Seq(S), NEW t \in Seq(S)
  PROVE  s \o t \in Seq(S) /\ Len(s \o t) = Len(s) + Len(t) /\ Range(s \o t) = Range(s) \cup Range(t)
<1> DEFINE new == s \o t
<1>1. /\ new \in Seq(S) /\ Len(new) = Len(s) + Len(t) /\ Len(s) \in Nat /\ Len(t) \in Nat
      /\ \A i \in 1 .. Len(new) : new[i] = IF i <= Len(s) THEN s[i] ELSE t[i - Len(s)]
  OBVIOUS
<1> HIDE DEF new
<1>2. ASSUME NEW e \in Range(new) PROVE e \in Range(s) \cup Range(t)
  <2>1. PICK i \in 1 .. Len(new) : new[i] = e
    BY <1>1, PlacesOf
  <2>2. CASE i <= Len(s)
    <3>1. i \in 1 .. Len(s) /\ s[i] = e
      BY <1>1, <2>1, <2>2
    <3> QED BY <3>1, PlacesOf
  <2>3. CASE ~(i <= Len(s))
    <3>1. i - Len(s) \in 1 .. Len(t) /\ t[i - Len(s)] = e
      BY <1>1, <2>1, <2>3
    <3> QED BY <3>1, PlacesOf
  <2> QED BY <2>2, <2>3
<1>3. ASSUME NEW e \in Range(s) PROVE e \in Range(new)
  <2>1. PICK i \in 1 .. Len(s) : s[i] = e
    BY PlacesOf
  <2>2. i \in 1 .. Len(new) /\ new[i] = e
    BY <1>1, <2>1
  <2> QED BY <1>1, <2>2, PlacesOf
<1>4. ASSUME NEW e \in Range(t) PROVE e \in Range(new)
  <2>1. PICK i \in 1 .. Len(t) : t[i] = e
    BY PlacesOf
  <2> DEFINE j == i + Len(s)
  <2>2. j \in 1 .. Len(new) /\ ~(j <= Len(s)) /\ j - Len(s) = i
    BY <1>1, <2>1
  <2> HIDE DEF j
  <2>3. new[j] = e
    BY <1>1, <2>1, <2>2
  <2> QED BY <1>1, <2>2, <2>3, PlacesOf
<1> QED BY <1>1, <1>2, <1>3, <1>4 DEF new

LEMMA AskKeeps ==
  ASSUME DownloadsInv, NEW file \in QFiles, Ask(file)
  PROVE  DownloadsInv'
<1>1. queue \in Seq(QFiles) /\ count = Len(queue) /\ wanted \subseteq Asked(drows, queue)
  BY DEF DownloadsInv, DownloadsTyped
<1>2. /\ queue' = Append(queue, file) /\ count' = count + 1 /\ wanted' = wanted \cup {file}
      /\ UNCHANGED <<drows, recvs, limits, byHand, most>>
  BY DEF Ask, Become, Queued, Lists
<1>3. /\ queue' \in Seq(QFiles) /\ count' = Len(queue')
      /\ \A i \in 1 .. Len(queue) : i \in 1 .. Len(queue') /\ queue'[i] = queue[i]
      /\ Len(queue') \in 1 .. Len(queue') /\ queue'[Len(queue')] = file
  BY <1>1, <1>2, AppendProperties
<1>4. Range(queue) \cup {file} \subseteq Range(queue')
  <2>1. file \in Range(queue')
    BY <1>3, PlacesOf
  <2>2. ASSUME NEW f \in Range(queue) PROVE f \in Range(queue')
    <3>1. PICK i \in 1 .. Len(queue) : queue[i] = f
      BY <1>1, PlacesOf
    <3> QED BY <1>3, <3>1, PlacesOf
  <2> QED BY <2>1, <2>2
<1>5. wanted' \subseteq Asked(drows', queue')
  BY <1>1, <1>2, <1>4 DEF Asked
<1> QED BY <1>2, <1>3, <1>5, Requeued

LEMMA DownloadNowKeeps ==
  ASSUME DownloadsInv, NEW x \in 1 .. Len(queue), DownloadNow(x)
  PROVE  DownloadsInv'
<1> DEFINE l == Lists  id == FreeId(l)  n == Start(l, x, id)
           old == {d.id : d \in Range(recvs)}  ids == {d.id : d \in Range(recvs')}
<1>1. /\ l \in AllLists /\ l.queue = queue /\ l.count = count /\ l.rows = drows /\ l.recvs = recvs
      /\ l.count = Len(l.queue) /\ Paired(l.rows, l.recvs)
  BY DEF DownloadsInv, DownloadsTyped, Lists, AllLists
<1>2. /\ recvs \in Seq(Downloads) /\ limits \in Limits /\ most \in Nat /\ limits.all <= most /\ limits.host \in Nat
      /\ queue \in Seq(QFiles) /\ wanted \subseteq Asked(drows, queue) /\ WithinLimits(recvs, byHand, limits, most)
  BY QueueAssumption DEF DownloadsInv, DownloadsTyped, Limits
<1>3. /\ Len(l.recvs) < MaxIds /\ queue' = n.queue /\ count' = n.count /\ drows' = n.rows /\ recvs' = n.recvs
      /\ byHand' = byHand \cup (ids \ old) /\ UNCHANGED <<limits, wanted, most>>
  BY Zenon DEF DownloadNow, HasFreeId, Become
<1> HIDE DEF l
<1>4. id \in 1 .. MaxIds /\ \A i \in 1 .. Len(recvs) : recvs[i].id # id
  BY <1>1, <1>3, FreeIdIs
<1> HIDE DEF id
<1>5. n = Start(l, x, id)
  OBVIOUS
<1> HIDE DEF n
<1>6. /\ n \in AllLists /\ n.count = Len(n.queue) /\ Paired(n.rows, n.recvs)
      /\ Asked(l.rows, l.queue) \subseteq Asked(n.rows, n.queue)
      /\ n.recvs = l.recvs \/ n.recvs = Append(l.recvs, NewDownload(id, l.queue[x]))
  BY <1>1, <1>4, <1>5, StartKeeps
<1>7. /\ queue' \in Seq(QFiles) /\ count' = Len(queue') /\ count' \in Int /\ drows' \in Seq(DownloadRows) /\ recvs' \in Seq(Downloads)
      /\ Paired(drows', recvs') /\ wanted' \subseteq Asked(drows', queue')
  BY <1>1, <1>2, <1>3, <1>6 DEF AllLists
<1>8. ByItself(recvs', byHand') \subseteq ByItself(recvs, byHand)
  <2>1. CASE n.recvs = l.recvs
    BY <1>1, <1>3, <2>1 DEF ByItself
  <2>2. CASE n.recvs = Append(l.recvs, NewDownload(id, l.queue[x]))
    <3> DEFINE file == l.queue[x]  d == NewDownload(id, file)
    <3>1. file \in QFiles
      BY <1>1, <1>2
    <3>2. d \in Downloads /\ d.id = id /\ d.file = file
      BY <1>4, <3>1, NewOnes
    <3> HIDE DEF d
    <3>3. recvs' = Append(recvs, d)
      BY <1>1, <1>3, <2>2 DEF d
    <3>4. Active(recvs') \subseteq Active(recvs) \cup {<<id, file>>}
      BY <1>2, <3>2, <3>3, AppendedActive
    <3>5. id \in ids
      <4>1. Len(recvs') \in 1 .. Len(recvs') /\ recvs'[Len(recvs')] = d
        BY <1>2, <3>2, <3>3, AppendProperties
      <4>2. d \in Range(recvs')
        BY <1>7, <4>1, PlacesOf
      <4> QED BY <3>2, <4>2
    <3>6. id \notin old
      <4> SUFFICES ASSUME NEW r \in Range(recvs), r.id = id PROVE FALSE
        OBVIOUS
      <4>1. PICK i \in 1 .. Len(recvs) : recvs[i] = r
        BY <1>2, PlacesOf
      <4> QED BY <1>4, <4>1
    <3> HIDE DEF ids, old, file
    <3>7. id \in byHand' /\ byHand \subseteq byHand'
      BY <1>3, <3>5, <3>6
    <3> QED BY <3>4, <3>7 DEF ByItself
  <2> QED BY <1>6, <2>1, <2>2
<1>9. WithinLimits(recvs', byHand', limits', most')
  <2>1. limits' = limits /\ most' = most /\ most <= most
    BY <1>2, <1>3
  <2>2. WithinLimits(recvs', byHand', limits, most)
    BY <1>2, <1>8, <2>1, StillWithin
  <2> QED BY <2>1, <2>2
<1> QED BY <1>2, <1>3, <1>7, <1>9 DEF DownloadsInv, DownloadsTyped

LEMMA MoveKeeps ==
  ASSUME DownloadsInv, NEW places \in SUBSET (1 .. Len(queue)), MoveToTop(places) \/ MoveToBottom(places)
  PROVE  DownloadsInv'
<1> DEFINE p == Picked(queue, places)  w == Without(queue, places)
<1>1. queue \in Seq(QFiles) /\ count = Len(queue) /\ Len(queue) \in Nat /\ wanted \subseteq Asked(drows, queue)
  BY DEF DownloadsInv, DownloadsTyped
<1>2. /\ queue' = p \o w \/ queue' = w \o p
      /\ UNCHANGED <<count, wanted, drows, recvs, limits, byHand, most>>
  BY DEF MoveToTop, MoveToBottom
<1>3. /\ p \in Seq(QFiles) /\ w \in Seq(QFiles) /\ Len(p) = Cardinality(places) /\ Len(w) = Len(queue) - Cardinality(places)
      /\ Cardinality(places) \in Nat /\ Range(queue) = Range(p) \cup Range(w)
  <2>1. PartsOf(QFiles, queue, places, Picked(queue, places), Without(queue, places))
    BY <1>1, PartsAre
  <2>2. PartsOf(QFiles, queue, places, p, w)
    BY <2>1
  <2> HIDE DEF p, w
  <2> QED BY <2>2 DEF PartsOf
<1> HIDE DEF p, w
<1>4. /\ p \o w \in Seq(QFiles) /\ Len(p \o w) = Len(p) + Len(w) /\ Range(p \o w) = Range(p) \cup Range(w)
      /\ w \o p \in Seq(QFiles) /\ Len(w \o p) = Len(w) + Len(p) /\ Range(w \o p) = Range(w) \cup Range(p)
  BY <1>3, RangeOfJoined
<1>5. queue' \in Seq(QFiles) /\ Range(queue') = Range(queue)
  BY <1>2, <1>3, <1>4
<1>6. count' = Len(queue')
  <2>1. Len(queue') = Len(p) + Len(w) \/ Len(queue') = Len(w) + Len(p)
    BY <1>2, <1>4
  <2> QED BY <1>1, <1>2, <1>3, <2>1
<1>7. wanted' \subseteq Asked(drows', queue')
  BY <1>1, <1>2, <1>5 DEF Asked
<1> QED BY <1>2, <1>5, <1>6, <1>7, Requeued

LEMMA RemoveQueuedKeeps ==
  ASSUME DownloadsInv, NEW places \in SUBSET (1 .. Len(queue)), RemoveQueued(places)
  PROVE  DownloadsInv'
<1> DEFINE p == Picked(queue, places)  w == Without(queue, places)
<1>1. queue \in Seq(QFiles) /\ count = Len(queue) /\ wanted \subseteq Asked(drows, queue)
  BY DEF DownloadsInv, DownloadsTyped
<1>2. /\ queue' = w /\ count' = count - Cardinality(places) /\ Forget(Range(p))
      /\ UNCHANGED <<drows, recvs, limits, byHand, most>>
  BY DEF RemoveQueued
<1>3. w \in Seq(QFiles) /\ Len(w) = Len(queue) - Cardinality(places) /\ Range(queue) = Range(p) \cup Range(w)
  <2>1. PartsOf(QFiles, queue, places, Picked(queue, places), Without(queue, places))
    BY <1>1, PartsAre
  <2>2. PartsOf(QFiles, queue, places, p, w)
    BY <2>1
  <2> HIDE DEF p, w
  <2> QED BY <2>2 DEF PartsOf
<1> HIDE DEF p, w
<1>4. wanted' \subseteq Asked(drows', queue')
  <2>1. Asked(drows, queue) \subseteq Asked(drows', queue') \cup Range(p)
    BY <1>2, <1>3 DEF Asked
  <2> QED BY <1>1, <1>2, <2>1, Forgotten
<1> QED BY <1>1, <1>2, <1>3, <1>4, Requeued

LEMMA AbortedIs ==
  ASSUME recvs \in Seq(Downloads), NEW ids, NEW new, new = Aborted(ids)
  PROVE  /\ new \in Seq(Downloads) /\ Len(new) = Len(recvs)
         /\ \A i \in 1 .. Len(recvs) : new[i].id = recvs[i].id /\ new[i].file = recvs[i].file
                                     /\ (IsOn(new[i]) => IsOn(recvs[i]) /\ recvs[i].id \notin ids)
<1> DEFINE told(i) == IF recvs[i].id \in ids THEN Finished(recvs[i], "Aborted") ELSE recvs[i]
<1>1. new = [i \in 1 .. Len(recvs) |-> told(i)]
  BY Zenon DEF Aborted, Finished
<1>2. \A i \in 1 .. Len(recvs) : /\ told(i) \in Downloads /\ told(i).id = recvs[i].id /\ told(i).file = recvs[i].file
                                 /\ (IsOn(told(i)) => IsOn(recvs[i]) /\ recvs[i].id \notin ids)
  <2> TAKE i \in 1 .. Len(recvs)
  <2>1. recvs[i] \in Downloads
    OBVIOUS
  <2>2. "Aborted" \in {"Completed", "Refused", "Failed", "Aborted"}
    OBVIOUS
  <2> DEFINE e == Finished(recvs[i], "Aborted")
  <2>3. e \in Downloads /\ e.id = recvs[i].id /\ e.file = recvs[i].file /\ ~IsOn(e)
    BY <2>1, <2>2, FinishedIs
  <2> HIDE DEF e
  <2>4. told(i) = IF recvs[i].id \in ids THEN e ELSE recvs[i]
    BY DEF e
  <2> QED BY <2>1, <2>3, <2>4
<1> HIDE DEF told
<1>3. Len(recvs) \in Nat
  OBVIOUS
<1>4. new \in [1 .. Len(recvs) -> Downloads]
  BY <1>1, <1>2
<1>5. new \in Seq(Downloads) /\ Len(new) = Len(recvs)
  BY <1>3, <1>4, SeqIs
<1> QED BY <1>1, <1>2, <1>5

LEMMA AbortSelectedKeeps ==
  ASSUME DownloadsInv, NEW places, AbortSelected(places)
  PROVE  DownloadsInv'
<1> DEFINE ids == {drows[x].xfer : x \in places}
<1>1. /\ drows \in Seq(DownloadRows) /\ recvs \in Seq(Downloads) /\ queue \in Seq(QFiles) /\ count = Len(queue)
      /\ Paired(drows, recvs) /\ wanted \subseteq Asked(drows, queue)
  BY DEF DownloadsInv, DownloadsTyped
<1>2. recvs' = Aborted(ids) /\ UNCHANGED <<queue, count, drows, limits, wanted, byHand, most>>
  BY DEF AbortSelected
<1> HIDE DEF ids
<1>3. /\ recvs' \in Seq(Downloads) /\ Len(recvs') = Len(recvs)
      /\ \A i \in 1 .. Len(recvs) : recvs'[i].id = recvs[i].id /\ recvs'[i].file = recvs[i].file /\ (IsOn(recvs'[i]) => IsOn(recvs[i]))
  BY <1>1, <1>2, AbortedIs
<1>4. Paired(drows', recvs') /\ Active(recvs') \subseteq Active(recvs)
  BY <1>1, <1>2, <1>3, PairedEnded
<1> QED BY <1>1, <1>2, <1>3, <1>4, Ends

LEMMA ClearAllKeeps ==
  ASSUME DownloadsInv, ClearAll
  PROVE  DownloadsInv'
<1> DEFINE ids == {r.xfer : r \in Range(drows)}
<1>1. /\ drows \in Seq(DownloadRows) /\ recvs \in Seq(Downloads) /\ queue \in Seq(QFiles) /\ count = Len(queue)
      /\ Paired(drows, recvs) /\ wanted \subseteq Asked(drows, queue)
  BY DEF DownloadsInv, DownloadsTyped
<1>2. drows' = <<>> /\ recvs' = Aborted(ids) /\ Forget(Located(drows)) /\ UNCHANGED <<queue, count, limits, byHand, most>>
  BY DEF ClearAll
<1>3. \A i \in 1 .. Len(recvs) : IsOn(recvs[i]) => recvs[i].id \in ids
  <2> SUFFICES ASSUME NEW i \in 1 .. Len(recvs), IsOn(recvs[i]) PROVE recvs[i].id \in ids
    OBVIOUS
  <2>1. PICK x \in 1 .. Len(drows) : drows[x].xfer = recvs[i].id
    BY <1>1 DEF Paired, Rowed
  <2>2. drows[x] \in Range(drows)
    BY <1>1, PlacesOf
  <2> QED BY <2>1, <2>2
<1> HIDE DEF ids
<1>4. /\ recvs' \in Seq(Downloads) /\ Len(recvs') = Len(recvs)
      /\ \A i \in 1 .. Len(recvs) : recvs'[i].id = recvs[i].id /\ ~IsOn(recvs'[i])
  <2>1. /\ recvs' \in Seq(Downloads) /\ Len(recvs') = Len(recvs)
        /\ \A i \in 1 .. Len(recvs) : recvs'[i].id = recvs[i].id /\ (IsOn(recvs'[i]) => IsOn(recvs[i]) /\ recvs[i].id \notin ids)
    BY <1>1, <1>2, AbortedIs
  <2> QED BY <1>3, <2>1
<1>5. OneId(recvs')
  <2> SUFFICES ASSUME NEW i \in 1 .. Len(recvs'), NEW j \in 1 .. Len(recvs'), recvs'[i].id = recvs'[j].id PROVE i = j
    BY DEF OneId
  <2>1. i \in 1 .. Len(recvs) /\ j \in 1 .. Len(recvs) /\ recvs[i].id = recvs[j].id
    BY <1>4
  <2> QED BY <1>1, <2>1 DEF Paired, OneId
<1>6. Len(drows') = 0 /\ drows' \in Seq(DownloadRows)
  BY <1>2
<1>7. Paired(drows', recvs') /\ Active(recvs') = {}
  BY <1>4, <1>5, <1>6, PairedNoRows
<1>8. wanted' \subseteq Asked(drows', queue')
  <2>1. Asked(drows, queue) \subseteq Asked(drows', queue') \cup Located(drows)
    BY <1>2 DEF Asked
  <2> QED BY <1>1, <1>2, <2>1, Forgotten
<1> QED BY <1>1, <1>2, <1>4, <1>6, <1>7, <1>8, Ends

\* Rows without a download go.
LEMMA RowsGo ==
  ASSUME drows \in Seq(DownloadRows), recvs \in Seq(Downloads), Paired(drows, recvs),
         NEW gone \in SUBSET (1 .. Len(drows)), \A x \in gone : drows[x].xfer = NoXfer
  PROVE  /\ Without(drows, gone) \in Seq(DownloadRows) /\ Paired(Without(drows, gone), recvs)
         /\ Picked(drows, gone) \in Seq(DownloadRows) /\ Len(Picked(drows, gone)) = Cardinality(gone)
         /\ Cardinality(gone) \in Nat
         /\ Located(drows) \subseteq Located(Without(drows, gone)) \cup Located(Picked(drows, gone))
<1> DEFINE p == Picked(drows, gone)  w == Without(drows, gone)  rest == (1 .. Len(drows)) \ gone
<1>1. PartsOf(DownloadRows, drows, gone, p, w)
  BY PartsAre
<1> HIDE DEF p, w
<1>2. /\ p \in Seq(DownloadRows) /\ w \in Seq(DownloadRows) /\ PickedUpTo(drows, rest, Len(drows), w)
      /\ Len(p) = Cardinality(gone) /\ Cardinality(gone) \in Nat /\ Range(drows) = Range(p) \cup Range(w)
  BY <1>1 DEF PartsOf
<1>3. \A x \in 1 .. Len(drows) : x \notin rest => drows[x].xfer = NoXfer
  OBVIOUS
<1> HIDE DEF rest
<1>4. Paired(w, recvs)
  BY <1>2, <1>3, PairedFewerRows
<1>5. Located(drows) \subseteq Located(w) \cup Located(p)
  BY <1>2 DEF Located
<1> QED BY <1>2, <1>4, <1>5 DEF p, w

LEMMA ClearInactiveKeeps ==
  ASSUME DownloadsInv, NEW complete, ClearInactive(complete)
  PROVE  DownloadsInv'
<1>1. /\ drows \in Seq(DownloadRows) /\ recvs \in Seq(Downloads) /\ queue \in Seq(QFiles) /\ count = Len(queue)
      /\ Paired(drows, recvs) /\ wanted \subseteq Asked(drows, queue)
  BY DEF DownloadsInv, DownloadsTyped
<1> DEFINE gone == {x \in 1 .. Len(drows) : drows[x].xfer = NoXfer /\ (complete => ~drows[x].located)}
<1>2. /\ drows' = Without(drows, gone) /\ Forget(Located(Picked(drows, gone)))
      /\ UNCHANGED <<queue, count, recvs, limits, byHand, most>>
  BY Zenon DEF ClearInactive, Places
<1>3. gone \in SUBSET (1 .. Len(drows)) /\ \A x \in gone : drows[x].xfer = NoXfer
  OBVIOUS
<1> HIDE DEF gone
<1>4. /\ drows' \in Seq(DownloadRows) /\ Paired(drows', recvs')
      /\ Located(drows) \subseteq Located(drows') \cup Located(Picked(drows, gone))
  <2>1. /\ Without(drows, gone) \in Seq(DownloadRows) /\ Paired(Without(drows, gone), recvs)
        /\ Located(drows) \subseteq Located(Without(drows, gone)) \cup Located(Picked(drows, gone))
    BY <1>1, <1>3, RowsGo
  <2> QED BY <1>2, <2>1
<1>5. wanted' \subseteq Asked(drows', queue')
  <2>1. Asked(drows, queue) \subseteq Asked(drows', queue') \cup Located(Picked(drows, gone))
    BY <1>2, <1>4 DEF Asked
  <2> QED BY <1>1, <1>2, <2>1, Forgotten
<1>6. recvs' \in Seq(Downloads) /\ Active(recvs') \subseteq Active(recvs) /\ queue' \in Seq(QFiles) /\ count' = Len(queue')
  BY <1>1, <1>2
<1> QED BY <1>2, <1>4, <1>5, <1>6, Ends

LEMMA ResumeKeeps ==
  ASSUME DownloadsInv, NEW places \in SUBSET (1 .. Len(drows)), Resume(places)
  PROVE  DownloadsInv'
<1>1. /\ drows \in Seq(DownloadRows) /\ recvs \in Seq(Downloads) /\ queue \in Seq(QFiles) /\ count = Len(queue)
      /\ Paired(drows, recvs) /\ wanted \subseteq Asked(drows, queue)
  BY DEF DownloadsInv, DownloadsTyped
<1> DEFINE again == {x \in places : drows[x].xfer = NoXfer /\ drows[x].located}
           p == Picked(drows, again)
           files == [i \in 1 .. Cardinality(again) |-> p[i].file]
<1>2. /\ drows' = Without(drows, again) /\ queue' = queue \o files /\ count' = count + Cardinality(again)
      /\ UNCHANGED <<recvs, limits, wanted, byHand, most>>
  BY DEF Resume
<1>3. again \in SUBSET (1 .. Len(drows)) /\ \A x \in again : drows[x].xfer = NoXfer
  OBVIOUS
<1> HIDE DEF again, p
<1>4. /\ drows' \in Seq(DownloadRows) /\ Paired(drows', recvs') /\ p \in Seq(DownloadRows)
      /\ Len(p) = Cardinality(again) /\ Cardinality(again) \in Nat
      /\ Located(drows) \subseteq Located(drows') \cup Located(p)
  <2>1. /\ Without(drows, again) \in Seq(DownloadRows) /\ Paired(Without(drows, again), recvs)
        /\ Picked(drows, again) \in Seq(DownloadRows) /\ Len(Picked(drows, again)) = Cardinality(again)
        /\ Cardinality(again) \in Nat
        /\ Located(drows) \subseteq Located(Without(drows, again)) \cup Located(Picked(drows, again))
    BY <1>1, <1>3, RowsGo
  <2> QED BY <1>2, <2>1 DEF p
<1>5. files \in Seq(QFiles) /\ Len(files) = Cardinality(again)
  <2>1. \A i \in 1 .. Cardinality(again) : p[i].file \in QFiles
    <3> TAKE i \in 1 .. Cardinality(again)
    <3>1. p[i] \in DownloadRows
      BY <1>4
    <3> QED BY <3>1 DEF DownloadRows
  <2>2. files \in [1 .. Cardinality(again) -> QFiles]
    BY <2>1
  <2> HIDE DEF files
  <2> QED BY <1>4, <2>2, SeqIs
<1>6. Located(p) \subseteq Range(files)
  <2> SUFFICES ASSUME NEW f \in Located(p) PROVE f \in Range(files)
    OBVIOUS
  <2>1. PICK k \in 1 .. Len(p) : p[k].file = f
    BY <1>4, LocatedIs
  <2>2. k \in 1 .. Len(files) /\ files[k] = f
    BY <1>4, <1>5, <2>1
  <2> HIDE DEF files
  <2> QED BY <1>5, <2>2, PlacesOf
<1> HIDE DEF files
<1>7. queue' \in Seq(QFiles) /\ Len(queue') = Len(queue) + Cardinality(again) /\ Range(queue') = Range(queue) \cup Range(files)
  <2>1. /\ queue \o files \in Seq(QFiles) /\ Len(queue \o files) = Len(queue) + Len(files)
        /\ Range(queue \o files) = Range(queue) \cup Range(files)
    BY <1>1, <1>5, RangeOfJoined
  <2> QED BY <1>2, <1>5, <2>1
<1>8. wanted' \subseteq Asked(drows', queue')
  BY <1>1, <1>2, <1>4, <1>6, <1>7 DEF Asked
<1>9. recvs' \in Seq(Downloads) /\ Active(recvs') \subseteq Active(recvs) /\ count' = Len(queue')
  BY <1>1, <1>2, <1>7
<1> QED BY <1>2, <1>4, <1>7, <1>8, <1>9, Ends

LEMMA SetMaximumKeeps ==
  ASSUME DownloadsInv, NEW n \in Maxima, SetMaximum(n)
  PROVE  DownloadsInv'
<1>1. /\ limits \in Limits /\ most \in Nat /\ limits.all <= most /\ limits.host \in Nat /\ limits.all \in Nat /\ n \in Nat
      /\ recvs \in Seq(Downloads) /\ WithinLimits(recvs, byHand, limits, most)
  <2>1. limits \in Limits /\ limits.all \in Maxima /\ limits.host \in HostMaxima
    BY DEF DownloadsInv, DownloadsTyped, Limits
  <2>2. limits.all \in 0 .. MaxIds /\ n \in 0 .. MaxIds /\ MaxIds \in Nat /\ limits.host \in Nat
    BY <2>1, QueueAssumption
  <2> QED BY <2>1, <2>2 DEF DownloadsInv, DownloadsTyped
<1>2. /\ limits' = [limits EXCEPT !.all = n] /\ most' = IF n > most THEN n ELSE most
      /\ UNCHANGED <<queue, count, drows, recvs, wanted, byHand>>
  BY DEF SetMaximum
<1>3. limits' \in Limits /\ limits'.all = n /\ limits'.host = limits.host
  BY <1>1, <1>2 DEF Limits
<1>4. most' \in Nat /\ most <= most' /\ limits'.all <= most'
  BY <1>1, <1>2, <1>3
<1>5. WithinLimits(recvs', byHand', limits', most')
  <2>1. ByItself(recvs', byHand') \subseteq ByItself(recvs, byHand)
    BY <1>2
  <2> QED BY <1>1, <1>3, <1>4, <2>1, StillWithin
<1> QED BY <1>2, <1>3, <1>4, <1>5 DEF DownloadsInv, DownloadsTyped

\* Nothing goes on where nothing is listed.
LEMMA NothingPaired ==
  ASSUME NEW list, list = <<>>, NEW dls, dls = <<>>, NEW hand, NEW lims \in Limits, NEW max \in Nat
  PROVE  Paired(list, dls) /\ WithinLimits(dls, hand, lims, max)
<1>1. Len(list) = 0 /\ \A i \in 1 .. Len(dls) : FALSE
  OBVIOUS
<1>2. Paired(list, dls) /\ Active(dls) = {}
  <2>1. OneId(dls) /\ \A i \in 1 .. Len(dls) : ~IsOn(dls[i])
    BY <1>1 DEF OneId
  <2> QED BY <1>1, <2>1, PairedNoRows
<1>3. WithinLimits(dls, hand, lims, max)
  <2>1. ByItself(dls, hand) = {} /\ \A f \in QFiles : At(ByItself(dls, hand), PeerOf[f]) = {}
    BY <1>2 DEF ByItself, At
  <2>2. Cardinality({}) = 0
    BY FS_EmptySet
  <2>3. lims.host \in Nat
    BY QueueAssumption DEF Limits
  <2>4. Cardinality(ByItself(dls, hand)) <= max
    BY <2>1, <2>2
  <2>5. ASSUME NEW f \in QFiles PROVE Cardinality(At(ByItself(dls, hand), PeerOf[f])) <= lims.host
    <3>1. At(ByItself(dls, hand), PeerOf[f]) = {}
      BY <2>1
    <3>2. Cardinality(At(ByItself(dls, hand), PeerOf[f])) = 0
      BY <2>2, <3>1
    <3> QED BY <2>3, <3>2
  <2> QED BY <2>4, <2>5 DEF WithinLimits
<1> QED BY <1>2, <1>3

LEMMA QueueInitKeeps ==
  ASSUME QueueInit
  PROVE  DownloadsInv
<1>1. /\ queue = <<>> /\ count = 0 /\ drows = <<>> /\ recvs = <<>> /\ limits \in [all : Maxima, host : HostMaxima]
      /\ most = limits.all /\ wanted = {}
  BY DEF QueueInit
<1>2. limits \in Limits /\ most \in Nat /\ limits.all <= most
  <2>1. limits \in Limits /\ limits.all \in Maxima
    BY <1>1 DEF Limits
  <2>2. limits.all \in 0 .. MaxIds /\ MaxIds \in Nat
    BY <2>1, QueueAssumption
  <2> QED BY <1>1, <2>1, <2>2
<1>3. Paired(drows, recvs) /\ WithinLimits(recvs, byHand, limits, most)
  BY <1>1, <1>2, NothingPaired
<1>4. /\ queue \in Seq(QFiles) /\ count = Len(queue) /\ count \in Int /\ drows \in Seq(DownloadRows) /\ recvs \in Seq(Downloads)
  BY <1>1
<1> QED BY <1>1, <1>2, <1>3, <1>4 DEF DownloadsInv, DownloadsTyped

LEMMA ReopenKeeps ==
  ASSUME DownloadsInv, Reopen
  PROVE  DownloadsInv'
<1> DEFINE at == {x \in 1 .. Len(drows) : drows[x].located /\ drows[x].status # "Refused"}
           kept == Picked(drows, at)
           files == [i \in DOMAIN kept |-> kept[i].file]
           saved == files \o queue
           long == {i \in 1 .. Len(saved) : saved[i] \notin ShortNames}
           refused == {drows[x].file : x \in {y \in 1 .. Len(drows) : drows[y].status = "Refused"}}
<1>1. /\ drows \in Seq(DownloadRows) /\ queue \in Seq(QFiles) /\ wanted \subseteq Asked(drows, queue)
      /\ limits \in Limits /\ most \in Nat /\ limits.all <= most
  BY DEF DownloadsInv, DownloadsTyped
<1>2. saved = SavedList
  BY Zenon DEF SavedList, Where, Places
<1>3. /\ queue' = Picked(saved, long) /\ count' = Len(queue') /\ drows' = <<>> /\ recvs' = <<>>
      /\ UNCHANGED <<limits, most>>
      /\ wanted' = wanted \ (ShortNames \cup (refused \ Range(queue)))
  <2> HIDE DEF saved
  <2> QED BY <1>2, Zenon DEF Reopen, Loaded, Where, Places
<1>4. kept \in Seq(DownloadRows) /\ \A x \in at : \E i \in 1 .. Len(kept) : kept[i] = drows[x]
  <2>1. kept \in Seq(DownloadRows) /\ PickedUpTo(drows, at, Len(drows), kept)
    BY <1>1, PickedIs
  <2>2. at \subseteq 1 .. Len(drows)
    OBVIOUS
  <2> HIDE DEF at
  <2> QED BY <2>1, <2>2 DEF PickedUpTo
<1>5. \A x \in 1 .. Len(drows) : drows[x].located => x \in at \/ drows[x].file \in refused
  OBVIOUS
<1> HIDE DEF at, kept, refused
<1>6. files \in Seq(QFiles) /\ Len(files) = Len(kept) /\ \A i \in 1 .. Len(kept) : files[i] = kept[i].file
  <2>1. DOMAIN kept = 1 .. Len(kept) /\ Len(kept) \in Nat
    BY <1>4
  <2>2. \A i \in 1 .. Len(kept) : kept[i].file \in QFiles
    <3> TAKE i \in 1 .. Len(kept)
    <3>1. kept[i] \in DownloadRows
      BY <1>4
    <3> QED BY <3>1 DEF DownloadRows
  <2>3. files \in [1 .. Len(kept) -> QFiles]
    BY <2>1, <2>2
  <2>4. \A i \in 1 .. Len(kept) : files[i] = kept[i].file
    BY <2>1
  <2> HIDE DEF files
  <2> QED BY <2>1, <2>3, <2>4, SeqIs
<1> HIDE DEF files
<1>7. saved \in Seq(QFiles) /\ Range(saved) = Range(files) \cup Range(queue)
  BY <1>1, <1>6, RangeOfJoined
<1> HIDE DEF saved
<1>8. queue' \in Seq(QFiles) /\ \A f : f \in Range(queue') <=> \E i \in long : saved[i] = f
  <2>1. long \in SUBSET (1 .. Len(saved))
    OBVIOUS
  <2>2. Picked(saved, long) \in Seq(QFiles)
    BY <1>7, PickedIs
  <2> HIDE DEF long
  <2>3. \A f : f \in Range(Picked(saved, long)) <=> \E i \in long : saved[i] = f
    BY <1>7, <2>1, PickedRange
  <2> QED BY <1>3, <2>2, <2>3
<1>9. wanted' \subseteq Range(queue')
  <2> SUFFICES ASSUME NEW f \in wanted' PROVE f \in Range(queue')
    OBVIOUS
  <2>1. f \in wanted /\ f \notin ShortNames /\ (f \in refused => f \in Range(queue))
    BY <1>3
  <2>2. f \in Range(saved)
    <3>1. CASE f \in Range(queue)
      BY <1>7, <3>1
    <3>2. CASE f \notin Range(queue)
      <4>1. f \in Located(drows)
        BY <1>1, <2>1, <3>2 DEF Asked
      <4>2. PICK x \in 1 .. Len(drows) : drows[x].located /\ drows[x].file = f
        BY <1>1, <4>1, LocatedIs
      <4>3. x \in at
        BY <1>5, <2>1, <3>2, <4>2
      <4>4. PICK i \in 1 .. Len(kept) : kept[i] = drows[x]
        BY <1>4, <4>3
      <4>5. i \in 1 .. Len(files) /\ files[i] = f
        BY <1>6, <4>2, <4>4
      <4>6. f \in Range(files)
        BY <1>6, <4>5, PlacesOf
      <4> QED BY <1>7, <4>6
    <3> QED BY <3>1, <3>2
  <2>3. PICK i \in 1 .. Len(saved) : saved[i] = f
    BY <1>7, <2>2, PlacesOf
  <2>4. i \in long
    BY <2>1, <2>3
  <2> HIDE DEF long
  <2> QED BY <1>8, <2>3, <2>4
<1>10. /\ limits' \in Limits /\ most' \in Nat /\ limits'.all <= most' /\ Len(queue') \in Int
       /\ drows' = <<>> /\ recvs' = <<>> /\ count' = Len(queue') /\ queue' \in Seq(QFiles)
  BY <1>1, <1>3, <1>8
<1>11. Paired(drows', recvs') /\ WithinLimits(recvs', byHand', limits', most')
  BY <1>10, NothingPaired
<1>12. drows' \in Seq(DownloadRows) /\ recvs' \in Seq(Downloads)
  BY <1>10
<1> QED BY <1>9, <1>10, <1>11, <1>12 DEF DownloadsInv, DownloadsTyped, Asked

LEMMA QueueStep ==
  ASSUME DownloadsInv, [QueueNext]_queueVars
  PROVE  DownloadsInv'
<1>1. CASE QueueNext
  <2>1. ASSUME NEW due \in BOOLEAN, Pass(due) PROVE DownloadsInv'
    <3>1. Listed(RunRecvs(due, {})) /\ UNCHANGED <<limits, wanted, most>>
      BY <2>1 DEF Pass
    <3> QED BY <3>1, Passes
  <2>2. ASSUME NEW i \in 1 .. Len(recvs), Late(i) PROVE DownloadsInv'
    <3>1. Listed(RunRecvs(FALSE, {recvs[i].id})) /\ UNCHANGED <<limits, wanted, most>>
      BY <2>2 DEF Late
    <3> QED BY <3>1, Passes
  <2>3. ASSUME NEW i \in 1 .. Len(recvs), Breaks(i) \/ Comes(i) PROVE DownloadsInv'
    BY <2>3, BreaksKeeps, ComesKeeps
  <2>4. CASE Connects
    <3>1. UNCHANGED <<queue, count, drows, recvs, limits, byHand, most, wanted>>
      BY <2>4 DEF Connects
    <3> QED BY <3>1 DEF DownloadsInv, DownloadsTyped
  <2>5. ASSUME NEW places \in SUBSET (1 .. Len(queue)), MoveToTop(places) \/ MoveToBottom(places) \/ RemoveQueued(places)
        PROVE  DownloadsInv'
    BY <2>5, MoveKeeps, RemoveQueuedKeeps
  <2>6. ASSUME NEW places \in SUBSET (1 .. Len(drows)), AbortSelected(places) \/ Resume(places) PROVE DownloadsInv'
    BY <2>6, AbortSelectedKeeps, ResumeKeeps
  <2>7. CASE Commands
    <3>1. CASE \E f \in QFiles : Ask(f)
      BY <3>1, AskKeeps
    <3>2. CASE \E x \in 1 .. Len(queue) : DownloadNow(x)
      BY <3>2, DownloadNowKeeps
    <3>3. CASE ClearAll \/ ClearInactive(TRUE) \/ ClearInactive(FALSE)
      BY <3>3, ClearAllKeeps, ClearInactiveKeeps
    <3>4. CASE \E n \in Maxima : SetMaximum(n)
      BY <3>4, SetMaximumKeeps
    <3>5. CASE Reopen
      BY <3>5, ReopenKeeps
    <3> QED BY <2>5, <2>6, <2>7, <3>1, <3>2, <3>3, <3>4, <3>5 DEF Commands
  <2> QED BY <1>1, <2>1, <2>2, <2>3, <2>4, <2>7 DEF QueueNext
<1>2. CASE UNCHANGED queueVars
  <2>1. UNCHANGED <<queue, count, drows, recvs, limits, byHand, most, wanted>>
    BY <1>2 DEF queueVars
  <2> QED BY <2>1 DEF DownloadsInv, DownloadsTyped
<1> QED BY <1>1, <1>2

\* There are as many places as downloads.
LEMMA PlacesCounted ==
  ASSUME NEW dls \in Seq(Downloads), OneId(dls), NEW at \in SUBSET (1 .. Len(dls)), NEW ps, IsFiniteSet(ps),
         \A i \in at : <<dls[i].id, dls[i].file>> \in ps
  PROVE  Cardinality(at) <= Cardinality(ps) /\ Cardinality(at) \in Nat /\ Cardinality(ps) \in Nat
<1> DEFINE h == [i \in at |-> <<dls[i].id, dls[i].file>>]
<1>1. h \in [at -> ps]
  OBVIOUS
<1>2. \A i, j \in at : h[i] = h[j] => i = j
  <2> TAKE i \in at, j \in at
  <2> HAVE h[i] = h[j]
  <2>1. dls[i].id = dls[j].id
    OBVIOUS
  <2>2. i \in 1 .. Len(dls) /\ j \in 1 .. Len(dls)
    OBVIOUS
  <2> QED BY <2>1, <2>2 DEF OneId
<1> HIDE DEF h
<1>3. h \in Injection(at, ps)
  BY <1>1, <1>2 DEF Injection, IsInjective
<1>4. IsFiniteSet(at) /\ Cardinality(at) <= Cardinality(ps)
  BY <1>3, FS_Injection
<1> QED BY <1>4, FS_CardinalityType

LEMMA DownloadsKeep ==
  ASSUME DownloadsInv
  PROVE  QueueKeeps
<1> DEFINE own == {i \in Going : recvs[i].id \notin byHand}
           its(f) == {i \in own : PeerOf[recvs[i].file] = PeerOf[f]}
<1>1. /\ recvs \in Seq(Downloads) /\ limits \in Limits /\ most \in Nat /\ Paired(drows, recvs)
      /\ WithinLimits(recvs, byHand, limits, most) /\ count = Len(queue) /\ wanted \subseteq Range(queue) \cup Located(drows)
  BY DEF DownloadsInv, DownloadsTyped, Asked
<1>2. Going = {i \in 1 .. Len(recvs) : IsOn(recvs[i])}
  BY Zenon DEF Going, IsOn
<1>3. \A i \in Going, j \in Going : recvs[i].file = recvs[j].file => i = j
  BY <1>1, <1>2 DEF Paired, OneFile
<1>4. \A x \in 1 .. Len(drows) : drows[x].xfer # NoXfer =>
        /\ \E i \in 1 .. Len(recvs) : recvs[i].id = drows[x].xfer /\ recvs[i].file = drows[x].file
        /\ \A y \in 1 .. Len(drows) : drows[y].xfer = drows[x].xfer => x = y
  <2> TAKE x \in 1 .. Len(drows)
  <2> HAVE drows[x].xfer # NoXfer
  <2>1. \E i \in 1 .. Len(recvs) : recvs[i].id = drows[x].xfer /\ recvs[i].file = drows[x].file
    BY <1>1 DEF Paired, PointsTo
  <2>2. \A y \in 1 .. Len(drows) : drows[y].xfer = drows[x].xfer => x = y
    BY <1>1 DEF Paired, OnePointer
  <2> QED BY <2>1, <2>2
<1>5. \A i \in Going : \E x \in 1 .. Len(drows) : drows[x].xfer = recvs[i].id
  BY <1>1, <1>2 DEF Paired, Rowed
<1>6. /\ IsFiniteSet(ByItself(recvs, byHand)) /\ own \in SUBSET (1 .. Len(recvs))
      /\ \A i \in own : <<recvs[i].id, recvs[i].file>> \in ByItself(recvs, byHand)
  <2>1. IsFiniteSet(Active(recvs)) /\ ByItself(recvs, byHand) \subseteq Active(recvs)
    BY <1>1, ActiveIs DEF ByItself
  <2>2. IsFiniteSet(ByItself(recvs, byHand))
    BY <2>1, FS_Subset
  <2>3. \A i \in own : <<recvs[i].id, recvs[i].file>> \in ByItself(recvs, byHand)
    <3> TAKE i \in own
    <3>1. i \in 1 .. Len(recvs) /\ IsOn(recvs[i]) /\ recvs[i].id \notin byHand
      BY <1>2
    <3>2. <<recvs[i].id, recvs[i].file>> \in Active(recvs)
      BY <3>1 DEF Active
    <3> QED BY <3>1, <3>2 DEF ByItself
  <2> QED BY <1>2, <2>2, <2>3
<1>7. Cardinality(own) <= most
  <2>1. OneId(recvs) /\ Cardinality(ByItself(recvs, byHand)) <= most
    BY <1>1 DEF Paired, WithinLimits
  <2> HIDE DEF own
  <2>2. Cardinality(own) <= Cardinality(ByItself(recvs, byHand)) /\ Cardinality(own) \in Nat /\ Cardinality(ByItself(recvs, byHand)) \in Nat
    BY <1>1, <1>6, <2>1, PlacesCounted
  <2> QED BY <1>1, <2>1, <2>2
<1>8. ASSUME limits.host # 0, NEW f \in QFiles PROVE Cardinality(its(f)) <= limits.host
  <2> DEFINE ps == At(ByItself(recvs, byHand), PeerOf[f])
  <2>1. OneId(recvs) /\ Cardinality(ps) <= limits.host /\ limits.host \in Nat
    BY <1>1, <1>8, QueueAssumption DEF Paired, WithinLimits, Limits
  <2>2. IsFiniteSet(ps)
    <3>1. ps \subseteq ByItself(recvs, byHand)
      BY DEF At
    <3> QED BY <1>6, <3>1, FS_Subset
  <2>3. its(f) \in SUBSET (1 .. Len(recvs)) /\ \A i \in its(f) : <<recvs[i].id, recvs[i].file>> \in ps
    BY <1>6 DEF At
  <2> DEFINE places == its(f)
  <2>4. places \in SUBSET (1 .. Len(recvs)) /\ \A i \in places : <<recvs[i].id, recvs[i].file>> \in ps
    BY <2>3
  <2> HIDE DEF places, ps
  <2>5. Cardinality(places) <= Cardinality(ps) /\ Cardinality(places) \in Nat /\ Cardinality(ps) \in Nat
    BY <1>1, <2>1, <2>2, <2>4, PlacesCounted
  <2> QED BY <2>1, <2>5 DEF places
<1>9. /\ Cardinality(own) <= most
      /\ limits.host # 0 => \A f \in QFiles : Cardinality({i \in own : PeerOf[recvs[i].file] = PeerOf[f]}) <= limits.host
  BY <1>7, <1>8
<1> HIDE DEF own
<1>10. QueueKeeps <=>
       /\ count = Len(queue)
       /\ wanted \subseteq Range(queue) \cup Located(drows)
       /\ \A i \in Going, j \in Going : recvs[i].file = recvs[j].file => i = j
       /\ \A x \in 1 .. Len(drows) : drows[x].xfer # NoXfer =>
              /\ \E i \in 1 .. Len(recvs) : recvs[i].id = drows[x].xfer /\ recvs[i].file = drows[x].file
              /\ \A y \in 1 .. Len(drows) : drows[y].xfer = drows[x].xfer => x = y
       /\ \A i \in Going : \E x \in 1 .. Len(drows) : drows[x].xfer = recvs[i].id
       /\ Cardinality(own) <= most
       /\ limits.host # 0 => \A f \in QFiles : Cardinality({i \in own : PeerOf[recvs[i].file] = PeerOf[f]}) <= limits.host
  BY Zenon DEF QueueKeeps, own
<1> QED BY <1>1, <1>3, <1>4, <1>5, <1>9, <1>10

\* A file that was asked for stays in the queue or among the downloads until it is got or given up,
\* is not got twice at the same time, rows point to their own downloads, and what the program starts
\* by itself is within the limits: for any files, peers, limits and lengths of the lists.
THEOREM DownloadsAreKept == QueueSpec => []QueueKeeps
<1>1. QueueInit => DownloadsInv
  BY QueueInitKeeps
<1>2. DownloadsInv /\ [QueueNext]_queueVars => DownloadsInv'
  BY QueueStep
<1>3. DownloadsInv => QueueKeeps
  BY DownloadsKeep
<1> QED BY <1>1, <1>2, <1>3, PTL DEF QueueSpec

=============================================================================
