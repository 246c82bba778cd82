----------------------------- MODULE FileDBProofs -----------------------------
(***************************************************************************)
(* Proofs about FileDB, for any directories, names and versions, any limit *)
(* of the numbers and any number of changes: an index that a peer was ever *)
(* given stays true, and a complete scan lists what is shared.             *)
(***************************************************************************)
EXTENDS FileDB, SequenceTheorems, FiniteSetTheorems, WellFoundedInduction, TLAPS

FileRec == [dir_index : Nat \ {0}, file : Name, ver : Version, v_index : Nat]
OldScan == [m_oldscan_lastdirpos : Nat \ {0}, m_oldscan_dirstate : 0..2]

\* The entries of a directory lie together, and none has a name twice.
Ordered(db) ==
  \A p, q \in DOMAIN db.m_database :
    p < q => db.m_database[p].dir_index <= db.m_database[q].dir_index
NamedOnce(db) ==
  \A p, q \in DOMAIN db.m_database :
    /\ db.m_database[p].dir_index = db.m_database[q].dir_index
    /\ db.m_database[p].file = db.m_database[q].file
    => p = q
Scanned(db) == WellFormed(db) /\ Ordered(db) /\ NamedOnce(db)

\* An index was given to one file, and will not be given again.
NamedInv ==
  /\ \A o, p \in named : o.v_index = p.v_index => o = p
  /\ \A o \in named : o.v_index \in Nat /\ o.v_index < g_database.m_scanidx_gpos
  /\ Entries(g_database) \subseteq named

\* The second database numbers from where the first one ends; below that an index is
\* the one the same file has in the first.
FirstNumbers(db) ==
  /\ db.m_database # <<>> => StartPos <= db.m_scanidx_gpos
  /\ \A p \in DOMAIN db.m_database : db.m_database[p].v_index < db.m_scanidx_gpos
OneFileEach(db) ==
  \A p, q \in DOMAIN db.m_database :
    db.m_database[p].v_index = db.m_database[q].v_index => Entry(db, p) = Entry(db, q)
OldNumbers(db) ==
  UseOldIdx => \A p \in DOMAIN db.m_database :
    db.m_database[p].v_index < g_database.m_scanidx_gpos =>
      Entry(db, p) \in Entries(g_database)

\* What did not change keeps its index.
Unchanged(e) ==
  /\ ListedOnce(e.dir)
  /\ \E o \in Entries(g_database) : [o EXCEPT !.v_index = e.v_index] = e
KeepsNumbers(db) ==
  UseOldIdx => \A p \in DOMAIN db.m_database :
    Unchanged(Entry(db, p)) => Entry(db, p) \in Entries(g_database)
NewInv ==
  scanningFiles =>
    /\ Scanned(g_newdatabase)
    /\ FirstNumbers(g_newdatabase) /\ OneFileEach(g_newdatabase)
    /\ OldNumbers(g_newdatabase) /\ KeepsNumbers(g_newdatabase)
    /\ m_scan_stack = NoStack => g_newdatabase.m_scanidx_gpos = ScanPos

\* Where DoScan looks in the old database: at the first entry of the directory, or the
\* old database does not have it.
FoundFor(os, d) ==
  \/ /\ os.m_oldscan_dirstate = 2
     /\ os.m_oldscan_lastdirpos \in DOMAIN g_database.m_database
     /\ OldDirOf(os.m_oldscan_lastdirpos) = d
  \/ /\ os.m_oldscan_dirstate = 1
     /\ \A v \in DOMAIN g_database.m_database : OldDirOf(v) # d
RunStart(v) ==
  \/ v = 1
  \/ /\ v \in DOMAIN g_database.m_database /\ v - 1 \in DOMAIN g_database.m_database
     /\ g_database.m_database[v - 1].dir_index # g_database.m_database[v].dir_index
OldInv == scanningFiles => RunStart(m_oldscan.m_oldscan_lastdirpos)

\* Only the directory on top has been opened.  What it has yet to read it has not entered.
TopFits(item) ==
  /\ ~item.opened => item.dir_index = 0
  /\ item.dir_index # 0 =>
       /\ item.dir_index = Len(g_newdatabase.m_dir_index)
       /\ g_newdatabase.m_dir_index[item.dir_index] = item.cur_path
       /\ \A p \in DOMAIN g_newdatabase.m_database :
            g_newdatabase.m_database[p].dir_index = item.dir_index =>
              g_newdatabase.m_database[p].file \notin item.left
       /\ FoundFor(m_oldscan, item.cur_path)
Waiting(item) == ~item.opened /\ item.dir_index = 0
StackFits(stack) ==
  /\ stack \in Seq(Item)
  /\ \A i \in 1..(Len(stack) - 1) : Waiting(stack[i])
  /\ stack # <<>> => TopFits(stack[Len(stack)])
StackInv == m_scan_stack # NoStack => StackFits(m_scan_stack)

DatabaseInv ==
  TypeOK /\ Scanned(g_database) /\ NamedInv /\ NewInv /\ StackInv /\ OldInv
-----------------------------------------------------------------------------
(* Numbers and sequences                                                   *)

LEMMA LeastOf ==
  ASSUME NEW S \in SUBSET Nat, S # {}
  PROVE  \E x \in S : \A y \in S : x <= y
<1> DEFINE R == OpToRel(<, Nat)
<1>1. \A x, y \in Nat : x < y => <<x, y>> \in R
  BY DEF OpToRel
<1>2. IsWellFoundedOn(R, Nat)
  BY NatLessThanWellFounded, Zenon
<1> HIDE DEF R
<1>3. PICK x \in S : \A y \in S : ~(<<y, x>> \in R)
  BY <1>2, WFMin
<1>4. \A y \in S : x <= y
  <2> SUFFICES ASSUME NEW y \in S, ~(x <= y) PROVE FALSE
    OBVIOUS
  <2>1. x \in Nat /\ y \in Nat /\ y < x
    OBVIOUS
  <2> QED BY <1>1, <1>3, <2>1
<1> QED BY <1>4

LEMMA MinIs ==
  ASSUME NEW S \in SUBSET Nat, S # {}
  PROVE  Min(S) \in S /\ \A y \in S : Min(S) <= y
BY LeastOf DEF Min

LEMMA RoundOnce ==
  ASSUME NEW n \in Nat \ {0}, NEW x \in Nat, x < 2 * n
  PROVE  x % n = IF x < n THEN x ELSE x - n
OBVIOUS

HasInserted(t, s, i, e) ==
  /\ Len(t) = Len(s) + 1
  /\ \A j \in 1..(Len(s) + 1) :
       t[j] = IF j < i THEN s[j] ELSE IF j = i THEN e ELSE s[j - 1]

LEMMA InsertProps ==
  ASSUME NEW S, NEW s \in Seq(S), NEW i \in 1..Len(s), NEW e \in S
  PROVE  InsertAt(s, i, e) \in Seq(S) /\ HasInserted(InsertAt(s, i, e), s, i, e)
<1> DEFINE u == SubSeq(s, 1, i - 1)
           v == SubSeq(s, i, Len(s))
           n == Len(s)
<1>1. n \in Nat /\ i \in Int /\ i - 1 \in Int /\ \A j \in 1..n : s[j] \in S
  BY LenProperties
<1>2. /\ u \in Seq(S)
      /\ Len(u) = IF 1 <= i - 1 THEN (i - 1) - 1 + 1 ELSE 0
      /\ \A j \in 1..((i - 1) - 1 + 1) : u[j] = s[1 + j - 1]
  <2>1. \A j \in 1..(i - 1) : s[j] \in S
    BY <1>1
  <2> QED BY <1>1, <2>1, SubSeqProperties
<1>3. /\ v \in Seq(S)
      /\ Len(v) = IF i <= n THEN n - i + 1 ELSE 0
      /\ \A j \in 1..(n - i + 1) : v[j] = s[i + j - 1]
  <2>1. \A j \in i..n : s[j] \in S
    BY <1>1
  <2> QED BY <1>1, <2>1, SubSeqProperties
<1>4. Len(u) = i - 1 /\ Len(v) = n - i + 1
  BY <1>1, <1>2, <1>3
<1>5. <<e>> \in Seq(S) /\ Len(<<e>>) = 1 /\ <<e>>[1] = e
  OBVIOUS
<1> HIDE DEF u, v
<1>6. /\ u \o <<e>> \in Seq(S) /\ Len(u \o <<e>>) = i
      /\ \A j \in 1..i : (u \o <<e>>)[j] = IF j <= i - 1 THEN u[j] ELSE e
  <2>1. /\ u \o <<e>> \in Seq(S) /\ Len(u \o <<e>>) = Len(u) + Len(<<e>>)
        /\ \A j \in 1..(Len(u) + Len(<<e>>)) :
             (u \o <<e>>)[j] = IF j <= Len(u) THEN u[j] ELSE <<e>>[j - Len(u)]
    BY <1>2, <1>5, ConcatProperties
  <2>2. \A j \in 1..i : ~(j <= i - 1) => j - (i - 1) = 1
    BY <1>1
  <2> QED BY <1>1, <1>4, <1>5, <2>1, <2>2
<1> DEFINE w == u \o <<e>>
<1> HIDE DEF w
<1>7. /\ w \in Seq(S) /\ Len(w) = i
      /\ \A j \in 1..i : w[j] = IF j <= i - 1 THEN u[j] ELSE e
  BY <1>6 DEF w
<1>8. /\ w \o v \in Seq(S) /\ Len(w \o v) = n + 1
      /\ \A j \in 1..(n + 1) : (w \o v)[j] = IF j <= i THEN w[j] ELSE v[j - i]
  <2>1. /\ w \o v \in Seq(S) /\ Len(w \o v) = Len(w) + Len(v)
        /\ \A j \in 1..(Len(w) + Len(v)) :
             (w \o v)[j] = IF j <= Len(w) THEN w[j] ELSE v[j - Len(w)]
    BY <1>3, <1>7, ConcatProperties
  <2> QED BY <1>1, <1>4, <1>7, <2>1
<1>9. InsertAt(s, i, e) = w \o v
  BY DEF InsertAt, u, v, w
<1>10. \A j \in 1..(n + 1) :
         (w \o v)[j] = IF j < i THEN s[j] ELSE IF j = i THEN e ELSE s[j - 1]
  <2> SUFFICES ASSUME NEW j \in 1..(n + 1)
               PROVE  (w \o v)[j] = IF j < i THEN s[j] ELSE IF j = i THEN e ELSE s[j - 1]
    OBVIOUS
  <2>1. CASE j < i
    BY <1>1, <1>2, <1>7, <1>8, <2>1
  <2>2. CASE j = i
    BY <1>1, <1>7, <1>8, <2>2
  <2>3. CASE j > i
    <3>1. j - i \in 1..(n - i + 1) /\ i + (j - i) - 1 = j - 1 /\ ~(j <= i)
      BY <1>1, <2>3
    <3>2. v[j - i] = s[j - 1]
      BY <1>3, <3>1
    <3>3. (w \o v)[j] = v[j - i]
      BY <1>8, <3>1
    <3>4. ~(j < i) /\ j # i
      BY <1>1, <2>3
    <3> HIDE DEF n
    <3> QED BY <3>2, <3>3, <3>4
  <2>4. j < i \/ j = i \/ j > i
    BY <1>1
  <2> QED BY <2>1, <2>2, <2>3, <2>4
<1> QED BY <1>8, <1>9, <1>10 DEF HasInserted

LEMMA FrontProps ==
  ASSUME NEW S, NEW s \in Seq(S), s # <<>>
  PROVE  /\ Front(s) \in Seq(S) /\ Len(Front(s)) = Len(s) - 1 /\ Len(s) \in Nat \ {0}
         /\ \A i \in 1..(Len(s) - 1) : Front(s)[i] = s[i]
<1> DEFINE n == Len(s)
<1>1. n \in Nat \ {0} /\ \A i \in 1..n : s[i] \in S
  BY LenProperties, EmptySeq
<1>2. \A i \in 1..(n - 1) : s[i] \in S
  BY <1>1
<1>3. /\ Front(s) \in Seq(S)
      /\ Len(Front(s)) = IF 1 <= n - 1 THEN (n - 1) - 1 + 1 ELSE 0
      /\ \A i \in 1..((n - 1) - 1 + 1) : Front(s)[i] = s[1 + i - 1]
  BY <1>1, <1>2, SubSeqProperties DEF Front
<1>4. Len(Front(s)) = n - 1
  <2>1. \A k \in Nat \ {0} : (IF 1 <= k - 1 THEN (k - 1) - 1 + 1 ELSE 0) = k - 1
    OBVIOUS
  <2> HIDE DEF n
  <2> QED BY <1>1, <1>3, <2>1
<1>5. \A i \in 1..(n - 1) : i \in 1..((n - 1) - 1 + 1) /\ 1 + i - 1 = i
  BY <1>1
<1>6. \A i \in 1..(n - 1) : Front(s)[i] = s[i]
  BY <1>3, <1>5
<1> QED BY <1>1, <1>3, <1>4, <1>6

LEMMA RemoveProps ==
  ASSUME NEW S, NEW s \in Seq(S), NEW i \in DOMAIN s
  PROVE  RemoveAt(s, i) \in Seq(S)
<1>1. Len(s) \in Nat /\ i \in 1..Len(s) /\ \A j \in 1..Len(s) : s[j] \in S
  BY LenProperties
<1>2. SubSeq(s, 1, i - 1) \in Seq(S)
  <2>1. i - 1 \in Int /\ \A j \in 1..(i - 1) : s[j] \in S
    BY <1>1
  <2> QED BY <2>1, SubSeqProperties
<1>3. SubSeq(s, i + 1, Len(s)) \in Seq(S)
  <2>1. i + 1 \in Int /\ Len(s) \in Int /\ \A j \in (i + 1)..Len(s) : s[j] \in S
    BY <1>1
  <2> QED BY <2>1, SubSeqProperties
<1> QED BY <1>2, <1>3, ConcatProperties DEF RemoveAt
-----------------------------------------------------------------------------
(* A database                                                              *)

EntryRec == [v_index : Nat, dir : Dir, file : Name, ver : Version]

LEMMA DBParts ==
  ASSUME NEW db, WellFormed(db)
  PROVE  /\ db.m_database \in Seq(FileRec) /\ Len(db.m_database) \in Nat
         /\ DOMAIN db.m_database = 1..Len(db.m_database)
         /\ db.m_dir_index \in Seq(Dir) /\ Len(db.m_dir_index) \in Nat
         /\ DOMAIN db.m_dir_index = 1..Len(db.m_dir_index)
         /\ db.m_scanidx_gpos \in Nat
         /\ \A p \in DOMAIN db.m_database :
              /\ db.m_database[p] \in FileRec
              /\ db.m_database[p].dir_index \in DOMAIN db.m_dir_index
              /\ db.m_dir_index[db.m_database[p].dir_index] \in Dir
              /\ Entry(db, p) \in EntryRec
<1>1. /\ db.m_database \in Seq(FileRec) /\ db.m_dir_index \in Seq(Dir)
      /\ db.m_scanidx_gpos \in Nat
  BY DEF WellFormed, DB, FileRec
<1>2. /\ Len(db.m_database) \in Nat /\ DOMAIN db.m_database = 1..Len(db.m_database)
      /\ \A p \in DOMAIN db.m_database : db.m_database[p] \in FileRec
  BY <1>1, LenProperties
<1>3. /\ Len(db.m_dir_index) \in Nat /\ DOMAIN db.m_dir_index = 1..Len(db.m_dir_index)
      /\ \A i \in DOMAIN db.m_dir_index : db.m_dir_index[i] \in Dir
  BY <1>1, LenProperties
<1>4. \A p \in DOMAIN db.m_database : db.m_database[p].dir_index \in DOMAIN db.m_dir_index
  BY DEF WellFormed, Range
<1>5. \A p \in DOMAIN db.m_database : db.m_dir_index[db.m_database[p].dir_index] \in Dir
  BY <1>3, <1>4
<1>6. \A p \in DOMAIN db.m_database : Entry(db, p) \in EntryRec
  BY <1>2, <1>5 DEF Entry, EntryRec, FileRec
<1> QED BY <1>1, <1>2, <1>3, <1>4, <1>5, <1>6

LEMMA EmptyIsScanned ==
  Scanned(EmptyDB) /\ EmptyDB \in DB /\ EmptyDB # NoDB /\ DOMAIN EmptyDB.m_database = {}
<1>1. /\ EmptyDB.m_database = <<>> /\ EmptyDB.m_dir_index = <<>>
      /\ EmptyDB.m_scanidx_gpos = 0 /\ DOMAIN EmptyDB.m_database = {}
  BY DEF EmptyDB
<1>2. EmptyDB \in DB
  BY DEF EmptyDB, DB
<1>3. WellFormed(EmptyDB)
  BY <1>1, <1>2 DEF WellFormed, Range
<1> QED BY <1>1, <1>2, <1>3, SentinelAssumption DEF Scanned, Ordered, NamedOnce

\* The walk around the old database comes to every place of it.
LEMMA Around ==
  ASSUME NEW last \in 1..OldUsed, OldUsed \in Nat
  PROVE  /\ From(last, 0) = last
         /\ \A k \in 0..(OldUsed - 1) : From(last, k) \in 1..OldUsed
         /\ \A k \in 1..(OldUsed - 1) : From(last, k) = 1 \/ From(last, k) - 1 = From(last, k - 1)
         /\ \A v \in 1..OldUsed : \E k \in 0..(OldUsed - 1) : From(last, k) = v
<1> DEFINE n == OldUsed
<1>1. n \in Nat \ {0} /\ last \in Int
  OBVIOUS
<1>2. \A k \in 0..(n - 1) :
        From(last, k) = IF last - 1 + k < n THEN last + k ELSE last + k - n
  <2> SUFFICES ASSUME NEW k \in 0..(n - 1)
               PROVE  From(last, k) = IF last - 1 + k < n THEN last + k ELSE last + k - n
    OBVIOUS
  <2> DEFINE x == last - 1 + k
  <2>1. x \in Nat /\ x < 2 * n
    BY <1>1
  <2>2. From(last, k) = (x % n) + 1
    BY DEF From
  <2> HIDE DEF x, n
  <2>3. x % n = IF x < n THEN x ELSE x - n
    BY <1>1, <2>1, RoundOnce
  <2>4. From(last, k) = IF x < n THEN x + 1 ELSE x - n + 1
    BY <2>2, <2>3
  <2> QED BY <1>1, <2>4 DEF x, n
<1>3. From(last, 0) = last
  <2>1. 0 \in 0..(n - 1) /\ last - 1 + 0 < n /\ last + 0 = last
    BY <1>1
  <2> HIDE DEF n
  <2> QED BY <1>2, <2>1
<1> HIDE DEF n
<1>a. last \in 1..n
  BY DEF n
<1>4. \A k \in 0..(n - 1) : From(last, k) \in 1..n
  BY <1>1, <1>2, <1>a
<1>5. \A k \in 1..(n - 1) : From(last, k) = 1 \/ From(last, k) - 1 = From(last, k - 1)
  BY <1>1, <1>2, <1>a
<1>6. \A v \in 1..n : \E k \in 0..(n - 1) : From(last, k) = v
  <2> SUFFICES ASSUME NEW v \in 1..n PROVE \E k \in 0..(n - 1) : From(last, k) = v
    OBVIOUS
  <2>1. CASE v >= last
    <3>1. v - last \in 0..(n - 1)
      BY <1>1, <1>a, <2>1
    <3>2. From(last, v - last) = v
      BY <1>1, <1>2, <1>a, <3>1
    <3> QED BY <3>1, <3>2
  <2>2. CASE v < last
    <3>1. v - last + n \in 0..(n - 1)
      BY <1>1, <1>a, <2>2
    <3>2. From(last, v - last + n) = v
      BY <1>1, <1>2, <1>a, <3>1
    <3> QED BY <3>1, <3>2
  <2> QED BY <1>1, <1>a, <2>1, <2>2
<1> QED BY <1>3, <1>4, <1>5, <1>6 DEF n

\* A directory is looked for and found where its entries begin, wherever the last one was.
LEMMA SearchFinds ==
  ASSUME WellFormed(g_database), m_oldscan \in OldScan,
         RunStart(m_oldscan.m_oldscan_lastdirpos), NEW d
  PROVE  /\ SearchDirectory(d) \in OldScan
         /\ FoundFor(SearchDirectory(d), d)
         /\ RunStart(SearchDirectory(d).m_oldscan_lastdirpos)
<1> DEFINE last == m_oldscan.m_oldscan_lastdirpos
           n == OldUsed
           hits == {k \in 0..(n - 1) : OldDirOf(From(last, k)) = d}
<1>1. n \in Nat /\ DOMAIN g_database.m_database = 1..n
  BY DBParts DEF OldUsed
<1>2. last \in Nat \ {0} /\ m_oldscan.m_oldscan_dirstate \in 0..2
  BY DEF OldScan
<1>3. n # 0 => last \in 1..n
  BY <1>1, <1>2 DEF RunStart
<1>4. CASE hits = {}
  <2>1. SearchDirectory(d) = [m_oldscan EXCEPT !.m_oldscan_dirstate = 1]
    BY <1>4 DEF SearchDirectory
  <2>2. /\ SearchDirectory(d) \in OldScan /\ SearchDirectory(d).m_oldscan_lastdirpos = last
        /\ SearchDirectory(d).m_oldscan_dirstate = 1
    BY <2>1 DEF OldScan
  <2>3. \A v \in 1..n : OldDirOf(v) # d
    <3> SUFFICES ASSUME NEW v \in 1..n, OldDirOf(v) = d PROVE FALSE
      OBVIOUS
    <3>1. n # 0
      BY <1>1
    <3>2. \E k \in 0..(n - 1) : From(last, k) = v
      BY <1>1, <1>3, <3>1, Around
    <3> QED BY <1>4, <3>2
  <2> QED BY <1>1, <2>2, <2>3 DEF FoundFor
<1>5. CASE hits # {}
  <2> DEFINE k == Min(hits)
             v == From(last, k)
  <2>1. k \in hits /\ \A j \in hits : k <= j
    <3>1. hits \in SUBSET Nat
      BY <1>1
    <3> HIDE DEF hits
    <3> QED BY <1>5, <3>1, MinIs
  <2>2. SearchDirectory(d) = [m_oldscan_lastdirpos |-> v, m_oldscan_dirstate |-> 2]
    BY <1>5 DEF SearchDirectory
  <2>3. n # 0 /\ k \in 0..(n - 1) /\ OldDirOf(v) = d
    BY <1>1, <2>1
  <2>4. last \in 1..n
    BY <1>3, <2>3
  <2>5. v \in 1..n
    BY <1>1, <2>3, <2>4, Around
  <2>6. /\ SearchDirectory(d) \in OldScan /\ SearchDirectory(d).m_oldscan_lastdirpos = v
        /\ SearchDirectory(d).m_oldscan_dirstate = 2
    BY <1>1, <2>2, <2>5 DEF OldScan
  <2>7. FoundFor(SearchDirectory(d), d)
    BY <1>1, <2>3, <2>5, <2>6 DEF FoundFor
  <2>8. RunStart(v)
    <3>1. CASE k = 0
      BY <1>1, <2>4, <3>1, Around
    <3>2. CASE k # 0 /\ v = 1
      BY <3>2 DEF RunStart
    <3>3. CASE k # 0 /\ v # 1
      <4>1. k \in 1..(n - 1) /\ k - 1 \in 0..(n - 1) /\ ~(k <= k - 1)
        BY <1>1, <2>3, <3>3
      <4>a. OldDirOf(From(last, k - 1)) # d
        BY <2>1, <4>1
      <4> HIDE DEF k, hits
      <4>2. v - 1 = From(last, k - 1)
        BY <1>1, <2>4, <3>3, <4>1, Around
      <4>3. OldDirOf(v - 1) # d
        BY <4>a, <4>2
      <4> HIDE DEF v
      <4>4. g_database.m_database[v - 1].dir_index # g_database.m_database[v].dir_index
        BY <2>3, <4>3 DEF OldDirOf
      <4>5. v - 1 \in 1..n
        BY <1>1, <2>5, <3>3
      <4> QED BY <1>1, <2>5, <4>4, <4>5 DEF RunStart
    <3> QED BY <3>1, <3>2, <3>3
  <2> QED BY <2>6, <2>7, <2>8
<1> QED BY <1>4, <1>5
LEMMA NamesakesAre ==
  ASSUME WellFormed(g_database), NEW os \in OldScan, NEW n, NEW d, FoundFor(os, d),
         NEW a \in OldNamesakes(os, n)
  PROVE  /\ a \in DOMAIN g_database.m_database /\ a \in Nat
         /\ os.m_oldscan_dirstate = 2
         /\ OldDirOf(a) = d /\ g_database.m_database[a].file = n
<1> DEFINE last == os.m_oldscan_lastdirpos
<1>1. os.m_oldscan_dirstate = 2 /\ a \in OldRun(last) /\ g_database.m_database[a].file = n
  <2>1. os.m_oldscan_dirstate = 2
    BY DEF OldNamesakes
  <2> QED BY <2>1 DEF OldNamesakes
<1>2. last \in DOMAIN g_database.m_database /\ OldDirOf(last) = d
  BY <1>1 DEF FoundFor
<1>3. /\ DOMAIN g_database.m_database = 1..OldUsed /\ OldUsed \in Nat
  BY DBParts DEF OldUsed
<1> HIDE DEF last
<1>4. a \in last..OldUsed /\ g_database.m_database[a].dir_index = g_database.m_database[last].dir_index
  <2>1. a \in last..OldUsed /\ \A b \in last..a :
          g_database.m_database[b].dir_index = g_database.m_database[last].dir_index
    BY <1>1 DEF OldRun
  <2>2. last \in Int
    BY <1>2, <1>3
  <2>3. a \in last..a
    BY <2>1, <2>2
  <2> QED BY <2>1, <2>3
<1>5. a \in 1..OldUsed
  BY <1>2, <1>3, <1>4
<1>6. OldDirOf(a) = d
  BY <1>2, <1>4 DEF OldDirOf
<1> QED BY <1>1, <1>3, <1>5, <1>6

\* What the old database is used for it has.
LEMMA OldEntryIsRight ==
  ASSUME WellFormed(g_database), NEW os \in OldScan, NEW n, NEW ver, NEW d, FoundFor(os, d),
         KeepsIndex(os, n, ver)
  PROVE  LET m == Min(OldNamesakes(os, n)) IN
         /\ m \in DOMAIN g_database.m_database
         /\ Entry(g_database, m) = [v_index |-> g_database.m_database[m].v_index,
                                    dir |-> d, file |-> n, ver |-> ver]
<1> DEFINE S == OldNamesakes(os, n)
           m == Min(S)
<1>1. S # {} /\ g_database.m_database[m].ver = ver
  BY DEF KeepsIndex
<1>2. S \in SUBSET Nat
  BY NamesakesAre
<1>3. m \in S
  <2> HIDE DEF S
  <2> QED BY <1>1, <1>2, MinIs
<1> HIDE DEF m
<1>4. m \in DOMAIN g_database.m_database /\ OldDirOf(m) = d /\ g_database.m_database[m].file = n
  BY <1>3, NamesakesAre
<1>5. Entry(g_database, m) = [v_index |-> g_database.m_database[m].v_index,
                              dir |-> d, file |-> n, ver |-> ver]
  BY <1>1, <1>4 DEF Entry, OldDirOf
<1> QED BY <1>4, <1>5 DEF m, S

\* And what it has of a directory that is listed once is found.
LEMMA OldEntryIsFound ==
  ASSUME Scanned(g_database), NEW os \in OldScan, NEW d, FoundFor(os, d),
         RunStart(os.m_oldscan_lastdirpos), UseOldIdx, ListedOnce(d),
         NEW a \in DOMAIN g_database.m_database, OldDirOf(a) = d
  PROVE  KeepsIndex(os, g_database.m_database[a].file, g_database.m_database[a].ver)
<1> DEFINE m == g_database.m_database
           last == os.m_oldscan_lastdirpos
           n == m[a].file
<1>0. WellFormed(g_database)
  BY DEF Scanned
<1>1. /\ DOMAIN m = 1..OldUsed /\ OldUsed \in Nat
      /\ \A p \in 1..OldUsed : m[p].dir_index \in DOMAIN g_database.m_dir_index
      /\ \A p \in 1..OldUsed : m[p].dir_index \in Nat
  BY <1>0, DBParts DEF OldUsed, FileRec
<1>2. os.m_oldscan_dirstate = 2 /\ last \in 1..OldUsed /\ OldDirOf(last) = d
  BY <1>1 DEF FoundFor
<1>3. m[a].dir_index = m[last].dir_index
  <2> DEFINE I == {i \in DOMAIN g_database.m_dir_index : g_database.m_dir_index[i] = d}
  <2>1. IsFiniteSet(I) /\ Cardinality(I) = 1
    <3>1. IsFiniteSet(DOMAIN g_database.m_dir_index)
      <4>1. DOMAIN g_database.m_dir_index = 1..Len(g_database.m_dir_index)
            /\ Len(g_database.m_dir_index) \in Nat
        BY <1>0, DBParts
      <4> QED BY <4>1, FS_Interval
    <3>2. I \in SUBSET DOMAIN g_database.m_dir_index
      OBVIOUS
    <3> QED BY <3>1, <3>2, FS_Subset DEF ListedOnce
  <2>2. m[a].dir_index \in I /\ m[last].dir_index \in I
    BY <1>1, <1>2 DEF OldDirOf
  <2> HIDE DEF I
  <2>3. PICK i : I = {i}
    BY <2>1, FS_Singleton
  <2> QED BY <2>2, <2>3
<1>4. \A p, q \in 1..OldUsed : p < q => m[p].dir_index <= m[q].dir_index
  BY <1>1 DEF Scanned, Ordered
<1>5. \A p, q \in 1..OldUsed :
        m[p].dir_index = m[q].dir_index /\ m[p].file = m[q].file => p = q
  BY <1>1 DEF Scanned, NamedOnce
<1>6. last = 1 \/ (last - 1 \in 1..OldUsed /\ m[last - 1].dir_index # m[last].dir_index)
  BY <1>1 DEF RunStart
<1> HIDE DEF m, last
<1>7. a \in last..OldUsed
  <2>1. CASE a < last
    <3>1. last # 1 /\ (a = last - 1 \/ a < last - 1)
      BY <1>1, <1>2, <2>1 DEF m
    <3>2. last - 1 \in 1..OldUsed /\ m[last - 1].dir_index # m[last].dir_index
      BY <1>6, <3>1
    <3>3. a \in 1..OldUsed /\ last - 1 < last
      BY <1>1, <1>2 DEF m
    <3>4. m[a].dir_index <= m[last - 1].dir_index /\ m[last - 1].dir_index <= m[last].dir_index
      <4>1. CASE a = last - 1
        BY <1>1, <1>2, <1>4, <3>2, <3>3, <4>1
      <4>2. CASE a < last - 1
        BY <1>1, <1>2, <1>4, <3>2, <3>3, <4>2
      <4> QED BY <3>1, <4>1, <4>2
    <3>5. /\ m[a].dir_index \in Nat /\ m[last - 1].dir_index \in Nat /\ m[last].dir_index \in Nat
      BY <1>1, <1>2, <3>2, <3>3
    <3> QED BY <1>3, <3>2, <3>4, <3>5
  <2> QED BY <1>1, <1>2, <2>1 DEF m
<1>8. a \in OldRun(last)
  <2>1. \A b \in last..a : m[b].dir_index = m[last].dir_index
    <3> SUFFICES ASSUME NEW b \in last..a PROVE m[b].dir_index = m[last].dir_index
      OBVIOUS
    <3>1. b \in 1..OldUsed /\ a \in 1..OldUsed /\ (last = b \/ last < b) /\ (b = a \/ b < a)
      BY <1>1, <1>2, <1>7
    <3>2. /\ m[last].dir_index <= m[b].dir_index /\ m[b].dir_index <= m[a].dir_index
      <4>0. m[last].dir_index \in Nat /\ m[b].dir_index \in Nat /\ m[a].dir_index \in Nat
        BY <1>1, <1>2, <3>1
      <4>1. m[last].dir_index <= m[b].dir_index
        BY <1>2, <1>4, <3>1, <4>0
      <4>2. m[b].dir_index <= m[a].dir_index
        BY <1>4, <3>1, <4>0
      <4> QED BY <4>1, <4>2
    <3>3. m[last].dir_index \in Nat /\ m[b].dir_index \in Nat
      BY <1>1, <1>2, <3>1
    <3> QED BY <1>3, <3>2, <3>3
  <2> QED BY <1>7, <2>1 DEF OldRun, m
<1> DEFINE S == OldNamesakes(os, n)
<1>9. a \in S
  BY <1>2, <1>8 DEF OldNamesakes, m, last
<1>10. \A b \in S : b = a
  <2> SUFFICES ASSUME NEW b \in S PROVE b = a
    OBVIOUS
  <2>1. b \in OldRun(last) /\ m[b].file = n
    BY <1>2 DEF OldNamesakes, m, last
  <2>2. b \in last..OldUsed /\ m[b].dir_index = m[last].dir_index
    <3>1. b \in last..OldUsed /\ \A c \in last..b : m[c].dir_index = m[last].dir_index
      BY <2>1 DEF OldRun, m
    <3>2. b \in last..b
      BY <1>2, <3>1
    <3> QED BY <3>1, <3>2
  <2>3. b \in 1..OldUsed /\ a \in 1..OldUsed
    BY <1>1, <1>2, <1>7, <2>2
  <2> QED BY <1>3, <1>5, <2>1, <2>2, <2>3
<1>11. S \in SUBSET Nat /\ S # {}
  BY <1>7, <1>9, <1>10, <1>2
<1>12. Min(S) = a
  <2> HIDE DEF S
  <2> QED BY <1>10, <1>11, MinIs
<1> QED BY <1>9, <1>12 DEF KeepsIndex, m

LEMMA IsDatabase ==
  ASSUME NEW m \in Seq(FileRec), NEW i \in Seq(Dir), NEW g \in Nat
  PROVE  [m_database |-> m, m_dir_index |-> i, m_scanidx_gpos |-> g] \in DB
BY DEF DB, FileRec

\* A file is entered at the end, in the last directory, where its name is new.
Dirs(db, d) == {dirs \in {db.m_dir_index, Append(db.m_dir_index, d)} : dirs # <<>>}
Added(db, dirs, n, ver, v, gpos) ==
  [m_database |-> Append(db.m_database,
     [dir_index |-> Len(dirs), file |-> n, ver |-> ver, v_index |-> v]),
   m_dir_index |-> dirs, m_scanidx_gpos |-> gpos]
NewName(db, dirs, n) ==
  \A p \in DOMAIN db.m_database :
    db.m_database[p].dir_index = Len(dirs) => db.m_database[p].file # n
Extends(new, db, dirs, n, ver, v) ==
  /\ Scanned(new)
  /\ DOMAIN new.m_database = DOMAIN db.m_database \cup {Len(db.m_database) + 1}
  /\ \A p \in DOMAIN db.m_database : /\ new.m_database[p] = db.m_database[p]
                                     /\ Entry(new, p) = Entry(db, p)
  /\ new.m_database[Len(db.m_database) + 1] =
       [dir_index |-> Len(dirs), file |-> n, ver |-> ver, v_index |-> v]
  /\ Entry(new, Len(db.m_database) + 1) =
       [v_index |-> v, dir |-> dirs[Len(dirs)], file |-> n, ver |-> ver]

LEMMA EntryAdded ==
  ASSUME NEW db, Scanned(db), NEW d \in Dir, NEW dirs \in Dirs(db, d),
         NEW n \in Name, NEW ver \in Version, NEW v \in Nat, NEW gpos \in Nat,
         NewName(db, dirs, n)
  PROVE  Extends(Added(db, dirs, n, ver, v, gpos), db, dirs, n, ver, v)
<1> DEFINE m == db.m_database
           di == Len(dirs)
           rec == [dir_index |-> di, file |-> n, ver |-> ver, v_index |-> v]
           k == Len(m)
           l == Len(db.m_dir_index)
<1>n. PICK new : new = Added(db, dirs, n, ver, v, gpos)
  OBVIOUS
<1>1. /\ m \in Seq(FileRec) /\ k \in Nat /\ DOMAIN m = 1..k
      /\ db.m_dir_index \in Seq(Dir) /\ l \in Nat /\ DOMAIN db.m_dir_index = 1..l
      /\ \A p \in DOMAIN m : m[p] \in FileRec /\ m[p].dir_index \in 1..l
  BY DBParts DEF Scanned
<1>2. /\ dirs \in Seq(Dir) /\ di \in Nat \ {0} /\ DOMAIN dirs = 1..di /\ l <= di
      /\ \A i \in 1..l : dirs[i] = db.m_dir_index[i]
  <2>1. CASE dirs = db.m_dir_index /\ dirs # <<>>
    <3>1. di = l /\ dirs \in Seq(Dir)
      BY <1>1, <2>1
    <3>2. di \in Nat \ {0}
      BY <2>1, <3>1, EmptySeq
    <3>3. DOMAIN dirs = 1..di
      BY <1>1, <2>1
    <3> HIDE DEF di, l
    <3> QED BY <1>1, <2>1, <3>1, <3>2, <3>3
  <2>2. CASE dirs = Append(db.m_dir_index, d)
    <3>1. /\ dirs \in Seq(Dir) /\ di = l + 1
          /\ \A i \in 1..l : dirs[i] = db.m_dir_index[i]
      BY <1>1, <2>2, AppendProperties
    <3>2. DOMAIN dirs = 1..di
      BY <3>1, LenProperties
    <3> HIDE DEF di, l
    <3> QED BY <1>1, <3>1, <3>2
  <2> QED BY <2>1, <2>2 DEF Dirs
<1>3. /\ new.m_database = Append(m, rec) /\ new.m_dir_index = dirs
      /\ new.m_scanidx_gpos = gpos
  BY <1>n DEF Added
<1>4. rec \in FileRec
  <2> HIDE DEF di
  <2>1. di \in Nat \ {0}
    BY <1>2
  <2> QED BY <2>1 DEF FileRec
<1>5. /\ rec.dir_index = di /\ rec.file = n /\ rec.ver = ver /\ rec.v_index = v
  OBVIOUS
<1> HIDE DEF rec
<1>6. /\ new.m_database \in Seq(FileRec) /\ Len(new.m_database) = k + 1
      /\ \A p \in 1..k : new.m_database[p] = m[p]
      /\ new.m_database[k + 1] = rec
  BY <1>1, <1>3, <1>4, AppendProperties
<1>7. DOMAIN new.m_database = 1..(k + 1)
  BY <1>6, LenProperties
<1>8. 1..(k + 1) = 1..k \cup {k + 1}
  BY <1>1
<1>9. new \in DB
  <2>1. new = [m_database |-> Append(m, rec), m_dir_index |-> dirs, m_scanidx_gpos |-> gpos]
    BY <1>n DEF rec, Added
  <2>2. Append(m, rec) \in Seq(FileRec)
    BY <1>3, <1>6
  <2>3. dirs \in Seq(Dir)
    BY <1>2, Zenon
  <2> DEFINE ap == Append(m, rec)
  <2>4. new = [m_database |-> ap, m_dir_index |-> dirs, m_scanidx_gpos |-> gpos]
        /\ ap \in Seq(FileRec)
    BY <2>1, <2>2
  <2> HIDE DEF ap
  <2>5. [m_database |-> ap, m_dir_index |-> dirs, m_scanidx_gpos |-> gpos] \in DB
    BY <2>3, <2>4, IsDatabase
  <2> QED BY <2>4, <2>5, Zenon
<1>a. \A p \in DOMAIN m : db.m_database[p].dir_index = di => db.m_database[p].file # n
  BY DEF NewName
<1> HIDE DEF k, l, di
<1>10. WellFormed(new)
  <2>1. \A p \in 1..(k + 1) : new.m_database[p].dir_index \in 1..di
    <3> SUFFICES ASSUME NEW p \in 1..(k + 1) PROVE new.m_database[p].dir_index \in 1..di
      OBVIOUS
    <3>1. CASE p \in 1..k
      <4>1. m[p].dir_index \in 1..l
        BY <1>1, <3>1
      <4>2. m[p].dir_index \in 1..di
        <5> HIDE DEF m
        <5> QED BY <1>1, <1>2, <4>1
      <4> QED BY <1>6, <3>1, <4>2
    <3>2. CASE p = k + 1
      <4>1. di \in 1..di
        BY <1>2
      <4> QED BY <1>5, <1>6, <3>2, <4>1
    <3> QED BY <1>8, <3>1, <3>2
  <2> QED BY <1>2, <1>3, <1>7, <1>9, <2>1 DEF WellFormed, Range
<1>11. Ordered(new)
  <2> SUFFICES ASSUME NEW p \in 1..(k + 1), NEW q \in 1..(k + 1), p < q
               PROVE  new.m_database[p].dir_index <= new.m_database[q].dir_index
    BY <1>7 DEF Ordered
  <2>1. p \in 1..k
    BY <1>1
  <2>2. CASE q \in 1..k
    BY <1>1, <1>6, <2>1, <2>2 DEF Scanned, Ordered
  <2>3. CASE q = k + 1
    <3>1. m[p].dir_index \in 1..l
      BY <1>1, <2>1
    <3>2. m[p].dir_index <= di
      <4> HIDE DEF m
      <4> QED BY <1>1, <1>2, <3>1
    <3> QED BY <1>5, <1>6, <2>1, <2>3, <3>2
  <2> QED BY <1>8, <2>2, <2>3
<1>12. NamedOnce(new)
  <2> SUFFICES ASSUME NEW p \in 1..(k + 1), NEW q \in 1..(k + 1),
                      new.m_database[p].dir_index = new.m_database[q].dir_index,
                      new.m_database[p].file = new.m_database[q].file
               PROVE  p = q
    BY <1>7 DEF NamedOnce
  <2>1. CASE p \in 1..k /\ q \in 1..k
    BY <1>1, <1>6, <2>1 DEF Scanned, NamedOnce
  <2>2. CASE p = k + 1 /\ q \in 1..k
    BY <1>1, <1>5, <1>6, <1>a, <2>2
  <2>3. CASE p \in 1..k /\ q = k + 1
    BY <1>1, <1>5, <1>6, <1>a, <2>3
  <2> QED BY <1>8, <2>1, <2>2, <2>3
<1>13. \A p \in 1..k : Entry(new, p) = Entry(db, p)
  BY <1>1, <1>2, <1>3, <1>6 DEF Entry
<1>14. Entry(new, k + 1) = [v_index |-> v, dir |-> dirs[di], file |-> n, ver |-> ver]
  BY <1>3, <1>5, <1>6 DEF Entry
<1> QED BY <1>1, <1>6, <1>7, <1>8, <1>10, <1>11, <1>12, <1>13, <1>14, <1>n DEF Extends, Scanned, rec, k, di
-----------------------------------------------------------------------------
(* The stack                                                               *)

LEMMA ReplacedIs ==
  ASSUME m_scan_stack \in Seq(Item), m_scan_stack # <<>>, NEW item \in Item
  PROVE  /\ Replaced(item) \in Seq(Item) /\ Len(m_scan_stack) \in Nat \ {0}
         /\ Len(Replaced(item)) = Len(m_scan_stack)
         /\ Replaced(item)[Len(m_scan_stack)] = item
         /\ \A i \in 1..(Len(m_scan_stack) - 1) : Replaced(item)[i] = m_scan_stack[i]
<1> DEFINE k == Len(m_scan_stack)
<1>1. k \in Nat \ {0} /\ k \in 1..k
  BY EmptySeq
<1>2. /\ Replaced(item) \in Seq(Item) /\ Len(Replaced(item)) = k
      /\ \A j \in 1..k : Replaced(item)[j] = IF j = k THEN item ELSE m_scan_stack[j]
  BY <1>1, ExceptSeq DEF Replaced
<1> HIDE DEF k
<1>3. \A i \in 1..(k - 1) : i \in 1..k /\ i # k
  BY <1>1
<1> QED BY <1>1, <1>2, <1>3 DEF k

LEMMA TopIs ==
  ASSUME DatabaseInv, Scanning
  PROVE  /\ scanningFiles /\ m_scan_stack \in Seq(Item) /\ m_scan_stack # <<>>
         /\ m_scan_stack # NoStack
         /\ Len(m_scan_stack) \in Nat \ {0} /\ Top \in Item
         /\ TopFits(Top)
         /\ \A i \in 1..(Len(m_scan_stack) - 1) : Waiting(m_scan_stack[i])
<1>1. /\ scanningFiles /\ m_scan_stack # NoStack /\ m_scan_stack # <<>>
  BY DEF Scanning
<1>2. m_scan_stack \in Seq(Item) /\ StackFits(m_scan_stack)
  BY <1>1 DEF DatabaseInv, StackInv, StackFits
<1>3. Len(m_scan_stack) \in Nat \ {0}
  BY <1>1, <1>2, EmptySeq
<1>4. Top \in Item
  BY <1>2, <1>3, ElementOfSeq DEF Top
<1> QED BY <1>1, <1>2, <1>3, <1>4 DEF StackFits, Top

\* A step that puts another item on the place of the one on top keeps the stack in shape.
LEMMA ReplacedFits ==
  ASSUME DatabaseInv, Scanning, NEW item \in Item, m_scan_stack' = Replaced(item),
         TopFits(item)'
  PROVE  StackInv' /\ m_scan_stack' \in Seq(Item) /\ m_scan_stack' # NoStack
<1>1. /\ m_scan_stack' \in Seq(Item) /\ Len(m_scan_stack) \in Nat \ {0}
      /\ Len(m_scan_stack') = Len(m_scan_stack)
      /\ m_scan_stack'[Len(m_scan_stack)] = item
      /\ \A i \in 1..(Len(m_scan_stack) - 1) : m_scan_stack'[i] = m_scan_stack[i]
  BY TopIs, ReplacedIs
<1>2. \A i \in 1..(Len(m_scan_stack) - 1) : Waiting(m_scan_stack'[i])
  BY <1>1, TopIs
<1>3. \A i \in 1..(Len(m_scan_stack') - 1) : Waiting(m_scan_stack'[i])
  BY <1>1, <1>2
<1>4. TopFits(m_scan_stack[Len(m_scan_stack)])'
  BY <1>1
<1>5. StackInv'
  BY <1>1, <1>3, <1>4 DEF StackInv, StackFits, Waiting
<1> QED BY <1>1, <1>5, SentinelAssumption

\* A step that leaves the databases and the place in the old one alone.
Quiet ==
  UNCHANGED <<g_database, g_newdatabase, scanningFiles, m_oldscan, named>>

LEMMA QuietStep ==
  ASSUME DatabaseInv, Quiet, StackInv', m_scan_stack' \in Seq(Item) \/ UNCHANGED m_scan_stack,
         m_scan_stack' # NoStack => scanningFiles,
         files' \in [Dir -> [Name -> Version \cup {Absent}]], sharedDirs' \in Seq(Dir)
  PROVE  DatabaseInv'
<1> USE DEF Quiet
<1>1. Scanned(g_database)'
  BY DEF DatabaseInv, Scanned, WellFormed, Ordered, NamedOnce
<1>2. NamedInv'
  BY DEF DatabaseInv, NamedInv, Entries, Entry
<1>3. NewInv'
  <2> SUFFICES ASSUME scanningFiles
               PROVE  /\ Scanned(g_newdatabase)'
                      /\ FirstNumbers(g_newdatabase)' /\ OneFileEach(g_newdatabase)'
                      /\ OldNumbers(g_newdatabase)' /\ KeepsNumbers(g_newdatabase)'
                      /\ (m_scan_stack = NoStack => g_newdatabase.m_scanidx_gpos = ScanPos)'
    BY DEF NewInv
  <2>1. Scanned(g_newdatabase)'
    BY DEF DatabaseInv, NewInv, Scanned, WellFormed, Ordered, NamedOnce
  <2>2. FirstNumbers(g_newdatabase)'
    BY DEF DatabaseInv, NewInv, FirstNumbers, StartPos
  <2>3. OneFileEach(g_newdatabase)'
    <3>1. OneFileEach(g_newdatabase)
      BY DEF DatabaseInv, NewInv
    <3>2. \A p : Entry(g_newdatabase, p)' = Entry(g_newdatabase, p)
      BY DEF Entry
    <3> QED BY <3>1, <3>2 DEF OneFileEach
  <2>4. OldNumbers(g_newdatabase)'
    BY DEF DatabaseInv, NewInv, OldNumbers, UseOldIdx, Entry, Entries
  <2>5. KeepsNumbers(g_newdatabase)'
    <3>1. KeepsNumbers(g_newdatabase)
      BY DEF DatabaseInv, NewInv
    <3>4. \A e : Unchanged(e)' <=> Unchanged(e)
      BY DEF Unchanged, ListedOnce, Entries, Entry
    <3> QED BY <3>1, <3>4 DEF KeepsNumbers, UseOldIdx, Entry, Entries
  <2>6. (m_scan_stack = NoStack => g_newdatabase.m_scanidx_gpos = ScanPos)'
    BY SentinelAssumption DEF DatabaseInv, NewInv, ScanPos, StartPos
  <2> QED BY <2>1, <2>2, <2>3, <2>4, <2>5, <2>6
<1>4. OldInv'
  BY DEF DatabaseInv, OldInv, RunStart
<1>5. TypeOK'
  BY DEF DatabaseInv, TypeOK, WellFormed
<1> QED BY <1>1, <1>2, <1>3, <1>4, <1>5 DEF DatabaseInv
-----------------------------------------------------------------------------
(* DoScan                                                                  *)

\* Every number in use is below the position the scan has reached.
LEMMA BelowScanPos ==
  ASSUME DatabaseInv, scanningFiles
  PROVE  /\ ScanPos \in Nat /\ StartPos \in Nat /\ StartPos <= ScanPos
         /\ \A p \in DOMAIN g_newdatabase.m_database :
              g_newdatabase.m_database[p].v_index < ScanPos
         /\ UseOldIdx => StartPos = g_database.m_scanidx_gpos
<1>1. /\ WellFormed(g_newdatabase) /\ WellFormed(g_database) /\ FirstNumbers(g_newdatabase)
  BY DEF DatabaseInv, NewInv, Scanned
<1>2. g_newdatabase.m_scanidx_gpos \in Nat /\ g_database.m_scanidx_gpos \in Nat
  BY <1>1, DBParts
<1>3. StartPos \in Nat /\ (UseOldIdx => StartPos = g_database.m_scanidx_gpos)
  BY <1>2 DEF StartPos, UseOldIdx
<1>4. g_newdatabase.m_database = <<>> => DOMAIN g_newdatabase.m_database = {}
  BY <1>1, DBParts, EmptySeq
<1> QED BY <1>1, <1>2, <1>3, <1>4 DEF ScanPos, FirstNumbers

LEMMA EnterKeeps ==
  ASSUME DatabaseInv, Scanning, NEW n \in Name, n \in Top.left, Top.opened, NEW ver \in Version,
         EnterFile(n, ver),
         UNCHANGED <<files, sharedDirs, g_database, scanningFiles, named>>
  PROVE  DatabaseInv'
<1>1. /\ scanningFiles /\ m_scan_stack \in Seq(Item) /\ m_scan_stack # <<>>
      /\ Len(m_scan_stack) \in Nat \ {0} /\ Top \in Item /\ TopFits(Top)
      /\ Scanned(g_newdatabase) /\ Scanned(g_database)
      /\ WellFormed(g_newdatabase) /\ WellFormed(g_database)
      /\ m_oldscan \in OldScan /\ RunStart(m_oldscan.m_oldscan_lastdirpos)
      /\ NamedInv
  BY TopIs DEF DatabaseInv, NewInv, TypeOK, Scanned, OldScan, OldInv
<1>i. PICK item : item = Top
  OBVIOUS
<1>2. /\ item.cur_path \in Dir /\ item.dir_index \in Nat /\ item.opened = TRUE
      /\ item.left \in SUBSET (Name \cup Dir) /\ TopFits(item) /\ n \in item.left
  BY <1>1, <1>i DEF Item
<1>d. PICK d : d = item.cur_path
  OBVIOUS
<1> DEFINE first == item.dir_index = 0
<1>o. PICK db : db = g_newdatabase
  OBVIOUS
<1>l. PICK dirs : dirs = IF first THEN Append(db.m_dir_index, d) ELSE db.m_dir_index
  OBVIOUS
<1>j. PICK di : di = IF first THEN Len(dirs) ELSE item.dir_index
  OBVIOUS
<1>s. PICK os : os = IF first \/ m_oldscan.m_oldscan_dirstate = 0
                   THEN SearchDirectory(d) ELSE m_oldscan
  OBVIOUS
<1>n. PICK m : m = Min(OldNamesakes(os, n))
  OBVIOUS
<1> DEFINE kept == KeepsIndex(os, n, ver)
<1>w. PICK v : v = IF kept THEN g_database.m_database[m].v_index ELSE ScanPos
  OBVIOUS
<1>g. PICK gpos : gpos = IF kept THEN ScanPos ELSE ScanPos + 1
  OBVIOUS
<1>r. PICK new : new = [m_database |-> Append(db.m_database,
                        [dir_index |-> di, file |-> n, ver |-> ver, v_index |-> v]),
                      m_dir_index |-> dirs, m_scanidx_gpos |-> gpos]
  OBVIOUS
<1>u. PICK put : put = [item EXCEPT !.left = @ \ {n}, !.dir_index = di]
  OBVIOUS
<1>3. g_newdatabase' = new /\ m_oldscan' = os /\ m_scan_stack' = Replaced(put)
  BY <1>i, <1>d, <1>o, <1>l, <1>j, <1>s, <1>n, <1>w, <1>g, <1>r, <1>u, Zenon DEF EnterFile
<1>4. os \in OldScan /\ FoundFor(os, d) /\ RunStart(os.m_oldscan_lastdirpos)
  <2>1. CASE first \/ m_oldscan.m_oldscan_dirstate = 0
    BY <1>1, <1>s, <2>1, SearchFinds
  <2>2. CASE ~(first \/ m_oldscan.m_oldscan_dirstate = 0)
    BY <1>1, <1>2, <1>d, <1>s, <2>2 DEF TopFits
  <2> QED BY <2>1, <2>2
<1>5. /\ di = Len(dirs) /\ dirs[di] = d /\ di \in Nat \ {0} /\ di \in 1..Len(dirs)
      /\ \/ dirs = db.m_dir_index /\ dirs # <<>>
         \/ dirs = Append(db.m_dir_index, d)
  <2>1. db.m_dir_index \in Seq(Dir) /\ d \in Dir
    BY <1>1, <1>2, <1>d, <1>o, DBParts
  <2>2. CASE first
    <3>1. /\ dirs = Append(db.m_dir_index, d) /\ di = Len(dirs)
      BY <1>l, <1>j, <2>2
    <3>2. /\ Len(dirs) = Len(db.m_dir_index) + 1 /\ Len(db.m_dir_index) \in Nat
          /\ dirs[Len(db.m_dir_index) + 1] = d
      BY <2>1, <3>1, AppendProperties, LenProperties
    <3> QED BY <3>1, <3>2
  <2>3. CASE ~first
    <3>1. /\ dirs = db.m_dir_index /\ di = item.dir_index
      BY <1>l, <1>j, <2>3
    <3>2. di = Len(dirs) /\ dirs[di] = d /\ di \in Nat \ {0}
      BY <1>2, <1>d, <1>o, <2>3, <3>1 DEF TopFits
    <3>3. dirs # <<>> /\ di \in 1..Len(dirs)
      BY <3>2, EmptySeq
    <3> QED BY <3>1, <3>2, <3>3
  <2> QED BY <2>2, <2>3
<1>6. \A p \in DOMAIN db.m_database :
        db.m_database[p].dir_index = di =>
          ~first /\ db.m_database[p].file \notin item.left
  <2> SUFFICES ASSUME NEW p \in DOMAIN db.m_database, db.m_database[p].dir_index = di
               PROVE  ~first /\ db.m_database[p].file \notin item.left
    OBVIOUS
  <2>1. CASE first
    <3>1. db.m_dir_index \in Seq(Dir) /\ dirs = Append(db.m_dir_index, d) /\ d \in Dir
      BY <1>1, <1>2, <1>d, <1>o, <1>l, <2>1, DBParts
    <3>2. di = Len(db.m_dir_index) + 1 /\ Len(db.m_dir_index) \in Nat
      BY <1>5, <3>1, AppendProperties, LenProperties
    <3>3. db.m_database[p].dir_index \in 1..Len(db.m_dir_index)
      BY <1>1, <1>o, DBParts
    <3> QED BY <3>2, <3>3
  <2>2. CASE ~first
    BY <1>2, <1>j, <1>o, <2>2 DEF TopFits
  <2> QED BY <2>1, <2>2
<1>7. kept => /\ m \in DOMAIN g_database.m_database
              /\ Entry(g_database, m) = [v_index |-> v, dir |-> d, file |-> n, ver |-> ver]
              /\ v \in Nat /\ v < g_database.m_scanidx_gpos
              /\ UseOldIdx
  <2> SUFFICES ASSUME kept PROVE /\ m \in DOMAIN g_database.m_database
              /\ Entry(g_database, m) = [v_index |-> v, dir |-> d, file |-> n, ver |-> ver]
              /\ v \in Nat /\ v < g_database.m_scanidx_gpos
              /\ UseOldIdx
    OBVIOUS
  <2>1. /\ m \in DOMAIN g_database.m_database
        /\ Entry(g_database, m) = [v_index |-> g_database.m_database[m].v_index,
                                   dir |-> d, file |-> n, ver |-> ver]
    BY <1>1, <1>4, <1>n, OldEntryIsRight
  <2>2. v = g_database.m_database[m].v_index
    BY <1>w
  <2>3. Entry(g_database, m) \in named /\ Entry(g_database, m).v_index = v
    BY <1>1, <2>1, <2>2 DEF NamedInv, Entries
  <2> QED BY <1>1, <2>1, <2>2, <2>3 DEF NamedInv, KeepsIndex
<1>8. /\ ScanPos \in Nat /\ StartPos \in Nat /\ StartPos <= ScanPos
      /\ \A p \in DOMAIN db.m_database : db.m_database[p].v_index < ScanPos
      /\ UseOldIdx => StartPos = g_database.m_scanidx_gpos
  BY <1>1, <1>o, BelowScanPos
<1>9. /\ v \in Nat /\ gpos \in Nat /\ v < gpos /\ ScanPos <= gpos /\ (~kept => v = ScanPos)
  <2>1. CASE kept
    BY <1>7, <1>8, <1>g, <2>1
  <2>2. CASE ~kept
    BY <1>8, <1>g, <1>w, <2>2
  <2> QED BY <2>1, <2>2
<1> DEFINE k == Len(db.m_database) + 1
<1>10. /\ Scanned(new)
       /\ DOMAIN new.m_database = DOMAIN db.m_database \cup {k}
       /\ \A p \in DOMAIN db.m_database : /\ new.m_database[p] = db.m_database[p]
                                          /\ Entry(new, p) = Entry(db, p)
       /\ new.m_database[k] = [dir_index |-> di, file |-> n, ver |-> ver, v_index |-> v]
       /\ Entry(new, k) = [v_index |-> v, dir |-> d, file |-> n, ver |-> ver]
  <2>1. NewName(db, dirs, n)
    BY <1>2, <1>5, <1>6 DEF NewName
  <2>2. new = Added(db, dirs, n, ver, v, gpos)
    BY <1>5, <1>r DEF Added
  <2>3. Scanned(db) /\ d \in Dir /\ dirs # <<>>
    BY <1>1, <1>2, <1>5, <1>d, <1>o
  <2>4. dirs \in Dirs(db, d)
    BY <1>5, <2>3 DEF Dirs
  <2>5. Extends(new, db, dirs, n, ver, v)
    BY <1>9, <2>1, <2>2, <2>3, <2>4, EntryAdded
  <2> QED BY <1>5, <2>5 DEF k, Extends
<1>11. new.m_dir_index = dirs /\ new.m_scanidx_gpos = gpos
  BY <1>r
<1>12. k \notin DOMAIN db.m_database /\ new.m_database # <<>>
  BY <1>1, <1>o, <1>10, DBParts
<1>13. \A p : Entry(db, p).v_index = db.m_database[p].v_index
  BY DEF Entry
<1> HIDE DEF k, kept, first
<1>a. /\ FirstNumbers(db) /\ OneFileEach(db) /\ OldNumbers(db) /\ KeepsNumbers(db)
  BY <1>1, <1>o DEF DatabaseInv, NewInv
<1>b. new.m_database[k].v_index = v /\ new.m_database[k].dir_index = di /\ new.m_database[k].file = n
  BY <1>10
<1>14. FirstNumbers(new)
  BY <1>8, <1>9, <1>10, <1>11, <1>b, <1>1, <1>o, DBParts DEF FirstNumbers, FileRec
<1>15. \A p \in DOMAIN db.m_database : db.m_database[p].v_index = v => Entry(db, p) = Entry(new, k)
  <2> SUFFICES ASSUME NEW p \in DOMAIN db.m_database, db.m_database[p].v_index = v
               PROVE  Entry(db, p) = Entry(new, k)
    OBVIOUS
  <2>1. kept
    BY <1>8, <1>9
  <2>2. Entry(db, p) \in Entries(g_database)
    BY <1>7, <1>a, <2>1 DEF OldNumbers
  <2>3. Entry(g_database, m) \in Entries(g_database) /\ Entry(g_database, m) = Entry(new, k)
    BY <1>7, <1>10, <2>1 DEF Entries
  <2>4. Entry(db, p).v_index = v /\ Entry(new, k).v_index = v
    BY <1>10, <1>13
  <2> QED BY <1>1, <2>2, <2>3, <2>4 DEF NamedInv
<1>16. OneFileEach(new)
  <2> SUFFICES ASSUME NEW p \in DOMAIN new.m_database, NEW q \in DOMAIN new.m_database,
                      new.m_database[p].v_index = new.m_database[q].v_index
               PROVE  Entry(new, p) = Entry(new, q)
    BY DEF OneFileEach
  <2>1. CASE p \in DOMAIN db.m_database /\ q \in DOMAIN db.m_database
    BY <1>10, <1>a, <2>1 DEF OneFileEach
  <2>2. CASE p = k /\ q \in DOMAIN db.m_database
    BY <1>10, <1>15, <1>b, <2>2
  <2>3. CASE p \in DOMAIN db.m_database /\ q = k
    BY <1>10, <1>15, <1>b, <2>3
  <2> QED BY <1>10, <2>1, <2>2, <2>3
<1>17. OldNumbers(new)
  <2> SUFFICES ASSUME UseOldIdx, NEW p \in DOMAIN new.m_database,
                      new.m_database[p].v_index < g_database.m_scanidx_gpos
               PROVE  Entry(new, p) \in Entries(g_database)
    BY DEF OldNumbers
  <2>1. CASE p \in DOMAIN db.m_database
    BY <1>10, <1>a, <2>1 DEF OldNumbers
  <2>2. CASE p = k
    <3>1. kept
      BY <1>8, <1>9, <1>b, <2>2
    <3> QED BY <1>7, <1>10, <2>2, <3>1 DEF Entries
  <2> QED BY <1>10, <2>1, <2>2
<1>18. KeepsNumbers(new)
  <2> SUFFICES ASSUME UseOldIdx, NEW p \in DOMAIN new.m_database, Unchanged(Entry(new, p))
               PROVE  Entry(new, p) \in Entries(g_database)
    BY DEF KeepsNumbers
  <2>1. CASE p \in DOMAIN db.m_database
    BY <1>10, <1>a, <2>1 DEF KeepsNumbers
  <2>2. CASE p = k
    <3>0. PICK e : e = [v_index |-> v, dir |-> d, file |-> n, ver |-> ver]
      OBVIOUS
    <3>1. /\ ListedOnce(d)
          /\ \E o \in Entries(g_database) : [o EXCEPT !.v_index = e.v_index] = e
      <4>1. Unchanged(e) /\ e.dir = d
        BY <1>10, <2>2, <3>0
      <4> QED BY <4>1 DEF Unchanged
    <3>2. PICK a \in DOMAIN g_database.m_database :
                 [Entry(g_database, a) EXCEPT !.v_index = e.v_index] = e
      BY <3>1 DEF Entries
    <3>3. Entry(g_database, a).dir = d /\ Entry(g_database, a).file = n
          /\ Entry(g_database, a).ver = ver
      <4>1. Entry(g_database, a) \in EntryRec
        BY <1>1, DBParts
      <4> QED BY <3>0, <3>2, <4>1 DEF EntryRec
    <3>4. OldDirOf(a) = d /\ g_database.m_database[a].file = n /\ g_database.m_database[a].ver = ver
      BY <3>3 DEF Entry, OldDirOf
    <3>5. kept
      BY <1>1, <1>4, <3>1, <3>4, OldEntryIsFound DEF kept
    <3> QED BY <1>7, <1>10, <2>2, <3>5 DEF Entries
  <2> QED BY <1>10, <2>1, <2>2
<1>19. /\ put \in Item /\ put.cur_path = d /\ put.dir_index = di /\ put.opened = TRUE
       /\ put.left = item.left \ {n}
  <2>1. item \in Item
    BY <1>1, <1>i
  <2> QED BY <1>2, <1>5, <1>d, <1>u, <2>1 DEF Item
<1>20. TopFits(put)'
  <2>1. /\ put.dir_index = Len(g_newdatabase'.m_dir_index)
        /\ g_newdatabase'.m_dir_index[put.dir_index] = put.cur_path
    BY <1>3, <1>5, <1>11, <1>19
  <2>2. \A p \in DOMAIN new.m_database :
          new.m_database[p].dir_index = di => new.m_database[p].file \notin put.left
    <3> SUFFICES ASSUME NEW p \in DOMAIN new.m_database, new.m_database[p].dir_index = di
                 PROVE  new.m_database[p].file \notin put.left
      OBVIOUS
    <3>1. CASE p \in DOMAIN db.m_database
      BY <1>6, <1>10, <1>19, <3>1
    <3>2. CASE p = k
      BY <1>b, <1>19, <3>2
    <3> QED BY <1>10, <3>1, <3>2
  <2>3. FoundFor(m_oldscan, put.cur_path)'
    BY <1>3, <1>4, <1>19 DEF FoundFor, OldDirOf
  <2> QED BY <1>3, <1>19, <2>1, <2>2, <2>3 DEF TopFits
<1>21. StackInv' /\ m_scan_stack' \in Seq(Item) /\ m_scan_stack' # NoStack
  BY <1>3, <1>19, <1>20, ReplacedFits
<1>22. NewInv'
  <2>1. Scanned(g_newdatabase)'
    BY <1>3, <1>10 DEF Scanned, WellFormed, Ordered, NamedOnce
  <2>2. FirstNumbers(g_newdatabase)'
    BY <1>3, <1>14 DEF FirstNumbers, StartPos
  <2>3. \A p : Entry(g_newdatabase, p)' = Entry(new, p)
    BY <1>3 DEF Entry
  <2>4. OneFileEach(g_newdatabase)'
    BY <1>3, <1>16, <2>3 DEF OneFileEach
  <2>5. Entries(g_database)' = Entries(g_database)
    BY DEF Entries, Entry
  <2>6. OldNumbers(g_newdatabase)'
    BY <1>3, <1>17, <2>3, <2>5 DEF OldNumbers, UseOldIdx
  <2>7. \A e : Unchanged(e)' <=> Unchanged(e)
    BY <2>5 DEF Unchanged, ListedOnce
  <2>8. KeepsNumbers(g_newdatabase)'
    BY <1>3, <1>18, <2>3, <2>5, <2>7 DEF KeepsNumbers, UseOldIdx
  <2> QED BY <1>21, <2>1, <2>2, <2>4, <2>6, <2>8 DEF NewInv
<1>23. Scanned(g_database)' /\ NamedInv'
  <2>1. Scanned(g_database)'
    BY <1>1 DEF Scanned, WellFormed, Ordered, NamedOnce
  <2>2. Entries(g_database)' = Entries(g_database)
    BY DEF Entries, Entry
  <2> QED BY <1>1, <2>1, <2>2 DEF NamedInv
<1>24. OldInv'
  BY <1>3, <1>4 DEF OldInv, RunStart
<1>25. TypeOK'
  <2>1. g_newdatabase' # NoDB /\ WellFormed(g_newdatabase)'
    <3>1. WellFormed(new)
      BY <1>10 DEF Scanned
    <3>2. WellFormed(g_newdatabase)'
      BY <1>3, <3>1 DEF WellFormed
    <3> QED BY <1>3, <3>1, <3>2, SentinelAssumption DEF WellFormed
  <2>2. m_oldscan' \in OldScan
        /\ (m_oldscan'.m_oldscan_dirstate = 2
             => m_oldscan'.m_oldscan_lastdirpos \in DOMAIN g_database'.m_database)
    BY <1>3, <1>4 DEF FoundFor
  <2>3. /\ files' \in [Dir -> [Name -> Version \cup {Absent}]] /\ sharedDirs' \in Seq(Dir)
        /\ scanningFiles' = TRUE
    BY <1>1 DEF DatabaseInv, TypeOK
  <2>4. WellFormed(g_database)'
    BY <1>1 DEF WellFormed
  <2> QED BY <1>21, <2>1, <2>2, <2>3, <2>4 DEF TypeOK, OldScan
<1> QED BY <1>21, <1>22, <1>23, <1>24, <1>25 DEF DatabaseInv
\* What is left to read may shrink, and grow by what is not entered yet.
LEMMA LeftFits ==
  ASSUME DatabaseInv, Scanning, Quiet, NEW L \in SUBSET (Name \cup Dir), Top.opened,
         \A n \in L \ Top.left : ~Listed(Top.cur_path, n),
         NEW put, put = [Top EXCEPT !.left = L]
  PROVE  put \in Item /\ TopFits(put)'
<1>1. PICK item : item = Top
  OBVIOUS
<1>2. put = [item EXCEPT !.left = L]
  BY <1>1
<1>3. item \in Item /\ TopFits(item) /\ item.opened
  BY <1>1, TopIs
<1>4. /\ put \in Item /\ put.left = L /\ put.opened = item.opened
      /\ put.dir_index = item.dir_index /\ put.cur_path = item.cur_path
  BY <1>2, <1>3 DEF Item
<1>5. ASSUME item.dir_index # 0, NEW p \in DOMAIN g_newdatabase.m_database,
             g_newdatabase.m_database[p].dir_index = item.dir_index
      PROVE  g_newdatabase.m_database[p].file \notin L
  <2>1. g_newdatabase.m_database[p].file \notin item.left
        /\ g_newdatabase.m_dir_index[item.dir_index] = item.cur_path
    BY <1>3, <1>5 DEF TopFits
  <2>2. Entry(g_newdatabase, p).dir = item.cur_path
        /\ Entry(g_newdatabase, p).file = g_newdatabase.m_database[p].file
    BY <1>5, <2>1 DEF Entry
  <2>3. Listed(item.cur_path, g_newdatabase.m_database[p].file)
    BY <1>5, <2>2 DEF Listed, Entries
  <2> QED BY <1>1, <2>1, <2>3
<1>6. item.dir_index # 0 =>
        /\ item.dir_index = Len(g_newdatabase.m_dir_index)
        /\ g_newdatabase.m_dir_index[item.dir_index] = item.cur_path
        /\ FoundFor(m_oldscan, item.cur_path)
  BY <1>3 DEF TopFits
<1>7. FoundFor(m_oldscan, item.cur_path)' <=> FoundFor(m_oldscan, item.cur_path)
  BY DEF Quiet, FoundFor, OldDirOf
<1>8. TopFits(put)'
  BY <1>3, <1>4, <1>5, <1>6, <1>7 DEF TopFits, Quiet
<1> QED BY <1>4, <1>8

LEMMA OpenKeeps == ASSUME DatabaseInv, OpenDir PROVE DatabaseInv'
<1>1. Scanning /\ ~Top.opened /\ Quiet /\ UNCHANGED <<files, sharedDirs>>
  BY DEF OpenDir, Quiet
<1>2. PICK item : item = [Top EXCEPT !.opened = TRUE, !.left = Inside(Top.cur_path)]
  OBVIOUS
<1>3. /\ item \in Item /\ item.dir_index = Top.dir_index /\ item.opened = TRUE
  <2>1. Inside(Top.cur_path) \in SUBSET (Name \cup Dir)
    BY DEF Inside
  <2>2. Top \in Item
    BY <1>1, TopIs
  <2> QED BY <1>2, <2>1, <2>2 DEF Item
<1>4. item.dir_index = 0
  BY <1>1, <1>3, TopIs DEF TopFits
<1>5. TopFits(item)'
  BY <1>3, <1>4 DEF TopFits
<1>6. m_scan_stack' = Replaced(item)
  BY <1>2 DEF OpenDir
<1>7. StackInv' /\ m_scan_stack' \in Seq(Item)
  BY <1>1, <1>3, <1>5, <1>6, ReplacedFits
<1> QED BY <1>1, <1>7, QuietStep, TopIs DEF DatabaseInv, TypeOK

LEMMA SkipKeeps == ASSUME DatabaseInv, NEW n, ReadNothing(n) PROVE DatabaseInv'
<1>1. Scanning /\ Top.opened /\ Quiet /\ UNCHANGED <<files, sharedDirs>>
  BY DEF ReadNothing, Quiet
<1>2. PICK L : L = Top.left \ {n}
  OBVIOUS
<1>3. L \in SUBSET (Name \cup Dir) /\ L \subseteq Top.left
  BY <1>1, <1>2, TopIs DEF Item
<1>4. PICK item : item = [Top EXCEPT !.left = L]
  OBVIOUS
<1>5. item \in Item /\ TopFits(item)'
  BY <1>1, <1>3, <1>4, LeftFits
<1>6. m_scan_stack' = Replaced(item)
  BY <1>2, <1>4 DEF ReadNothing
<1>7. StackInv' /\ m_scan_stack' \in Seq(Item)
  BY <1>1, <1>5, <1>6, ReplacedFits
<1> QED BY <1>1, <1>7, QuietStep, TopIs DEF DatabaseInv, TypeOK

LEMMA ReadKeeps == ASSUME DatabaseInv, NEW n \in Name, ReadFile(n) PROVE DatabaseInv'
<1>1. PICK ver \in Version : EnterFile(n, ver)
  BY DEF ReadFile
<1>2. /\ Scanning /\ Top.opened /\ n \in Top.left
      /\ UNCHANGED <<files, sharedDirs, g_database, scanningFiles, named>>
  BY DEF ReadFile
<1> QED BY <1>1, <1>2, EnterKeeps

LEMMA PushKeeps == ASSUME DatabaseInv, NEW c \in Dir, ReadSubdirectory(c) PROVE DatabaseInv'
<1>1. Scanning /\ Top.opened /\ Quiet /\ UNCHANGED <<files, sharedDirs>>
  BY DEF ReadSubdirectory, Quiet
<1>2. PICK L : L = Top.left \ {c}
  OBVIOUS
<1>3. L \in SUBSET (Name \cup Dir) /\ L \subseteq Top.left
  BY <1>1, <1>2, TopIs DEF Item
<1>4. PICK item : item = [Top EXCEPT !.left = L]
  OBVIOUS
<1>5. item \in Item /\ TopFits(item)'
  BY <1>1, <1>3, <1>4, LeftFits
<1>6. PICK k, s : k = Len(m_scan_stack) /\ s = Replaced(item)
  OBVIOUS
<1>7. /\ s \in Seq(Item) /\ k \in Nat \ {0} /\ Len(s) = k /\ s[k] = item
      /\ \A i \in 1..(k - 1) : Waiting(s[i])
  <2>1. \A i \in 1..(k - 1) : s[i] = m_scan_stack[i]
    BY <1>1, <1>5, <1>6, ReplacedIs, TopIs
  <2>2. \A i \in 1..(k - 1) : Waiting(m_scan_stack[i])
    BY <1>1, <1>6, TopIs
  <2> QED BY <1>1, <1>5, <1>6, <2>1, <2>2, ReplacedIs, TopIs
<1>8. m_scan_stack' = InsertAt(s, k, Unread(c))
  BY <1>2, <1>4, <1>6 DEF ReadSubdirectory
<1>9. Unread(c) \in Item /\ Waiting(Unread(c))
  BY DEF Unread, Item, Waiting
<1>u. PICK u : u = Unread(c)
  OBVIOUS
<1>10. /\ m_scan_stack' \in Seq(Item) /\ Len(m_scan_stack') = k + 1
       /\ \A j \in 1..(k + 1) :
            m_scan_stack'[j] = IF j < k THEN s[j] ELSE IF j = k THEN u ELSE s[j - 1]
  <2>1. k \in 1..Len(s) /\ s \in Seq(Item) /\ u \in Item /\ Len(s) = k
    BY <1>7, <1>9, <1>u
  <2>2. m_scan_stack' = InsertAt(s, k, u)
    BY <1>8, <1>u
  <2>3. InsertAt(s, k, u) \in Seq(Item) /\ HasInserted(InsertAt(s, k, u), s, k, u)
    BY <2>1, InsertProps
  <2> QED BY <2>1, <2>2, <2>3 DEF HasInserted
<1>11. m_scan_stack'[k + 1] = item
  BY <1>7, <1>10
<1>12. \A i \in 1..k : Waiting(m_scan_stack'[i])
  BY <1>7, <1>9, <1>u, <1>10
<1>13. StackInv'
  <2>1. \A i \in 1..(Len(m_scan_stack') - 1) : Waiting(m_scan_stack'[i])
    BY <1>7, <1>10, <1>12
  <2>2. TopFits(m_scan_stack[Len(m_scan_stack)])'
    BY <1>5, <1>10, <1>11
  <2> QED BY <1>10, <2>1, <2>2 DEF StackInv, StackFits, Waiting
<1> QED BY <1>1, <1>10, <1>13, QuietStep, TopIs DEF DatabaseInv, TypeOK

LEMMA CloseKeeps == ASSUME DatabaseInv, CloseDir \/ OpenFails PROVE DatabaseInv'
<1>1. Scanning /\ Quiet /\ UNCHANGED <<files, sharedDirs>> /\ m_scan_stack' = Front(m_scan_stack)
  BY DEF CloseDir, OpenFails, Quiet
<1>2. PICK k : k = Len(m_scan_stack)
  OBVIOUS
<1>3. /\ m_scan_stack' \in Seq(Item) /\ Len(m_scan_stack') = k - 1 /\ k \in Nat \ {0}
      /\ \A i \in 1..(k - 1) : m_scan_stack'[i] = m_scan_stack[i]
      /\ \A i \in 1..(k - 1) : Waiting(m_scan_stack[i])
  BY <1>1, <1>2, TopIs, FrontProps
<1>4. \A i \in 1..(k - 1) : Waiting(m_scan_stack'[i])
  BY <1>3
<1>5. m_scan_stack' # <<>> => k - 1 \in 1..(k - 1)
  BY <1>3, EmptySeq
<1>6. \A item : Waiting(item) => TopFits(item)'
  BY DEF Waiting, TopFits
<1>7. StackInv'
  <2>1. \A i \in 1..(Len(m_scan_stack') - 1) : Waiting(m_scan_stack'[i])
    BY <1>3, <1>4
  <2>2. m_scan_stack' # <<>> => TopFits(m_scan_stack[Len(m_scan_stack)])'
    <3> PICK item : item = m_scan_stack'[k - 1]
      OBVIOUS
    <3>1. m_scan_stack' # <<>> => TopFits(item)'
      BY <1>4, <1>5, <1>6
    <3> QED BY <1>3, <3>1
  <2> QED BY <1>3, <2>1, <2>2 DEF StackInv, StackFits, Waiting
<1> QED BY <1>1, <1>3, <1>7, QuietStep, TopIs DEF DatabaseInv, TypeOK
LEMMA CompleteKeeps == ASSUME DatabaseInv, ScanComplete PROVE DatabaseInv'
<1>1. /\ scanningFiles /\ m_scan_stack' = NoStack
      /\ g_newdatabase' = [g_newdatabase EXCEPT !.m_scanidx_gpos = ScanPos]
      /\ UNCHANGED <<files, sharedDirs, g_database, scanningFiles, m_oldscan, named>>
      /\ Scanned(g_database) /\ Scanned(g_newdatabase)
      /\ FirstNumbers(g_newdatabase) /\ OneFileEach(g_newdatabase)
      /\ OldNumbers(g_newdatabase) /\ KeepsNumbers(g_newdatabase)
      /\ NamedInv
  BY DEF ScanComplete, DatabaseInv, NewInv
<1>2. /\ ScanPos \in Nat /\ StartPos \in Nat /\ StartPos <= ScanPos
      /\ \A p \in DOMAIN g_newdatabase.m_database :
           g_newdatabase.m_database[p].v_index < ScanPos
  BY <1>1, BelowScanPos
<1>3. PICK new, pos : new = g_newdatabase' /\ pos = ScanPos
  OBVIOUS
<1>4. /\ new \in DB /\ new.m_database = g_newdatabase.m_database
      /\ new.m_dir_index = g_newdatabase.m_dir_index /\ new.m_scanidx_gpos = pos
  BY <1>1, <1>2, <1>3 DEF Scanned, WellFormed, DB
<1>5. \A p : Entry(new, p) = Entry(g_newdatabase, p)
  BY <1>4 DEF Entry
<1>6. Scanned(new)
  BY <1>1, <1>4 DEF Scanned, WellFormed, Ordered, NamedOnce
<1>7. Scanned(g_newdatabase)'
  BY <1>3, <1>6 DEF Scanned, WellFormed, Ordered, NamedOnce
<1>8. FirstNumbers(g_newdatabase)'
  <2>1. StartPos' = StartPos
    BY <1>1 DEF StartPos
  <2>2. StartPos <= new.m_scanidx_gpos
        /\ \A p \in DOMAIN new.m_database : new.m_database[p].v_index < new.m_scanidx_gpos
    BY <1>2, <1>3, <1>4
  <2> QED BY <1>3, <2>1, <2>2 DEF FirstNumbers
<1>9. \A p : Entry(g_newdatabase, p)' = Entry(g_newdatabase, p)
  <2>1. \A p : Entry(g_newdatabase, p)' = Entry(new, p)
    BY <1>3 DEF Entry
  <2> QED BY <1>5, <2>1
<1>10. OneFileEach(g_newdatabase)'
  BY <1>1, <1>3, <1>4, <1>9 DEF OneFileEach
<1>11. Entries(g_database)' = Entries(g_database)
  BY <1>1 DEF Entries, Entry
<1>12. OldNumbers(g_newdatabase)'
  BY <1>1, <1>3, <1>4, <1>9, <1>11 DEF OldNumbers, UseOldIdx
<1>13. \A e : Unchanged(e)' <=> Unchanged(e)
  BY <1>1, <1>11 DEF Unchanged, ListedOnce
<1>14. KeepsNumbers(g_newdatabase)'
  BY <1>1, <1>3, <1>4, <1>9, <1>11, <1>13 DEF KeepsNumbers, UseOldIdx
<1>15. ScanPos' = pos
  BY <1>1, <1>3, <1>4 DEF ScanPos, StartPos
<1>16. NewInv'
  BY <1>1, <1>3, <1>4, <1>7, <1>8, <1>10, <1>12, <1>14, <1>15 DEF NewInv
<1>17. Scanned(g_database)' /\ NamedInv'
  BY <1>1, <1>11 DEF Scanned, WellFormed, Ordered, NamedOnce, NamedInv
<1>18. OldInv' /\ StackInv'
  BY <1>1 DEF DatabaseInv, OldInv, RunStart, StackInv
<1>19. TypeOK'
  <2>1. g_newdatabase' # NoDB /\ WellFormed(g_newdatabase)'
    BY <1>3, <1>4, <1>7, SentinelAssumption DEF Scanned
  <2>2. WellFormed(g_database)'
    BY <1>17 DEF Scanned
  <2> QED BY <1>1, <2>1, <2>2 DEF DatabaseInv, TypeOK
<1> QED BY <1>16, <1>17, <1>18, <1>19 DEF DatabaseInv

\* The exchange: what the new database offers was never offered as anything else.
LEMMA SwapKeeps == ASSUME DatabaseInv, SwapDatabases PROVE DatabaseInv'
<1>1. /\ scanningFiles /\ m_scan_stack = NoStack /\ m_scan_stack' = NoStack
      /\ g_database' = g_newdatabase /\ g_newdatabase' = NoDB /\ scanningFiles' = FALSE
      /\ named' = (IF UseOldIdx THEN named ELSE {}) \cup Entries(g_newdatabase)
      /\ UNCHANGED <<files, sharedDirs, m_oldscan>>
      /\ Scanned(g_database) /\ Scanned(g_newdatabase)
      /\ FirstNumbers(g_newdatabase) /\ OneFileEach(g_newdatabase)
      /\ OldNumbers(g_newdatabase)
      /\ g_newdatabase.m_scanidx_gpos = ScanPos
      /\ NamedInv
  BY DEF SwapDatabases, DatabaseInv, NewInv
<1>2. PICK new, pos : new = g_newdatabase /\ pos = ScanPos
  OBVIOUS
<1>3. /\ pos \in Nat /\ StartPos <= pos
      /\ \A p \in DOMAIN new.m_database : new.m_database[p].v_index < pos
      /\ UseOldIdx => g_database.m_scanidx_gpos <= pos
  BY <1>1, <1>2, BelowScanPos
<1>4. \A p \in DOMAIN new.m_database : /\ Entry(new, p).v_index = new.m_database[p].v_index
                                       /\ new.m_database[p].v_index \in Nat
  BY <1>1, <1>2, DBParts DEF Entry, Scanned, FileRec
<1>5. \A p, q \in DOMAIN new.m_database :
        Entry(new, p).v_index = Entry(new, q).v_index => Entry(new, p) = Entry(new, q)
  BY <1>1, <1>2, <1>4 DEF OneFileEach
<1>6. g_database.m_scanidx_gpos \in Nat
  BY <1>1, DBParts DEF Scanned
<1>7. ASSUME UseOldIdx, NEW o \in named, NEW p \in DOMAIN new.m_database,
             o.v_index = Entry(new, p).v_index
      PROVE  o = Entry(new, p)
  <2>1. new.m_database[p].v_index < g_database.m_scanidx_gpos
    BY <1>1, <1>4, <1>7 DEF NamedInv
  <2>2. Entry(new, p) \in Entries(g_database)
    BY <1>1, <1>2, <1>7, <2>1 DEF OldNumbers
  <2> QED BY <1>1, <1>7, <2>2 DEF NamedInv
<1>8. named' = (IF UseOldIdx THEN named ELSE {}) \cup {Entry(new, p) : p \in DOMAIN new.m_database}
  BY <1>1, <1>2 DEF Entries
<1>9. NamedInv'
  <2>1. ASSUME NEW o \in named', NEW p \in named', o.v_index = p.v_index PROVE o = p
    <3>1. CASE UseOldIdx /\ o \in named /\ p \in named
      BY <1>1, <2>1, <3>1 DEF NamedInv
    <3>2. CASE UseOldIdx /\ o \in named /\ p \notin named
      BY <1>7, <1>8, <2>1, <3>2
    <3>3. CASE UseOldIdx /\ o \notin named /\ p \in named
      BY <1>7, <1>8, <2>1, <3>3
    <3>4. CASE /\ o \in {Entry(new, q) : q \in DOMAIN new.m_database}
               /\ p \in {Entry(new, q) : q \in DOMAIN new.m_database}
      BY <1>5, <2>1, <3>4
    <3> QED BY <1>8, <2>1, <3>1, <3>2, <3>3, <3>4
  <2>2. ASSUME NEW o \in named' PROVE o.v_index \in Nat /\ o.v_index < pos
    <3>1. CASE UseOldIdx /\ o \in named
      BY <1>1, <1>3, <1>6, <3>1 DEF NamedInv
    <3>2. CASE o \in {Entry(new, q) : q \in DOMAIN new.m_database}
      BY <1>3, <1>4, <3>2
    <3> QED BY <1>8, <2>2, <3>1, <3>2
  <2>3. Entries(g_database)' = Entries(g_newdatabase)
    BY <1>1 DEF Entries, Entry
  <2> QED BY <1>1, <1>2, <2>1, <2>2, <2>3 DEF NamedInv
<1>10. Scanned(g_database)'
  BY <1>1 DEF Scanned, WellFormed, Ordered, NamedOnce
<1>11. NewInv' /\ OldInv' /\ StackInv'
  BY <1>1 DEF NewInv, OldInv, StackInv
<1>12. TypeOK'
  BY <1>1, <1>10 DEF DatabaseInv, TypeOK, Scanned
<1> QED BY <1>9, <1>10, <1>11, <1>12 DEF DatabaseInv
-----------------------------------------------------------------------------
(* Everything else                                                         *)

LEMMA ChangeKeeps ==
  ASSUME DatabaseInv, NEW d \in Dir, NEW n \in Name, NEW to \in Version \cup {Absent},
         FileChanges(d, n, to)
  PROVE  DatabaseInv'
<1>1. /\ Quiet /\ UNCHANGED sharedDirs
      /\ files' = [files EXCEPT ![d][n] = to]
      /\ UNCHANGED m_scan_stack \/ MayAppear(d, n)
  BY DEF FileChanges, Quiet
<1>2. files' \in [Dir -> [Name -> Version \cup {Absent}]]
  BY <1>1 DEF DatabaseInv, TypeOK
<1>3. /\ StackInv' /\ (m_scan_stack' \in Seq(Item) \/ UNCHANGED m_scan_stack)
      /\ (m_scan_stack' # NoStack => scanningFiles)
  <2>1. CASE UNCHANGED m_scan_stack
    <3>1. \A item : TopFits(item)' <=> TopFits(item)
      BY <1>1 DEF Quiet, TopFits, FoundFor, OldDirOf
    <3>2. StackInv'
      BY <2>1, <3>1 DEF DatabaseInv, StackInv, StackFits
    <3> QED BY <2>1, <3>2 DEF DatabaseInv, TypeOK
  <2>2. CASE ~UNCHANGED m_scan_stack
    <3>1. /\ Scanning /\ Top.opened /\ Top.cur_path = d /\ ~Listed(d, n)
          /\ m_scan_stack' = Replaced([Top EXCEPT !.left = @ \cup {n}])
      BY <1>1, <2>2 DEF MayAppear
    <3>2. PICK L : L = Top.left \cup {n}
      OBVIOUS
    <3>3. PICK item : item = [Top EXCEPT !.left = L]
      OBVIOUS
    <3>4. L \in SUBSET (Name \cup Dir) /\ \A x \in L \ Top.left : ~Listed(Top.cur_path, x)
      BY <3>1, <3>2, TopIs DEF Item
    <3>5. item \in Item /\ TopFits(item)'
      BY <1>1, <3>1, <3>3, <3>4, LeftFits
    <3>6. m_scan_stack' = Replaced(item)
      BY <3>1, <3>2, <3>3
    <3> QED BY <3>1, <3>5, <3>6, ReplacedFits, TopIs
  <2> QED BY <2>1, <2>2
<1>4. sharedDirs' \in Seq(Dir)
  BY <1>1 DEF DatabaseInv, TypeOK
<1> QED BY <1>1, <1>2, <1>3, <1>4, QuietStep

\* Where no scan is on.
LEMMA IdleFits ==
  ASSUME Scanned(g_database)', NamedInv', g_newdatabase' = NoDB, m_scan_stack' = NoStack,
         scanningFiles' = FALSE, m_oldscan' \in OldScan,
         files' \in [Dir -> [Name -> Version \cup {Absent}]], sharedDirs' \in Seq(Dir)
  PROVE  DatabaseInv'
<1>1. NewInv' /\ StackInv' /\ OldInv'
  BY DEF NewInv, StackInv, OldInv
<1>2. TypeOK'
  BY DEF TypeOK, Scanned, OldScan
<1> QED BY <1>1, <1>2 DEF DatabaseInv

\* Where one begins.
LEMMA BeginFits ==
  ASSUME Scanned(g_database)', NamedInv', NEW dirs \in Seq(Dir), BeginScan(dirs),
         files' \in [Dir -> [Name -> Version \cup {Absent}]], sharedDirs' \in Seq(Dir)
  PROVE  DatabaseInv'
<1>1. /\ g_newdatabase' = EmptyDB /\ m_oldscan' = NoOldScan /\ scanningFiles' = TRUE
      /\ m_scan_stack' = [i \in DOMAIN dirs |-> Unread(dirs[i])]
  BY DEF BeginScan
<1>2. /\ m_scan_stack' \in Seq(Item) /\ \A i \in DOMAIN m_scan_stack' : Waiting(m_scan_stack'[i])
      /\ Len(m_scan_stack') \in Nat /\ DOMAIN m_scan_stack' = 1..Len(m_scan_stack')
  <2>1. Len(dirs) \in Nat /\ DOMAIN dirs = 1..Len(dirs) /\ \A i \in 1..Len(dirs) : dirs[i] \in Dir
    BY LenProperties
  <2>2. \A i \in 1..Len(dirs) : Unread(dirs[i]) \in Item /\ Waiting(Unread(dirs[i]))
    BY <2>1 DEF Unread, Item, Waiting
  <2>3. m_scan_stack' \in Seq(Item)
    BY <1>1, <2>1, <2>2, IsASeq
  <2>4. \A i \in DOMAIN m_scan_stack' : Waiting(m_scan_stack'[i])
    BY <1>1, <2>1, <2>2
  <2> QED BY <2>3, <2>4, LenProperties
<1>3. StackInv'
  <2>1. \A item : Waiting(item) => TopFits(item)'
    BY DEF Waiting, TopFits
  <2>2. \A i \in 1..(Len(m_scan_stack') - 1) : Waiting(m_scan_stack'[i])
    BY <1>2
  <2>3. m_scan_stack' # <<>> => TopFits(m_scan_stack[Len(m_scan_stack)])'
    <3>1. PICK item : item = m_scan_stack'[Len(m_scan_stack')]
      OBVIOUS
    <3>2. m_scan_stack' # <<>> => Waiting(item)
      BY <1>2, <3>1, EmptySeq
    <3> QED BY <2>1, <3>1, <3>2
  <2> QED BY <1>2, <2>2, <2>3 DEF StackInv, StackFits, Waiting
<1>4. Scanned(g_newdatabase)' /\ g_newdatabase' # NoDB
  BY <1>1, EmptyIsScanned DEF Scanned, WellFormed, Ordered, NamedOnce
<1>5. DOMAIN g_newdatabase'.m_database = {} /\ g_newdatabase'.m_database = <<>>
  BY <1>1, EmptyIsScanned DEF EmptyDB
<1>6. NewInv'
  <2>1. m_scan_stack' # NoStack
    BY <1>2, SentinelAssumption
  <2> QED BY <1>4, <1>5, <2>1 DEF NewInv, FirstNumbers, OneFileEach, OldNumbers, KeepsNumbers
<1>7. OldInv'
  BY <1>1 DEF OldInv, RunStart, NoOldScan
<1>8. TypeOK'
  <2>1. m_oldscan' \in OldScan /\ m_oldscan'.m_oldscan_dirstate # 2
    BY <1>1 DEF NoOldScan, OldScan
  <2> QED BY <1>1, <1>2, <1>4, <2>1 DEF TypeOK, Scanned, OldScan
<1> QED BY <1>3, <1>6, <1>7, <1>8 DEF DatabaseInv

\* An empty database with nothing offered yet.
LEMMA AfreshFits ==
  ASSUME g_database' = EmptyDB, named' = {}
  PROVE  Scanned(g_database)' /\ NamedInv'
<1>1. Scanned(g_database)'
  BY EmptyIsScanned DEF Scanned, WellFormed, Ordered, NamedOnce
<1>2. DOMAIN g_database'.m_database = {}
  BY EmptyIsScanned
<1> QED BY <1>1, <1>2 DEF NamedInv, Entries

LEMMA RescanKeeps ==
  ASSUME DatabaseInv, NEW dirs \in Seq(Dir), Rescan(dirs), UNCHANGED files,
         sharedDirs' \in Seq(Dir)
  PROVE  DatabaseInv'
<1>1. /\ files' \in [Dir -> [Name -> Version \cup {Absent}]] /\ m_oldscan \in OldScan
      /\ Scanned(g_database) /\ NamedInv
  BY DEF DatabaseInv, TypeOK, OldScan
<1>2. CASE dirs = <<>>
  <2>1. /\ g_database' = EmptyDB /\ named' = {} /\ g_newdatabase' = NoDB
        /\ m_scan_stack' = NoStack /\ scanningFiles' = FALSE /\ m_oldscan' = m_oldscan
    BY <1>2 DEF Rescan, NoScan
  <2>2. Scanned(g_database)' /\ NamedInv'
    BY <2>1, AfreshFits
  <2> QED BY <1>1, <2>1, <2>2, IdleFits
<1>3. CASE dirs # <<>>
  <2>1. BeginScan(dirs) /\ UNCHANGED <<g_database, named>>
    BY <1>3 DEF Rescan
  <2>2. Scanned(g_database)'
    BY <1>1, <2>1 DEF Scanned, WellFormed, Ordered, NamedOnce
  <2>3. NamedInv'
    BY <1>1, <2>1 DEF NamedInv, Entries, Entry
  <2> QED BY <1>1, <2>1, <2>2, <2>3, BeginFits
<1> QED BY <1>2, <1>3

LEMMA RestartKeeps == ASSUME DatabaseInv, Restart PROVE DatabaseInv'
<1>1. /\ files' \in [Dir -> [Name -> Version \cup {Absent}]] /\ sharedDirs' \in Seq(Dir)
      /\ m_oldscan \in OldScan /\ sharedDirs \in Seq(Dir)
      /\ g_database' = EmptyDB /\ named' = {}
  BY DEF DatabaseInv, TypeOK, OldScan, Restart
<1>2. Scanned(g_database)' /\ NamedInv'
  BY <1>1, AfreshFits
<1>3. CASE sharedDirs = <<>>
  <2>1. /\ g_newdatabase' = NoDB /\ m_scan_stack' = NoStack /\ scanningFiles' = FALSE
        /\ m_oldscan' = m_oldscan
    BY <1>3 DEF Restart, NoScan
  <2> QED BY <1>1, <1>2, <2>1, IdleFits
<1>4. CASE sharedDirs # <<>>
  BY <1>1, <1>2, <1>4, BeginFits DEF Restart
<1> QED BY <1>3, <1>4

LEMMA EditKeeps ==
  ASSUME DatabaseInv,
         \/ \E d \in Dir : AddSharedDirectory(d)
         \/ \E i \in 1..MaxEdits : RemoveSharedDirectory(i)
         \/ RescanSharedDirectories
  PROVE  DatabaseInv'
<1>1. sharedDirs \in Seq(Dir)
  BY DEF DatabaseInv, TypeOK
<1>2. /\ sharedDirs' \in Seq(Dir)
      /\ UNCHANGED files /\ (Rescan(sharedDirs') \/ (Rescan(sharedDirs) /\ UNCHANGED sharedDirs))
  <2>1. ASSUME NEW d \in Dir, AddSharedDirectory(d) PROVE <1>2!1 /\ <1>2!2
    <3>1. sharedDirs' = Append(sharedDirs, d) /\ Rescan(sharedDirs') /\ UNCHANGED files
      BY <2>1 DEF AddSharedDirectory
    <3> QED BY <1>1, <3>1, AppendProperties
  <2>2. ASSUME NEW i \in 1..MaxEdits, RemoveSharedDirectory(i) PROVE <1>2!1 /\ <1>2!2
    <3>1. /\ i \in DOMAIN sharedDirs /\ sharedDirs' = RemoveAt(sharedDirs, i)
          /\ Rescan(sharedDirs') /\ UNCHANGED files
      BY <2>2 DEF RemoveSharedDirectory
    <3> QED BY <1>1, <3>1, RemoveProps
  <2>3. CASE RescanSharedDirectories
    BY <1>1, <2>3 DEF RescanSharedDirectories
  <2> QED BY <2>1, <2>2, <2>3
<1>3. CASE Rescan(sharedDirs')
  <2>1. PICK dirs : dirs = sharedDirs'
    OBVIOUS
  <2> QED BY <1>2, <1>3, <2>1, RescanKeeps
<1>4. CASE Rescan(sharedDirs)
  BY <1>1, <1>2, <1>4, RescanKeeps
<1> QED BY <1>2, <1>3, <1>4

LEMMA InitFits == Init => DatabaseInv
<1> SUFFICES ASSUME Init PROVE DatabaseInv
  OBVIOUS
<1>1. /\ files \in [Dir -> [Name -> Version \cup {Absent}]] /\ sharedDirs = <<>>
      /\ g_database = EmptyDB /\ g_newdatabase = NoDB /\ scanningFiles = FALSE
      /\ m_scan_stack = NoStack /\ m_oldscan = NoOldScan /\ named = {}
  BY DEF Init
<1>2. Scanned(g_database) /\ DOMAIN g_database.m_database = {}
  BY <1>1, EmptyIsScanned
<1>3. NamedInv /\ NewInv /\ StackInv /\ OldInv
  BY <1>1, <1>2 DEF NamedInv, NewInv, StackInv, OldInv, Entries
<1>4. TypeOK
  BY <1>1, <1>2 DEF TypeOK, Scanned, NoOldScan
<1> QED BY <1>2, <1>3, <1>4 DEF DatabaseInv

LEMMA DatabaseStep == DatabaseInv /\ [Next]_vars => DatabaseInv'
<1> SUFFICES ASSUME DatabaseInv, [Next]_vars PROVE DatabaseInv'
  OBVIOUS
<1>1. CASE DoScan
  BY <1>1, OpenKeeps, CloseKeeps, PushKeeps, ReadKeeps, SkipKeeps, CompleteKeeps, SwapKeeps
     DEF DoScan
<1>2. CASE \/ \E d \in Dir : AddSharedDirectory(d)
           \/ \E i \in 1..MaxEdits : RemoveSharedDirectory(i)
           \/ RescanSharedDirectories
  BY <1>2, EditKeeps
<1>3. CASE Restart
  BY <1>3, RestartKeeps
<1>4. CASE \E d \in Dir, n \in Name, to \in Version \cup {Absent} : FileChanges(d, n, to)
  BY <1>4, ChangeKeeps
<1>5. CASE UNCHANGED vars
  <2>1. Quiet /\ UNCHANGED <<files, sharedDirs, m_scan_stack>>
    BY <1>5 DEF vars, core, Quiet
  <2>2. \A item : TopFits(item)' <=> TopFits(item)
    BY <2>1 DEF Quiet, TopFits, FoundFor, OldDirOf
  <2>3. StackInv'
    BY <2>1, <2>2 DEF DatabaseInv, StackInv, StackFits
  <2> QED BY <2>1, <2>3, QuietStep DEF DatabaseInv, TypeOK
<1> QED BY <1>1, <1>2, <1>3, <1>4, <1>5 DEF Next

\* The inductive invariant of the two databases and the scan between them.
THEOREM DatabaseInvariant == Spec => []DatabaseInv
BY InitFits, DatabaseStep, PTL DEF Spec

LEMMA GetFileIs ==
  ASSUME NEW db, WellFormed(db), NEW index
  PROVE  \/ GetFile(db, index) = NoDB
         \/ \E x \in DOMAIN db.m_database : /\ db.m_database[x].v_index = index
                                            /\ GetFile(db, index) = Entry(db, x)
<1> DEFINE hits == {x \in DOMAIN db.m_database : db.m_database[x].v_index = index}
<1>1. hits \in SUBSET Nat
  BY DBParts
<1>2. CASE hits = {}
  BY <1>2 DEF GetFile
<1>3. CASE hits # {}
  <2>1. GetFile(db, index) = Entry(db, Min(hits))
    BY <1>3 DEF GetFile
  <2>2. Min(hits) \in hits
    <3> HIDE DEF hits
    <3> QED BY <1>1, <1>3, MinIs
  <2> QED BY <2>1, <2>2
<1> QED BY <1>2, <1>3

LEMMA OffersAreServed == DatabaseInv => RightFileServed
<1> SUFFICES ASSUME DatabaseInv, NEW offer \in named
             PROVE  /\ GetFile(g_database, offer.v_index) \in {offer, NoDB}
                    /\ (scanningFiles /\ UseOldIdx) =>
                         GetFile(g_newdatabase, offer.v_index) \in {offer, NoDB}
  BY DEF RightFileServed
<1>1. NamedInv /\ WellFormed(g_database)
  BY DEF DatabaseInv, Scanned
<1>2. \A x \in DOMAIN g_database.m_database :
        g_database.m_database[x].v_index = offer.v_index => Entry(g_database, x) = offer
  <2>1. \A x \in DOMAIN g_database.m_database :
          /\ Entry(g_database, x).v_index = g_database.m_database[x].v_index
          /\ Entry(g_database, x) \in named
    BY <1>1 DEF NamedInv, Entries, Entry
  <2> QED BY <1>1, <2>1 DEF NamedInv
<1>3. GetFile(g_database, offer.v_index) \in {offer, NoDB}
  BY <1>1, <1>2, GetFileIs
<1>4. ASSUME scanningFiles, UseOldIdx
      PROVE  GetFile(g_newdatabase, offer.v_index) \in {offer, NoDB}
  <2>1. WellFormed(g_newdatabase) /\ OldNumbers(g_newdatabase)
    BY <1>4 DEF DatabaseInv, NewInv, Scanned
  <2>2. ASSUME NEW x \in DOMAIN g_newdatabase.m_database,
               g_newdatabase.m_database[x].v_index = offer.v_index
        PROVE  Entry(g_newdatabase, x) = offer
    <3>1. Entry(g_newdatabase, x) \in Entries(g_database)
      BY <1>1, <1>4, <2>1, <2>2 DEF OldNumbers, NamedInv
    <3>2. Entry(g_newdatabase, x).v_index = offer.v_index
      BY <2>2 DEF Entry
    <3> QED BY <1>1, <3>1, <3>2 DEF NamedInv
  <2> QED BY <2>1, <2>2, GetFileIs
<1> QED BY <1>3, <1>4

LEMMA NumbersGoOn == DatabaseInv => IndexesContinue
<1> SUFFICES ASSUME DatabaseInv, scanningFiles
             PROVE  /\ \A e, f \in Entries(g_newdatabase) : e.v_index = f.v_index => e = f
                    /\ UseOldIdx => \A e \in Entries(g_newdatabase) :
                         Unchanged(e) => e \in Entries(g_database)
  BY DEF IndexesContinue, Unchanged
<1>1. OneFileEach(g_newdatabase) /\ KeepsNumbers(g_newdatabase)
  BY DEF DatabaseInv, NewInv
<1>2. \A p : Entry(g_newdatabase, p).v_index = g_newdatabase.m_database[p].v_index
  BY DEF Entry
<1>3. \A e, f \in Entries(g_newdatabase) : e.v_index = f.v_index => e = f
  BY <1>1, <1>2 DEF OneFileEach, Entries
<1> QED BY <1>1, <1>3 DEF KeepsNumbers, Entries

\* IndexesStayTrue: a peer that asks with an index from any search reply, however many scans
\* ago, never gets another file, and a file that did not change keeps its index
\* (filedb.cpp:664-949, waste_core.cpp:1343-1373).
THEOREM IndexesAreKept == Spec => []IndexesStayTrue
<1>1. DatabaseInv => IndexesStayTrue
  BY OffersAreServed, NumbersGoOn DEF IndexesStayTrue, DatabaseInv
<1> QED BY <1>1, DatabaseInvariant, PTL
-----------------------------------------------------------------------------
(* What is listed                                                          *)

\* What the scan has still to do leads to a place: its directory is to be read, or one above
\* it, or what was read of its directory has the name, or of one above it the next below.
Leads(item, p) ==
  IF item.opened
  THEN \/ item.cur_path = p[1] /\ p[2] \in item.left
       \/ \E c \in item.left \cap Dir : c \in Ancestors(p[1])
  ELSE item.cur_path \in Ancestors(p[1])
AheadOf(stack, p) == {i \in DOMAIN stack : Leads(stack[i], p)}
Ahead(p) == IF m_scan_stack = NoStack THEN {} ELSE AheadOf(m_scan_stack, p)

\* What is left of a directory is inside it.
LeftIs(item) ==
  item.opened =>
    /\ \A c \in item.left \cap Dir : Parent[c] = item.cur_path
    /\ \A n \in item.left \cap Name : <<item.cur_path, n>> \in stable => files[item.cur_path][n] # Absent

ListedRight(p) == \A i \in ListedAt(p) : Entry(g_newdatabase, i).ver = files[p[1]][p[2]]
Balanced(p) == Cardinality(ListedAt(p)) + Cardinality(Ahead(p)) = Cardinality(SharedAbove(p))
ListInv ==
  /\ stable \subseteq Place
  /\ scanningFiles =>
       /\ m_scan_stack # NoStack => \A i \in DOMAIN m_scan_stack : LeftIs(m_scan_stack[i])
       /\ \A p \in stable : ListedRight(p) /\ (files[p[1]][p[2]] # Absent => Balanced(p))

-----------------------------------------------------------------------------
(* The tree of directories                                                 *)

LEMMA AncestorsAre ==
  ASSUME NEW d \in Dir
  PROVE  /\ d \in Ancestors(d) /\ Ancestors(d) \in SUBSET Dir /\ IsUpward(Ancestors(d))
         /\ \A ds \in SUBSET Dir : d \in ds /\ IsUpward(ds) => Ancestors(d) \subseteq ds
<1>1. d \in Ancestors(d)
  BY DEF Ancestors
<1>2. \A ds \in SUBSET Dir : d \in ds /\ IsUpward(ds) => Ancestors(d) \subseteq ds
  BY DEF Ancestors
<1>3. IsUpward(Ancestors(d))
  <2> SUFFICES ASSUME NEW a \in Ancestors(d), Parent[a] \in Dir,
                      NEW ds \in SUBSET Dir, d \in ds, IsUpward(ds)
               PROVE  Parent[a] \in ds
    BY DEF Ancestors, IsUpward
  <2>1. a \in ds
    BY DEF Ancestors
  <2> QED BY <2>1 DEF IsUpward
<1> QED BY <1>1, <1>2, <1>3 DEF Ancestors

\* What is above a directory is itself, or above the one it is in.
LEMMA Upward ==
  ASSUME NEW d \in Dir, NEW a \in Ancestors(d)
  PROVE  a = d \/ (Parent[d] \in Dir /\ a \in Ancestors(Parent[d]))
<1>1. CASE Parent[d] \in Dir
  <2> DEFINE ds == {d} \cup Ancestors(Parent[d])
  <2>1. ds \in SUBSET Dir /\ d \in ds /\ IsUpward(ds)
    BY <1>1, AncestorsAre DEF IsUpward
  <2>2. Ancestors(d) \subseteq ds
    BY <2>1, AncestorsAre
  <2> QED BY <1>1, <2>2
<1>2. CASE Parent[d] \notin Dir
  <2>1. {d} \in SUBSET Dir /\ d \in {d} /\ IsUpward({d})
    BY <1>2 DEF IsUpward
  <2>2. Ancestors(d) \subseteq {d}
    BY <2>1, AncestorsAre
  <2> QED BY <2>2
<1> QED BY <1>1, <1>2

\* Of two that are above a third, one is above the other.
LEMMA OneLine ==
  ASSUME NEW d \in Dir, NEW a \in Ancestors(d), NEW b \in Ancestors(d)
  PROVE  a \in Ancestors(b) \/ b \in Ancestors(a)
<1> DEFINE ds == {c \in Ancestors(d) : a \in Ancestors(c) \/ c \in Ancestors(a)}
<1>1. /\ d \in Ancestors(d) /\ Ancestors(d) \in SUBSET Dir /\ IsUpward(Ancestors(d))
      /\ a \in Dir /\ a \in Ancestors(a) /\ IsUpward(Ancestors(a))
  BY AncestorsAre
<1>2. IsUpward(ds)
  <2> SUFFICES ASSUME NEW c \in ds, Parent[c] \in Dir PROVE Parent[c] \in ds
    BY DEF IsUpward
  <2>1. c \in Dir /\ Parent[c] \in Ancestors(d)
    BY <1>1 DEF IsUpward
  <2>2. CASE c \in Ancestors(a)
    BY <1>1, <2>1, <2>2 DEF IsUpward
  <2>3. CASE a \in Ancestors(c)
    <3>1. a = c \/ a \in Ancestors(Parent[c])
      BY <2>1, <2>3, Upward
    <3>2. CASE a = c
      BY <1>1, <2>2, <3>2
    <3>3. CASE a \in Ancestors(Parent[c])
      BY <2>1, <3>3
    <3> QED BY <3>1, <3>2, <3>3
  <2> QED BY <2>2, <2>3
<1>3. ds \in SUBSET Dir /\ d \in ds
  BY <1>1
<1>4. Ancestors(d) \subseteq ds
  BY <1>2, <1>3, AncestorsAre
<1> QED BY <1>4

\* The directory right below one that leads to a third is the only one of those that does.
LEMMA NextBelow ==
  ASSUME NEW d \in Dir, NEW up \in Dir
  PROVE  /\ up \in Ancestors(d) <=> up = d \/ \E c \in Dir : Parent[c] = up /\ c \in Ancestors(d)
         /\ \A c \in Dir : Parent[c] = up /\ c \in Ancestors(d) => up # d
         /\ \A b, c \in Dir : Parent[b] = up /\ Parent[c] = up /\ b \in Ancestors(d) /\ c \in Ancestors(d) => b = c
<1>1. d \in Ancestors(d) /\ Ancestors(d) \in SUBSET Dir /\ IsUpward(Ancestors(d))
  BY AncestorsAre
<1>2. ASSUME up \in Ancestors(d), up # d PROVE \E c \in Dir : Parent[c] = up /\ c \in Ancestors(d)
  <2> DEFINE ds == {a \in Ancestors(d) : a = d \/ \E c \in Dir : Parent[c] = a /\ c \in Ancestors(d)}
  <2>1. IsUpward(ds)
    BY <1>1 DEF IsUpward
  <2>2. ds \in SUBSET Dir /\ d \in ds
    BY <1>1
  <2>3. Ancestors(d) \subseteq ds
    BY <2>1, <2>2, AncestorsAre
  <2> QED BY <1>2, <2>3
<1>3. ASSUME NEW c \in Dir, Parent[c] = up, c \in Ancestors(d) PROVE up \in Ancestors(d) /\ up # d
  <2>1. up \in Ancestors(d)
    BY <1>1, <1>3 DEF IsUpward
  <2>2. c \notin Ancestors(up)
    BY <1>3, TreeAssumption
  <2> QED BY <1>3, <2>1, <2>2
<1>4. ASSUME NEW b \in Dir, NEW c \in Dir, Parent[b] = up, Parent[c] = up, b \in Ancestors(c), b # c PROVE FALSE
  <2>1. b \in Ancestors(up)
    BY <1>4, Upward
  <2> QED BY <1>4, <2>1, TreeAssumption
<1>5. ASSUME NEW b \in Dir, NEW c \in Dir, Parent[b] = up, Parent[c] = up, b \in Ancestors(d), c \in Ancestors(d) PROVE b = c
  <2>1. b \in Ancestors(c) \/ c \in Ancestors(b)
    BY <1>5, OneLine
  <2> QED BY <1>4, <1>5, <2>1
<1> QED BY <1>1, <1>2, <1>3, <1>5

\* What leads to a place still does when a directory is opened.
LEMMA OpenLeads ==
  ASSUME NEW item, item.cur_path \in Dir, ~item.opened,
         NEW put, put.cur_path = item.cur_path, put.opened, put.left = Inside(item.cur_path)
  PROVE  /\ LeftIs(put)
         /\ \A p \in Place : files[p[1]][p[2]] # Absent => (Leads(put, p) <=> Leads(item, p))
<1> DEFINE d == item.cur_path
<1>1. /\ put.left \cap Dir = {c \in Dir : Parent[c] = d}
      /\ \A n \in Name : n \in put.left <=> files[d][n] # Absent
  BY FileDBAssumption DEF Inside
<1>2. LeftIs(put)
  BY <1>1 DEF LeftIs
<1>3. ASSUME NEW p \in Place, files[p[1]][p[2]] # Absent PROVE Leads(put, p) <=> Leads(item, p)
  <2>1. p[1] \in Dir /\ p[2] \in Name
    BY DEF Place
  <2>2. Leads(item, p) <=> d \in Ancestors(p[1])
    BY DEF Leads
  <2>3. Leads(put, p) <=> d = p[1] \/ \E c \in Dir : Parent[c] = d /\ c \in Ancestors(p[1])
    BY <1>1, <1>3, <2>1 DEF Leads
  <2>4. d \in Ancestors(p[1]) <=> d = p[1] \/ \E c \in Dir : Parent[c] = d /\ c \in Ancestors(p[1])
    BY <2>1, NextBelow
  <2> QED BY <2>2, <2>3, <2>4
<1> QED BY <1>2, <1>3

\* A subdirectory that is read takes over from the directory it is in.
LEMMA SubLeads ==
  ASSUME NEW item, item.opened, LeftIs(item), item.cur_path \in Dir, NEW c \in Dir, c \in item.left,
         NEW put, put.cur_path = item.cur_path, put.opened, put.left = item.left \ {c}
  PROVE  /\ LeftIs(put) /\ LeftIs(Unread(c))
         /\ \A p \in Place : /\ Leads(Unread(c), p) => Leads(item, p) /\ ~Leads(put, p)
                             /\ ~Leads(Unread(c), p) => (Leads(put, p) <=> Leads(item, p))
<1>1. Unread(c).opened = FALSE /\ Unread(c).cur_path = c
  BY DEF Unread
<1>2. LeftIs(put) /\ LeftIs(Unread(c))
  BY <1>1 DEF LeftIs
<1>3. \A b \in item.left \cap Dir : Parent[b] = item.cur_path
  BY DEF LeftIs
<1>4. ASSUME NEW p \in Place PROVE /\ Leads(Unread(c), p) => Leads(item, p) /\ ~Leads(put, p)
                                   /\ ~Leads(Unread(c), p) => (Leads(put, p) <=> Leads(item, p))
  <2>1. p[1] \in Dir /\ p[2] \in Name /\ c # p[2]
    BY FileDBAssumption DEF Place
  <2>2. Leads(Unread(c), p) <=> c \in Ancestors(p[1])
    BY <1>1 DEF Leads
  <2>3. ASSUME c \in Ancestors(p[1]) PROVE Leads(item, p) /\ ~Leads(put, p)
    <3>1. Leads(item, p)
      BY <2>3 DEF Leads
    <3>2. item.cur_path # p[1]
      BY <1>3, <2>1, <2>3, NextBelow
    <3>3. \A b \in put.left \cap Dir : b \notin Ancestors(p[1])
      <4> SUFFICES ASSUME NEW b \in put.left \cap Dir, b \in Ancestors(p[1]) PROVE FALSE
        OBVIOUS
      <4>1. Parent[b] = item.cur_path /\ Parent[c] = item.cur_path /\ b \in Dir /\ b # c
        BY <1>3
      <4> QED BY <2>1, <2>3, <4>1, NextBelow
    <3> QED BY <3>1, <3>2, <3>3 DEF Leads
  <2>4. ASSUME c \notin Ancestors(p[1]) PROVE Leads(put, p) <=> Leads(item, p)
    BY <2>1, <2>4 DEF Leads
  <2> QED BY <2>2, <2>3, <2>4
<1> QED BY <1>2, <1>4

\* A file that is read has been led to.
LEMMA FileLeads ==
  ASSUME NEW item, item.opened, LeftIs(item), item.cur_path \in Dir, NEW n \in Name, n \in item.left,
         NEW put, put.cur_path = item.cur_path, put.opened, put.left = item.left \ {n}
  PROVE  /\ LeftIs(put)
         /\ \A p \in Place : /\ p = <<item.cur_path, n>> => Leads(item, p) /\ ~Leads(put, p)
                             /\ p # <<item.cur_path, n>> => (Leads(put, p) <=> Leads(item, p))
<1>1. \A b \in item.left \cap Dir : Parent[b] = item.cur_path
  BY DEF LeftIs
<1>2. LeftIs(put)
  BY DEF LeftIs
<1>3. ASSUME NEW p \in Place PROVE /\ p = <<item.cur_path, n>> => Leads(item, p) /\ ~Leads(put, p)
                                   /\ p # <<item.cur_path, n>> => (Leads(put, p) <=> Leads(item, p))
  <2>1. p[1] \in Dir /\ p[2] \in Name /\ p = <<p[1], p[2]>>
    BY DEF Place
  <2>2. put.left \cap Dir = item.left \cap Dir
    BY FileDBAssumption
  <2>3. ASSUME p = <<item.cur_path, n>> PROVE Leads(item, p) /\ ~Leads(put, p)
    <3>1. p[1] = item.cur_path /\ p[2] = n
      BY <2>3
    <3>2. \A b \in put.left \cap Dir : b \notin Ancestors(p[1])
      BY <1>1, <2>1, <2>2, <3>1, NextBelow
    <3> QED BY <3>1, <3>2 DEF Leads
  <2>4. ASSUME p # <<item.cur_path, n>> PROVE Leads(put, p) <=> Leads(item, p)
    <3>1. item.cur_path # p[1] \/ p[2] # n
      BY <2>1, <2>4
    <3> QED BY <2>2, <3>1 DEF Leads
  <2> QED BY <2>3, <2>4
<1> QED BY <1>2, <1>3

-----------------------------------------------------------------------------
(* How often the scan leads to a place                                     *)

UpTo(stack, p, k) == {i \in 1..k : Leads(stack[i], p)}
One(b) == IF b THEN 1 ELSE 0

LEMMA CountNext ==
  ASSUME NEW stack, NEW p, NEW k \in Nat
  PROVE  /\ IsFiniteSet(UpTo(stack, p, k)) /\ Cardinality(UpTo(stack, p, k)) \in Nat
         /\ Cardinality(UpTo(stack, p, k + 1)) = Cardinality(UpTo(stack, p, k)) + One(Leads(stack[k + 1], p))
<1>1. IsFiniteSet(UpTo(stack, p, k))
  <2>1. IsFiniteSet(1..k)
    BY FS_Interval
  <2>2. UpTo(stack, p, k) \subseteq 1..k
    BY DEF UpTo
  <2> QED BY <2>1, <2>2, FS_Subset
<1>2. Cardinality(UpTo(stack, p, k)) \in Nat
  BY <1>1, FS_CardinalityType
<1>3. CASE Leads(stack[k + 1], p)
  <2>1. UpTo(stack, p, k + 1) = UpTo(stack, p, k) \cup {k + 1} /\ k + 1 \notin UpTo(stack, p, k)
    BY <1>3 DEF UpTo
  <2>2. Cardinality(UpTo(stack, p, k + 1)) = Cardinality(UpTo(stack, p, k)) + 1
    BY <1>1, <2>1, FS_AddElement
  <2> QED BY <1>1, <1>2, <1>3, <2>2 DEF One
<1>4. CASE ~Leads(stack[k + 1], p)
  <2>1. UpTo(stack, p, k + 1) = UpTo(stack, p, k)
    BY <1>4 DEF UpTo
  <2> QED BY <1>1, <1>2, <1>4, <2>1 DEF One
<1> QED BY <1>3, <1>4

LEMMA AheadIs ==
  ASSUME NEW stack \in Seq(Item), NEW p
  PROVE  /\ AheadOf(stack, p) = UpTo(stack, p, Len(stack)) /\ Len(stack) \in Nat
         /\ IsFiniteSet(AheadOf(stack, p)) /\ Cardinality(AheadOf(stack, p)) \in Nat
<1>1. Len(stack) \in Nat /\ DOMAIN stack = 1..Len(stack)
  BY LenProperties
<1>2. AheadOf(stack, p) = UpTo(stack, p, Len(stack))
  BY <1>1 DEF AheadOf, UpTo
<1> QED BY <1>1, <1>2, CountNext

\* The item on top is another.
LEMMA TopCounts ==
  ASSUME NEW old \in Seq(Item), old # <<>>, NEW new \in Seq(Item), Len(new) = Len(old),
         \A i \in 1..(Len(old) - 1) : new[i] = old[i], NEW p
  PROVE  Cardinality(AheadOf(new, p)) + One(Leads(old[Len(old)], p))
           = Cardinality(AheadOf(old, p)) + One(Leads(new[Len(old)], p))
<1> DEFINE k == Len(old) - 1
<1>1. k \in Nat /\ Len(old) = k + 1
  BY LenProperties, EmptySeq
<1>2. UpTo(new, p, k) = UpTo(old, p, k)
  BY DEF UpTo
<1>3. /\ AheadOf(old, p) = UpTo(old, p, Len(old)) /\ Cardinality(AheadOf(old, p)) \in Nat
      /\ AheadOf(new, p) = UpTo(new, p, Len(new)) /\ Cardinality(AheadOf(new, p)) \in Nat
  BY AheadIs
<1> HIDE DEF k
<1>4. /\ Cardinality(UpTo(old, p, k + 1)) = Cardinality(UpTo(old, p, k)) + One(Leads(old[k + 1], p))
      /\ Cardinality(UpTo(new, p, k + 1)) = Cardinality(UpTo(new, p, k)) + One(Leads(new[k + 1], p))
      /\ Cardinality(UpTo(old, p, k)) \in Nat
  BY <1>1, CountNext
<1>5. One(Leads(old[k + 1], p)) \in Nat /\ One(Leads(new[k + 1], p)) \in Nat
  BY DEF One
<1> QED BY <1>1, <1>2, <1>3, <1>4, <1>5

\* An item is put under the top.
LEMMA PushCounts ==
  ASSUME NEW old \in Seq(Item), old # <<>>, NEW new \in Seq(Item), Len(new) = Len(old) + 1,
         \A i \in 1..(Len(old) - 1) : new[i] = old[i], NEW p
  PROVE  Cardinality(AheadOf(new, p)) + One(Leads(old[Len(old)], p))
           = Cardinality(AheadOf(old, p)) + One(Leads(new[Len(old)], p)) + One(Leads(new[Len(old) + 1], p))
<1> DEFINE k == Len(old) - 1
<1>1. k \in Nat /\ k + 1 \in Nat /\ Len(old) = k + 1
  BY LenProperties, EmptySeq
<1>2. UpTo(new, p, k) = UpTo(old, p, k)
  BY DEF UpTo
<1>3. /\ AheadOf(old, p) = UpTo(old, p, Len(old)) /\ Cardinality(AheadOf(old, p)) \in Nat
      /\ AheadOf(new, p) = UpTo(new, p, Len(new)) /\ Cardinality(AheadOf(new, p)) \in Nat
  BY AheadIs
<1> HIDE DEF k
<1>4. /\ Cardinality(UpTo(old, p, k + 1)) = Cardinality(UpTo(old, p, k)) + One(Leads(old[k + 1], p))
      /\ Cardinality(UpTo(new, p, k + 1)) = Cardinality(UpTo(new, p, k)) + One(Leads(new[k + 1], p))
      /\ Cardinality(UpTo(old, p, k)) \in Nat
  BY <1>1, CountNext
<1>5. /\ Cardinality(UpTo(new, p, (k + 1) + 1)) = Cardinality(UpTo(new, p, k + 1)) + One(Leads(new[(k + 1) + 1], p))
      /\ Cardinality(UpTo(new, p, k + 1)) \in Nat
  BY <1>1, CountNext
<1>6. /\ One(Leads(old[k + 1], p)) \in Nat /\ One(Leads(new[k + 1], p)) \in Nat /\ One(Leads(new[(k + 1) + 1], p)) \in Nat
  BY DEF One
<1> DEFINE least == Cardinality(UpTo(old, p, k))
           was == One(Leads(old[k + 1], p))  put == One(Leads(new[k + 1], p))  top == One(Leads(new[(k + 1) + 1], p))
           before == Cardinality(AheadOf(old, p))  after == Cardinality(AheadOf(new, p))
<1>7. before = least + was /\ after = (least + put) + top
  BY <1>1, <1>2, <1>3, <1>4, <1>5, Zenon
<1>8. least \in Nat /\ was \in Nat /\ put \in Nat /\ top \in Nat
  BY <1>4, <1>6
<1> HIDE DEF least, was, put, top, before, after
<1>9. after + was = before + put + top
  BY <1>7, <1>8
<1> QED BY <1>1, <1>9 DEF was, put, top, before, after

\* The item on top goes.
LEMMA PopCounts ==
  ASSUME NEW old \in Seq(Item), old # <<>>, NEW new \in Seq(Item), Len(new) = Len(old) - 1,
         \A i \in 1..(Len(old) - 1) : new[i] = old[i], NEW p
  PROVE  Cardinality(AheadOf(old, p)) = Cardinality(AheadOf(new, p)) + One(Leads(old[Len(old)], p))
<1> DEFINE k == Len(old) - 1
<1>1. k \in Nat /\ Len(old) = k + 1
  BY LenProperties, EmptySeq
<1>2. UpTo(new, p, k) = UpTo(old, p, k)
  BY DEF UpTo
<1>3. AheadOf(old, p) = UpTo(old, p, Len(old)) /\ AheadOf(new, p) = UpTo(new, p, Len(new))
  BY AheadIs
<1> HIDE DEF k
<1>4. Cardinality(UpTo(old, p, k + 1)) = Cardinality(UpTo(old, p, k)) + One(Leads(old[k + 1], p))
  BY <1>1, CountNext
<1> QED BY <1>1, <1>2, <1>3, <1>4

-----------------------------------------------------------------------------
(* The scan lists what it comes to                                         *)

LEMMA ReplacedCounts ==
  ASSUME DatabaseInv, ListInv, Scanning, NEW put \in Item, m_scan_stack' = Replaced(put),
         UNCHANGED <<files, stable>>, LeftIs(put)
  PROVE  /\ \A i \in DOMAIN m_scan_stack' : LeftIs(m_scan_stack[i])'
         /\ \A p : /\ Cardinality(Ahead(p)') + One(Leads(Top, p)) = Cardinality(Ahead(p)) + One(Leads(put, p))
                   /\ Cardinality(Ahead(p)') \in Nat /\ Cardinality(Ahead(p)) \in Nat
<1>1. /\ scanningFiles /\ m_scan_stack \in Seq(Item) /\ m_scan_stack # <<>> /\ m_scan_stack # NoStack
      /\ Len(m_scan_stack) \in Nat \ {0}
  BY TopIs
<1>2. /\ m_scan_stack' \in Seq(Item) /\ Len(m_scan_stack') = Len(m_scan_stack)
      /\ m_scan_stack'[Len(m_scan_stack)] = put
      /\ \A i \in 1..(Len(m_scan_stack) - 1) : m_scan_stack'[i] = m_scan_stack[i]
  BY <1>1, ReplacedIs
<1>3. m_scan_stack' # NoStack
  BY <1>2, SentinelAssumption
<1>4. \A i \in DOMAIN m_scan_stack : LeftIs(m_scan_stack[i])
  BY <1>1 DEF ListInv
<1>5. DOMAIN m_scan_stack = 1..Len(m_scan_stack) /\ DOMAIN m_scan_stack' = 1..Len(m_scan_stack)
  BY <1>1, <1>2, LenProperties
<1>6. ASSUME NEW i \in DOMAIN m_scan_stack' PROVE LeftIs(m_scan_stack[i])'
  <2>1. LeftIs(m_scan_stack'[i])
    <3>1. CASE i = Len(m_scan_stack)
      BY <1>2, <3>1
    <3>2. CASE i # Len(m_scan_stack)
      <4>1. i \in 1..(Len(m_scan_stack) - 1) /\ i \in DOMAIN m_scan_stack
        BY <1>1, <1>5, <3>2
      <4> QED BY <1>2, <1>4, <4>1
    <3> QED BY <3>1, <3>2
  <2> QED BY <2>1 DEF LeftIs
<1>7. ASSUME NEW p
      PROVE  /\ Cardinality(Ahead(p)') + One(Leads(Top, p)) = Cardinality(Ahead(p)) + One(Leads(put, p))
             /\ Cardinality(Ahead(p)') \in Nat /\ Cardinality(Ahead(p)) \in Nat
  <2>1. Ahead(p)' = AheadOf(m_scan_stack', p) /\ Ahead(p) = AheadOf(m_scan_stack, p)
    BY <1>1, <1>3 DEF Ahead
  <2>2. Cardinality(AheadOf(m_scan_stack', p)) + One(Leads(m_scan_stack[Len(m_scan_stack)], p))
          = Cardinality(AheadOf(m_scan_stack, p)) + One(Leads(m_scan_stack'[Len(m_scan_stack)], p))
    BY <1>1, <1>2, TopCounts
  <2>3. Cardinality(AheadOf(m_scan_stack', p)) \in Nat /\ Cardinality(AheadOf(m_scan_stack, p)) \in Nat
    BY <1>1, <1>2, AheadIs
  <2> QED BY <1>2, <2>1, <2>2, <2>3 DEF Top
<1> QED BY <1>6, <1>7

\* Only what is ahead changes, and leads as often to what is there.
LEMMA AheadSame ==
  ASSUME ListInv, scanningFiles, UNCHANGED <<files, sharedDirs, g_newdatabase, scanningFiles>>,
         stable' \subseteq stable,
         m_scan_stack' # NoStack => \A i \in DOMAIN m_scan_stack' : LeftIs(m_scan_stack[i])',
         \A p \in stable' : files[p[1]][p[2]] # Absent => Cardinality(Ahead(p)') = Cardinality(Ahead(p))
  PROVE  ListInv'
<1>1. \A p : ListedAt(p)' = ListedAt(p) /\ SharedAbove(p)' = SharedAbove(p)
  BY DEF ListedAt, Entry, SharedAbove
<1>2. ASSUME NEW p \in stable' PROVE ListedRight(p)' /\ (files[p[1]][p[2]] # Absent => Balanced(p)')
  <2>1. ListedRight(p) /\ (files[p[1]][p[2]] # Absent => Balanced(p))
    BY DEF ListInv
  <2>2. ListedRight(p)'
    BY <1>1, <2>1 DEF ListedRight, Entry
  <2>3. ASSUME files[p[1]][p[2]] # Absent PROVE Balanced(p)'
    BY <1>1, <2>1, <2>3 DEF Balanced
  <2> QED BY <2>2, <2>3
<1> QED BY <1>2 DEF ListInv

LEMMA OpenLists == ASSUME DatabaseInv, ListInv, OpenDir PROVE ListInv'
<1> DEFINE put == [Top EXCEPT !.opened = TRUE, !.left = Inside(Top.cur_path)]
<1>1. /\ Scanning /\ ~Top.opened /\ m_scan_stack' = Replaced(put)
      /\ UNCHANGED <<files, sharedDirs, g_newdatabase, scanningFiles, stable>>
  BY DEF OpenDir
<1>2. Top \in Item /\ scanningFiles
  BY <1>1, TopIs
<1>3. /\ put \in Item /\ put.cur_path = Top.cur_path /\ put.opened /\ put.left = Inside(Top.cur_path)
      /\ Top.cur_path \in Dir
  BY <1>2 DEF Item, Inside
<1> HIDE DEF put
<1>4. /\ LeftIs(put)
      /\ \A p \in Place : files[p[1]][p[2]] # Absent => (Leads(put, p) <=> Leads(Top, p))
  BY <1>1, <1>3, OpenLeads
<1>5. /\ \A i \in DOMAIN m_scan_stack' : LeftIs(m_scan_stack[i])'
      /\ \A p : /\ Cardinality(Ahead(p)') + One(Leads(Top, p)) = Cardinality(Ahead(p)) + One(Leads(put, p))
                /\ Cardinality(Ahead(p)') \in Nat /\ Cardinality(Ahead(p)) \in Nat
  BY <1>1, <1>3, <1>4, ReplacedCounts
<1>6. ASSUME NEW p \in stable, files[p[1]][p[2]] # Absent PROVE Cardinality(Ahead(p)') = Cardinality(Ahead(p))
  <2>1. p \in Place
    BY DEF ListInv
  <2>2. One(Leads(put, p)) = One(Leads(Top, p)) /\ One(Leads(Top, p)) \in Nat
    BY <1>4, <1>6, <2>1 DEF One
  <2>3. /\ Cardinality(Ahead(p)') + One(Leads(Top, p)) = Cardinality(Ahead(p)) + One(Leads(put, p))
        /\ Cardinality(Ahead(p)') \in Nat /\ Cardinality(Ahead(p)) \in Nat
    BY <1>5
  <2> QED BY <2>2, <2>3
<1> QED BY <1>1, <1>2, <1>5, <1>6, AheadSame

LEMMA SkipLists == ASSUME DatabaseInv, ListInv, NEW n \in Name, ReadNothing(n) PROVE ListInv'
<1> DEFINE put == [Top EXCEPT !.left = @ \ {n}]
<1>1. /\ Scanning /\ Top.opened /\ n \in Top.left /\ files[Top.cur_path][n] = Absent /\ m_scan_stack' = Replaced(put)
      /\ UNCHANGED <<files, sharedDirs, g_newdatabase, scanningFiles, stable>>
  BY DEF ReadNothing
<1>2. Top \in Item /\ scanningFiles /\ LeftIs(Top)
  <2>1. Top \in Item /\ scanningFiles /\ m_scan_stack # NoStack /\ Len(m_scan_stack) \in DOMAIN m_scan_stack
    BY <1>1, TopIs, LenProperties
  <2> QED BY <2>1 DEF ListInv, Top
<1>3. /\ put \in Item /\ put.cur_path = Top.cur_path /\ put.opened /\ put.left = Top.left \ {n}
      /\ Top.cur_path \in Dir
  BY <1>1, <1>2 DEF Item
<1> HIDE DEF put
<1>4. /\ LeftIs(put)
      /\ \A p \in Place : p # <<Top.cur_path, n>> => (Leads(put, p) <=> Leads(Top, p))
  BY <1>1, <1>2, <1>3, FileLeads
<1>5. /\ \A i \in DOMAIN m_scan_stack' : LeftIs(m_scan_stack[i])'
      /\ \A p : /\ Cardinality(Ahead(p)') + One(Leads(Top, p)) = Cardinality(Ahead(p)) + One(Leads(put, p))
                /\ Cardinality(Ahead(p)') \in Nat /\ Cardinality(Ahead(p)) \in Nat
  BY <1>1, <1>3, <1>4, ReplacedCounts
<1>6. ASSUME NEW p \in stable, files[p[1]][p[2]] # Absent PROVE Cardinality(Ahead(p)') = Cardinality(Ahead(p))
  <2>1. p \in Place
    BY DEF ListInv
  <2>2. p # <<Top.cur_path, n>>
    BY <1>1, <1>6
  <2>3. One(Leads(put, p)) = One(Leads(Top, p)) /\ One(Leads(Top, p)) \in Nat
    BY <1>4, <2>1, <2>2 DEF One
  <2>4. /\ Cardinality(Ahead(p)') + One(Leads(Top, p)) = Cardinality(Ahead(p)) + One(Leads(put, p))
        /\ Cardinality(Ahead(p)') \in Nat /\ Cardinality(Ahead(p)) \in Nat
    BY <1>5
  <2> QED BY <2>3, <2>4
<1> QED BY <1>1, <1>2, <1>5, <1>6, AheadSame


LEMMA PushLists == ASSUME DatabaseInv, ListInv, NEW c \in Dir, ReadSubdirectory(c) PROVE ListInv'
<1> DEFINE put == [Top EXCEPT !.left = @ \ {c}]
           k == Len(m_scan_stack)
<1>1. /\ Scanning /\ Top.opened /\ c \in Top.left
      /\ m_scan_stack' = InsertAt(Replaced(put), k, Unread(c))
      /\ UNCHANGED <<files, sharedDirs, g_newdatabase, scanningFiles, stable>>
  BY DEF ReadSubdirectory
<1>2. /\ Top \in Item /\ scanningFiles /\ m_scan_stack \in Seq(Item) /\ m_scan_stack # <<>>
      /\ m_scan_stack # NoStack /\ k \in Nat \ {0} /\ LeftIs(Top)
      /\ \A i \in 1..k : LeftIs(m_scan_stack[i])
  <2>1. /\ Top \in Item /\ scanningFiles /\ m_scan_stack # NoStack /\ k \in DOMAIN m_scan_stack
        /\ m_scan_stack \in Seq(Item) /\ m_scan_stack # <<>> /\ k \in Nat \ {0}
        /\ DOMAIN m_scan_stack = 1..k
    BY <1>1, TopIs, LenProperties
  <2> QED BY <2>1 DEF ListInv, Top
<1>3. /\ put \in Item /\ put.cur_path = Top.cur_path /\ put.opened /\ put.left = Top.left \ {c}
      /\ Top.cur_path \in Dir
  BY <1>1, <1>2 DEF Item
<1> HIDE DEF put
<1>4. /\ LeftIs(put) /\ LeftIs(Unread(c))
      /\ \A p \in Place : /\ Leads(Unread(c), p) => Leads(Top, p) /\ ~Leads(put, p)
                          /\ ~Leads(Unread(c), p) => (Leads(put, p) <=> Leads(Top, p))
  BY <1>1, <1>2, <1>3, SubLeads
<1>5. PICK s, u : s = Replaced(put) /\ u = Unread(c)
  OBVIOUS
<1>6. u \in Item
  BY <1>5 DEF Unread, Item
<1>7. /\ s \in Seq(Item) /\ Len(s) = k /\ s[k] = put
      /\ \A i \in 1..(k - 1) : s[i] = m_scan_stack[i]
  BY <1>2, <1>3, <1>5, ReplacedIs
<1> HIDE DEF k
<1>8. /\ m_scan_stack' \in Seq(Item) /\ Len(m_scan_stack') = k + 1
      /\ \A j \in 1..(k + 1) :
           m_scan_stack'[j] = IF j < k THEN s[j] ELSE IF j = k THEN u ELSE s[j - 1]
  <2>1. k \in 1..Len(s)
    BY <1>2, <1>7
  <2>2. InsertAt(s, k, u) \in Seq(Item) /\ HasInserted(InsertAt(s, k, u), s, k, u)
    BY <1>6, <1>7, <2>1, InsertProps
  <2>3. m_scan_stack' = InsertAt(s, k, u)
    BY <1>1, <1>5
  <2> QED BY <1>7, <2>2, <2>3 DEF HasInserted
<1>9. /\ m_scan_stack'[k] = u /\ m_scan_stack'[k + 1] = put
      /\ \A i \in 1..(k - 1) : m_scan_stack'[i] = m_scan_stack[i]
  BY <1>2, <1>7, <1>8
<1>10. DOMAIN m_scan_stack' = 1..(k + 1) /\ m_scan_stack' # NoStack
  BY <1>8, LenProperties, SentinelAssumption
<1>11. ASSUME NEW i \in DOMAIN m_scan_stack' PROVE LeftIs(m_scan_stack[i])'
  <2>1. LeftIs(m_scan_stack'[i])
    <3>1. CASE i = k
      BY <1>4, <1>5, <1>9, <3>1
    <3>2. CASE i = k + 1
      BY <1>4, <1>9, <3>2
    <3>3. CASE i # k /\ i # k + 1
      <4>1. i \in 1..(k - 1) /\ i \in 1..k
        BY <1>2, <1>10, <3>3
      <4> QED BY <1>2, <1>9, <4>1
    <3> QED BY <3>1, <3>2, <3>3
  <2> QED BY <1>1, <2>1 DEF LeftIs
<1>12. ASSUME NEW p \in stable PROVE Cardinality(Ahead(p)') = Cardinality(Ahead(p))
  <2>1. p \in Place
    BY DEF ListInv
  <2>2. Ahead(p)' = AheadOf(m_scan_stack', p) /\ Ahead(p) = AheadOf(m_scan_stack, p)
    BY <1>2, <1>10 DEF Ahead
  <2>3. Cardinality(AheadOf(m_scan_stack', p)) + One(Leads(m_scan_stack[Len(m_scan_stack)], p))
          = Cardinality(AheadOf(m_scan_stack, p)) + One(Leads(m_scan_stack'[Len(m_scan_stack)], p))
              + One(Leads(m_scan_stack'[Len(m_scan_stack) + 1], p))
    BY <1>2, <1>8, <1>9, PushCounts DEF k
  <2>4. Cardinality(AheadOf(m_scan_stack', p)) \in Nat /\ Cardinality(AheadOf(m_scan_stack, p)) \in Nat
    BY <1>2, <1>8, AheadIs
  <2>5. Cardinality(Ahead(p)') + One(Leads(Top, p)) = Cardinality(Ahead(p)) + One(Leads(u, p)) + One(Leads(put, p))
    BY <1>9, <2>2, <2>3 DEF Top, k
  <2>6. One(Leads(u, p)) + One(Leads(put, p)) = One(Leads(Top, p)) /\ One(Leads(Top, p)) \in Nat
        /\ One(Leads(u, p)) \in Nat /\ One(Leads(put, p)) \in Nat
    BY <1>4, <1>5, <2>1 DEF One
  <2> QED BY <2>2, <2>4, <2>5, <2>6
<1> QED BY <1>1, <1>2, <1>11, <1>12, AheadSame

\* A directory that does not open leads to none of the places that are still asked for.
LEMMA CloseLists == ASSUME DatabaseInv, ListInv, CloseDir \/ OpenFails PROVE ListInv'
<1> DEFINE k == Len(m_scan_stack)
<1>1. /\ Scanning /\ m_scan_stack' = Front(m_scan_stack)
      /\ UNCHANGED <<files, sharedDirs, g_newdatabase, scanningFiles>>
      /\ stable' \subseteq stable
      /\ \A p \in stable' : ~Leads(Top, p)
  BY DEF CloseDir, OpenFails, Leads
<1>2. /\ scanningFiles /\ m_scan_stack \in Seq(Item) /\ m_scan_stack # <<>> /\ m_scan_stack # NoStack
      /\ \A i \in 1..k : LeftIs(m_scan_stack[i])
  <2>1. /\ scanningFiles /\ m_scan_stack # NoStack /\ m_scan_stack \in Seq(Item) /\ m_scan_stack # <<>>
        /\ DOMAIN m_scan_stack = 1..k
    BY <1>1, TopIs, LenProperties
  <2> QED BY <2>1 DEF ListInv
<1>3. /\ m_scan_stack' \in Seq(Item) /\ Len(m_scan_stack') = k - 1 /\ k \in Nat \ {0}
      /\ \A i \in 1..(k - 1) : m_scan_stack'[i] = m_scan_stack[i]
  BY <1>1, <1>2, FrontProps
<1>4. DOMAIN m_scan_stack' = 1..(k - 1) /\ m_scan_stack' # NoStack
  BY <1>3, LenProperties, SentinelAssumption
<1>5. ASSUME NEW i \in DOMAIN m_scan_stack' PROVE LeftIs(m_scan_stack[i])'
  <2>1. i \in 1..(k - 1) /\ i \in 1..k
    BY <1>3, <1>4
  <2>2. LeftIs(m_scan_stack'[i])
    BY <1>2, <1>3, <2>1
  <2> QED BY <1>1, <2>2 DEF LeftIs
<1>6. ASSUME NEW p \in stable' PROVE Cardinality(Ahead(p)') = Cardinality(Ahead(p))
  <2>1. Ahead(p)' = AheadOf(m_scan_stack', p) /\ Ahead(p) = AheadOf(m_scan_stack, p)
    BY <1>2, <1>4 DEF Ahead
  <2>2. Cardinality(AheadOf(m_scan_stack, p)) = Cardinality(AheadOf(m_scan_stack', p)) + One(Leads(m_scan_stack[Len(m_scan_stack)], p))
    BY <1>2, <1>3, PopCounts
  <2>3. ~Leads(Top, p)
    BY <1>1
  <2>4. One(Leads(m_scan_stack[Len(m_scan_stack)], p)) = 0
    BY <2>3 DEF One, Top
  <2>5. Cardinality(AheadOf(m_scan_stack', p)) \in Nat
    BY <1>3, AheadIs
  <2> QED BY <2>1, <2>2, <2>4, <2>5
<1> QED BY <1>1, <1>2, <1>5, <1>6, AheadSame

LEMMA CompleteLists == ASSUME DatabaseInv, ListInv, ScanComplete PROVE ListInv'
<1>1. /\ scanningFiles /\ m_scan_stack = <<>> /\ m_scan_stack' = NoStack
      /\ g_newdatabase' = [g_newdatabase EXCEPT !.m_scanidx_gpos = ScanPos]
      /\ UNCHANGED <<files, sharedDirs, scanningFiles, stable>>
  BY DEF ScanComplete
<1>2. m_scan_stack # NoStack
  BY <1>1, SentinelAssumption, EmptySeq
<1>3. g_newdatabase'.m_database = g_newdatabase.m_database /\ g_newdatabase'.m_dir_index = g_newdatabase.m_dir_index
  BY <1>1 DEF DatabaseInv, NewInv, Scanned, WellFormed, DB
<1>4. \A i : Entry(g_newdatabase, i)' = Entry(g_newdatabase, i)
  BY <1>3 DEF Entry
<1>5. ASSUME NEW p PROVE ListedAt(p)' = ListedAt(p) /\ SharedAbove(p)' = SharedAbove(p) /\ Ahead(p)' = Ahead(p)
  <2>1. ListedAt(p)' = ListedAt(p)
    BY <1>3, <1>4 DEF ListedAt
  <2>2. SharedAbove(p)' = SharedAbove(p)
    BY <1>1 DEF SharedAbove
  <2>3. Ahead(p) = AheadOf(<<>>, p) /\ Ahead(p)' = {}
    BY <1>1, <1>2 DEF Ahead
  <2>4. AheadOf(<<>>, p) = {}
    BY DEF AheadOf
  <2> QED BY <2>1, <2>2, <2>3, <2>4
<1>6. ASSUME NEW p \in stable PROVE ListedRight(p)' /\ (files[p[1]][p[2]] # Absent => Balanced(p)')
  <2>1. ListedRight(p) /\ (files[p[1]][p[2]] # Absent => Balanced(p))
    BY <1>1 DEF ListInv
  <2>2. ListedRight(p)'
    BY <1>1, <1>4, <1>5, <2>1 DEF ListedRight
  <2>3. ASSUME files[p[1]][p[2]] # Absent PROVE Balanced(p)'
    BY <1>5, <2>1, <2>3 DEF Balanced
  <2> QED BY <2>2, <2>3
<1> QED BY <1>1, <1>6 DEF ListInv

LEMMA IdleLists == ASSUME stable' \subseteq Place, scanningFiles' = FALSE PROVE ListInv'
BY DEF ListInv, Place

LEMMA BeginLists ==
  ASSUME NEW dirs, sharedDirs' = dirs, dirs \in Seq(Dir), BeginScan(dirs)
  PROVE  ListInv'
<1>1. /\ g_newdatabase' = EmptyDB /\ stable' = Place
      /\ m_scan_stack' = [i \in DOMAIN dirs |-> Unread(dirs[i])]
  BY DEF BeginScan
<1>2. /\ DOMAIN m_scan_stack' = DOMAIN dirs /\ \A i \in DOMAIN dirs : m_scan_stack'[i] = Unread(dirs[i])
  BY <1>1
<1>3. m_scan_stack' \in Seq(Item)
  <2>1. Len(dirs) \in Nat /\ DOMAIN dirs = 1..Len(dirs) /\ \A i \in 1..Len(dirs) : dirs[i] \in Dir
    BY LenProperties
  <2>2. \A i \in 1..Len(dirs) : Unread(dirs[i]) \in Item
    BY <2>1 DEF Unread, Item
  <2> QED BY <1>1, <2>1, <2>2, IsASeq
<1>4. m_scan_stack' # NoStack
  BY <1>3, SentinelAssumption
<1>5. \A d : ~Unread(d).opened /\ Unread(d).cur_path = d
  BY DEF Unread
<1>6. ASSUME NEW i \in DOMAIN m_scan_stack' PROVE LeftIs(m_scan_stack[i])'
  BY <1>2, <1>5 DEF LeftIs
<1>7. ASSUME NEW p PROVE ListedAt(p)' = {} /\ Ahead(p)' = SharedAbove(p)'
  <2>1. ListedAt(p)' = {}
    BY <1>1, EmptyIsScanned DEF ListedAt
  <2>2. Ahead(p)' = AheadOf(m_scan_stack', p)
    BY <1>4 DEF Ahead
  <2>3. \A i \in DOMAIN dirs : Leads(m_scan_stack'[i], p) <=> dirs[i] \in Ancestors(p[1])
    BY <1>2, <1>5 DEF Leads
  <2>4. AheadOf(m_scan_stack', p) = {i \in DOMAIN dirs : dirs[i] \in Ancestors(p[1])}
    BY <1>2, <2>3 DEF AheadOf
  <2> QED BY <2>1, <2>2, <2>4 DEF SharedAbove
<1>8. ASSUME NEW p PROVE ListedRight(p)' /\ Balanced(p)'
  <2>1. Cardinality(ListedAt(p)') = 0
    BY <1>7, FS_EmptySet
  <2>2. Cardinality(Ahead(p)') \in Nat
    <3>1. Ahead(p)' = AheadOf(m_scan_stack', p)
      BY <1>4 DEF Ahead
    <3> QED BY <1>3, <3>1, AheadIs
  <2>3. Balanced(p)'
    BY <1>7, <2>1, <2>2 DEF Balanced
  <2> QED BY <1>7, <2>3 DEF ListedRight
<1> QED BY <1>1, <1>6, <1>8 DEF ListInv

\* A file that is read is listed behind what was.
LEMMA Entered ==
  ASSUME DatabaseInv, Scanning, Top.opened, NEW n \in Name, n \in Top.left, NEW ver \in Version, EnterFile(n, ver)
  PROVE  LET db == g_newdatabase
             k == Len(g_newdatabase.m_database) + 1
         IN  /\ DOMAIN db'.m_database = DOMAIN db.m_database \cup {k} /\ k \notin DOMAIN db.m_database
             /\ \A x \in DOMAIN db.m_database : Entry(db', x) = Entry(db, x)
             /\ Entry(db', k).dir = Top.cur_path /\ Entry(db', k).file = n /\ Entry(db', k).ver = ver
             /\ \E put \in Item : /\ put.cur_path = Top.cur_path /\ put.opened /\ put.left = Top.left \ {n}
                                  /\ m_scan_stack' = Replaced(put)
<1>1. /\ Top \in Item /\ TopFits(Top) /\ WellFormed(g_newdatabase)
  BY TopIs DEF DatabaseInv, NewInv, Scanned
<1>2. PICK item, db : item = Top /\ db = g_newdatabase
  OBVIOUS
<1>3. PICK d, first : d = item.cur_path /\ first = (item.dir_index = 0)
  OBVIOUS
<1>4. PICK dirs : dirs = IF first THEN Append(db.m_dir_index, d) ELSE db.m_dir_index
  OBVIOUS
<1>5. PICK di : di = IF first THEN Len(dirs) ELSE item.dir_index
  OBVIOUS
<1>6. PICK v, gpos :
        /\ g_newdatabase' = [m_database |-> Append(db.m_database,
                               [dir_index |-> di, file |-> n, ver |-> ver, v_index |-> v]),
                             m_dir_index |-> dirs, m_scanidx_gpos |-> gpos]
        /\ m_scan_stack' = Replaced([item EXCEPT !.left = @ \ {n}, !.dir_index = di])
  BY <1>2, <1>3, <1>4, <1>5, Zenon DEF EnterFile
<1>7. /\ item \in Item /\ d \in Dir /\ item.cur_path = d /\ item.opened /\ item.left \in SUBSET (Name \cup Dir)
      /\ item.dir_index \in Nat
  BY <1>1, <1>2, <1>3 DEF Item
<1>8. /\ db.m_database \in Seq(FileRec) /\ Len(db.m_database) \in Nat
      /\ DOMAIN db.m_database = 1..Len(db.m_database)
      /\ db.m_dir_index \in Seq(Dir) /\ Len(db.m_dir_index) \in Nat
      /\ \A x \in DOMAIN db.m_database : db.m_database[x].dir_index \in 1..Len(db.m_dir_index)
  BY <1>1, <1>2, DBParts
<1>9. /\ di \in Nat \ {0} /\ dirs[di] = d
      /\ \A i \in 1..Len(db.m_dir_index) : dirs[i] = db.m_dir_index[i]
  <2>1. CASE first
    <3>1. dirs = Append(db.m_dir_index, d) /\ di = Len(dirs)
      BY <1>4, <1>5, <2>1
    <3>2. /\ Len(dirs) = Len(db.m_dir_index) + 1 /\ dirs[Len(db.m_dir_index) + 1] = d
          /\ \A i \in 1..Len(db.m_dir_index) : dirs[i] = db.m_dir_index[i]
      BY <1>7, <1>8, <3>1, AppendProperties
    <3> QED BY <1>8, <3>1, <3>2
  <2>2. CASE ~first
    <3>1. dirs = db.m_dir_index /\ di = item.dir_index /\ item.dir_index # 0
      BY <1>3, <1>4, <1>5, <2>2
    <3>2. dirs[di] = d
      BY <1>1, <1>2, <1>7, <3>1 DEF TopFits
    <3> QED BY <1>7, <3>1, <3>2
  <2> QED BY <2>1, <2>2
<1>10. PICK rec : rec = [dir_index |-> di, file |-> n, ver |-> ver, v_index |-> v]
  OBVIOUS
<1>11. rec.dir_index = di /\ rec.file = n /\ rec.ver = ver
  BY <1>10
<1>12. PICK new : new = g_newdatabase'
  OBVIOUS
<1>13. new.m_database = Append(db.m_database, rec) /\ new.m_dir_index = dirs
  BY <1>6, <1>10, <1>12
<1>14. PICK k : k = Len(db.m_database) + 1
  OBVIOUS
<1>15. /\ DOMAIN new.m_database = 1..k /\ new.m_database[k] = rec
       /\ \A x \in DOMAIN db.m_database : new.m_database[x] = db.m_database[x]
  BY <1>8, <1>13, <1>14
<1>16. DOMAIN new.m_database = DOMAIN db.m_database \cup {k} /\ k \notin DOMAIN db.m_database
  BY <1>8, <1>14, <1>15
<1>17. \A x \in DOMAIN db.m_database : Entry(new, x) = Entry(db, x)
  BY <1>8, <1>9, <1>13, <1>15 DEF Entry
<1>18. Entry(new, k).dir = d /\ Entry(new, k).file = n /\ Entry(new, k).ver = ver
  BY <1>9, <1>11, <1>13, <1>15 DEF Entry
<1>19. PICK put : put = [item EXCEPT !.left = @ \ {n}, !.dir_index = di]
  OBVIOUS
<1>20. /\ put \in Item /\ put.cur_path = d /\ put.opened /\ put.left = item.left \ {n}
       /\ m_scan_stack' = Replaced(put)
  BY <1>6, <1>7, <1>9, <1>19 DEF Item
<1> QED BY <1>2, <1>3, <1>12, <1>14, <1>16, <1>17, <1>18, <1>20

LEMMA ListedNat == ASSUME DatabaseInv, scanningFiles, NEW p PROVE IsFiniteSet(ListedAt(p)) /\ Cardinality(ListedAt(p)) \in Nat
<1>1. DOMAIN g_newdatabase.m_database = 1..Len(g_newdatabase.m_database) /\ Len(g_newdatabase.m_database) \in Nat
  BY DBParts DEF DatabaseInv, NewInv, Scanned
<1>2. IsFiniteSet(DOMAIN g_newdatabase.m_database)
  BY <1>1, FS_Interval
<1>3. ListedAt(p) \subseteq DOMAIN g_newdatabase.m_database
  BY DEF ListedAt
<1> QED BY <1>2, <1>3, FS_Subset, FS_CardinalityType

LEMMA EnterLists == ASSUME DatabaseInv, ListInv, NEW n \in Name, ReadFile(n) PROVE ListInv'
<1>1. PICK ver \in Version : files[Top.cur_path][n] \in {ver, Absent} /\ EnterFile(n, ver)
  BY DEF ReadFile
<1>2. /\ Scanning /\ Top.opened /\ n \in Top.left /\ UNCHANGED <<files, sharedDirs, scanningFiles, stable>>
  BY DEF ReadFile
<1>3. Top \in Item /\ scanningFiles /\ LeftIs(Top) /\ Top.cur_path \in Dir
  <2>1. Top \in Item /\ scanningFiles /\ m_scan_stack # NoStack /\ Len(m_scan_stack) \in DOMAIN m_scan_stack
    BY <1>2, TopIs, LenProperties
  <2> QED BY <2>1 DEF ListInv, Top, Item
<1>4. PICK k, was, now : k = Len(g_newdatabase.m_database) + 1 /\ was = g_newdatabase /\ now = g_newdatabase'
  OBVIOUS
<1>5. /\ DOMAIN now.m_database = DOMAIN was.m_database \cup {k} /\ k \notin DOMAIN was.m_database
      /\ \A x \in DOMAIN was.m_database : Entry(now, x) = Entry(was, x)
      /\ Entry(now, k).dir = Top.cur_path /\ Entry(now, k).file = n /\ Entry(now, k).ver = ver
      /\ \E put \in Item : /\ put.cur_path = Top.cur_path /\ put.opened /\ put.left = Top.left \ {n}
                           /\ m_scan_stack' = Replaced(put)
  BY <1>1, <1>2, <1>4, Entered
<1>6. PICK put \in Item : /\ put.cur_path = Top.cur_path /\ put.opened /\ put.left = Top.left \ {n}
                          /\ m_scan_stack' = Replaced(put)
  BY <1>5
<1>7. /\ LeftIs(put)
      /\ \A p \in Place : /\ p = <<Top.cur_path, n>> => Leads(Top, p) /\ ~Leads(put, p)
                          /\ p # <<Top.cur_path, n>> => (Leads(put, p) <=> Leads(Top, p))
  BY <1>2, <1>3, <1>6, FileLeads
<1>8. /\ \A i \in DOMAIN m_scan_stack' : LeftIs(m_scan_stack[i])'
      /\ \A p : /\ Cardinality(Ahead(p)') + One(Leads(Top, p)) = Cardinality(Ahead(p)) + One(Leads(put, p))
                /\ Cardinality(Ahead(p)') \in Nat /\ Cardinality(Ahead(p)) \in Nat
  BY <1>2, <1>6, <1>7, ReplacedCounts
<1>9. <<Top.cur_path, n>> \in stable => files[Top.cur_path][n] = ver
  BY <1>1, <1>2, <1>3 DEF LeftIs
<1>10. ASSUME NEW p \in stable PROVE ListedRight(p)' /\ (files[p[1]][p[2]] # Absent => Balanced(p)')
  <2>1. p \in Place /\ p = <<p[1], p[2]>>
    BY DEF ListInv, Place
  <2>2. ListedRight(p) /\ (files[p[1]][p[2]] # Absent => Balanced(p))
    BY <1>3 DEF ListInv
  <2>3. IsFiniteSet(ListedAt(p)) /\ Cardinality(ListedAt(p)) \in Nat
    BY <1>3, ListedNat
  <2>4. /\ ListedAt(p) = {x \in DOMAIN was.m_database : <<Entry(was, x).dir, Entry(was, x).file>> = p}
        /\ ListedAt(p)' = {x \in DOMAIN now.m_database : <<Entry(now, x).dir, Entry(now, x).file>> = p}
    BY <1>4 DEF ListedAt, Entry
  <2>5. SharedAbove(p)' = SharedAbove(p)
    BY <1>2 DEF SharedAbove
  <2>6. \A x : Entry(g_newdatabase, x)' = Entry(now, x)
    BY <1>4 DEF Entry
  <2>7. CASE p = <<Top.cur_path, n>>
    <3>1. ListedAt(p)' = ListedAt(p) \cup {k} /\ k \notin ListedAt(p)
      BY <1>5, <2>4, <2>7
    <3>2. Cardinality(ListedAt(p)') = Cardinality(ListedAt(p)) + 1
      BY <2>3, <3>1, FS_AddElement
    <3>3. One(Leads(put, p)) = 0 /\ One(Leads(Top, p)) = 1
      BY <1>7, <2>1, <2>7 DEF One
    <3>4. /\ Cardinality(Ahead(p)') + One(Leads(Top, p)) = Cardinality(Ahead(p)) + One(Leads(put, p))
          /\ Cardinality(Ahead(p)') \in Nat /\ Cardinality(Ahead(p)) \in Nat
      BY <1>8
    <3>5. Cardinality(ListedAt(p)') + Cardinality(Ahead(p)') = Cardinality(ListedAt(p)) + Cardinality(Ahead(p))
      BY <2>3, <3>2, <3>3, <3>4
    <3>6. files[p[1]][p[2]] = ver
      BY <1>9, <2>7
    <3>7. ListedRight(p)'
      <4> SUFFICES ASSUME NEW x \in ListedAt(p)' PROVE Entry(now, x).ver = files[p[1]][p[2]]
        BY <1>2, <2>6 DEF ListedRight
      <4>1. CASE x = k
        BY <1>5, <3>6, <4>1
      <4>2. CASE x \in ListedAt(p)
        <5>1. Entry(g_newdatabase, x).ver = files[p[1]][p[2]] /\ x \in DOMAIN was.m_database
          BY <2>2, <2>4, <4>2 DEF ListedRight
        <5> QED BY <1>4, <1>5, <5>1
      <4> QED BY <3>1, <4>1, <4>2
    <3> QED BY <2>2, <2>5, <3>5, <3>7 DEF Balanced
  <2>8. CASE p # <<Top.cur_path, n>>
    <3>1. ListedAt(p)' = ListedAt(p)
      BY <1>5, <2>4, <2>8
    <3>2. One(Leads(put, p)) = One(Leads(Top, p)) /\ One(Leads(Top, p)) \in Nat
      BY <1>7, <2>1, <2>8 DEF One
    <3>3. /\ Cardinality(Ahead(p)') + One(Leads(Top, p)) = Cardinality(Ahead(p)) + One(Leads(put, p))
          /\ Cardinality(Ahead(p)') \in Nat /\ Cardinality(Ahead(p)) \in Nat
      BY <1>8
    <3>4. Cardinality(Ahead(p)') = Cardinality(Ahead(p))
      BY <3>2, <3>3
    <3>5. ListedRight(p)'
      <4> SUFFICES ASSUME NEW x \in ListedAt(p)' PROVE Entry(now, x).ver = files[p[1]][p[2]]
        BY <1>2, <2>6 DEF ListedRight
      <4>1. Entry(g_newdatabase, x).ver = files[p[1]][p[2]] /\ x \in DOMAIN was.m_database
        BY <2>2, <2>4, <3>1 DEF ListedRight
      <4> QED BY <1>4, <1>5, <4>1
    <3> QED BY <2>2, <2>5, <3>1, <3>4, <3>5 DEF Balanced
  <2> QED BY <2>7, <2>8
<1>11. \A p \in stable' : ListedRight(p)' /\ ((files[p[1]][p[2]] # Absent)' => Balanced(p)')
  BY <1>2, <1>10
<1> QED BY <1>2, <1>8, <1>11 DEF ListInv

\* A place that changes is no longer one of those that count.
LEMMA ChangeLists ==
  ASSUME DatabaseInv, ListInv, NEW d \in Dir, NEW n \in Name, NEW to \in Version \cup {Absent},
         FileChanges(d, n, to)
  PROVE  ListInv'
<1>1. /\ files' = [files EXCEPT ![d][n] = to] /\ stable' = stable \ {<<d, n>>}
      /\ UNCHANGED <<sharedDirs, g_newdatabase, scanningFiles>>
      /\ UNCHANGED m_scan_stack \/ MayAppear(d, n)
  BY DEF FileChanges
<1>2. stable \subseteq Place /\ stable' \subseteq Place
  BY <1>1 DEF ListInv
<1>3. ASSUME NEW e \in Dir, NEW f \in Name, <<e, f>> # <<d, n>> PROVE files'[e][f] = files[e][f]
  <2>1. files \in [Dir -> [Name -> Version \cup {Absent}]]
    BY DEF DatabaseInv, TypeOK
  <2>2. e # d \/ f # n
    BY <1>3
  <2> QED BY <1>1, <2>1, <2>2
<1>4. ASSUME NEW item \in Item, LeftIs(item) PROVE LeftIs(item)'
  BY <1>1, <1>3, <1>4 DEF LeftIs, Item
<1> SUFFICES ASSUME scanningFiles
             PROVE  /\ m_scan_stack' # NoStack => \A i \in DOMAIN m_scan_stack' : LeftIs(m_scan_stack[i])'
                    /\ \A p \in stable' : Cardinality(Ahead(p)') = Cardinality(Ahead(p))
  <2>1. ASSUME scanningFiles', NEW p \in stable', Cardinality(Ahead(p)') = Cardinality(Ahead(p))
        PROVE  ListedRight(p)' /\ ((files[p[1]][p[2]] # Absent)' => Balanced(p)')
    <3>1. p \in stable /\ p # <<d, n>> /\ p[1] \in Dir /\ p[2] \in Name /\ p = <<p[1], p[2]>>
      BY <1>1, <1>2, <2>1 DEF Place
    <3>2. files'[p[1]][p[2]] = files[p[1]][p[2]]
      BY <1>3, <3>1
    <3>3. ListedRight(p) /\ (files[p[1]][p[2]] # Absent => Balanced(p))
      BY <1>1, <2>1, <3>1 DEF ListInv
    <3>4. ListedAt(p)' = ListedAt(p) /\ SharedAbove(p)' = SharedAbove(p)
      BY <1>1 DEF ListedAt, SharedAbove, Entry
    <3>5. ListedRight(p)'
      BY <1>1, <3>2, <3>3, <3>4 DEF ListedRight, Entry
    <3>6. (files[p[1]][p[2]] # Absent)' => Balanced(p)'
      BY <2>1, <3>2, <3>3, <3>4 DEF Balanced
    <3> QED BY <3>5, <3>6
  <2> QED BY <1>1, <1>2, <2>1 DEF ListInv
<1>5. CASE UNCHANGED m_scan_stack
  <2>1. ASSUME m_scan_stack # NoStack, NEW i \in DOMAIN m_scan_stack PROVE LeftIs(m_scan_stack[i])'
    <3>1. m_scan_stack \in Seq(Item)
      BY <2>1 DEF DatabaseInv, TypeOK
    <3>2. PICK item \in Item : item = m_scan_stack[i]
      BY <2>1, <3>1, ElementOfSeq, LenProperties
    <3>3. LeftIs(item)
      BY <2>1, <3>2 DEF ListInv
    <3>4. LeftIs(item)'
      BY <1>4, <3>3
    <3> QED BY <1>5, <3>2, <3>4
  <2>2. \A p : Ahead(p)' = Ahead(p)
    BY <1>5 DEF Ahead, AheadOf
  <2> QED BY <1>5, <2>1, <2>2
<1>6. CASE ~UNCHANGED m_scan_stack
  <2> DEFINE k == Len(m_scan_stack)
  <2>p. PICK put : put = [Top EXCEPT !.left = @ \cup {n}]
    OBVIOUS
  <2>1. Scanning /\ Top.opened /\ Top.cur_path = d /\ m_scan_stack' = Replaced(put)
    BY <1>1, <1>6, <2>p DEF MayAppear
  <2>2. /\ Top \in Item /\ m_scan_stack \in Seq(Item) /\ m_scan_stack # <<>> /\ m_scan_stack # NoStack
        /\ k \in Nat \ {0} /\ LeftIs(Top) /\ DOMAIN m_scan_stack = 1..k
        /\ \A i \in 1..k : LeftIs(m_scan_stack[i]) /\ m_scan_stack[i] \in Item
    <3>1. /\ Top \in Item /\ m_scan_stack \in Seq(Item) /\ m_scan_stack # <<>> /\ m_scan_stack # NoStack
          /\ k \in Nat \ {0} /\ DOMAIN m_scan_stack = 1..k /\ k \in DOMAIN m_scan_stack
      BY <2>1, TopIs, LenProperties
    <3>2. \A i \in 1..k : LeftIs(m_scan_stack[i])
      BY <3>1 DEF ListInv
    <3>3. \A i \in 1..k : m_scan_stack[i] \in Item
      BY <3>1, ElementOfSeq
    <3> QED BY <3>1, <3>2, <3>3 DEF Top
  <2>3. put \in Item /\ put.cur_path = d /\ put.opened /\ put.left = Top.left \cup {n}
    BY <2>1, <2>2, <2>p DEF Item
  <2>4. /\ m_scan_stack' \in Seq(Item) /\ Len(m_scan_stack') = k /\ m_scan_stack'[k] = put
        /\ \A i \in 1..(k - 1) : m_scan_stack'[i] = m_scan_stack[i]
    BY <2>1, <2>2, <2>3, ReplacedIs
  <2>5. m_scan_stack' # NoStack /\ DOMAIN m_scan_stack' = 1..k
    BY <2>4, LenProperties, SentinelAssumption
  <2>6. put.left \cap Dir = Top.left \cap Dir
    BY <2>3, FileDBAssumption
  <2>7. LeftIs(put)'
    <3>1. \A c \in put.left \cap Dir : Parent[c] = put.cur_path
      BY <2>1, <2>2, <2>3, <2>6 DEF LeftIs
    <3>2. ASSUME NEW f \in put.left \cap Name, <<d, f>> \in stable' PROVE files'[d][f] # Absent
      <4>1. f # n /\ f \in Top.left
        BY <1>1, <2>3, <3>2
      <4>2. files[d][f] # Absent
        BY <1>1, <2>1, <2>2, <3>2, <4>1 DEF LeftIs
      <4>3. files'[d][f] = files[d][f]
        <5>1. <<d, f>> # <<d, n>>
          BY <4>1
        <5> QED BY <1>3, <5>1
      <4> QED BY <4>2, <4>3
    <3> QED BY <2>3, <3>1, <3>2 DEF LeftIs
  <2>8. ASSUME NEW i \in DOMAIN m_scan_stack' PROVE LeftIs(m_scan_stack[i])'
    <3>1. CASE i = k
      BY <2>4, <2>7, <3>1
    <3>2. CASE i # k
      <4>1. i \in 1..(k - 1) /\ i \in 1..k
        BY <2>2, <2>5, <3>2
      <4>2. PICK item \in Item : item = m_scan_stack[i] /\ LeftIs(item)
        BY <2>2, <4>1
      <4>3. LeftIs(item)'
        BY <1>4, <4>2
      <4> QED BY <2>4, <4>1, <4>2, <4>3
    <3> QED BY <3>1, <3>2
  <2>9. ASSUME NEW p \in stable' PROVE Cardinality(Ahead(p)') = Cardinality(Ahead(p))
    <3>1. p # <<d, n>> /\ p[1] \in Dir /\ p[2] \in Name /\ p = <<p[1], p[2]>>
      BY <1>1, <1>2 DEF Place
    <3>2. p[1] # d \/ p[2] # n
      BY <3>1
    <3>3. Leads(put, p) <=> Leads(Top, p)
      BY <2>1, <2>3, <2>6, <3>2 DEF Leads
    <3>4. One(Leads(put, p)) = One(Leads(Top, p)) /\ One(Leads(Top, p)) \in Nat
      BY <3>3 DEF One
    <3>5. Ahead(p)' = AheadOf(m_scan_stack', p) /\ Ahead(p) = AheadOf(m_scan_stack, p)
      BY <2>2, <2>5 DEF Ahead
    <3>6. Cardinality(AheadOf(m_scan_stack', p)) + One(Leads(m_scan_stack[Len(m_scan_stack)], p))
            = Cardinality(AheadOf(m_scan_stack, p)) + One(Leads(m_scan_stack'[Len(m_scan_stack)], p))
      BY <2>2, <2>4, TopCounts
    <3>7. Cardinality(AheadOf(m_scan_stack', p)) \in Nat /\ Cardinality(AheadOf(m_scan_stack, p)) \in Nat
      BY <2>2, <2>4, AheadIs
    <3>8. Cardinality(Ahead(p)') + One(Leads(Top, p)) = Cardinality(Ahead(p)) + One(Leads(put, p))
      BY <2>4, <3>5, <3>6 DEF Top
    <3> QED BY <3>4, <3>5, <3>7, <3>8
  <2> QED BY <2>8, <2>9
<1> QED BY <1>5, <1>6

LEMMA RescanLists ==
  ASSUME ListInv, Rescan(sharedDirs'), sharedDirs' \in Seq(Dir)
  PROVE  ListInv'
<1>1. PICK dirs : dirs = sharedDirs'
  OBVIOUS
<1>2. CASE dirs = <<>>
  <2>1. stable' = stable /\ scanningFiles' = FALSE
    BY <1>1, <1>2 DEF Rescan, NoScan
  <2> QED BY <2>1, IdleLists DEF ListInv
<1>3. CASE dirs # <<>>
  <2>1. BeginScan(dirs)
    BY <1>1, <1>3 DEF Rescan
  <2> QED BY <1>1, <2>1, BeginLists
<1> QED BY <1>2, <1>3

LEMMA ListInit == Init => ListInv
BY DEF Init, ListInv, Place

LEMMA ListStep == DatabaseInv /\ ListInv /\ [Next]_vars => ListInv'
<1> SUFFICES ASSUME DatabaseInv, ListInv, [Next]_vars PROVE ListInv'
  OBVIOUS
<1>s. sharedDirs \in Seq(Dir) /\ stable \subseteq Place
  BY DEF DatabaseInv, TypeOK, ListInv
<1>1. CASE DoScan
  <2>1. CASE SwapDatabases
    BY <1>s, <2>1, IdleLists DEF SwapDatabases
  <2> QED BY <1>1, <2>1, OpenLists, CloseLists, PushLists, EnterLists, SkipLists, CompleteLists DEF DoScan
<1>2. ASSUME NEW d \in Dir, AddSharedDirectory(d) PROVE ListInv'
  <2>1. sharedDirs' = Append(sharedDirs, d) /\ Rescan(sharedDirs')
    BY <1>2 DEF AddSharedDirectory
  <2>2. sharedDirs' \in Seq(Dir)
    BY <1>s, <2>1, AppendProperties
  <2> QED BY <2>1, <2>2, RescanLists
<1>3. ASSUME NEW i \in 1..MaxEdits, RemoveSharedDirectory(i) PROVE ListInv'
  <2>1. i \in DOMAIN sharedDirs /\ sharedDirs' = RemoveAt(sharedDirs, i) /\ Rescan(sharedDirs')
    BY <1>3 DEF RemoveSharedDirectory
  <2>2. sharedDirs' \in Seq(Dir)
    BY <1>s, <2>1, RemoveProps
  <2> QED BY <2>1, <2>2, RescanLists
<1>4. CASE RescanSharedDirectories
  <2>1. sharedDirs' = sharedDirs /\ Rescan(sharedDirs')
    BY <1>4 DEF RescanSharedDirectories
  <2> QED BY <1>s, <2>1, RescanLists
<1>5. CASE Restart
  <2>1. CASE sharedDirs = <<>>
    BY <1>s, <1>5, <2>1, IdleLists DEF Restart, NoScan
  <2>2. CASE sharedDirs # <<>>
    BY <1>s, <1>5, <2>2, BeginLists DEF Restart
  <2> QED BY <2>1, <2>2
<1>6. ASSUME NEW d \in Dir, NEW n \in Name, NEW to \in Version \cup {Absent}, FileChanges(d, n, to) PROVE ListInv'
  BY <1>6, ChangeLists
<1>7. CASE UNCHANGED vars
  <2>1. UNCHANGED <<files, sharedDirs, g_newdatabase, scanningFiles, m_scan_stack, stable>>
    BY <1>7 DEF vars, core
  <2>2. \A item : LeftIs(item)' <=> LeftIs(item)
    BY <2>1 DEF LeftIs
  <2>3. \A p : (ListedRight(p)' <=> ListedRight(p)) /\ (Balanced(p)' <=> Balanced(p))
    BY <2>1 DEF ListedRight, Balanced, ListedAt, Entry, Ahead, AheadOf, SharedAbove
  <2> QED BY <2>1, <2>2, <2>3 DEF ListInv
<1> QED BY <1>1, <1>2, <1>3, <1>4, <1>5, <1>6, <1>7 DEF Next

LEMMA CompleteIsRight == DatabaseInv /\ ListInv => ScanListsShared
<1> SUFFICES ASSUME DatabaseInv, ListInv, scanningFiles, m_scan_stack = NoStack, NEW p \in stable
             PROVE  /\ \A x \in ListedAt(p) : Entry(g_newdatabase, x).ver = files[p[1]][p[2]]
                    /\ Cardinality(ListedAt(p)) = IF files[p[1]][p[2]] = Absent THEN 0 ELSE Cardinality(SharedAbove(p))
  BY DEF ScanListsShared
<1>1. ListedRight(p) /\ (files[p[1]][p[2]] # Absent => Balanced(p)) /\ Ahead(p) = {}
  BY DEF ListInv, Ahead
<1>2. \A x \in ListedAt(p) : Entry(g_newdatabase, x).ver = files[p[1]][p[2]]
  BY <1>1 DEF ListedRight
<1>3. CASE files[p[1]][p[2]] = Absent
  <2>1. \A x \in ListedAt(p) : Entry(g_newdatabase, x).ver \in Version
    <3>1. WellFormed(g_newdatabase)
      BY DEF DatabaseInv, NewInv, Scanned
    <3> QED BY <3>1, DBParts DEF ListedAt, EntryRec
  <2>2. ListedAt(p) = {}
    BY <1>2, <1>3, <2>1, FileDBAssumption
  <2> QED BY <1>2, <1>3, <2>2, FS_EmptySet
<1>4. CASE files[p[1]][p[2]] # Absent
  <2>1. Cardinality(ListedAt(p)) + 0 = Cardinality(SharedAbove(p))
    BY <1>1, <1>4, FS_EmptySet DEF Balanced
  <2> QED BY <1>2, <1>4, <2>1, ListedNat
<1> QED BY <1>3, <1>4

\* ScanListsShared: a place of the disk that nobody touched while a scan was on is in the new
\* database once for each shared directory above it, as it is, and one without a file is not
\* (filedb.cpp:664-949).
THEOREM ScansListShared == Spec => []ScanListsShared
<1>1. Init => DatabaseInv /\ ListInv
  BY InitFits, ListInit
<1>2. DatabaseInv /\ ListInv /\ [Next]_vars => (DatabaseInv /\ ListInv)'
  BY DatabaseStep, ListStep
<1> QED BY <1>1, <1>2, CompleteIsRight, PTL DEF Spec
=============================================================================
