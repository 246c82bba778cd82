------------------------------- MODULE FileDB -------------------------------
(***************************************************************************)
(* The files this program shares: C_FileDB and what WasteCore does with    *)
(* it.  A scan builds a second database in slices of the event loop while  *)
(* the first answers searches and requests, and then takes its place.      *)
(* Peers ask for a file by the index a search reply gave it, perhaps long  *)
(* afterwards, so a new database goes on with the numbers of the old one.  *)
(*                                                                         *)
(* A slice is any number of the steps below, as the time it gets decides   *)
(* where it ends and nobody sees the new database before the exchange.     *)
(* Files that the list of extensions excludes, meta texts and sizes in     *)
(* megabytes are left out; a version stands for a length and a time.       *)
(***************************************************************************)
EXTENDS Integers, Sequences, SequencesExt, FiniteSetsExt

CONSTANTS
  Dir, Name, Version,
  Parent,        \* the directory above: [Dir -> Dir \cup {NoDir}]
  NoDir, Absent, NoDB, NoStack,
  SCAN_MAX_POS,  \* 0x60000000 in the code
  MaxChanges,    \* bound: files created, changed or removed, directories that do not open
  MaxEdits       \* bound: directories added to or removed from the shared ones

ASSUME FileDBAssumption ==
  /\ Parent \in [Dir -> Dir \cup {NoDir}] /\ NoDir \notin Dir
  /\ Absent \notin Version
  /\ Dir \cap Name = {}
  /\ SCAN_MAX_POS \in Nat \ {0} /\ MaxChanges \in Nat /\ MaxEdits \in Nat

\* A directory and those above it: what it is in, and all that this is in.  None is above itself.
IsUpward(ds) == \A d \in ds : Parent[d] \in Dir => Parent[d] \in ds
Ancestors(d) == {a \in Dir : \A ds \in SUBSET Dir : d \in ds /\ IsUpward(ds) => a \in ds}
ASSUME TreeAssumption == \A d \in Dir : Parent[d] \in Dir => d \notin Ancestors(Parent[d])

VARIABLES
  files,          \* the disk: [Dir -> [Name -> Version \cup {Absent}]]
  sharedDirs,
  g_database,     \* what searches and requests see
  g_newdatabase,  \* what is being scanned, or NoDB
  scanningFiles,
  m_scan_stack,   \* of g_newdatabase; NoStack once the scan is complete
  m_oldscan,      \* its m_oldscan_lastdirpos and m_oldscan_dirstate
  named,          \* history: the files each index was given to in this numbering
  stable,         \* history: the places on the disk untouched since the scan began, in
                  \* directories that it could open
  spent           \* history: changes and edits so far

core == <<g_database, g_newdatabase, scanningFiles, m_scan_stack, m_oldscan>>
vars == <<files, sharedDirs, core, named, stable, spent>>

Place == Dir \X Name
Inside(d) == {n \in Name : files[d][n] # Absent} \cup {c \in Dir : Parent[c] = d}

\* C_FileDB's constructor.
EmptyDB == [m_database |-> <<>>, m_dir_index |-> <<>>, m_scanidx_gpos |-> 0]
\* What Scan pushes for a path, and DoScan for a subdirectory; dir_index 0 is -1.
Unread(d) == [cur_path |-> d, dir_index |-> 0, opened |-> FALSE, left |-> {}]
NoOldScan == [m_oldscan_lastdirpos |-> 1, m_oldscan_dirstate |-> 0]

\* What a database says of the file at a position, and of all of them.
Entry(db, x) == [v_index |-> db.m_database[x].v_index,
                 dir |-> db.m_dir_index[db.m_database[x].dir_index],
                 file |-> db.m_database[x].file, ver |-> db.m_database[x].ver]
Entries(db) == {Entry(db, x) : x \in DOMAIN db.m_database}

\* GetFile: the first entry with the index.  What a peer that asks for an index gets.
GetFile(db, index) ==
  LET hits == {x \in DOMAIN db.m_database : db.m_database[x].v_index = index}
  IN  IF hits = {} THEN NoDB ELSE Entry(db, Min(hits))

-----------------------------------------------------------------------------
(* Start of the program and of a scan.                                      *)

\* Mutant of BeginScan: a scan that is going on is left to finish.
BeginScanOnce(dirs) ==
  IF scanningFiles
  THEN UNCHANGED <<g_newdatabase, m_scan_stack, m_oldscan, scanningFiles, stable>>
  ELSE /\ g_newdatabase' = EmptyDB
       /\ m_scan_stack' = [i \in DOMAIN dirs |-> Unread(dirs[i])]
       /\ m_oldscan' = NoOldScan /\ scanningFiles' = TRUE
       /\ stable' = Place
\* A new C_FileDB whose Scan pushes the shared directories.
BeginScan(dirs) ==
  /\ g_newdatabase' = EmptyDB
  /\ m_scan_stack' = [i \in DOMAIN dirs |-> Unread(dirs[i])]
  /\ m_oldscan' = NoOldScan /\ scanningFiles' = TRUE
  /\ stable' = Place
NoScan ==
  /\ g_newdatabase' = NoDB /\ m_scan_stack' = NoStack /\ scanningFiles' = FALSE
  /\ UNCHANGED <<m_oldscan, stable>>

\* rescanSharedDirectoriesInternal: forget a scan that is going on and begin again.
\* With nothing left to share an empty database takes the place of the old one, and
\* with it the numbers start again.
Rescan(dirs) ==
  IF dirs = <<>>
  THEN g_database' = EmptyDB /\ named' = {} /\ NoScan
  ELSE BeginScan(dirs) /\ UNCHANGED <<g_database, named>>

Init ==
  /\ files \in [Dir -> [Name -> Version \cup {Absent}]]
  /\ sharedDirs = <<>>
  /\ g_database = EmptyDB /\ g_newdatabase = NoDB
  /\ scanningFiles = FALSE
  /\ m_scan_stack = NoStack /\ m_oldscan = NoOldScan
  /\ named = {} /\ stable = Place
  /\ spent = [changes |-> 0, edits |-> 0]

\* The program ends, at will or by the read past the end described below, and starts
\* again with the directories of its settings.  Its client id is a new one, so that no
\* request with an index of before is for it.
Restart ==
  /\ g_database' = EmptyDB /\ named' = {}
  /\ IF sharedDirs = <<>> THEN NoScan ELSE BeginScan(sharedDirs)
  /\ UNCHANGED <<files, sharedDirs, spent>>

-----------------------------------------------------------------------------
(* The interface's thread, between two turns of the event loop.            *)

AddSharedDirectory(d) ==
  /\ spent.edits < MaxEdits
  /\ ~Contains(sharedDirs, d)
  /\ sharedDirs' = Append(sharedDirs, d)
  /\ Rescan(sharedDirs')
  /\ spent' = [spent EXCEPT !.edits = @ + 1]
  /\ UNCHANGED files

RemoveSharedDirectory(i) ==
  /\ spent.edits < MaxEdits
  /\ i \in DOMAIN sharedDirs
  /\ sharedDirs' = RemoveAt(sharedDirs, i)
  /\ Rescan(sharedDirs')
  /\ spent' = [spent EXCEPT !.edits = @ + 1]
  /\ UNCHANGED files

RescanSharedDirectories ==
  /\ Rescan(sharedDirs)
  /\ UNCHANGED <<files, sharedDirs, spent>>

-----------------------------------------------------------------------------
(* DoScan with the old database, which is always g_database.               *)

\* "First run", repeated until a first file is found: go on with the old database's
\* numbers, or start again at 0 and give every file a new one when they run out.
UseOldIdx == g_database.m_scanidx_gpos < SCAN_MAX_POS
StartPos == IF g_database.m_scanidx_gpos < SCAN_MAX_POS THEN g_database.m_scanidx_gpos ELSE 0
ScanPos == IF g_newdatabase.m_database = <<>> THEN StartPos ELSE g_newdatabase.m_scanidx_gpos

\* m_oldscan_dirstate: the directory is looked for in the old database from where the
\* last one was found, around the end.
OldUsed == Len(g_database.m_database)
OldDirOf(v) == g_database.m_dir_index[g_database.m_database[v].dir_index]
From(v, k) == ((v - 1 + k) % OldUsed) + 1
SearchDirectory(d) ==
  LET last == m_oldscan.m_oldscan_lastdirpos
      hits == {k \in 0..(OldUsed - 1) : OldDirOf(From(last, k)) = d}
  IN  IF hits = {}
      THEN [m_oldscan EXCEPT !.m_oldscan_dirstate = 1]
      ELSE [m_oldscan_lastdirpos |-> From(last, Min(hits)), m_oldscan_dirstate |-> 2]

\* The entries that follow in the same directory, up to the first with that name.  The
\* loop looks at one entry past the last: no file has its name, if the read is survived.
OldRun(v) == {a \in v..OldUsed : \A b \in v..a :
                g_database.m_database[b].dir_index = g_database.m_database[v].dir_index}
OldNamesakes(os, n) ==
  IF os.m_oldscan_dirstate # 2 THEN {}
  ELSE {a \in OldRun(os.m_oldscan_lastdirpos) : g_database.m_database[a].file = n}
\* Mutant of KeepsIndex: the name is enough.
KeepsIndexByName(os, n, ver) == UseOldIdx /\ OldNamesakes(os, n) # {}

\* The old entry is used if it is the same file still.
KeepsIndex(os, n, ver) ==
  /\ UseOldIdx
  /\ OldNamesakes(os, n) # {}
  /\ g_database.m_database[Min(OldNamesakes(os, n))].ver = ver

Top == m_scan_stack[Len(m_scan_stack)]
Scanning == scanningFiles /\ m_scan_stack \notin {NoStack, <<>>}
Replaced(item) == [m_scan_stack EXCEPT ![Len(m_scan_stack)] = item]

\* opendir; a file created later may be found in `left` or not, see FileChanges.
OpenDir ==
  /\ Scanning /\ ~Top.opened
  /\ m_scan_stack' = Replaced([Top EXCEPT !.opened = TRUE, !.left = Inside(Top.cur_path)])
  /\ UNCHANGED <<files, sharedDirs, g_database, g_newdatabase, scanningFiles, m_oldscan,
                 named, stable, spent>>

\* opendir fails: the directory and all below it are passed over, for this scan.  A path is
\* never empty (waste_core.cpp:2564, app.cpp:836, 1906).
OpenFails ==
  /\ spent.changes < MaxChanges
  /\ Scanning /\ ~Top.opened
  /\ m_scan_stack' = Front(m_scan_stack)
  /\ stable' = {p \in stable : Top.cur_path \notin Ancestors(p[1])}
  /\ spent' = [spent EXCEPT !.changes = @ + 1]
  /\ UNCHANGED <<files, sharedDirs, g_database, g_newdatabase, scanningFiles, m_oldscan, named>>

\* A subdirectory is pushed; it will be read when this directory is done.
ReadSubdirectory(c) ==
  /\ Scanning /\ Top.opened /\ c \in Top.left \cap Dir
  /\ m_scan_stack' = InsertAt(Replaced([Top EXCEPT !.left = @ \ {c}]),
                              Len(m_scan_stack), Unread(c))
  /\ UNCHANGED <<files, sharedDirs, g_database, g_newdatabase, scanningFiles, m_oldscan,
                 named, stable, spent>>

\* A file is entered with what stat says of it; for one that is gone stat fails and its
\* length and time are what the stack held.
EnterFile(n, ver) ==
  LET first == Top.dir_index = 0
      dirs == IF first THEN Append(g_newdatabase.m_dir_index, Top.cur_path)
                       ELSE g_newdatabase.m_dir_index
      di == IF first THEN Len(dirs) ELSE Top.dir_index
      os == IF first \/ m_oldscan.m_oldscan_dirstate = 0
            THEN SearchDirectory(Top.cur_path) ELSE m_oldscan
      old == KeepsIndex(os, n, ver)
      v == IF old THEN g_database.m_database[Min(OldNamesakes(os, n))].v_index ELSE ScanPos
  IN  /\ g_newdatabase' =
           [m_database |-> Append(g_newdatabase.m_database,
                             [dir_index |-> di, file |-> n, ver |-> ver, v_index |-> v]),
            m_dir_index |-> dirs,
            m_scanidx_gpos |-> IF old THEN ScanPos ELSE ScanPos + 1]
      /\ m_oldscan' = os
      /\ m_scan_stack' = Replaced([Top EXCEPT !.left = @ \ {n}, !.dir_index = di])
ReadFile(n) ==
  /\ Scanning /\ Top.opened /\ n \in Top.left \cap Name
  /\ \E ver \in Version :
       /\ files[Top.cur_path][n] \in {ver, Absent}
       /\ EnterFile(n, ver)
  /\ UNCHANGED <<files, sharedDirs, g_database, scanningFiles, named, stable, spent>>
\* Or readdir no longer returns a file that is gone.
ReadNothing(n) ==
  /\ Scanning /\ Top.opened /\ n \in Top.left \cap Name
  /\ files[Top.cur_path][n] = Absent
  /\ m_scan_stack' = Replaced([Top EXCEPT !.left = @ \ {n}])
  /\ UNCHANGED <<files, sharedDirs, g_database, g_newdatabase, scanningFiles, m_oldscan,
                 named, stable, spent>>

CloseDir ==
  /\ Scanning /\ Top.opened /\ Top.left = {}
  /\ m_scan_stack' = Front(m_scan_stack)
  /\ UNCHANGED <<files, sharedDirs, g_database, g_newdatabase, scanningFiles, m_oldscan,
                 named, stable, spent>>

\* Nothing to pop: the stack is deleted.
ScanComplete ==
  /\ scanningFiles /\ m_scan_stack = <<>>
  /\ m_scan_stack' = NoStack
  /\ g_newdatabase' = [g_newdatabase EXCEPT !.m_scanidx_gpos = ScanPos]
  /\ UNCHANGED <<files, sharedDirs, g_database, scanningFiles, m_oldscan, named, stable,
                 spent>>

\* DoScan returns -1, in this turn of the event loop or the next: the exchange.
SwapDatabases ==
  /\ scanningFiles /\ m_scan_stack = NoStack
  /\ g_database' = g_newdatabase /\ g_newdatabase' = NoDB
  /\ scanningFiles' = FALSE
  /\ named' = (IF UseOldIdx THEN named ELSE {}) \cup Entries(g_newdatabase)
  /\ UNCHANGED <<files, sharedDirs, m_scan_stack, m_oldscan, stable, spent>>

-----------------------------------------------------------------------------
(* The disk.                                                               *)

\* Whether readdir returns a file created after opendir is left open; it does not
\* return one twice.
Listed(d, n) == \E e \in Entries(g_newdatabase) : e.dir = d /\ e.file = n
MayAppear(d, n) ==
  \/ UNCHANGED m_scan_stack
  \/ /\ Scanning /\ Top.opened /\ Top.cur_path = d /\ ~Listed(d, n)
     /\ m_scan_stack' = Replaced([Top EXCEPT !.left = @ \cup {n}])
FileChanges(d, n, to) ==
  /\ spent.changes < MaxChanges
  /\ to # files[d][n]
  /\ files' = [files EXCEPT ![d][n] = to]
  /\ IF files[d][n] = Absent THEN MayAppear(d, n) ELSE UNCHANGED m_scan_stack
  /\ stable' = stable \ {<<d, n>>}
  /\ spent' = [spent EXCEPT !.changes = @ + 1]
  /\ UNCHANGED <<sharedDirs, g_database, g_newdatabase, scanningFiles, m_oldscan, named>>

DoScan ==
  \/ OpenDir \/ OpenFails \/ CloseDir
  \/ \E c \in Dir : ReadSubdirectory(c)
  \/ \E n \in Name : ReadFile(n) \/ ReadNothing(n)
  \/ ScanComplete \/ SwapDatabases

Next ==
  \/ DoScan
  \/ \E d \in Dir : AddSharedDirectory(d)
  \/ \E i \in 1..MaxEdits : RemoveSharedDirectory(i)
  \/ RescanSharedDirectories
  \/ Restart
  \/ \E d \in Dir, n \in Name, to \in Version \cup {Absent} : FileChanges(d, n, to)

Spec == Init /\ [][Next]_vars

-----------------------------------------------------------------------------
Item == [cur_path : Dir, dir_index : Nat, opened : BOOLEAN, left : SUBSET (Name \cup Dir)]
DB == [m_database : Seq([dir_index : Nat \ {0}, file : Name, ver : Version, v_index : Nat]),
       m_dir_index : Seq(Dir), m_scanidx_gpos : Nat]
ASSUME SentinelAssumption == NoDB \notin DB /\ NoStack \notin Seq(Item)

WellFormed(db) ==
  /\ db \in DB
  /\ \A e \in Range(db.m_database) : e.dir_index \in DOMAIN db.m_dir_index
\* There is a second database exactly while a scan is on, every entry of a database has
\* its directory, and the place remembered in the old database is one of its entries.
TypeOK ==
  /\ files \in [Dir -> [Name -> Version \cup {Absent}]]
  /\ sharedDirs \in Seq(Dir)
  /\ WellFormed(g_database)
  /\ scanningFiles <=> g_newdatabase # NoDB
  /\ scanningFiles => WellFormed(g_newdatabase)
  /\ m_scan_stack # NoStack => scanningFiles /\ m_scan_stack \in Seq(Item)
  /\ m_oldscan \in [m_oldscan_lastdirpos : Nat \ {0}, m_oldscan_dirstate : 0..2]
  /\ scanningFiles /\ m_oldscan.m_oldscan_dirstate = 2
       => m_oldscan.m_oldscan_lastdirpos \in DOMAIN g_database.m_database

\* A peer that asks gets the file that was offered under the index, or an error.
RightFileServed ==
  \A offer \in named :
    /\ GetFile(g_database, offer.v_index) \in {offer, NoDB}
    /\ (scanningFiles /\ UseOldIdx) =>
         GetFile(g_newdatabase, offer.v_index) \in {offer, NoDB}
\* Two files have two indexes, and what did not change keeps the one it had.  Of a
\* directory that is listed twice, being shared and inside another that is, DoScan
\* searches one list only, and that may lack the file.
ListedOnce(d) ==
  Cardinality({i \in DOMAIN g_database.m_dir_index : g_database.m_dir_index[i] = d}) = 1
IndexesContinue ==
  scanningFiles =>
    /\ \A e, f \in Entries(g_newdatabase) : e.v_index = f.v_index => e = f
    /\ UseOldIdx => \A e \in Entries(g_newdatabase) :
         /\ ListedOnce(e.dir)
         /\ \E o \in Entries(g_database) : [o EXCEPT !.v_index = e.v_index] = e
         => e \in Entries(g_database)
\* An index stays true.  As long as the numbers have not started again, a peer that asks
\* with an index from any search reply, however many scans ago, never gets another file;
\* and a file that did not change can still be asked for, in whatever order directories
\* and files were read again.
IndexesStayTrue == TypeOK /\ RightFileServed /\ IndexesContinue

\* A complete scan lists what is shared: a place untouched since the scan began is
\* listed, as it is on the disk, once for each shared directory above it if there is a
\* file, else not at all; a directory that did not open takes nothing with it but what is
\* below it.
ListedAt(p) == {x \in DOMAIN g_newdatabase.m_database :
                  LET e == Entry(g_newdatabase, x) IN <<e.dir, e.file>> = p}
SharedAbove(p) == {i \in DOMAIN sharedDirs : sharedDirs[i] \in Ancestors(p[1])}
ScanListsShared ==
  scanningFiles /\ m_scan_stack = NoStack =>
    \A p \in stable :
      /\ \A x \in ListedAt(p) : Entry(g_newdatabase, x).ver = files[p[1]][p[2]]
      /\ Cardinality(ListedAt(p)) = IF files[p[1]][p[2]] = Absent THEN 0 ELSE Cardinality(SharedAbove(p))
=============================================================================
