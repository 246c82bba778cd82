----------------------------- MODULE DirListing -----------------------------
(***************************************************************************)
(* What C_FileDB answers (filedb.cpp): the listing of a directory, the     *)
(* files of a tree, the search for words, and the file a database is saved *)
(* to.  The database grows in the order DoScan gives it; at any time it is *)
(* asked everything.  A path is a sequence of names, a name a sequence of  *)
(* characters (ASCII).  How items fall into messages is in Codecs.         *)
(***************************************************************************)
EXTENDS Integers, Sequences, SequencesExt, FiniteSetsExt

CONSTANTS Dirs,       \* directories, from the shared one on, which shares its name
          FileNames,
          Sizes, MB,  \* lengths of files; 2^20
          MaxWords,   \* nt, 10
          Words,      \* that are searched for
          MaxFiles    \* bound on the database

Blank == 32
Quote == 34
Slash == 47
or32(c) == IF (c \div 32) % 2 = 0 THEN c + 32 ELSE c
LowerCase(c) == IF c \in 65 .. 90 THEN c + 32 ELSE c
Lower(s) == [i \in 1 .. Len(s) |-> LowerCase(s[i])]
Same(s, t) == Lower(s) = Lower(t)

VARIABLE m_database   \* dir, file, index and length of each file

PathOf(x) == Append(m_database[x].dir, m_database[x].file)

-----------------------------------------------------------------------------
(* Directories *)

\* strnicmp of the path, written with slashes, and as much of buf.
Begins(path, slash, buf) ==
    /\ Len(path) + (IF slash THEN 1 ELSE 0) <= Len(buf)
    /\ \A i \in 1 .. Len(path) :
           IF i = Len(path) /\ ~slash THEN IsPrefix(Lower(path[i]), Lower(buf[i])) ELSE Same(path[i], buf[i])

\* A listing ends with * or not.  The name shown is that after the path, or the one that the
\* path begins.  Behind a file that is the path itself lies what an earlier entry left.
Matches(path, is_wc, buf) ==
    path # <<>> => Begins(path, FALSE, buf) /\ (is_wc \/ Same(path[Len(path)], buf[Len(path)]))
Shown(path, buf, left) ==
    LET exact == path = <<>> \/ Same(path[Len(path)], buf[Len(path)])
        at == IF exact THEN Len(path) + 1 ELSE Len(path)
    IN  [name |-> buf[IF at > Len(buf) THEN Len(buf) ELSE at],
         is_dir |-> IF at > Len(buf) THEN left ELSE at < Len(buf)]

\* Mutant of Listed: a directory is added for each of its files.
ListedTwice(s, path, is_wc, x, left) ==
    LET f == Shown(path, PathOf(x), left)
        length == m_database[x].length
        item == IF f.is_dir THEN [id |-> -1, name |-> f.name, low |-> 1, high |-> length \div MB]
                ELSE [id |-> m_database[x].index, name |-> f.name, low |-> length, high |-> 0]
    IN  IF ~Matches(path, is_wc, PathOf(x)) THEN s ELSE [s EXCEPT !.items = Append(@, item)]
\* The next file: with the name that was the last one it adds to its megabytes, of which the
\* rest of all but the first file is kept in dbsize_errcnt.
Listed(s, path, is_wc, x, left) ==
    LET f == Shown(path, PathOf(x), left)
        length == m_database[x].length
        err == (s.dbsize_errcnt + (length % MB)) % MB
        high == length \div MB + (IF err < s.dbsize_errcnt THEN 1 ELSE 0)
        item == IF f.is_dir THEN [id |-> -1, name |-> f.name, low |-> 1, high |-> high]
                ELSE [id |-> m_database[x].index, name |-> f.name, low |-> length, high |-> 0]
    IN  IF ~Matches(path, is_wc, PathOf(x)) THEN s
        ELSE IF s.items = <<>> \/ ~Same(f.name, s.last)
             THEN [items |-> Append(s.items, item), last |-> f.name, dbsize_errcnt |-> 0]
             ELSE [s EXCEPT !.items[Len(s.items)].low = @ + 1, !.items[Len(s.items)].high = @ + high,
                            !.dbsize_errcnt = err]
Listing(path, is_wc, left) ==
    FoldLeft(LAMBDA s, x : Listed(s, path, is_wc, x, left), [items |-> <<>>, last |-> <<>>, dbsize_errcnt |-> 0],
             [x \in 1 .. Len(m_database) |-> x]).items

\* *s: every file whose path goes on behind the given one, from its last name on, or behind it
\* if that ended with a slash.
Tree(path, slash) ==
    LET further(buf) ==
            /\ Begins(path, slash, buf)
            /\ ~slash /\ Len(buf) = Len(path) => ~Same(path[Len(path)], buf[Len(path)])
        found == SelectSeq([x \in 1 .. Len(m_database) |-> x], LAMBDA x : path # <<>> /\ further(PathOf(x)))
    IN  [i \in 1 .. Len(found) |->
            [id |-> m_database[found[i]].index,
             name |-> SubSeq(PathOf(found[i]), Len(path) + (IF slash THEN 1 ELSE 0), Len(PathOf(found[i])))]]

-----------------------------------------------------------------------------
(* Words *)

\* The words of a search, in small letters, up to the first that is empty: two quotes give one.
Parsed(s, char) ==
    LET c == LowerCase(char)
        ends == IF c = Quote THEN s.inquotes ELSE c = Blank /\ ~s.inquotes /\ s.neednull
        kept == c \notin {Quote, Blank} \/ (c = Blank /\ s.inquotes)
    IN  IF s.nt < 0 THEN s
        ELSE [inquotes |-> s.inquotes # (c = Quote),
              neednull |-> (s.neednull /\ ~ends) \/ c \notin {Quote, Blank},
              nt |-> IF ends THEN s.nt - 1 ELSE s.nt,
              words |-> IF ends THEN Append(s.words, s.word) ELSE s.words,
              word |-> IF ends THEN <<>> ELSE IF kept THEN Append(s.word, c) ELSE s.word]
parselist(in) ==
    LET s == FoldLeft(Parsed, [inquotes |-> FALSE, neednull |-> FALSE, nt |-> MaxWords, words |-> <<>>, word |-> <<>>], in)
        all == Append(s.words, s.word)
        empty == {i \in 1 .. Len(all) : all[i] = <<>>}
    IN  IF empty = {} THEN all ELSE SubSeq(all, 1, Min(empty) - 1)

\* The first two characters are compared with bit 32 set, the others by strnicmp.  One
\* character is looked for behind the end of an empty string, too.
in_string(s, w, left) ==
    IF w = <<>> THEN TRUE
    ELSE IF Len(w) = 1 THEN IF s = <<>> THEN left ELSE \E i \in 1 .. Len(s) : or32(s[i]) = w[1]
    ELSE \E i \in 1 .. Len(s) - 1 : /\ or32(s[i]) = w[1] /\ or32(s[i + 1]) = w[2]
                                    /\ Len(w) > 2 => IsPrefix(Lower(w), Lower(SubSeq(s, i, Len(s))))
Joined(names) == FoldLeft(LAMBDA s, n : IF s = <<>> THEN n ELSE s \o <<Slash>> \o n, <<>>, names)
\* The name of the shared directory itself is not searched.
Folder(x) == Joined(Tail(m_database[x].dir))
substr_search(x, words, left) ==
    \A i \in 1 .. Len(words) : in_string(m_database[x].file, words[i], left) \/ in_string(Folder(x), words[i], left)
Search(in, left) == {x \in 1 .. Len(m_database) : substr_search(x, parselist(in), left)}

-----------------------------------------------------------------------------
(* The saved database: a header with the number of cells behind it, then records of fixed size *)

Magic == -2
DirIndex == LET used == {m_database[x].dir : x \in 1 .. Len(m_database)}
            IN  SetToSortSeq(used, LAMBDA d, c : \E x \in 1 .. Len(m_database) :
                                       /\ m_database[x].dir = d
                                       /\ \A y \in 1 .. x : m_database[y].dir # c)
writeOut ==
    LET dirs == DirIndex
        body == <<Len(dirs), Len(m_database)>>
                \o [d \in 1 .. Len(dirs) |-> dirs[d]] \o <<Len(m_database)>>
                \o FlattenSeq([x \in 1 .. Len(m_database) |->
                       <<m_database[x].file, IndexFirstSubSeq(<<m_database[x].dir>>, dirs),
                         m_database[x].length, m_database[x].index>>])
    IN  <<Magic, Len(body)>> \o body
\* What is there is cleared first; a database without files is read as none.
readIn(cells) ==
    LET dirs == cells[3]
        used == cells[5 + dirs]
        entry(x) == SubSeq(cells, 5 + dirs + 4 * x - 3, 5 + dirs + 4 * x)
    IN  IF Len(cells) < 2 \/ cells[1] # Magic \/ cells[2] + 2 # Len(cells) THEN <<>>
        ELSE IF dirs = 0 THEN <<>>
        ELSE [x \in 1 .. used |-> [file |-> entry(x)[1], dir |-> cells[4 + entry(x)[2]],
                                   length |-> entry(x)[3], index |-> entry(x)[4]]]

-----------------------------------------------------------------------------
DirListingInit == m_database = <<>>

\* DoScan: the files of a directory one after the other, before those below it, and all that is
\* below a directory before anything else.
ScanOrder(dir) ==
    LET within(d, x) == IsPrefix(d, m_database[x].dir)
        n == Len(m_database)
    IN  \A k \in 1 .. Len(dir) : \A x \in 1 .. n :
            within(SubSeq(dir, 1, k), x) => /\ within(SubSeq(dir, 1, k), n)
                                            /\ k = Len(dir) => m_database[x].dir = dir
AddEntry ==
    /\ Len(m_database) < MaxFiles
    /\ \E dir \in Dirs, file \in FileNames, length \in Sizes :
        /\ ScanOrder(dir) /\ Append(dir, file) \notin Dirs
        /\ \A x \in 1 .. Len(m_database) : PathOf(x) # Append(dir, file)
        /\ m_database' = Append(m_database, [dir |-> dir, file |-> file, length |-> length,
                                             index |-> 100 + Len(m_database)])

-----------------------------------------------------------------------------
(* Properties *)

\* The entries right below a directory.
Below(path) == {x \in 1 .. Len(m_database) : IsStrictPrefix(path, PathOf(x))}
Entry(path, x) == PathOf(x)[Len(path) + 1]
\* No directory has two entries that differ in capital letters only: strnicmp takes them for one.
Distinct == \A x, y \in 1 .. Len(m_database) : \A i \in 1 .. Len(PathOf(x)) :
    i <= Len(PathOf(y)) /\ SubSeq(PathOf(x), 1, i - 1) = SubSeq(PathOf(y), 1, i - 1)
        => ~(PathOf(x)[i] # PathOf(y)[i] /\ Same(PathOf(x)[i], PathOf(y)[i]))

\* The listing of a directory shows everything right below it once: files with the index to ask
\* for, directories with the number of files below and their megabytes, give or take one.  With a
\* * it does so where nothing beside the directory begins with its name.
Beside(path) == \E x \in 1 .. Len(m_database) :
    /\ path # <<>> /\ Len(PathOf(x)) >= Len(path) /\ SubSeq(PathOf(x), 1, Len(path) - 1) = Front(path)
    /\ PathOf(x)[Len(path)] # Last(path) /\ IsPrefix(Lower(Last(path)), Lower(PathOf(x)[Len(path)]))
ListsEveryEntry ==
    Distinct => \A path \in {<<>>} \cup Dirs, is_wc \in BOOLEAN :
        Below(path) # {} /\ ~(is_wc /\ Beside(path)) =>
        LET all == Listing(path, is_wc, FALSE)
            files(n) == {x \in Below(path) : Entry(path, x) = n}
            total(n) == MapThenSumSet(LAMBDA x : m_database[x].length, files(n))
            right(it) == \E x \in files(it.name) :
                IF Len(PathOf(x)) = Len(path) + 1 THEN it.id = m_database[x].index /\ it.low = m_database[x].length
                ELSE it.id = -1 /\ it.low = Cardinality(files(it.name)) /\ it.high - (total(it.name) \div MB) \in -1 .. 1
        IN  /\ {all[i].name : i \in 1 .. Len(all)} = {Entry(path, x) : x \in Below(path)}
            /\ \A i \in 1 .. Len(all) : right(all[i]) /\ \A j \in 1 .. i - 1 : all[i].name # all[j].name

\* The files of a tree, asked for with a slash at its end, are those below the directory, each
\* once, named from there.
TreeIsWhole ==
    Distinct => \A path \in Dirs :
        LET below == SetToSortSeq(Below(path), <)
        IN  Tree(path, TRUE) = [i \in 1 .. Len(below) |->
                [id |-> m_database[below[i]].index,
                 name |-> SubSeq(PathOf(below[i]), Len(path) + 1, Len(PathOf(below[i])))]]

\* A search finds the files in whose name or directory each of its words occurs, in letters of
\* either size, if no word has one of @ [ \ ] ^ _ among its first two characters.
Occurs(w, s) == \E i \in 0 .. Len(s) - Len(w) : Same(w, SubSeq(s, i + 1, i + Len(w)))
Searchable(w) == \A i \in 1 .. Len(w) : i <= 2 => or32(w[i]) = LowerCase(w[i])
FindsWords ==
    \A v, w \in Words, left \in BOOLEAN : Searchable(v) /\ Searchable(w) =>
        LET phrase == v \o <<Blank>> \o w
            has(x, us) == \A u \in us : Occurs(u, m_database[x].file) \/ Occurs(u, Folder(x))
            \* What a word of one letter finds behind the empty name of the directory is left out.
            asked == {x \in 1 .. Len(m_database) : Folder(x) = <<>> => 1 \notin {Len(v), Len(w)}}
        IN  /\ Search(phrase, left) \cap asked = {x \in asked : has(x, {v, w})}
            /\ Search(<<Quote>> \o phrase \o <<Quote>>, left) = {x \in 1 .. Len(m_database) : has(x, {phrase})}

\* A database is read as it was written, and one cut short is read as none.
DatabaseReadsBack ==
    LET out == writeOut
    IN  \A n \in 0 .. Len(out) : readIn(SubSeq(out, 1, n)) = IF n = Len(out) THEN m_database ELSE <<>>
=============================================================================
