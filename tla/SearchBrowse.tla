---------------------------- MODULE SearchBrowse ----------------------------
(***************************************************************************)
(* Searching and browsing in the terminal program: the Search and Browse   *)
(* views (app.cpp) on the interface's thread, search, cancelSearch,        *)
(* browsePeer and downloadFile (waste_core.cpp) called from it, and the    *)
(* core's thread that hands search replies on as posted tasks and asks for *)
(* nicknames when a host connects (DoPing, netkern.cpp).  The answers to   *)
(* all three requests are search replies: only g_browse_path and           *)
(* g_last_scanid tell them apart.                                          *)
(*                                                                         *)
(* A handler that takes and releases locks is a sequence of steps of the   *)
(* interface's thread, todo; posted tasks run when it is empty.  The       *)
(* selection moves among the rows that are shown: a key acts on any row.   *)
(***************************************************************************)
EXTENDS Integers, Sequences, SequencesExt

CONSTANTS Sharers,      \* the hosts that share files
          Self,         \* the host this program runs on
          Tree,         \* Tree[h][path]: the entries of a directory of h
          Matches,      \* Matches[h]: its files that a search finds
          NickOf,         \* NickOf[h]: the nickname of a host that tells it when asked
          Paths,        \* "/" and the others
          Enter(_, _),  \* the path of a subdirectory
          Parent(_),    \* the path up to the last slash
          MaxRequests,  \* bound on the requests sent
          MaxPosted     \* bound on the tasks not yet run

Top == "/"
IsDirectory(entry) == entry.id = -1
\* What a host tells of itself, in the form of a file it has found.
Node(h) == [name |-> NickOf[h], id |-> -1]
Shared(h) == UNION {Range(Tree[h][path]) : path \in Paths}

\* A path that a host does not share is empty there, and what a search finds is shared.
ASSUME TheTrees ==
    /\ Self \in Sharers
    /\ DOMAIN NickOf \subseteq Sharers /\ NickOf \in [DOMAIN NickOf -> STRING]
    /\ Tree \in [Sharers -> [Paths -> Seq([name : STRING, id : Int])]]
    /\ Matches \in [Sharers -> Seq([name : STRING, id : Int])]
    /\ \A h \in Sharers : Range(Matches[h]) \subseteq Shared(h)
ASSUME ThePaths ==
    /\ Top \in Paths /\ \A path \in Paths : Parent(path) \in Paths
    /\ \A h \in Sharers, path \in Paths : \A entry \in Shared(h) :
          IsDirectory(entry) => Enter(path, entry.name) \in Paths
    /\ \A h \in DOMAIN NickOf, path \in Paths : Enter(path, NickOf[h]) \in Paths

VARIABLES
    screen,    \* view, the view to go back to; the row a modal asks about, and where it is
    search,    \* the results
    browse,    \* peer, path, guid and entries
    todo,      \* what the interface's thread still does in the handler it is in
    g_browse_path, g_last_scanid,
    g_last_scanid_used,  \* 0, 1, or the time at which DoPing set it
    coreReads, \* the reply the core's thread is handling, with what it read of g_browse_path
    due,       \* answers on their way
    sent,      \* number of requests sent
    posted     \* tasks posted to the interface's thread

uiVars == <<screen, search, browse>>
scanVars == <<g_last_scanid, g_last_scanid_used>>
coreVars == <<g_browse_path, scanVars, coreReads>>
netVars == <<due, sent>>
searchVars == <<uiVars, coreVars, netVars, todo, posted>>

NoPath == ""
NoGuid == ""
\* An id is new; what it is the id of, the code does not see.
Id(kind) == <<kind, sent + 1>>
NoScan == <<"none", 0>>
Do(s) == [task |-> s]

SearchInit ==
    /\ screen = [view |-> "Network", previous |-> "Network", modal |-> 0, row |-> <<>>]
    /\ search = <<>>
    /\ browse = [peer |-> Self, path |-> Top, guid |-> NoGuid, entries |-> <<>>]
    /\ todo = <<>> /\ g_browse_path = NoPath /\ g_last_scanid = NoScan /\ g_last_scanid_used = 0
    /\ coreReads = <<>>
    /\ due = {} /\ sent = 0 /\ posted = <<>>

-----------------------------------------------------------------------------
(* The interface's thread: keys *)

Key(view) == todo = <<>> /\ screen.modal = 0 /\ screen.view = view
KeyVars == <<coreVars, netVars, posted>>

\* Enter in the search input: the old results go before the core is asked.
SearchEnter ==
    /\ Key("Search") /\ sent < MaxRequests
    /\ search' = <<>>
    /\ todo' \in {<<>>, <<Do("leaveBrowse"), Do("sendSearch")>>}   \* an empty query is not sent
    /\ UNCHANGED <<screen, browse, KeyVars>>
SearchEscape ==
    /\ Key("Search")
    /\ todo' = <<Do("cancel"), Do("clear")>>
    /\ UNCHANGED <<uiVars, KeyVars>>
AskDownload ==
    /\ Key("Search")
    /\ \E i \in 1 .. Len(search) : screen' = [screen EXCEPT !.modal = i, !.row = search[i]]
    /\ UNCHANGED <<search, browse, todo, KeyVars>>
Confirm ==
    /\ todo = <<>> /\ screen.modal # 0 /\ Len(posted) < MaxPosted
    /\ posted' = IF screen.modal <= Len(search)
                 THEN Append(posted, [search[screen.modal] EXCEPT !.task = "download"])
                 ELSE posted
    /\ screen' = [screen EXCEPT !.modal = 0, !.row = <<>>]
    /\ UNCHANGED <<search, browse, todo, coreVars, netVars>>
Decline ==
    /\ todo = <<>> /\ screen.modal # 0
    /\ screen' = [screen EXCEPT !.modal = 0, !.row = <<>>]
    /\ UNCHANGED <<search, browse, todo, KeyVars>>

\* The handler keeps the lock on the state and calls the core.
Browse(peer, path) ==
    /\ sent < MaxRequests
    /\ browse' = [browse EXCEPT !.peer = peer, !.path = path, !.entries = <<>>]
    /\ todo' = <<Do("enterBrowse"), Do("sendBrowse")>>

\* Ctrl+B on a peer that is online, or on the owner of a search result.
BrowsePeer ==
    /\ \/ Key("Network") /\ \E h \in Sharers \ {Self} : Browse(h, Top)
       \/ Key("Search") /\ \E i \in 1 .. Len(search) : Browse(search[i].guid, Top)
    /\ screen' = [screen EXCEPT !.previous = screen.view, !.view = "Browse"]
    /\ UNCHANGED <<search, KeyVars>>

\* Enter, h and Backspace in the Browse view.
BrowseUp ==
    /\ Key("Browse") /\ browse.path # Top
    /\ Browse(browse.peer, Parent(browse.path))
    /\ UNCHANGED <<screen, search, KeyVars>>
BrowseDown ==
    /\ Key("Browse")
    /\ \E entry \in Range(browse.entries) :
        IsDirectory(entry) /\ Browse(browse.peer, Enter(browse.path, entry.name))
    /\ UNCHANGED <<screen, search, KeyVars>>
\* Enter and Ctrl+D on a file: what to download is taken while the state is locked.
BrowseDownload ==
    /\ Key("Browse") /\ browse.guid # NoGuid
    /\ \E entry \in Range(browse.entries) :
        ~IsDirectory(entry) /\ todo' = <<[task |-> "download", guid |-> browse.guid, entry |-> entry,
                                          of |-> NoScan]>>
    /\ UNCHANGED <<uiVars, KeyVars>>
BrowseEscape ==
    /\ Key("Browse")
    /\ screen' = [screen EXCEPT !.view = screen.previous]
    /\ UNCHANGED <<search, browse, todo, KeyVars>>
SwitchView ==
    /\ todo = <<>> /\ screen.modal = 0
    /\ \E v \in {"Network", "Search"} : screen' = [screen EXCEPT !.view = v]
    /\ UNCHANGED <<search, browse, todo, KeyVars>>

-----------------------------------------------------------------------------
(* The interface's thread in the core *)

Step(s) == todo # <<>> /\ todo[1].task = s /\ todo' = Tail(todo)
\* A broadcast.  A host answers a search with what it finds, a browse that names it with
\* the directory, if there is anything: the answer is then due, unless it is lost.
Send(kind, answers) ==
    /\ sent' = sent + 1
    /\ due' = due \cup {[id |-> Id(kind), guid |-> h, items |-> answers[h]] :
                           h \in {k \in DOMAIN answers \ {Self} : answers[k] # <<>>}}

\* Under the core's lock, which the core's thread holds while it handles a message.
CoreLocked == coreReads = <<>>

LeaveBrowseMode ==
    /\ Step("leaveBrowse") /\ g_browse_path' = NoPath
    /\ UNCHANGED <<uiVars, scanVars, coreReads, netVars, posted>>
\* The files of this host are found first; the id is known only when the message is sent.
SendSearch ==
    /\ Step("sendSearch") /\ CoreLocked /\ Len(posted) < MaxPosted
    /\ posted' = posted \o [i \in 1 .. Len(Matches[Self]) |->
                               [task |-> "result", guid |-> Self, entry |-> Matches[Self][i], of |-> Id("search")]]
    /\ Send("search", Matches) /\ g_last_scanid' = Id("search") /\ g_last_scanid_used' = 1
    /\ UNCHANGED <<uiVars, g_browse_path, coreReads>>
CancelSearch ==
    /\ Step("cancel") /\ CoreLocked /\ g_last_scanid' = NoScan /\ g_last_scanid_used' = 0
    /\ UNCHANGED <<uiVars, g_browse_path, coreReads, netVars, posted>>
ClearResults ==
    /\ Step("clear") /\ search' = <<>>
    /\ UNCHANGED <<screen, browse, KeyVars>>
EnterBrowseMode ==
    /\ Step("enterBrowse") /\ g_browse_path' = browse.path
    /\ UNCHANGED <<uiVars, scanVars, coreReads, netVars, posted>>
SendBrowse ==
    /\ Step("sendBrowse") /\ Send("browse", [h \in {browse.peer} |-> Tree[h][browse.path]])
    /\ UNCHANGED <<uiVars, coreVars, posted>>
DownloadFile ==
    /\ Step("download")
    /\ UNCHANGED <<uiVars, coreVars, netVars, posted>>

-----------------------------------------------------------------------------
(* The core's thread *)

\* A host has connected: DoPing asks for nicknames.  Its query is a new one, under the core's
\* id of the last scan, unless its last one was less than 120 seconds ago: then the host that
\* has come, and those behind it, get that query.
Now == 2     \* a time of late, which 0 and 1 are not
DoPing ==
    /\ CoreLocked /\ sent < MaxRequests
    /\ LET nodes == [h \in DOMAIN NickOf |-> <<Node(h)>>]
       IN  \/ /\ Send("users", nodes)
              /\ g_last_scanid' = Id("users") /\ g_last_scanid_used' = Now
           \/ /\ g_last_scanid_used = Now /\ sent' = sent + 1
              /\ \E H \in SUBSET (DOMAIN NickOf \ {Self}) :
                    due' = due \cup {[id |-> g_last_scanid, guid |-> h, items |-> nodes[h]] : h \in H}
              /\ UNCHANGED scanVars
    /\ UNCHANGED <<uiVars, g_browse_path, coreReads, todo, posted>>
\* An answer that does not fit into one message comes in two.  g_browse_path is read under
\* its own lock, and cleared under it later.
TakeReply ==
    /\ coreReads = <<>> /\ Len(posted) < MaxPosted
    /\ \E d \in due : \E n \in {1, Len(d.items)} :
        /\ n <= Len(d.items)
        /\ coreReads' = <<[d EXCEPT !.items = SubSeq(@, 1, n)], g_browse_path # NoPath>>
        /\ due' = (due \ {d}) \cup IF n = Len(d.items) THEN {}
                                   ELSE {[d EXCEPT !.items = SubSeq(@, n + 1, Len(@))]}
    /\ UNCHANGED <<uiVars, g_browse_path, scanVars, sent, todo, posted>>
BrowseReply ==
    /\ coreReads # <<>> /\ coreReads[2]
    /\ posted' = Append(posted, [task |-> "entries", guid |-> coreReads[1].guid, entries |-> coreReads[1].items])
    /\ g_browse_path' = NoPath /\ coreReads' = <<>>
    /\ UNCHANGED <<uiVars, scanVars, netVars, todo>>
SearchReply ==
    /\ coreReads # <<>> /\ ~coreReads[2]
    /\ posted' = IF g_last_scanid_used # 0 /\ g_last_scanid = coreReads[1].id
                 THEN posted \o [i \in 1 .. Len(coreReads[1].items) |->
                                    [task |-> "result", guid |-> coreReads[1].guid,
                                     entry |-> coreReads[1].items[i], of |-> coreReads[1].id]]
                 ELSE posted
    /\ coreReads' = <<>>
    /\ UNCHANGED <<uiVars, g_browse_path, scanVars, netVars, todo>>

-----------------------------------------------------------------------------
(* Posted tasks *)

SearchTask(t) == todo = <<>> /\ posted # <<>> /\ posted[1].task = t /\ posted' = Tail(posted)

ShowResult ==
    /\ SearchTask("result") /\ search' = Append(search, posted[1])
    /\ UNCHANGED <<screen, browse, todo, coreVars, netVars>>
\* Mutant of ShowEntries: the guid is noted with the first answer only.
ShowEntriesOnce ==
    /\ SearchTask("entries")
    /\ browse' = [browse EXCEPT !.guid = IF @ = NoGuid THEN posted[1].guid ELSE @,
                                !.entries = posted[1].entries]
    /\ UNCHANGED <<screen, search, todo, coreVars, netVars>>
ShowEntries ==
    /\ SearchTask("entries")
    /\ browse' = [browse EXCEPT !.guid = posted[1].guid, !.entries = posted[1].entries]
    /\ UNCHANGED <<screen, search, todo, coreVars, netVars>>
RunDownload ==
    /\ SearchTask("download") /\ todo' = <<posted[1]>>
    /\ UNCHANGED <<uiVars, coreVars, netVars>>

SearchNext ==
    \/ SearchEnter \/ SearchEscape \/ AskDownload \/ Confirm \/ Decline
    \/ BrowsePeer \/ BrowseUp \/ BrowseDown \/ BrowseDownload \/ BrowseEscape \/ SwitchView
    \/ LeaveBrowseMode \/ SendSearch \/ CancelSearch \/ ClearResults \/ EnterBrowseMode \/ SendBrowse
    \/ DownloadFile \/ DoPing \/ TakeReply \/ BrowseReply \/ SearchReply
    \/ ShowResult \/ ShowEntries \/ RunDownload
SearchSpec == SearchInit /\ [][SearchNext]_searchVars

-----------------------------------------------------------------------------
(* Properties *)

\* A download is of a file as the host it is asked from shares it, and a confirmed one of the
\* result that was selected when the question came up, whichever answers arrive meanwhile,
\* late, in part, for another directory or from another host (app.cpp:345-361, 773-787).
\* Excepted are rows that are hosts' own nicknames: DoPing keeps the id of its query where
\* the search's is kept (netkern.cpp:484-499), and the answers to it become results.
DownloadsWhatIsShown ==
    /\ \A i \in 1 .. Len(todo) : todo[i].task = "download" =>
           \/ todo[i].entry \in Shared(todo[i].guid)
           \/ todo[i].of[1] = "users" /\ todo[i].entry = Node(todo[i].guid)
    /\ screen.modal # 0 => search[screen.modal] = screen.row
=============================================================================
