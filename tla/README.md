# A verification project for waste-tui

WASTE builds small private networks: every program connects to a few others it trusts, all
links are encrypted, and messages flood the network so built or are routed back over it. On top
of that sit file transfers, searches and chat. This directory models the parts of the program in
which something can go wrong between two steps or two actors, checks them with TLC on small
instances, and proves with TLAPS, for every instance, most of the safety properties that the runs check.

Sources are named relative to the repository. `PROJECT.json` maps every definition to the lines
it stands for.

## 1. Inventory

| Part | State | Operations | Interacts with |
|---|---|---|---|
| `C_MessageQueue` (mqueue.cpp) | queue of messages by priority, bytes of the head sent, message being received, four route tables | `send_message`, `run(0)`, `run(1)`, `recv_message`, `saturate`, `add_route`, `is_route` | owns a `C_Connection`; called by the list |
| `C_MessageQueueList` (mqueuelist.cpp) | queues, own ids, `m_max_ttl`, `m_run_rr` | `send`, `run`, `find_route`, `AddMessageQueue` | calls the program's message callback |
| `C_Connection` (connection.cpp) | state, socket, ring buffers, handshake flags, keys | `run`, `close`, `send_bytes`, `recv_bytes` | `C_AsyncDNS`; driven by NetKern, then by its queue |
| NetKern (netkern.cpp) | `g_new_net`, host list | `NetKern_Run`, `AddConnection`, `DoPing`, `SendCaps` | moves connections into the queue list |
| `C_Listen`, netq | socket; list of known hosts with ratings and pointers to connections | `get_connect`; `add_to_netq`, `SaveNetQ`, `LoadNetQ` | NetKern, Network window |
| `C_AsyncDNS` (asyncdns.cpp) | cache, resolver thread | `resolve`, thread function, destructor | connections |
| `XferSend`, `XferRecv` (xfers.cpp) | chunks wanted and sent, output and state file, ids | constructors, `run`, `run_hdr`, `onGotMsg`, `Abort` | requests are broadcasts, chunks are replies |
| `C_FileDB` (filedb.cpp) | index, scan stack | `Scan`, `DoScan`, `Search`, `GetFile` | uploads, search, browse |
| keyring, access list, settings (util.cpp, config.cpp) | lists and files | load, save, find | handshake, everything |
| `WasteCore` (tui/core/waste_core.cpp) | mutex, event thread, peers, rooms, scans | API for the interface, `eventLoop` | all of the above, callbacks |
| terminal interface (tui/) | `AppState` | events, posted callbacks | `WasteCore` |
| Windows interface (main.cpp, xferwnd.cpp) | lists of hosts, queued downloads, downloads, offers, uploads | message callback, timers, commands | all of the above |
| server, key generator | - | message callback, a dialog | the same core |
| message bodies (m_*.cpp) | a body being put together | `Make`, constructors | queues, transfers, searches |
| cryptography (rsa/, blowfish, sha) | contexts | RSA, Blowfish-CBC, SHA-1, MD5 | handshake, queue, transfers |

**What is hard.** One thread drives connections, queues and transfers in the order of its lists; a
message is written and read in pieces; the network drops, duplicates (through its loops) and
delays; connections break with what they hold; two programs keep one protocol state each for a
transfer and know only ids of each other; the resolver and the event loop are threads that share
memory with others, the first without a lock; the download survives its process in two files
written at different times. The interfaces know of the core by posted tasks, by indexes into lists that change and by
pointers that are used again; the three programs share one core and keep different lists over it.

**What makes each part correct.** A queue keeps a message whole once begun, keeps priority order,
loses only what it must. A route table is exactly the memory of the last ids. A broadcast reaches
every node within reach once, and replies find back. A handshake ends on both sides with the same
key or not at all, and ends. A resolve is answered, with the host's own address. A completed
download is the file that was offered; a download and an upload end. Lists that hold pointers or
indexes to what other parts change stay true to it; what the user asked for is neither forgotten
nor done to something else. Arithmetic, digests, messages and files give back what was put in.

The full list, each at its line with the property that watches it, is `hazards` in `PROJECT.json`.

## 2. Modules

| Module | Stands for |
|---|---|
| `RecentIds` | what a route table promises: the last *n* ids |
| `RouteTable` | `m_routes`, `m_routes_order`, `m_route_opos`; implements `RecentIds` |
| `MessageQueue` | one direction of a link: sender's queue, byte stream, receiver |
| `Flood` | what the network promises: reached nodes, the tree they hang on, answers |
| `Mesh` | the queue lists of all nodes; implements `Flood` |
| `QueuePass` | the round robin over one node's queues while some end |
| `Connection` | both ends of a connection up to the message queue |
| `AsyncDNS` | cache, resolver thread, destructor |
| `FileTransfer` | one downloader, its uploads, their files |
| `FileDB` | the shared files: two databases, the scan, the disk under it |
| `DirListing` | what the database answers: listings, trees, searches; the saved file |
| `Codecs` | the bodies of all messages |
| `BigNum`, `RsaKeys`, `Digest`, `Blowfish` | rsa/, blowfish.c, sha.cpp |
| `KeyFiles` | keys as they lie in files |
| `SearchBrowse`, `Rooms`, `PeersView`, `TransferView`, `KeyRing`, `SettingsView` | the terminal program, view by view, with the part of `WasteCore` under each |
| `HostList`, `XferQueue`, `Uploads` | the Windows program's lists of hosts, downloads and offers |
| `Selection` | lists with elements taken out, as several of the above leave them |
| `MessageQueueProofs`, `ConnectionProofs`, `FileTransferProofs`, `FileDBProofs` | theorems about the module of that name |
| `NetworkProofs` | theorems about `Mesh`, `RouteTable`, `QueuePass` and `AsyncDNS` |
| `SelectionProofs` | what the other proofs need of lists: least and greatest, what is picked or removed, induction, folds |
| `TerminalProofs` | theorems about `Rooms`, `KeyRing`, `SearchBrowse`, `PeersView`, `SettingsView` and `TransferView` |
| `WindowsProofs` | theorems about `HostList`, `Uploads` and `XferQueue` |
| `MC*` | values for the constants; `MCAlgorithms`, `MCTerminal` and `MCWindows` put modules that share no state side by side, so that each behaviour is one of one of them |

### MessageQueue
Lengths are in units of the 8-byte Blowfish block, to which the code rounds every one. A unit on
the wire is a cell that names its message and place, so that reading at the wrong place shows;
`Damage` replaces one by a cell that fits nothing, and the receiver may then read any length in
`JunkUnits` out of the header. `SendMessage` is `send_message` with the insertion and the drop,
`RunSend`, `RunSendTurn`, `RunSendStop` the loop of `run(0)`, `RecvMessage` and `RefuseHeader` one
turn of the receive loop of the list: `run(1)` and `recv_message`. Limits of bandwidth
(`maxbytesend`) only stop the loop earlier and are left out. The queue is strictly by priority: whoever keeps
handing in more urgent messages starves the others (`mqueue.cpp:113`). `EventuallyDelivered` therefore promises
delivery to a message that only finitely many more urgent ones come before; those of its own priority never
starve it.

### RouteTable
An id is a number, compared as `memcmp` does. `ScanLeft`, `ScanRight` and `FindRoute` are the
bisection; `AddRoute` overwrites the oldest id's slot and shifts the ids between. The module says
that its two arrays hold the same ids, the one sorted and the other in order of arrival, and
`Memory` maps the ring to `RecentIds`.

### Mesh, Flood and QueuePass
A queue, the connection under it and what the peer has not read are one set of messages per
direction: priorities reorder kinds of messages, so no order is assumed. `Receive` is the body of the
loop over received messages in `run`, with one action for each branch. Histories (`heard`, `depth`,
`answers`, `replied`, `forgotten`) let the properties speak of what happened; `forgotten` counts how often a node
lost an id with the queue that it was seen on. Route tables are sets here:
`RouteTable` shows what they do while no more than 8192 ids are in use.

`Flood` knows nothing of queues, ttl or relays: a broadcast reaches nodes from nodes that it has
reached, and an answer reaches the origin. `ImplementsFlood` maps the routes to the tree.

`QueuePass` is the loop around that: which queue is next, modulo how many there are, while those whose
connection ended leave. In a pass a queue is known by its place at the beginning, and `m_run_rr` is kept modulo a
common multiple of the numbers of queues.

### Connection
Both ends of one TCP connection, each with its send buffer of hello, key and sync parts, the four
flags of `bf_initted`, the position sent and received. `Setups` enumerates who trusts, allows and
shares a network with whom, and who draws the same nonce. Cryptography is ideal: a part is what was
put in, readable by who has the key. `RunTransfer` is `C_Connection::run` on a connected socket in
one step, with any number of units moved in both directions; `Judge`, `Drop` and `Held` are
the passes of `HandleNewOutCons`.

### AsyncDNS
The resolver thread's loop with its two writes apart. `resolve` is one step, as only the order of the
two writes around it can be told. Time is not modelled: any resolved entry may be the least recently used.
A thread may fail to start: the notice of its end then stands, and the next call tries again.

### FileTransfer
A file is a version with a length in chunks. `requests` is a set, as a broadcast may take any path;
`replies` is a sequence, as they share one path and one priority. Timers fire at any time, or, when
`Patient`, once nothing is under way: the second is what the 30 seconds and five minutes stand for where
a property is about the end. The state file and the output file are variables that outlive the `XferRecv`.
An `XferSend` has the length and hash of the version it opened (`of`) and reads from what that file holds by now
(`reads`): `RewriteFile` writes to it where it is, `ReplaceFile` puts another under its name or removes it, either at any
time. A request for a file that is not indexed or not there is answered by an error. A download keeps the index it
began with, so that `Got different index` (`xfers.cpp:342`) does not come up.

### FileDB and DirListing
A version of a file stands for its length and time, which is all `DoScan` compares. A slice ends where its
50 ms end, and nobody sees the second database before the exchange, so each directory opened, entry read and
directory closed is a step; the interface, the disk and a restart come between any two. A directory that
cannot be opened leaves the stack with what would have been read of it (`OpenFails`). A directory still on
the stack keeps what `readdir` has yet to return; a file that appears or goes meanwhile may be returned or
not, as POSIX leaves it, and one that is gone has the version that `stat` left on the stack. `named` remembers
which file each index was ever given to, that is, what peers may still ask for; `stable` what did not
change since a scan began. Searches and requests only read `g_database`, so that the invariants
quantify over all of them.

`DirListing` has the strings: a database grows as `DoScan` fills it, and at each size it is asked for every
listing, tree and search there is, and written and read. A name is a sequence of characters, because the
comparisons (`strnicmp`, bit 32, prefixes) are what can go wrong.

### Codecs, BigNum, RsaKeys, Digest, Blowfish, KeyFiles
Each follows its code statement by statement where the code reckons, on smaller words: a byte has `B`,
`2^KBits` or `2^ByteBits` values, a digit of nn.c `2 * HalfBits` bits, so that whatever wraps, carries or
meets a limit does so here. They are checked against plain arithmetic, against the message itself, or by
reading back what was written. `Digest` and `KeyFiles` leave the compression functions ideal. Chunk requests and
search replies (`Codecs`), digests and random bytes (`Digest`) and the generation of primes (`RsaKeys`) are
state machines; the rest are functions, put to every value of a set. Loops are folds.

### The terminal program
`SearchBrowse` (search, cancel, browse, download), `Rooms` (chat and direct messages), `PeersView`, `TransferView`,
`KeyRing` (first run, key files, Keys view) and `SettingsView`. The interface's thread, the core's thread and the
tasks one posts to the other are actors of their own. A handler that releases a lock on the way is a sequence
of steps in `SearchBrowse` (`todo`); what a task carries (an index, an address, a row) is what the code
gives it, not what is meant. A host that connects is asked for its nickname (`DoPing` of netkern.cpp), under an id that
is kept where the search's is; the terminal program sets `g_last_scanid_used` to 1, never to a time, so that only
another `DoPing` finds it recent. The id of a row of transfers is the low half of an address: `TransferIds` are few, and
one may be given to two transfers that live. `KeyRing` runs the program again and again over the same files and has the
entries of `g_pklist` that point to local variables. `SettingsView` has the settings in the view, in
the core and in the file: lines of a name and a value, which reading cuts to its buffer (`LineRoom`) and folds into a
record. `Flush` is two steps, as it empties the file before it writes, and the program may end between any two lines
(`CrashInFlush`). What is left of a line that was cut is taken to have no `=`. The rows of `--demo` and simulated
peers (port 0) are in `PeersView`; simulated transfers are left out.

### The Windows program
All of it runs on one thread, and still three lists are changed by many hands. `HostList`: rows with pointers
to connections, changed by pings, users, incoming connections, `HandleNewOutCons` (`KeepUp`, `Fails`, `Refused`,
`Connected`), `C_MessageQueueList::run` (`QueueEnds`) and a restart through the `.pr1` file. `XferQueue`: the
queue of downloads, the list of downloads and `g_recvs`; `RunRecvs` is the timer's pass with the start of a queued
file and the requeuing of what timed out, `Start` what both it and "download now" do with rows of before.
`Uploads`: offers in places of `g_uploads`, the requests for places, and the sends made of them.

## 3. Runs

| Run | Shows | Bounds |
|---|---|---|
| `MessageQueue` | order, priority, what a full queue loses, delivery, what the MD5 keeps out | queue of 2, three messages of two priorities and filler, lengths 0 to 2 units, send buffer of 3 against 4 for header and body, one damaged cell; what was delivered may be handed in again, without end, until two messages were dropped |
| `Mesh` | the flood, the tree of routes, every node hears, every reply arrives | a ring of three with a tail: a loop, and a node behind it |
| `MeshBreaks` | what survives loss and broken queues, how often a broadcast is handled again, and a `m_max_ttl` of 2 | the same network, three queues deleted (both ends of a link, so that it comes back, and one more) |
| `Connection` | nothing too early, agreement, no rejection without cause, completes | parts of two units, every setup whose outgoing end is in `net1`, three half keys of which two clash in each part; with and without failures |
| `AsyncDNS` | cache right when settled, every entry looked up | three hosts, one unresolvable; cache of two; any start of a thread may fail |
| `FileDB` | indexes stay true over rescans, a complete scan lists what is shared | two directories, one inside the other, two names, two versions; two changes of files or directories that do not open, three edits of the shared directories, indexes start again after 3 |
| `FileTransfer` | what is on disk, in the state file and in a completed download; that it fails for a cause only | three versions, two of three chunks and one of one, two chunks per request, two downloads, one loss, one change (writing to the file, replacing or removing it), one restart; the two of one length are interchangeable |
| `FileTransferEnds` | downloads and uploads end, complete if undisturbed | three chunks; a loss, an abort, a lost route |
| `FileTransferResume` | *violation*: a resumed download never ends | two versions of three chunks, one change, one restart |
| `Algorithms` | `CryptoExact`: arithmetic, keys, digests, cipher, key files. `MessagesExact`: codecs. `ListingsExact`: listings, trees, searches, the saved database. `FindRouteExact`, `ForgetsOldest`: route table. `PassServes`: the round robin | digits of 4 bits with operands at their limits, primes of 6 and 7 bits, all keys of three bits for a cipher of four rounds; messages of every field at its limit, up to 3 items or 4 chunks, in a payload that holds neither all of the largest items nor of the shortest; files cut anywhere; databases of three files in four directories; a table of 8 from every content of 8 of 10 ids and every position of its ring, then three calls; six queues, each of which may end at any of its turns |
| `Terminal` | `DownloadsWhatIsShown`, `DirectStaysBetweenTwo`, `AsManyOnline`, `RowsShowTransfers`, `TrustsByChoice`, `SettingsKept`, one for each view | two requests, to which those of `DoPing` count, and two posted tasks at a time; two messages, two rooms; two peers entered, three connections; three transfers with two ids, which are interchangeable; three keys of others, two own, any number of runs of the program; files of settings without a line and with seven, a line with room for two of the three directories in it; three rows of directories, one directory with a semicolon |
| `Windows` | `RowsOfConnections`, `HostsStay`: the host list. `QueueKeeps`: downloads. `OffersHold`: uploads | addresses of 3 bits, three rows, two connections, one ping; three files of two peers, three places in the queue, one command, one error or time out, limits 1 and 2; two offers, three sends, two aborts |

The bounds are the smallest at which the cases named in the hazards happen: a full queue and one message too
many, a loop and a node behind it, a resume after a change, a place or an id used a second time, a host that
is refused while another is tried. For each property a mutant shows that the run reaches them.
Deadlock checking is off where the environment is bounded and everything may come to rest.

**Mutants.** For every property of a passing run `PROJECT.json` names a definition and a
wrong form of it ("Mutant of ..." in the module) with which TLC finds the property violated.

**Fairness.** The event loop calls `NetKern_Run`, `g_mql->run` and the transfers every five
milliseconds, so each of their steps is weakly fair. `Transmit` is strongly fair: room comes and goes
as the receiver reads. The resolver thread and `getaddrinfo` are weakly fair, ten seconds pass, and a thread is not
refused for ever.
Nothing is assumed of users, of failures, or that a lost message is sent again. The parts of `Algorithms`,
`Terminal` and `Windows` are checked for safety only and assume no fairness.

## 4. Findings

`findings` in `PROJECT.json` has the main ones, each with what the repository says instead.

1. `xfers.cpp:1045`: a download resumed after the file changed may ask for nothing for ever (a run ends in the
   counterexample).
2. `mqueue.cpp:215`: the MD5 of a message of length 0 is never compared.
3. `asyncdns.cpp:96`: `resolved` is set before `addr`; a host that resolves is reported unresolvable. An entry
   given to another host between the two writes may answer with the first host's address until it is looked
   up again.
4. `waste_core.cpp:822`, `1125`: trusted and imported keys are pointers to local variables.
5. `waste_core.cpp:1064`: an exported key may be half as long as its fields and is read past its end. One exported
   by a user whose name is spaces is imported as another key (line 1027).
6. `waste_core.cpp:231`: without a nickname every direct message is shown.
7. `README.md:99`: an imported key is never pending. Nothing fills the lists the Keys view counts, so that its
   selection stays at the first (`app.cpp:1180`).
8. `main.cpp:416`: no limit on uploads means no uploads.
9. `xferwnd.cpp:651`, `main.cpp:388`: ending a send of an earlier offer frees the later one in its place; its
   row's pointer is then taken for an `XferSend`.
10. `netkern.cpp:219`: the host that is tried is not the one that was chosen. One that connects and breaks off
    goes on being tried first (`mqueuelist.cpp:240`); one that refused comes back with each ping.
11. `netq.cpp:133`: queued files with names of one character do not survive a restart. A download that the
    user aborted comes back as a queued one (line 183).
12. `app.cpp:1284`: a directory shared twice makes Ctrl+D remove another.
13. `waste_core.cpp:2306`: a listing has entries of siblings; neighbours whose names differ in capitals
    only become one (`filedb.cpp:430`); megabytes of directories may be one off.
14. `app.cpp:1301`: Cancel, Pause and Resume of a transfer change its row only; rows are shown in another order than
    the keys count them.
15. `sha.h:39`: hashes differ between 32 and 64 bits.
16. `netkern.cpp:488`: when a host connects, its query for nicknames takes the place of the running search, and the
    nicknames that answer are shown as results and can be downloaded.
17. `waste_core.cpp:1151`: the name of the network is wiped at every start, shown nevertheless, and saved empty.
18. `config.cpp:67`: shared directories that make a line of more than 4095 bytes are cut.
19. `app.cpp:289`: the demo saves empty settings over the user's.
20. `waste_core.cpp:471`: ids of transfers are halves of addresses; two transfers may have the same.
21. `asyncdns.cpp:195`: after a thread that failed to start the one before is joined once more.

Met on the way, and written into the preconditions of the properties or their comments:

- `mqueue.cpp:113`: a steady supply of urgent messages keeps others waiting for ever (`EventuallyDelivered`).
- `mqueuelist.cpp:249`: the ids seen on a queue are forgotten with it, so a broadcast that comes again
  over another link is handled twice (`HeardOnceUnbroken` says "while no queue is deleted", `HeardAgainIfForgotten`
  how often otherwise).
- `xfers.cpp:90`: of a file that is written to while it is sent, chunks of both versions go out under the hash of the
  first (`ValidIsWritten`); the hash at the end finds it out, if files are hashed (`CompletedIsTheFile`).
- `mqueuelist.cpp:204`: a broadcast does not go farther than `m_max_ttl` links, 6 in the program
  (`ReachBounded`; `EveryoneHears` is checked on a network within reach).
- `mqueuelist.cpp:250`: where a queue leaves, others may be passed over in that pass: of five, two may (`PassServes`).
- `xfers.cpp:248`: an upload without a way back is never timed out (`TransfersEnd`).
- `xfers.cpp:783`: outside Windows a completed download may keep the tail of a longer version.
- `waste_core.cpp:1843`: removing the last shared directory puts an empty database in place whose numbers start
  at 0, though peers may still hold indexes of before (`named` is emptied there); `filedb.cpp:679` speaks
  of starting again on the initial scan only.
- `filedb.cpp:841`: `a > m_database_used` lets the search read one entry past the last.
- `filedb.cpp:805`: of a directory that is shared twice only one list of the old database is searched; a file
  that the other has may get a new index, and one of its two indexes is forgotten (`ListedOnce`).
- `filedb.cpp:216`, `227`: words with one of `@ [ \ ] ^ _` among their first two characters are never found; a word of
  one character is looked for behind the end of an empty string (`ListingsExact`).
- `rsa.c:197`: data of no bytes can be encrypted but not decrypted (`KeysInvert`).
- `waste_core.cpp:1500`: ports above 32767 are compared as negative numbers and give a peer a second row; a status is
  shown in the last unfinished row, whosever it is (`AsManyOnline`).
- Settings: directories with a semicolon are two after a restart (`SettingsKept`); Enter does not reach the code that
  edits a field (`app.cpp:1378`).
- `waste_core.cpp:2017`: the interface's thread sends through `g_mql` while the event loop runs it.

## 5. Proofs

Each theorem holds for every value of the constants that the named assumptions allow, where a run shows one
instance. A safety property is seldom inductive; the invariant that is stands at the top of the module that proves
it, in named parts, and TLC checked it on the run of the property before it was proved. A proof then has a lemma
for each action, and a last theorem that puts the steps together.

| Theorem | Property | Why it holds |
|---|---|---|
| `NetworkProofs`: the network | | |
| `TypeCorrect`, `RouteIsUnique`, `OwnNeverHeard`, `TtlStaysInRange` | - | `RouteInv`: routes exist only for ids that were drawn (`LiveRoutes`) |
| `ReachIsBounded` | `ReachBounded` | the hops of a copy and its ttl have a constant sum (`Ttls`) |
| `HeardAgainOnlyIfForgotten` | `HeardAgainIfForgotten` | a broadcast is handled only where its id is not known, and then has a route, which goes with its queue only (`Forgets`) |
| `HeardAtMostOnce`, `RoutesFormTree`, `RepliesNeverStray` | `HeardOnceUnbroken`, `RoutesLeadHome` | `Unbroken`, while no queue is deleted: who was reached keeps its route (`HeardKnown`), which leads to a node reached earlier (`HomeRoutes`); a reply is on a link only if its far end knows the id (`RepliesOnRoute`) |
| `MeshImplementsFlood` | `ImplementsFlood` | under `MaxBreaks = 0` each step maps to a step of `Flood` or to none |
| `MessageQueueProofs` | | |
| `QueueStaysInOrder` | `QueueInOrder` | `Flow`, what was written with what waits behind it, is a fair order of what was handed in, whatever is inserted or dropped (`FlowInv`) |
| `LeastUrgentIsLost` | `LosesLeastUrgent` | a full queue is in order, so its last message is the least urgent; `FillerIsLeast` |
| `StreamIsDelivered` | `DeliveredInOrder` | both ring buffers together are consecutive units of what was written, from where the receiver is to where the sender is (`InStep`). Of a damaged message one unit is gone that the receiver has yet to come to or missed (`SpoiledInv`), so it never gets it whole |
| `NetworkProofs`: route tables and passes | | |
| `FindRouteFindsPlace` | - | for a sorted table, whatever its size, neither the early ends of the bisection nor its last scan miss the place |
| `TableStaysExact` | `FindRouteExact` | sorted array and ring hold the same ids, none twice (`TableInv`) |
| `RingForgetsOldest` | `ForgetsOldest` | each step of the ring is one of `RecentIds`, a refinement |
| `PassesServe` | `PassServes` | of the queues reached, those served and those the pass would still come to (`ToReach`), no turn loses one but where a queue leaves; then what was served is still so, and as many are to come as before, less one |
| `ConnectionProofs` | | |
| `NothingIsSentEarly`, `QueueIsOfBothEnds`, `RejectedOnlyForCause` | `NothingSentEarly`, `QueueIsAgreed`, `RejectedForCause` | `ConnInv`: the send buffer of an end is what its flags and what it knows of its peer make it (`Laid`), it has sent no further than is ready (`SentInOrder`), the wire holds what was in the buffer when it was sent (`OnWire`), and a session key is that of both halves (`SameSession`) |
| `NetworkProofs`: the DNS cache | | |
| `SettledCacheIsRight` | `SettledCacheRight` | `CacheInv`: every resolved entry is right but the one the worker is between its two writes for (`RightBut`), and that one, still resolved, gets what was looked up for it (`WorkerHolds`) |
| `FileTransferProofs` | | |
| `ValidStaysWritten` | `ValidIsWritten` | `FitInv`: until a header has come the download says what the state file says |
| `CompletedStaysTheFile` | `CompletedIsTheFile` | `DoneInv`: the hash is compared last |
| `FailureHasCause` | `FailsForCause` | an id belongs to one request (`IdsInv`), so that without loss every chunk comes behind its header (`OrderInv`), and without a change everything is of one version (`SameInv`, `KeptInv`) |
| `FileDBProofs` | | |
| `IndexesAreKept` | `IndexesStayTrue` | `DatabaseInv`: the entries of a directory stand together in the order of the directories (`Ordered`), so that the place remembered in the old database is the start of the right run or there is none (`FoundFor`, `RunStart`); an index of the new database below where the old one ended is the same file's (`OldNumbers`), any other is new (`FirstNumbers`) |
| `ScansListShared` | `ScanListsShared` | `ListInv`: the entries of a file and the items of the stack that lead to it are together as many as the shared directories above it (`Balanced`). Of what is left of a directory one child at most leads there, and alone, as the directories are a tree (`NextBelow`); one that does not open takes places below it out of what is promised; so opening a directory and pushing or popping one keep the sum, and a file that is read changes sides |
| `TerminalProofs` | | |
| `DirectIsBetweenTwo` | `DirectStaysBetweenTwo` | `RoomsInv`: a message that is posted to a room or shown there fits the room's name |
| `TrustIsByChoice` | `TrustsByChoice` | `KeyRingInv`: `g_pklist` has only keys that were asked for, whatever lies where the local ones were; a file that is written has them or what was garbage |
| `ShownIsDownloaded` | `DownloadsWhatIsShown` | `SearchInv`: an answer, a task that is posted, a row and what a handler still has to do carry a host and what this host tells under the id that was asked with: a file that it shares, or its nickname; while a question stands nothing clears the results |
| `OnlineAgrees` | `AsManyOnline` | the tasks ahead balance: as each is run, the rows online come to be as many as the peers known, and are never more (`Climbs`), and for each row that is halfway a status is still to be told (`Lasts`) |
| `SettingsAreKept` | `SettingsKept` | `SettingsInv`: view and core agree; the file, read again, gives the core what it has, once it was saved (`FoundAgain`); the lines that are being written tell the same (`TellsAll`), and any number of them that or the default (`FoundInPart`). A file has one line of a name (`Configs`), what is written is read and nothing else changes (`WrittenIs`), and a written file reads as itself (`ConfigSame`, by induction over its lines) |
| `TransfersAreShown` | `RowsShowTransfers` | `TransfersInv`: a number is announced once (`NumbersApart`), id and number stand for each other while no id is given twice (`Coherent`), and the last task about an upload tells how far it is, or, if there is none, its row (`Told`) |
| `WindowsProofs` | | |
| `RowsStayConnected`, `HostsAreKept` | `RowsOfConnections`, `HostsStay` | `HostsInv`: numbers of connections differ (`Apart`), what a row points to is a connection to its host and port (`Tied`), and no two rows point to one (`Single`): `add_to_netq` takes away a row with a pointer only where it puts one of the same pointer |
| `OffersStand` | `OffersHold` | `UploadsInv`: an offer has one place for ever (`OnePlace`) and at most one row (`OneRow`), a send of what stands in its place has no row of that offer left (`AskedFor`), and an emptied place leaves no pointer behind but one that was crossed (`Straight`) |
| `DownloadsAreKept` | `QueueKeeps` | `DownloadsInv`: ids differ, a row points to a download of its own file and no two rows to one, and a download that goes on has a row with its address, alone of its file (`Paired`). What ends leaves no row behind and takes no address along but back to the queue (`ReapedKeeps`), one after the other in a pass (`FoldKeeps`); the downloads of a peer are no more than the rows `Full` counts (`ActiveHaveRows`), so that the limits hold (`WithinLimits`) |

`QueueInvariant`, `ConnectionInvariant`, `ConnectionTypeCorrect`, `CacheInvariant`, `TransferInvariant` and
`DatabaseInvariant` say that these invariants hold.

**Assumptions.** On constants, each stated by name in its module and evaluated by TLC in a run: the sizes are
numbers, links are symmetric, `m_max_ttl` is between 2 and 96, `NumRoutes` is a power of two up to its 8192 and ids
differ from the first numbers in the table, half keys are pairs, sentinels (`NoDB`, `NoStack`, `Garbage`, `NoIp`, `None`) are none of
what they stand in for, an address is no name, what a search finds at a host is shared there and lies at one of its
paths, addresses of peers are texts, nicknames and numbers in a file of settings have no semicolon to be cut at, the
length of a file is a number, the limits of downloads are within the ids the model has for them, no directory is
inside itself (`TreeAssumption`: `DoScan` skips the names that begin with a dot, `.` and `..` with them, and takes a link
for a file where the system tells the types of entries). Three theorems have a hypothesis of their own:
`LeastUrgentIsLost` that filler is of a lower priority than any message, as `mqueue.h:75` has it (`FillerIsLeast`);
those of `FileTransferProofs` that message ids do not run out (`[]IdsLeft`: an id is 16 random bytes, in the model one of a
finite set); `MeshImplementsFlood` and the three above it that no queue is deleted, without which they are false
(section 4). `CompletedStaysTheFile` is about files that are hashed (`Hashed`), as those up to a limit of the size are.

**Induction.** The library's induction takes an operator as parameter, which the prover cannot instantiate.
Statements about every length (a search in an array, a queue of tasks that is run to its end, a file that is
read line by line) are proved from the well-foundedness of the numbers instead: with a least counterexample (`LeastOf`), or by
induction over a set (`InTurn`). TLAPS takes a recursive function for a `CHOOSE`, so that
`FindRoute`, `AllTurns`, `Picked`, `Reloaded` (hosts) and `FoldLeft` are first shown to exist (`FoldExists`) and then to
go on from an element to the next (`FoldGoes`).

**Only model-checked:**
- Liveness (`TransfersEnd` and the other properties under fairness): fairness and `ENABLED` are beyond the prover.
- `CryptoExact`, `MessagesExact`, `ListingsExact`: functions of data by recursion or folds over bytes and digits.

## 6. Not modelled

See `components` in `PROJECT.json`. Left out for good: drawing, the other dialogs, the compression functions of the
digests, socket set-up, the key generator's dialog and the server's log. Left out so far: what two threads of the
terminal program do to `g_mql` and the lists of transfers at the same time without a lock (undefined behaviour:
anything may come of it); a crash of the Windows program between two saves of its `.pr1` file; that a queued
download is started some day, which TLC takes too long for; searches and chat of the Windows program; the limits of
bandwidth; ring buffers of a connection after the handshake; scans in place.

## 7. Plan

Done: all modules of section 2, the proofs of section 5. Next:

1. The databases of the Windows program and the server, which scan in place.
2. Distribution of keys between two programs; the ring buffers of a connection; bandwidth.
