------------------------------ MODULE AsyncDNS ------------------------------
(***************************************************************************)
(* C_AsyncDNS: a small cache of host names that the main thread asks and a  *)
(* worker thread fills, with no lock between them.  The worker publishes a  *)
(* result in two writes, "resolved" and then "addr".                        *)
(*                                                                         *)
(* resolve() is one step: of what it writes and reads only the order of    *)
(* the worker's two writes around it makes a difference.  Time is left out: *)
(* when the cache is full any resolved entry may be the least recently used.*)
(***************************************************************************)
EXTENDS Integers

CONSTANTS
  Host,
  Address,     \* what getaddrinfo finds: [Host -> IPs \cup {None}]
  None,        \* INADDR_NONE
  NoHost,
  CacheSize    \* m_cache_size, 32 in the code

ASSUME CacheAssumption == CacheSize \in Nat \ {0} /\ NoHost \notin Host

VARIABLES
  m_cache,       \* [1..CacheSize -> [hostname, resolved, addr]]; NoHost is unused
  m_thread_kill,
  worker,        \* "none", "scan", "lookup", "publish" or "ended"
  at,            \* the worker's x
  found,         \* what its getaddrinfo returned
  answer,        \* what resolve last returned for a host: 0 with the address, 1 or -1
  main           \* "run", "joining" or "gone"

dnsVars == <<m_cache, m_thread_kill, worker, at, found, answer, main>>
Slot == 1..CacheSize
IP == {Address[h] : h \in Host} \cup {None}
DNSReply == [ret : {-1, 1}, addr : {None}] \cup [ret : {0}, addr : IP]

\* The worker's index never runs more than one past the cache, and an answer is one
\* of the three that resolve can give.
DNSTypeOK ==
  /\ m_cache \in [Slot -> [hostname : Host \cup {NoHost}, resolved : BOOLEAN, addr : IP]]
  /\ m_thread_kill \in BOOLEAN
  /\ worker \in {"none", "scan", "lookup", "publish", "ended"}
  /\ at \in 1..(CacheSize + 1)
  /\ found \in IP
  /\ answer \in [Host -> DNSReply \cup {None}]
  /\ main \in {"run", "joining", "gone"}

DNSInit ==
  /\ m_cache = [x \in Slot |-> [hostname |-> NoHost, resolved |-> FALSE, addr |-> None]]
  /\ m_thread_kill = TRUE
  /\ worker = "none" /\ at = 1 /\ found = None
  /\ answer = [h \in Host |-> None]
  /\ main = "run"

-----------------------------------------------------------------------------
(* The main thread.                                                        *)

Wait == [ret |-> 1, addr |-> None]
Fail == [ret |-> -1, addr |-> None]
Success(a) == [ret |-> 0, addr |-> a]

\* makesurethreadisrunning: join a thread that gave notice, start the next.  If that fails
\* the notice stands, and the next call tries again.
ThreadGone == worker \in {"none", "ended"}
MakeSureThreadIsRunning ==
  \/ m_thread_kill /\ m_thread_kill' = FALSE /\ worker' = "scan" /\ at' = 1
  \/ UNCHANGED <<m_thread_kill, worker, at>>

ResolveKnown(h, x) ==
  /\ m_cache[x].hostname = h
  /\ UNCHANGED m_cache
  /\ IF m_cache[x].resolved
     THEN /\ answer' = [answer EXCEPT ![h] =
               IF m_cache[x].addr = None THEN Fail ELSE Success(m_cache[x].addr)]
          /\ UNCHANGED <<m_thread_kill, worker, at>>
     ELSE answer' = [answer EXCEPT ![h] = Wait] /\ MakeSureThreadIsRunning

Unused == {x \in Slot : m_cache[x].hostname = NoHost}
\* Mutant of Victims: an entry that is still being resolved may be given away.
VictimsUnresolved == IF Unused # {} THEN Unused ELSE Slot

Victims == IF Unused # {} THEN Unused ELSE {x \in Slot : m_cache[x].resolved}

ResolveNew(h) ==
  /\ \A x \in Slot : m_cache[x].hostname # h
  /\ IF Victims = {}
     THEN /\ answer' = [answer EXCEPT ![h] = Fail]      \* too many resolves happening
          /\ UNCHANGED <<m_cache, m_thread_kill, worker, at>>
     ELSE /\ \E oi \in Victims :
               m_cache' = [m_cache EXCEPT ![oi] =
                             [hostname |-> h, resolved |-> FALSE, addr |-> None]]
          /\ answer' = [answer EXCEPT ![h] = Wait]
          /\ MakeSureThreadIsRunning

\* A caller asks; pthread_join keeps it until a thread that gave notice is gone.
Resolve(h) ==
  /\ main = "run"
  /\ m_thread_kill => ThreadGone
  /\ (\E x \in Slot : ResolveKnown(h, x)) \/ ResolveNew(h)
  /\ UNCHANGED <<found, main>>

\* The destructor tells the worker to stop and waits for it.
Destroy ==
  /\ main = "run"
  /\ main' = "joining" /\ m_thread_kill' = TRUE
  /\ UNCHANGED <<m_cache, worker, at, found, answer>>
Joined ==
  /\ main = "joining" /\ ThreadGone
  /\ main' = "gone"
  /\ UNCHANGED <<m_cache, m_thread_kill, worker, at, found, answer>>

-----------------------------------------------------------------------------
(* The worker: _threadfunc.                                                *)

Skip ==
  /\ worker = "scan" /\ at <= CacheSize /\ ~m_thread_kill
  /\ m_cache[at].hostname = NoHost \/ m_cache[at].resolved
  /\ at' = at + 1
  /\ UNCHANGED <<m_cache, m_thread_kill, worker, found, answer, main>>

\* getaddrinfo, for as long as it takes.
Lookup ==
  /\ worker = "scan" /\ at <= CacheSize /\ ~m_thread_kill
  /\ m_cache[at].hostname # NoHost /\ ~m_cache[at].resolved
  /\ worker' = "lookup"
  /\ found' = Address[m_cache[at].hostname]
  /\ UNCHANGED <<m_cache, m_thread_kill, at, answer, main>>

SetResolved ==
  /\ worker = "lookup"
  /\ m_cache' = [m_cache EXCEPT ![at].resolved = TRUE]
  /\ worker' = "publish"
  /\ UNCHANGED <<m_thread_kill, at, found, answer, main>>

SetAddr ==
  /\ worker = "publish"
  /\ m_cache' = [m_cache EXCEPT ![at].addr = found]
  /\ worker' = "scan" /\ at' = at + 1
  /\ UNCHANGED <<m_thread_kill, found, answer, main>>

\* Mutant of ThreadEnd: no notice is given.
ThreadEndUnnoticed ==
  /\ worker = "scan"
  /\ at > CacheSize \/ m_thread_kill
  /\ worker' = "ended"
  /\ UNCHANGED <<m_cache, m_thread_kill, at, found, answer, main>>
\* The loop ends: m_thread_kill=1, the notice the next resolve looks for.
ThreadEnd ==
  /\ worker = "scan"
  /\ at > CacheSize \/ m_thread_kill
  /\ m_thread_kill' = TRUE
  /\ worker' = "ended"
  /\ UNCHANGED <<m_cache, at, found, answer, main>>

Worker == Skip \/ Lookup \/ SetResolved \/ SetAddr \/ ThreadEnd

DNSNext == (\E h \in Host : Resolve(h)) \/ Destroy \/ Joined \/ Worker
DNSSpec == DNSInit /\ [][DNSNext]_dnsVars

\* C_Connection::run asks again on every pass while the answer is "wait", and a thread is
\* not refused for ever; getaddrinfo returns; the destructor returns from pthread_join.
DNSFairness ==
  /\ WF_dnsVars(Worker) /\ WF_dnsVars(Joined)
  /\ \A h \in Host :
       WF_dnsVars(answer[h] = Wait /\ Resolve(h) /\ (answer'[h] = Wait => ~m_thread_kill'))
DNSFairSpec == DNSSpec /\ DNSFairness

-----------------------------------------------------------------------------

\* Whenever no worker runs, what the cache holds as resolved is right: the two
\* unlocked writes leave nothing wrong behind, even in an entry that was given to
\* another host between them.  And no host ever sits in two entries, of which a
\* caller would see the first and the worker fill the second.
SettledCacheRight ==
  /\ DNSTypeOK
  /\ ThreadGone => \A x \in Slot :
       m_cache[x].resolved => m_cache[x].addr = Address[m_cache[x].hostname]
  /\ \A x, y \in Slot : m_cache[x].hostname = m_cache[y].hostname /\ x # y =>
       m_cache[x].hostname = NoHost

\* Every entry is looked up as long as its caller keeps asking and a thread is to be had
\* at last, whatever the moment the worker gave notice, how often no thread could be
\* started and whatever other entries are given away meanwhile; only the destructor may
\* leave one undone, and it returns.
LookedUp ==
  /\ \A x \in Slot, h \in Host :
       (m_cache[x].hostname = h /\ ~m_cache[x].resolved) ~>
         (m_cache[x].hostname = h /\ m_cache[x].resolved) \/ main # "run"
  /\ main = "joining" ~> main = "gone"
=============================================================================
