------------------------------ MODULE KeyRing ------------------------------
(***************************************************************************)
(* The keys of the terminal program: the first-run dialog (main.cpp,       *)
(* app.cpp), starting and stopping of the core, the Keys view and the key  *)
(* operations of WasteCore, and the key file and keyring of util.cpp,      *)
(* through any number of runs of the program.                              *)
(*                                                                         *)
(* g_pklist holds pointers.  Entries read from a file are allocated; those *)
(* that trustPendingKey and importPublicKey add point to a local variable  *)
(* of theirs: after the call they read as whatever lies there.             *)
(***************************************************************************)
EXTENDS Integers, Sequences, SequencesExt, Selection

CONSTANTS PeerKeys,     \* the public keys of others
          OwnKeys,      \* the private keys this host may come to have
          Files,        \* the keyring files the program may find
          MaxEntries,   \* bound on the entries of both lists
          MaxKeyOps     \* bound on the keys imported or trusted

NoKey == "none"
Garbage == "garbage"    \* what fits no key; in a file, what cannot be read

\* No one else has a key of this host.
ASSUME KeysAssumption ==
    /\ PeerKeys \cap OwnKeys = {}
    /\ {NoKey, Garbage} \cap (PeerKeys \cup OwnKeys) = {}
    /\ Files \subseteq Seq([key : PeerKeys \cup OwnKeys \cup {Garbage}, pending : BOOLEAN])

VARIABLES
    program,    \* "off", "setup" (the first-run dialog) or "running"
    pr4,        \* the private key file: a key, NoKey or Garbage
    pr3,        \* the keyring file
    g_key, g_pubkeyhash,
    parts,      \* the parts of the core that exist
    g_pklist, g_pklist_pending,
    onStack,    \* the keys that were in the local variables of this run
    keyOps,     \* number of keys imported or trusted
    askedFor    \* the keys the user imported, trusted or found in the first file

keyVars == <<program, pr4, pr3, g_key, g_pubkeyhash, parts, g_pklist, g_pklist_pending, onStack, keyOps, askedFor>>

Trusted(keys) == [i \in 1 .. Len(keys) |-> [key |-> keys[i], pending |-> FALSE]]
Heap(key) == [key |-> key, local |-> FALSE]
Local(key) == [key |-> key, local |-> TRUE]

-----------------------------------------------------------------------------
(* The keyring: util.cpp *)

\* What the entries of a list may read as.
Readings(list) ==
    LET lost == {i \in 1 .. Len(list) : list[i].local}
    IN  {[i \in 1 .. Len(list) |-> IF i \in lost THEN found[i] ELSE list[i].key] :
            found \in [lost -> onStack \cup {Garbage}]}

\* loadPKList stops at the first entry it cannot read.
Readable(file) ==
    LET bad == {i \in 1 .. Len(file) : file[i].key = Garbage}
    IN  IF bad = {} THEN file ELSE SubSeq(file, 1, (CHOOSE i \in bad : \A j \in bad : i <= j) - 1)
\* The lists are not emptied first.
LoadPKList ==
    LET file == Readable(pr3)
        of(p) == LET some == Picked(file, {i \in 1 .. Len(file) : file[i].pending = p})
                 IN  [i \in 1 .. Len(some) |-> Heap(some[i].key)]
    IN  g_pklist' = g_pklist \o of(FALSE) /\ g_pklist_pending' = g_pklist_pending \o of(TRUE)

\* savePKList writes the trusted entries as they read, then the pending ones.  What lies
\* behind a lost entry may say that it has no bits (it is left out), or too many: the
\* program may then also end while it writes, with a file cut short.
SavePKList(read, pending) ==
    LET records == Trusted(read) \o [i \in 1 .. Len(pending) |-> [key |-> pending[i].key, pending |-> TRUE]]
        bad == {i \in 1 .. Len(read) : read[i] = Garbage}
    IN  \/ pr3' = records /\ program' = program
        \/ bad # {} /\ program' = program
           /\ pr3' = Picked(records, {i \in 1 .. Len(records) : records[i].key # Garbage})
        \/ bad # {} /\ pr3' = SubSeq(records, 1, (CHOOSE i \in bad : \A j \in bad : i <= j) - 1) /\ program' = "off"

\* Mutant of Finds: whoever waits to be trusted is found, as by findPublicKeyFromKey.
FindsPending(key) ==
    key = g_pubkeyhash \/ \E list \in {g_pklist, g_pklist_pending} :
                              \E read \in Readings(list) : key \in Range(read)
\* findPublicKey may find the key, by which a connection is let in.
Finds(key) == key = g_pubkeyhash \/ \E read \in Readings(g_pklist) : key \in Range(read)
-----------------------------------------------------------------------------
(* Start and stop *)

KeyRingInit ==
    /\ program = "off" /\ pr4 \in OwnKeys \cup {NoKey} /\ pr3 \in Files
    /\ g_key = NoKey /\ g_pubkeyhash = NoKey /\ parts = {}
    /\ g_pklist = <<>> /\ g_pklist_pending = <<>> /\ onStack = {} /\ keyOps = 0
    /\ askedFor = {pr3[i].key : i \in {k \in 1 .. Len(pr3) : ~pr3[k].pending}}

EntryLeft == Len(g_pklist) + Len(g_pklist_pending) < MaxEntries
Unread == UNCHANGED <<g_pklist, g_pklist_pending>>
\* initialize, after "where" if it fails: reloadKey reads the file into g_key; a file that is
\* no key leaves g_pubkeyhash as it was.  A port that is taken leaves the keyring loaded.
Initialize(file, where) ==
    /\ pr4' = file
    /\ \/ /\ file = Garbage /\ g_key' = NoKey /\ UNCHANGED g_pubkeyhash
          /\ program' = where /\ parts' = parts \cup {"config"} /\ Unread
       \/ /\ file # Garbage /\ g_key' = file /\ g_pubkeyhash' = file /\ LoadPKList
          /\ \/ program' = where /\ parts' = {"config"}
             \/ program' = "running" /\ parts' = {"config", "dns", "mql", "listen", "database", "thread"}

\* The process begins anew; without a key file the first-run dialog opens.
Launch ==
    /\ program = "off" /\ parts = {}
    /\ IF pr4 = NoKey THEN program' = "setup" /\ Unread /\ UNCHANGED <<pr4, g_key, g_pubkeyhash, parts>>
       ELSE Initialize(pr4, "off")
    /\ UNCHANGED <<pr3, onStack, keyOps, askedFor>>
GenerateNewKeys ==
    /\ program = "setup" /\ EntryLeft
    /\ \E key \in OwnKeys : Initialize(key, "setup")
    /\ UNCHANGED <<pr3, onStack, keyOps, askedFor>>
\* importKeys copies any file over the key file before it is looked at.
ImportExistingKeys ==
    /\ program = "setup" /\ EntryLeft
    /\ \E file \in OwnKeys \cup {Garbage} : Initialize(file, "setup")
    /\ UNCHANGED <<pr3, onStack, keyOps, askedFor>>
\* Also when the setup is left: what the process held is gone.
Quit ==
    /\ program # "off" \/ parts # {} \/ g_pklist # <<>> \/ g_pklist_pending # <<>>
    /\ program' = "off" /\ parts' = {} /\ g_key' = NoKey /\ g_pubkeyhash' = NoKey
    /\ g_pklist' = <<>> /\ g_pklist_pending' = <<>> /\ onStack' = {}
    /\ UNCHANGED <<pr4, pr3, keyOps, askedFor>>

-----------------------------------------------------------------------------
(* The Keys view.  Its selection moves within state.trustedKeys and state.pendingKeys, which *)
(* nothing fills: the selected key is always the first.                                      *)

AtKeys == program = "running"
InKeys == UNCHANGED <<pr4, g_key, g_pubkeyhash, parts>>

\* The new entry reads right while the call that adds it saves the keyring.
AddTrusted(key, pending) ==
    /\ keyOps < MaxKeyOps /\ EntryLeft /\ keyOps' = keyOps + 1
    /\ onStack' = onStack \cup {key} /\ askedFor' = askedFor \cup {key}
    /\ g_pklist' = Append(g_pklist, Local(key)) /\ g_pklist_pending' = pending
    /\ \E read \in Readings(g_pklist) : SavePKList(Append(read, key), pending)

TrustPendingKey ==
    /\ AtKeys /\ g_pklist_pending # <<>>
    /\ AddTrusted(g_pklist_pending[1].key, Tail(g_pklist_pending))
    /\ InKeys
\* Own keys and keys that the trusted list seems to have already are not added; a key that
\* waits among the pending ones stays there, too.
ImportPublicKey ==
    /\ AtKeys
    /\ \E key \in PeerKeys \ {g_pubkeyhash} :
           /\ \E read \in Readings(g_pklist) : key \notin Range(read)
           /\ AddTrusted(key, g_pklist_pending)
    /\ InKeys
RemoveTrusted ==
    /\ AtKeys /\ g_pklist # <<>> /\ g_pklist' = Tail(g_pklist)
    /\ \E read \in Readings(Tail(g_pklist)) : SavePKList(read, g_pklist_pending)
    /\ UNCHANGED <<g_pklist_pending, onStack, keyOps, askedFor>> /\ InKeys
\* The keyring is not saved: the key waits again after a restart.
RemovePending ==
    /\ AtKeys /\ g_pklist_pending # <<>> /\ g_pklist_pending' = Tail(g_pklist_pending)
    /\ UNCHANGED <<program, pr3, g_pklist, onStack, keyOps, askedFor>> /\ InKeys

KeyRingNext ==
    \/ Launch \/ GenerateNewKeys \/ ImportExistingKeys \/ Quit
    \/ TrustPendingKey \/ ImportPublicKey \/ RemoveTrusted \/ RemovePending

KeyRingSpec == KeyRingInit /\ [][KeyRingNext]_keyVars

-----------------------------------------------------------------------------
(* Properties *)

\* Whatever is saved, loaded, lost and loaded again, a connection is only let in by a key that
\* the user imported or trusted, and the host speaks with the key in its file, with all parts
\* of the core there for the thread that uses them (util.cpp:983, waste_core.cpp:1140-1241).
TrustsByChoice ==
    program = "running" =>
        /\ \A key \in PeerKeys : Finds(key) => key \in askedFor
        /\ g_key = pr4 /\ g_pubkeyhash = pr4
        /\ {"dns", "mql", "listen", "database"} \subseteq parts
=============================================================================
