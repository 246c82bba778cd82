----------------------------- MODULE MCTerminal -----------------------------
(* The parts of the terminal program share the threads and no state: each behaviour is one *)
(* of one of them.                                                                          *)
EXTENDS SearchBrowse, Rooms, PeersView, TransferView, KeyRing, SettingsView

CONSTANTS Parts,    \* the parts to check
          p, q      \* ids of transfers

VARIABLE part      \* the one that runs

File(name, id) == [name |-> name, id |-> id]
\* Each host's files "f" and "g" have the ids of that host.
MCId(h, name) == CASE h = "h" -> IF name = "f" THEN 1 ELSE 2
                   [] h = "i" -> IF name = "f" THEN 2 ELSE 1
                   [] OTHER   -> IF name = "f" THEN 0 ELSE 3
MCMatches == [h \in Sharers |-> <<File("f", MCId(h, "f"))>>]
MCNick == [h \in {"h"} |-> "u"]
MCEnter(path, name) == IF name = "d" THEN "/d" ELSE "/u"
MCParent(path) == "/"
MCTree == [h \in Sharers |-> [path \in Paths |->
              CASE path = "/"  -> <<File("d", -1), File("f", MCId(h, "f"))>>
                [] path = "/d" -> <<File("g", MCId(h, "g"))>>
                [] OTHER       -> <<>>]]
MCReported(addr) == IF addr = "host" THEN "numbers" ELSE addr
MCDemoRows == <<Peer("d1", "Online"), Peer("d2", "Authenticating"), Peer("d3", "Failed")>>
KeyLine(key, pending) == [key |-> key, pending |-> pending]
MCFiles == {<<>>, <<KeyLine("a", FALSE)>>, <<KeyLine("a", FALSE), KeyLine("b", TRUE)>>,
            <<KeyLine("b", TRUE), KeyLine("c", FALSE)>>}
MCIniFiles ==
    {<<>>, <<Line("nickname", <<"n">>), Line("port", <<"4002">>), Line("network", <<"w">>),
             Line("shared_dirs", <<"a", "b", "c">>), Line("throttleflag", <<"3">>),
             Line("throttlesend", <<"64">>), Line("throttlerecv", <<"0">>)>>}
MCFolders == {<<"a">>, <<"c", "a">>}

\* Ids are interchangeable: the transfers only compare them.
SameIds == Permutations(TransferIds)

vars == <<part, searchVars, roomVars, peersVars, transferVars, keyVars, settingsVars>>

\* The parts that do not run stand at one of their initial states.
Init ==
    /\ part \in Parts
    /\ SearchInit /\ RoomsInit /\ PeersInit /\ TransfersInit /\ KeyRingInit /\ SettingsInit
    /\ part # "peers" => ~simulated
    /\ part # "keys" => pr4 = NoKey /\ pr3 = <<>>
    /\ part # "settings" => ini = <<>> /\ ~exists
Next ==
    \/ part = "search" /\ SearchNext
       /\ UNCHANGED <<part, roomVars, peersVars, transferVars, keyVars, settingsVars>>
    \/ part = "rooms" /\ RoomsNext
       /\ UNCHANGED <<part, searchVars, peersVars, transferVars, keyVars, settingsVars>>
    \/ part = "peers" /\ PeersNext
       /\ UNCHANGED <<part, searchVars, roomVars, transferVars, keyVars, settingsVars>>
    \/ part = "transfers" /\ TransfersNext
       /\ UNCHANGED <<part, searchVars, roomVars, peersVars, keyVars, settingsVars>>
    \/ part = "keys" /\ KeyRingNext
       /\ UNCHANGED <<part, searchVars, roomVars, peersVars, transferVars, settingsVars>>
    \/ part = "settings" /\ SettingsNext
       /\ UNCHANGED <<part, searchVars, roomVars, peersVars, transferVars, keyVars>>
Spec == Init /\ [][Next]_vars
=============================================================================
