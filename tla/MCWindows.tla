----------------------------- MODULE MCWindows -----------------------------
(* The parts of the Windows program's main thread that share no state with one another: each *)
(* behaviour is one of one of them.                                                          *)
EXTENDS HostList, XferQueue, Uploads, TLC

CONSTANT Parts     \* the parts to check

VARIABLE part      \* the one that runs

\* Of 0 to 7: 4 to 7 are a private network, 4 is the own address there, 0 the other one.
MCPrivate == {4 .. 7}
MCResolves == (8 :> 2) @@ (9 :> -1)
Item(allow, ip, maskbits) == [allow |-> allow, ip |-> ip, maskbits |-> maskbits]
MCAccessLists == {[used |-> FALSE, list |-> <<>>],
                  [used |-> TRUE, list |-> <<Item(FALSE, 2, 2)>>]}
MCNoIp == -1
MCPeerOf == ("f" :> "p") @@ ("g" :> "p") @@ ("h" :> "q")
MCNameOf == ("a" :> "x") @@ ("b" :> "y")

vars == <<part, hostVars, queueVars, uploadVars>>

\* The parts that do not run stand at one of their initial states.
Init ==
    /\ part \in Parts
    /\ HostsInit /\ QueueInit /\ UploadsInit
    /\ part # "hosts" => ~access.used
    /\ part # "downloads" => limits = [all |-> 1, host |-> 1] /\ ~options.autoclear /\ ~options.autores
    /\ part # "uploads" => ~send_autoclear
Next ==
    \/ part = "hosts" /\ HostsNext /\ UNCHANGED <<part, queueVars, uploadVars>>
    \/ part = "downloads" /\ QueueNext /\ UNCHANGED <<part, hostVars, uploadVars>>
    \/ part = "uploads" /\ UploadsNext /\ UNCHANGED <<part, hostVars, queueVars>>
Spec == Init /\ [][Next]_vars
=============================================================================
