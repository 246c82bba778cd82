---------------------------- MODULE MCAlgorithms ----------------------------
(* The algorithms share no state: each behaviour is one of one of them. *)
EXTENDS RsaKeys, Digest, Codecs, KeyFiles, DirListing, RouteTable, QueuePass

CONSTANT MaxAdded    \* bound: calls of add_route

VARIABLES algorithm,  \* the one that runs
          cipherKey,  \* the key given to Blowfish_Init
          added       \* calls of add_route

MCNames == {<<>>, <<1>>, <<1, 2, 3>>, <<3, 3, 1, 1, 2>>}
MCTableP == [i \in 1 .. N + 2 |-> (7 * i + 3) % WordLimit]
MCTableS == [i \in 1 .. 4 * Entries |-> (5 * i + 1) % WordLimit]
MCOperands == {0, 1, 2, 3, 15, 16, 17, 64, 127, 128, 143, 239, 240, 241, 254, 255}
MCSha(m, n) == <<FoldLeft(LAMBDA s, b : (2 * s + b) % KByte, 1, m \o n)>>
MCPassKeys == <<<<1, 0>>, <<0, 1, 1>>>>
MCPrivate == <<<<3, 0>>, <<15, 7>>, <<0, 0>>, <<9, 9>>, <<1, 14>>, <<6, 2>>>>
MCSampleKeys ==
    {[bits |-> 16, modulus |-> <<9, 0, 15, 3>>, exponent |-> <<0, 0, 0, 3>>, private |-> MCPrivate],
     [bits |-> 12, modulus |-> <<0, 8, 0, 1>>, exponent |-> <<0, 0, 1, 1>>, private |-> MCPrivate]}
MCNicks == {<<>>, <<2>>, <<3, 1, 2>>, <<1, 2, 1, 3, 2, 3>>, <<1, 1>>}
\* sa, sa/ab, sa/ab/b, sa/abc
MCDirs == {<<<<115, 97>>>>, <<<<115, 97>>, <<97, 98>>>>,
           <<<<115, 97>>, <<97, 98>>, <<98>>>>, <<<<115, 97>>, <<97, 98, 99>>>>}
MCFileNames == {<<97, 66, 95>>, <<98>>, <<98, 32, 97>>}    \* aB_, b, "b a"
MCWords == {<<97>>, <<66>>, <<65, 98>>, <<98, 47, 98>>, <<97, 66, 99>>, <<97, 98, 95>>}
\* A table that has seen these ids in ascending order.
Ascending(ids) == [i \in RouteSlot |-> CHOOSE id \in ids : Quantify(ids, LAMBDA o : o < id) = i]

partVars == <<rsaVars, digestVars, codecVars, keyFileVars, m_database, routeVars, added, passVars>>
vars == <<algorithm, cipherKey, partVars>>

Init ==
    /\ algorithm \in {"keys", "digests", "messages", "cipher", "files", "listing", "routes", "passes"}
    /\ RsaInit /\ DigestInit /\ CodecsInit /\ KeyFilesInit /\ DirListingInit /\ PassInit
    /\ algorithm # "keys" => bits = 12 /\ e = 3
    /\ algorithm # "messages" => request = NewRequest
    /\ IF algorithm = "files" THEN pass = 2 => nick = <<>> ELSE nick = <<>> /\ pass = 1 /\ kp.bits = 16
    /\ cipherKey \in UNION {[1 .. n -> 0 .. 1] : n \in 1 .. 3}
    /\ algorithm # "cipher" => cipherKey = <<0>>
    \* The table of the constructor, or one that has seen NumRoutes ids in ascending order
    \* and gone round any part of the ring since.
    /\ \/ RouteInit
       \/ /\ algorithm = "routes"
          /\ \E ids \in kSubset(NumRoutes, NewId) : m_routes = Ascending(ids)
          /\ m_routes_order = m_routes
          /\ m_route_opos \in RouteSlot
    /\ added = 0
Next ==
    /\ UNCHANGED <<algorithm, cipherKey>>
    /\ \/ /\ algorithm = "keys" /\ RsaNext
          /\ UNCHANGED <<digestVars, codecVars, keyFileVars, m_database, routeVars, added, passVars>>
       \/ /\ algorithm = "digests" /\ DigestNext
          /\ UNCHANGED <<rsaVars, codecVars, keyFileVars, m_database, routeVars, added, passVars>>
       \/ /\ algorithm = "messages" /\ CodecsNext
          /\ UNCHANGED <<rsaVars, digestVars, keyFileVars, m_database, routeVars, added, passVars>>
       \/ /\ algorithm = "files" /\ KeyFilesNext
          /\ UNCHANGED <<rsaVars, digestVars, codecVars, m_database, routeVars, added, passVars>>
       \/ /\ algorithm = "listing" /\ AddEntry
          /\ UNCHANGED <<rsaVars, digestVars, codecVars, keyFileVars, routeVars, added, passVars>>
       \/ /\ algorithm = "routes" /\ added < MaxAdded /\ added' = added + 1 /\ RouteNext
          /\ UNCHANGED <<rsaVars, digestVars, codecVars, keyFileVars, m_database, passVars>>
       \/ /\ algorithm = "passes" /\ PassNext
          /\ UNCHANGED <<rsaVars, digestVars, codecVars, keyFileVars, m_database, routeVars, added>>
Spec == Init /\ [][Next]_vars

-----------------------------------------------------------------------------
\* The arithmetic is exact on all numbers that are drawn, with operands whose digits are
\* at and next to their limits, and what is made of them is a pair of keys (rsa/nn.c, r_keygen.c).
ArithmeticExact ==
    algorithm = "keys" /\ phase = "p" /\ drawn /\ bits = 12 /\ e = 3 =>
        \A v \in MCOperands : ExactOn(a, Digits(v, 2))
\* The digest is that of the message however it was fed, no random byte is given out twice, what
\* is encrypted is decrypted, and keys are read from files as they were written or not at all
\* (md5c.c, sha.cpp, r_random.c, blowfish.c, waste_core.cpp, util.cpp).
CryptoExact ==
    /\ ArithmeticExact
    /\ algorithm = "keys" => KeysInvert
    /\ algorithm = "digests" => DigestOfTheMessage /\ NoByteTwice
    /\ algorithm = "cipher" => DecryptInverts(cipherKey)
    /\ algorithm = "files" => KeysReadBack
\* Every message is read as it was written (m_*.cpp), a request put together from answers asks
\* for what is lacking, and replies carry what was found, whatever the limits of a message.
MessagesExact ==
    algorithm = "messages" =>
        /\ RequestAsksForWhatIsLacking /\ ReplyCarriesItems
        /\ lacking = <<>> /\ found = <<>> => MessagesReadBack
\* A listing, a tree and a search show what is in the database and nothing else, and it is read
\* from its file as it was written (filedb.cpp).  A search looks at each file for itself.
ListingsExact ==
    algorithm = "listing" =>
        ListsEveryEntry /\ TreeIsWhole /\ DatabaseReadsBack /\ (Len(m_database) = 1 => FindsWords)
=============================================================================
