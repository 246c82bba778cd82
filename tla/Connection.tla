----------------------------- MODULE Connection -----------------------------
(***************************************************************************)
(* One TCP connection between two nodes, from the moment it is asked for   *)
(* until both ends have made a message queue of it: C_Connection           *)
(* (connection.cpp) driven by HandleNewOutCons (netkern.cpp).              *)
(*                                                                         *)
(* Each end sends a hello (a nonce and the hash of its public key, sealed  *)
(* under the network name), its half of the session key (RSA for the other *)
(* end) and a sync string sealed under the session key.  The three parts   *)
(* lie one after the other in the send buffer from the start; the key part *)
(* is filled in when the other hello arrives and the sync is encrypted in  *)
(* place when the other half key arrives, so everything rests on never     *)
(* sending a part too early.                                               *)
(***************************************************************************)
EXTENDS Naturals, Sequences, FiniteSets

CONSTANTS
  HelloUnits,   \* CONNECTION_BFPUBKEY + CONNECTION_PKEYHASHSIZE, in units
  KeyUnits,     \* CONNECTION_PADSKEYSIZE, in units
  SyncUnits,    \* SYNC_SIZE, in units
  Nonce,        \* the values of randA
  Network,      \* the network names; one of them stands for "none"
  Secret,       \* half session keys: records [key, iv]
  Setups        \* the circumstances two ends may meet in

Ends == {"out", "in"}
Peer(e) == IF e = "out" THEN "in" ELSE "out"
Setup == [nonce : Nonce, net : Network, trusts : BOOLEAN, allows : BOOLEAN]

ASSUME UnitsAssumption ==
  /\ HelloUnits \in Nat \ {0} /\ KeyUnits \in Nat \ {0} /\ SyncUnits \in Nat \ {0}
ASSUME SetupsAssumption == Setups \subseteq [Ends -> Setup]
ASSUME SecretAssumption == \A s \in Secret : s = [key |-> s.key, iv |-> s.iv]

None == [key |-> "none", iv |-> "none"]

VARIABLES
  setup,     \* what each end is: its nonce, its network, whether the key of the
             \* other is in its keyring, whether its access list allows the other
  faulty,    \* whether the network, the clock or a user may break the connection
  conn,      \* the C_Connection at each end
  wire,      \* what each end has put on the wire so far
  link,      \* the TCP connection under it
  place,     \* where NetKern keeps each end
  overdue    \* ends whose ten seconds are over

vars == <<setup, faulty, conn, wire, link, place, overdue>>

KeyAt == HelloUnits + KeyUnits
Total == HelloUnits + KeyUnits + SyncUnits

Parts(hello, key, sync) ==
  [i \in 1 .. Total |-> IF i <= HelloUnits THEN hello
                        ELSE IF i <= KeyAt THEN key ELSE sync]

\* What do_init, init_crypt and the send_bytes of the sync string leave behind.
Fresh(state, cansend) ==
  [m_state |-> state, m_cansend |-> cansend, bf_initted |-> {},
   m_send_buffer |-> Parts("hello", "blank", "plain"),
   m_send_pos |-> 0, received |-> 0,
   m_mykeyinfo |-> None, echo |-> "none", m_fish |-> {}]

Init ==
  /\ setup \in Setups /\ faulty \in BOOLEAN
  /\ conn = [e \in Ends |-> IF e = "out" THEN Fresh("resolving", TRUE)
                                         ELSE Fresh("connected", FALSE)]
  /\ wire = [e \in Ends |-> <<>>]
  /\ link = "down"
  /\ place = [e \in Ends |-> IF e = "out" THEN "new_net" ELSE "none"]
  /\ overdue = {}

-----------------------------------------------------------------------------
(* bf_initted: 1 their hello is in, 2 mine is out, 4 their half key is in, *)
(* 8 mine is out.  The code compares the number with 3 and with 12.        *)

HelloPhase(c) == c.bf_initted \cap {4, 8} = {} /\ c.bf_initted # {1, 2}
Ready(c) == {4, 8} \subseteq c.bf_initted

\* Mutant of SendLimit: after the hello everything in the buffer may go.
SendLimitAfterHello(c) == IF HelloPhase(c) THEN HelloUnits ELSE Total

\* How far into the send buffer a run may send.
SendLimit(c) ==
  IF HelloPhase(c) THEN HelloUnits ELSE IF ~Ready(c) THEN KeyAt ELSE Total

SendRoom(c) ==
  IF c.m_cansend /\ SendLimit(c) > c.m_send_pos THEN SendLimit(c) - c.m_send_pos ELSE 0

\* The flags after n more units went out.
Sent(c, n) ==
  LET pos == c.m_send_pos + n
      hello == IF HelloPhase(c) /\ pos >= HelloUnits THEN {2} ELSE {}
      key   == IF ~Ready(c) /\ pos >= KeyAt THEN {8} ELSE {}
  IN  IF n = 0 THEN c
      ELSE [c EXCEPT !.m_send_pos = pos, !.bf_initted = @ \cup hello \cup key]

\* Mutant of GotPkey: the accepting end is never allowed to send.
GotPkeyMute(c, me, p, s) ==
  LET known == p.nonce # me.nonce /\ me.trusts /\ p.net = me.net
      open  == [c EXCEPT !.bf_initted = @ \cup {1}]
  IN  IF ~known THEN [open EXCEPT !.m_state = "closed"]
      ELSE [open EXCEPT !.m_mykeyinfo = s, !.echo = p.nonce,
              !.m_send_buffer = [i \in DOMAIN @ |-> IF @[i] = "blank" THEN "key" ELSE @[i]]]

\* init_crypt_gotpkey: p is the setup of the other end, s the half key drawn.
GotPkey(c, me, p, s) ==
  LET known == p.nonce # me.nonce /\ me.trusts /\ p.net = me.net
      open  == [c EXCEPT !.m_cansend = TRUE, !.bf_initted = @ \cup {1}]
  IN  IF ~known THEN [open EXCEPT !.m_state = "closed"]
      ELSE [open EXCEPT !.m_mykeyinfo = s, !.echo = p.nonce,
              !.m_send_buffer = [i \in DOMAIN @ |->
                 IF @[i] = "blank" THEN "key" ELSE @[i]]]

\* Mutant of KeyFits: two equal half keys are not refused.
KeyFitsEqualHalves(c, me, q, units) ==
  /\ \A i \in DOMAIN units : units[i] = "key"
  /\ q.echo = me.nonce

\* The checks of init_crypt_decodekey on the half key of the other end, q.
KeyFits(c, me, q, units) ==
  /\ \A i \in DOMAIN units : units[i] = "key"
  /\ q.m_mykeyinfo.key # c.m_mykeyinfo.key
  /\ q.m_mykeyinfo.iv # c.m_mykeyinfo.iv
  /\ q.echo = me.nonce

\* Mutant of DecodeKey: the encryption of what is pending starts one block late.
DecodeKeyLate(c, me, q, units) ==
  LET fits == KeyFits(c, me, q, units)
  IN  [c EXCEPT !.bf_initted = @ \cup {4},
         !.m_state = IF fits THEN @ ELSE "closed",
         !.m_fish = IF fits THEN {q.m_mykeyinfo, c.m_mykeyinfo} ELSE @,
         !.m_send_buffer = [i \in DOMAIN @ |->
            IF i > KeyAt + 1 /\ i > c.m_send_pos
            THEN (IF fits THEN "sealed" ELSE "noise") ELSE @[i]]]

\* init_crypt_decodekey, then what is still to be sent behind the half key is
\* encrypted where it lies, with whatever m_fish holds.
DecodeKey(c, me, q, units) ==
  LET fits == KeyFits(c, me, q, units)
  IN  [c EXCEPT !.bf_initted = @ \cup {4},
         !.m_state = IF fits THEN @ ELSE "closed",
         !.m_fish = IF fits THEN {q.m_mykeyinfo, c.m_mykeyinfo} ELSE @,
         !.m_send_buffer = [i \in DOMAIN @ |->
            IF i > KeyAt /\ i > c.m_send_pos
            THEN (IF fits THEN "sealed" ELSE "noise") ELSE @[i]]]

\* The state after n more units came in.
Received(c, e, n, s) ==
  LET p == Peer(e)
      got == [c EXCEPT !.received = @ + n]
      one == IF HelloPhase(c) /\ 1 \notin c.bf_initted /\ got.received >= HelloUnits
             THEN GotPkey(got, setup[e], setup[p], s) ELSE got
  IN  IF n = 0 THEN c
      ELSE IF ~Ready(one) /\ 4 \notin one.bf_initted /\ got.received >= KeyAt
      THEN DecodeKey(one, setup[e], conn[p], SubSeq(wire[p], HelloUnits + 1, KeyAt))
      ELSE one

\* The end of run in STATE_CLOSING: closed once nothing is left to send.
Settled(c) ==
  IF c.m_state = "closing" /\ c.m_send_pos = Total
  THEN [c EXCEPT !.m_state = "closed"] ELSE c

-----------------------------------------------------------------------------
(* The caller: HandleNewOutCons looks at a connection right after its run. *)

SyncMatches(c, e) ==
  /\ \A i \in KeyAt + 1 .. Total : wire[Peer(e)][i] = "sealed"
  /\ c.m_fish = conn[Peer(e)].m_fish

Judge(c, e) ==
  IF place[e] # "new_net" THEN place[e]
  ELSE IF ~Ready(c) \/ c.received < Total THEN "new_net"
  ELSE IF ~SyncMatches(c, e) THEN "rejected"
  ELSE IF ~setup[e].allows THEN "denied" ELSE "queue"

Held(e) == place[e] \in {"new_net", "queue"}

Drop(e) ==
  /\ place' = [place EXCEPT ![e] = "gone"]
  /\ UNCHANGED <<setup, faulty, wire, link, overdue>>

\* run finds the ten seconds over before the keys are agreed.
RunOverdue(e) ==
  /\ Held(e) /\ e \in overdue /\ ~Ready(conn[e])
  /\ conn' = [conn EXCEPT ![e].m_state = "error"]
  /\ Drop(e)

\* run in STATE_RESOLVING with an address at hand calls connect.
RunResolving(e) ==
  /\ Held(e) /\ e \notin overdue /\ conn[e].m_state = "resolving"
  /\ \E s \in {"connected", "connecting"} \cup (IF faulty THEN {"error"} ELSE {}) :
        /\ conn' = [conn EXCEPT ![e].m_state = s]
        /\ IF s = "error" THEN Drop(e)
           ELSE /\ link' = IF s = "connected" THEN "up" ELSE "pending"
                /\ UNCHANGED <<setup, faulty, wire, place, overdue>>

\* run in STATE_CONNECTING when select reports an error.
RunRefused(e) ==
  /\ Held(e) /\ conn[e].m_state = "connecting" /\ link = "refused"
  /\ conn' = [conn EXCEPT ![e].m_state = "error"]
  /\ Drop(e)

\* The rest of run: send, receive, and the look the caller takes at the result.
RunTransfer(e) ==
  /\ Held(e) /\ (e \in overdue => Ready(conn[e]))
  /\ \/ conn[e].m_state \in {"connected", "closing"}
     \/ conn[e].m_state = "connecting" /\ link = "up"
  /\ \E n \in 0 .. SendRoom(conn[e]),
        m \in 0 .. Len(wire[Peer(e)]) - conn[e].received, s \in Secret :
       LET open == [conn[e] EXCEPT !.m_state = IF @ = "connecting" THEN "connected" ELSE @]
           out  == Sent(open, n)
           c    == Settled(Received(out, e, m, s))
       IN  /\ c # conn[e]
           /\ conn' = [conn EXCEPT ![e] = c]
           /\ wire' = [wire EXCEPT ![e] = @ \o SubSeq(conn[e].m_send_buffer,
                          conn[e].m_send_pos + 1, conn[e].m_send_pos + n)]
           /\ place' = [place EXCEPT ![e] = Judge(c, e)]
  /\ UNCHANGED <<setup, faulty, link, overdue>>

\* run after the socket has failed: send or recv reports an error, or recv
\* returns 0 when all that the other end sent before it went has been read.
RunBroken(e) ==
  /\ Held(e) /\ (e \in overdue => Ready(conn[e]))
  /\ conn[e].m_state \in {"connected", "closing"}
  /\ ~Held(Peer(e)) /\ place[Peer(e)] # "none"
  /\ conn' = [conn EXCEPT ![e].m_state = "closed"]
  /\ Drop(e)

\* run on a connection that closed itself: the caller deletes it.
RunClosed(e) ==
  /\ Held(e) /\ conn[e].m_state = "closed"
  /\ conn' = conn
  /\ Drop(e)

\* close() on the connection of a message queue.
Close(e) ==
  /\ faulty /\ place[e] = "queue" /\ conn[e].m_state = "connected"
  /\ conn' = [conn EXCEPT ![e].m_state = "closing"]
  /\ UNCHANGED <<setup, faulty, wire, link, place, overdue>>

\* ListenToSocket: accept, check the address, keep the connection.
Accept ==
  /\ link = "up" /\ place["in"] = "none"
  /\ place' = [place EXCEPT !["in"] = IF setup["in"].allows THEN "new_net" ELSE "gone"]
  /\ UNCHANGED <<setup, faulty, conn, wire, link, overdue>>

\* The network answers a connect, and ten seconds pass.
Establish ==
  /\ link = "pending"
  /\ link' \in {"up"} \cup (IF faulty THEN {"refused"} ELSE {})
  /\ UNCHANGED <<setup, faulty, conn, wire, place, overdue>>

TenSeconds(e) ==
  /\ faulty /\ Held(e) /\ e \notin overdue
  /\ overdue' = overdue \cup {e}
  /\ UNCHANGED <<setup, faulty, conn, wire, link, place>>

Run(e) == \/ RunOverdue(e) \/ RunResolving(e) \/ RunRefused(e)
          \/ RunTransfer(e) \/ RunBroken(e) \/ RunClosed(e)

Next ==
  \/ Accept
  \/ Establish
  \/ \E e \in Ends : Run(e) \/ Close(e) \/ TenSeconds(e)

Spec == Init /\ [][Next]_vars

\* NetKern_Run is called in an endless loop, the network answers in the end and
\* time passes.
FairSpec == /\ Spec /\ WF_vars(Accept) /\ WF_vars(Establish)
            /\ \A e \in Ends : WF_vars(Run(e)) /\ WF_vars(TenSeconds(e))

-----------------------------------------------------------------------------
\* Every variable keeps its type, and only units that were sent are received.
TypeOK ==
  /\ setup \in Setups /\ faulty \in BOOLEAN
  /\ conn \in [Ends ->
       [m_state : {"resolving", "connecting", "connected", "closing", "closed", "error"},
        m_cansend : BOOLEAN, bf_initted : SUBSET {1, 2, 4, 8},
        m_send_buffer : [1 .. Total -> {"hello", "blank", "key", "plain", "sealed", "noise"}],
        m_send_pos : 0 .. Total, received : 0 .. Total,
        m_mykeyinfo : Secret \cup {None}, echo : Nonce \cup {"none"},
        m_fish : SUBSET (Secret \cup {None})]]
  /\ \A e \in Ends : /\ Len(wire[e]) = conn[e].m_send_pos
                     /\ conn[e].received <= Len(wire[Peer(e)])
  /\ link \in {"down", "pending", "up", "refused"}
  /\ place \in [Ends -> {"none", "new_net", "queue", "gone", "rejected", "denied"}]
  /\ overdue \subseteq Ends

Mutual == \A e \in Ends : /\ setup[e].trusts
                          /\ setup[e].net = setup[Peer(e)].net
                          /\ setup[e].nonce # setup[Peer(e)].nonce

\* No part leaves before it is ready: the half key is never sent blank, the sync
\* string never in the clear, however the sends and receives of a run fall
\* (the limits on len in C_Connection::run).
NothingSentEarly ==
  \A e \in Ends : \A i \in DOMAIN wire[e] : wire[e][i] \notin {"blank", "plain"}

\* A message queue is made only of a connection whose two ends have each other's
\* public key and the same network name: each end checks only its own keyring, and
\* learns from the nonce coming back that the other end did the same.  Its session
\* key is then the one the other end has, whatever becomes of the other end, and is
\* made of both halves.
QueueIsAgreed ==
  /\ TypeOK
  /\ \A e \in Ends : place[e] = "queue" =>
       /\ Mutual
       /\ conn[e].m_fish = conn[Peer(e)].m_fish
       /\ conn[e].m_fish = {conn["out"].m_mykeyinfo, conn["in"].m_mykeyinfo}
       /\ Cardinality(conn[e].m_fish) = 2

\* "failed auth" is only ever said of a connection whose keys did not agree: a
\* good session key always decrypts the sync string to the sync string.
RejectedForCause ==
  \A e \in Ends : place[e] = "rejected" => conn[e].m_fish = {}

HalvesClash ==
  LET mine(e) == conn[e].m_mykeyinfo
  IN  /\ \A e \in Ends : mine(e) # None
      /\ mine("out").key = mine("in").key \/ mine("out").iv = mine("in").iv

\* Two ends that trust each other and are not cut off both end up with a message
\* queue, unless they drew halves that clash: neither waits for a part the other one
\* holds back.  And whatever happens, no connection stays in g_new_net for ever.
HandshakeCompletes ==
  /\ (Mutual /\ ~faulty /\ \A e \in Ends : setup[e].allows) ~>
       (HalvesClash \/ \A e \in Ends : place[e] = "queue")
  /\ \A e \in Ends : place[e] = "new_net" ~> place[e] # "new_net"
=============================================================================
