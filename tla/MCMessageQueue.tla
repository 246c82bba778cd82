--------------------------- MODULE MCMessageQueue ---------------------------
(* Values for MessageQueue: four messages of three priorities, one of them  *)
(* without a body, and a send buffer shorter than a header and a body.      *)
(* What was delivered may be handed in once more, standing for another      *)
(* message, so that the supply of messages of any priority need not end.    *)
EXTENDS MessageQueue

CONSTANTS chat, search, reply, part,
          MaxDrops    \* bound: drops while messages are used again

MCPriority == [m \in AnyMessage |->
  CASE m = chat -> 24 [] m = search -> 64 [] m \in {reply, part} -> 110 [] OTHER -> 255]
MCUnits == [m \in AnyMessage |->
  CASE m = chat -> 1 [] m = search -> 0 [] m = reply -> 2 [] m = part -> 1 [] OTHER -> 1]

Without(s, m) == SelectSeq(s, LAMBDA x : x # m)

UseAgain(m) ==
  /\ m \in Range(got)
  /\ m_stat_drop < MaxDrops
  /\ handed' = Without(handed, m)
  /\ written' = Without(written, m)
  /\ got' = Without(got, m)
  /\ UNCHANGED <<m_msg, m_msg_bsent, m_stat_drop, inrun, sendbuf, recvbuf, m_newmsg,
                 m_newmsg_pos, closed, spoiled>>

MCSpec == Init /\ [][Next \/ \E m \in Message : UseAgain(m)]_vars /\ Fairness
=============================================================================
