----------------------------- MODULE MCAsyncDNS -----------------------------
(* AsyncDNS with three hosts, one of them unresolvable.                      *)
EXTENDS AsyncDNS
CONSTANTS h1, h2, h3, a1, a2
MCAddress == [h \in Host |-> CASE h = h1 -> a1 [] h = h2 -> a2 [] OTHER -> None]
=============================================================================
