----------------------------- MODULE RouteTable -----------------------------
(***************************************************************************)
(* One route table of a C_MessageQueue: m_routes, an array of message ids  *)
(* kept sorted for the bisection of find_route, and m_routes_order, a ring *)
(* of the same ids in the order they came, which says whom to forget next. *)
(* An id is a number: only its place in memcmp's order matters.            *)
(***************************************************************************)
EXTENDS Integers, Sequences, FiniteSetsExt

CONSTANTS
  NumRoutes,   \* m_num_routes, 8192 in the code
  NewId        \* ids CreateID128 may draw

ASSUME NumRoutesAssumption ==
  NumRoutes \in {4, 8, 16, 32, 64, 128, 256, 512, 1024, 2048, 4096, 8192}
ASSUME NewIdAssumption == NewId \subseteq Nat \ (0..(NumRoutes - 1))

VARIABLES m_routes, m_routes_order, m_route_opos
routeVars == <<m_routes, m_routes_order, m_route_opos>>

RouteSlot == 0..(NumRoutes - 1)
\* The constructor fills both arrays with the ids 0, 1, 2, ...
RouteId == RouteSlot \cup NewId

\* Both arrays hold ids in every slot, and the ring's position is one of its slots.
RoutesTyped ==
  /\ m_routes \in [RouteSlot -> RouteId]
  /\ m_routes_order \in [RouteSlot -> RouteId]
  /\ m_route_opos \in RouteSlot

RouteInit ==
  /\ m_routes = [i \in RouteSlot |-> i]
  /\ m_routes_order = [i \in RouteSlot |-> i]
  /\ m_route_opos = 0

-----------------------------------------------------------------------------

\* Mutant of ScanLeft: it starts one slot too far to the left.
ScanLeftShort(t, id, pos) ==
  LET notBelow == {i \in 0..(pos - 2) : id >= t[i]}
  IN  IF notBelow = {} THEN 0
      ELSE IF t[Max(notBelow)] = id THEN Max(notBelow) ELSE Max(notBelow) + 1

\* find_route's linear scans from pos, to the left when id is smaller ...
ScanLeft(t, id, pos) ==
  LET notBelow == {i \in 0..(pos - 1) : id >= t[i]}
  IN  IF notBelow = {} THEN 0
      ELSE IF t[Max(notBelow)] = id THEN Max(notBelow) ELSE Max(notBelow) + 1

\* ... and to the right when it is larger; the scan has no step to make from the
\* last slot, which is then the answer.
ScanRight(t, id, pos) ==
  LET notAbove == {i \in (pos + 1)..(NumRoutes - 1) : id <= t[i]}
  IN  IF pos = NumRoutes - 1 THEN pos
      ELSE IF notAbove = {} THEN NumRoutes ELSE Min(notAbove)

\* The bisection: steps of psize, halved every time, until it is below 2.
FindRoute(t, id) ==
  LET Probe[at \in (0..NumRoutes) \X Int] ==
        LET psize == at[1]
            pos == at[2]
        IN  IF pos < 0 THEN 0
            ELSE IF pos >= NumRoutes THEN NumRoutes
            ELSE IF t[pos] = id THEN pos
            ELSE IF psize < 2
                 THEN IF id < t[pos] THEN ScanLeft(t, id, pos) ELSE ScanRight(t, id, pos)
            ELSE Probe[<<psize \div 2, IF id > t[pos] THEN pos + psize ELSE pos - psize>>]
  IN  Probe[<<(NumRoutes \div 2) \div 2, NumRoutes \div 2>>]

IsRoute(id) ==
  LET r == FindRoute(m_routes, id)
  IN  r # NumRoutes /\ m_routes[r] = id

\* The slots between the forgotten id and the new one shift by one.
Shifted(t, maxi, offs) ==
  [r \in RouteSlot |->
     IF offs < maxi /\ r \in (offs + 1)..maxi THEN t[r - 1]
     ELSE IF maxi < offs /\ r \in maxi..(offs - 2) THEN t[r + 1]
     ELSE t[r]]

\* Mutant of NextPos: the ring never uses its last slot.
NextPosEarly(o) == IF o + 2 >= NumRoutes THEN 0 ELSE o + 1

\* The ring goes round.
NextPos(o) == IF o + 1 >= NumRoutes THEN 0 ELSE o + 1

AddRoute(id) ==
  LET maxi  == FindRoute(m_routes, m_routes_order[m_route_opos])
      offs  == FindRoute(m_routes, id)
      place == IF maxi < offs THEN offs - 1 ELSE offs
  IN  /\ m_routes' = [Shifted(m_routes, maxi, offs) EXCEPT ![place] = id]
      /\ m_routes_order' = [m_routes_order EXCEPT ![m_route_opos] = id]
      /\ m_route_opos' = NextPos(m_route_opos)

\* The callers add an id only after find_route did not know it.
RouteNext == \E id \in NewId : ~IsRoute(id) /\ AddRoute(id)

-----------------------------------------------------------------------------

RouteIds(t) == {t[i] : i \in RouteSlot}

\* Through every insertion, eviction and wrap of the ring the array stays strictly
\* sorted, which the bisection depends on, and holds exactly the ids of the ring: no id
\* is lost from one of them only, and none is held twice.
TablesAgree ==
  /\ \A i, j \in RouteSlot : i < j => m_routes[i] < m_routes[j]
  /\ RouteIds(m_routes) = RouteIds(m_routes_order)

\* In such tables a lookup gives the first slot that is not below the id, for an id known
\* or not: no known message is taken for new (it would be relayed twice), no new one for
\* known, and add_route puts it where the order is kept.
FindRouteExact ==
  /\ RoutesTyped /\ TablesAgree
  /\ \A id \in RouteId : FindRoute(m_routes, id) = Cardinality({i \in RouteSlot : m_routes[i] < id})

\* The ring read from its oldest entry is the abstract memory: every add_route
\* forgets the oldest id, whatever its place in the sorted array.
Memory == INSTANCE RecentIds WITH
  Id <- RouteId,
  recent <- [i \in 1..NumRoutes |-> m_routes_order[(m_route_opos + i - 1) % NumRoutes]]
ForgetsOldest == Memory!Spec
=============================================================================
