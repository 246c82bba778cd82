----------------------------- MODULE QueuePass -----------------------------
(***************************************************************************)
(* The order in which C_MessageQueueList::run serves the queues: from      *)
(* another one on in every pass, by their number modulo how many there     *)
(* are, while queues whose connection ended leave the list under way.      *)
(* A queue is known in a pass by its place in the list at the beginning.   *)
(* What a queue does when it is served is MessageQueue and Mesh.           *)
(***************************************************************************)
EXTENDS Naturals, Sequences, SequencesExt, FiniteSetsExt

CONSTANTS MaxQueues,  \* bound on the queues
          Round       \* a common multiple of the numbers of queues, for m_run_rr

ASSUME RoundAssumption == Round \in Nat \ {0}

VARIABLES
    numqueues,   \* m_queues->GetSize()
    m_run_rr,    \* modulo Round, of which only the rest by the number of queues is ever used
    lastPass     \* how many queues there were before the last pass, left in it, and were served and stay

passVars == <<numqueues, m_run_rr, lastPass>>

PassInit == numqueues = 0 /\ m_run_rr = 0 /\ lastPass = [before |-> 0, gone |-> 0, served |-> 0]

\* Mutant of ServeNext: it goes on with the next count where a queue left.
ServeNextPastEnded(ends, s) ==
    LET thisq == ((s.runcnt + m_run_rr) % Len(s.queues)) + 1
    IN  IF s.runcnt >= Len(s.queues) THEN s
        ELSE [queues |-> IF ends THEN RemoveAt(s.queues, thisq) ELSE s.queues,
              runcnt |-> s.runcnt + 1, served |-> s.served \cup {s.queues[thisq]}]
\* One turn of the loop.  Where a queue leaves, the same count is looked at again.
ServeNext(ends, s) ==
    LET thisq == ((s.runcnt + m_run_rr) % Len(s.queues)) + 1
    IN  IF s.runcnt >= Len(s.queues) THEN s
        ELSE [queues |-> IF ends THEN RemoveAt(s.queues, thisq) ELSE s.queues,
              runcnt |-> IF ends THEN s.runcnt ELSE s.runcnt + 1,
              served |-> s.served \cup {s.queues[thisq]}]

\* A turn leaves one less to come, whether the queue that has it ends or not.
AllTurns(ends) ==
    LET after[turn \in 0 .. numqueues] ==
            IF turn = 0 THEN [queues |-> [i \in 1 .. numqueues |-> i], runcnt |-> 0, served |-> {}]
            ELSE ServeNext(ends[turn], after[turn - 1])
    IN  after[numqueues]
RunQueues(ends) ==
    LET pass == AllTurns(ends)
    IN  /\ numqueues' = Len(pass.queues) /\ m_run_rr' = (m_run_rr + 1) % Round
        /\ lastPass' = [before |-> numqueues, gone |-> numqueues - Len(pass.queues),
                        served |-> Cardinality(pass.served \cap Range(pass.queues))]

AddMessageQueue == numqueues < MaxQueues /\ numqueues' = numqueues + 1 /\ UNCHANGED <<m_run_rr, lastPass>>

PassNext == (\E ends \in [1 .. numqueues -> BOOLEAN] : RunQueues(ends)) \/ AddMessageQueue

PassSpec == PassInit /\ [][PassNext]_passVars

-----------------------------------------------------------------------------
\* Wherever a pass begins and whichever queues end under way, when the places of the others move
\* under the count: it serves all of them if none ends, and each that ends leaves at least half
\* of those to be served otherwise, itself not counted, to be served (mqueuelist.cpp:143-254).
PassServes ==
    LET half[n \in 0 .. lastPass.before] == IF n = 0 THEN lastPass.before ELSE half[n - 1] \div 2
    IN  half[lastPass.gone] <= lastPass.served
=============================================================================
