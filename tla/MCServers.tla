----------------------------- MODULE MCServers ------------------------------
(* The servers, the timers and the lookup table have nothing to do with each *)
(* other; a behaviour is one of one of them, chosen by `which'.              *)
EXTENDS EdgeClient, SelectServer, TimerThread, TimerManager, LookupTable, TLC

CONSTANTS k1, k2, w1, w2, g1

MCRepeats == {-1, 2}
MCLimits == {-1, 0, 2}
MCHash == [k \in 1 .. 3 |-> k]
MCMaxLines == (k1 :> 2) @@ (k2 :> 1)
Op(o, k, v) == [op |-> o, key |-> k, value |-> v]
MCCallsOf ==
    (w1 :> {Op("add_or_update", 1, 7), Op("add_or_update", 2, 7), Op("add_or_update", 3, 7)})
    @@ (w2 :> {Op("add_or_update", 1, 8), Op("remove", 1, 0), Op("add_or_update", 2, 8)})
    @@ (g1 :> {Op("get_map", 0, 0), Op("value_for", 1, 0)})

VARIABLE which

Init ==
    /\ which \in {"edge", "select", "timer", "manager", "table"}
    /\ EdgeInit /\ SelectInit /\ TimerInit /\ ManagerInit /\ TableInit
    /\ which # "timer" => m_repeat = -1
    /\ which # "edge" => room = CHOOSE n \in Rooms : TRUE

Next ==
    /\ which' = which
    /\ \/ which = "edge" /\ EdgeNext /\ UNCHANGED <<selectVars, timerVars, managerVars, tableVars>>
       \/ which = "select" /\ SelectNext /\ UNCHANGED <<edgeVars, timerVars, managerVars, tableVars>>
       \/ which = "timer" /\ TimerNext /\ UNCHANGED <<edgeVars, selectVars, managerVars, tableVars>>
       \/ which = "manager" /\ ManagerNext /\ UNCHANGED <<edgeVars, selectVars, timerVars, tableVars>>
       \/ which = "table" /\ TableNext /\ UNCHANGED <<edgeVars, selectVars, timerVars, managerVars>>

\* The servers and the threads of the clients run; what a user types, and who
\* connects, is left to them.
Spec ==
    /\ Init /\ [][Next]_<<which, edgeVars, selectVars, timerVars, managerVars, tableVars>>
    /\ WF_edgeVars(which = "edge" /\ ServerNext /\ UNCHANGED clientVars)
    /\ \A c \in Clients : /\ WF_edgeVars(which = "edge" /\ InputStep(c))
                          /\ WF_edgeVars(which = "edge" /\ NetStep(c))
    /\ WF_selectVars(which = "select" /\ MainStep)
    /\ WF_selectVars(which = "select" /\ selectRead)
    /\ \A t \in Threads : WF_selectVars(which = "select" /\ ThreadStep(t))

-----------------------------------------------------------------------------
\* Liveness.  Nobody who waits for a server is forgotten: the edge-triggered
\* server serves every connection to its end, the select server accepts
\* everyone, and the client that waits for its own network thread ends.
EveryoneServed == ServedToTheEnd /\ AllAccepted /\ ClientReturns
=============================================================================
