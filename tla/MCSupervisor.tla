---------------------------- MODULE MCSupervisor ----------------------------
EXTENDS Supervisor

\* Two Runs contend under one owner; one Run alone also meets faults and a
\* successor.
MCInit ==
    /\ Init
    /\ IF \E r \in Run : run[r].status = "ended" THEN owner.epoch = 0 /\ clock.faults = 0
       ELSE owner.epoch = MaxEpoch - 1 /\ clock.faults = MaxFault

MCSpec == MCInit /\ [][Next]_vars /\ Fairness
=============================================================================
