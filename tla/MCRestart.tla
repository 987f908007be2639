----------------------------- MODULE MCRestart -----------------------------
(***************************************************************************)
(* A small instance of Restart.                                            *)
(***************************************************************************)
EXTENDS Restart, MCIncidents

\* One process that finds any of the histories, or two processes, the first
\* with nothing to find, and two alerts that nothing links.
SmallScenarios ==
    {[alerts |-> RestartAlerts, histories |-> AllHistories, previous |-> RestartHealthMaps,
      restarts |-> 0, faults |-> 2, gaps |-> {1, 2}, until |-> 12],
     [alerts |-> {A1, C}, histories |-> {{}}, previous |-> {{}},
      restarts |-> 1, faults |-> 1, gaps |-> {1}, until |-> 15]}
===========================================================================
