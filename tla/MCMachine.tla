----------------------------- MODULE MCMachine -------------------------------
(***************************************************************************)
(* Small instances of Machine in three scenarios: scripts run over and     *)
(* over with two of the programs and then with the two others, hardly a    *)
(* packet arriving; and one start with more packets than the path list has *)
(* room for.                                                               *)
(***************************************************************************)
EXTENDS Machine

CONSTANTS ScriptRuns, Packets

MCPlans ==
  {[scripts |-> ScriptRuns, packets |-> 1, programs |-> {"commandlistener", "sniff"}],
   [scripts |-> ScriptRuns, packets |-> 1, programs |-> {"pathtracelogger", "inject"}],
   [scripts |-> 1, packets |-> Packets, programs |-> {"pathtracelogger"}]}
==============================================================================
