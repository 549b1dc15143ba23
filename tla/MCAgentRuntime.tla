--------------------------- MODULE MCAgentRuntime ---------------------------
(* Model checking of AgentRuntime.  Agents, dialogs and None are model values; the
   bounds, client operations and faults of each run are in its cfg.               *)
EXTENDS AgentRuntime, TLC

\* Agents differ only by name when none or all of them are writers.
AgentSymmetry == Permutations(Agents)
=============================================================================
