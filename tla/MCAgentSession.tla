--------------------------- MODULE MCAgentSession ---------------------------
(* The daemon in four environments, checked in one run: `environment` never changes.
   "lifecycle" issues every client operation against two worker generations;
   "dialogs" keeps two dialogs of one task open, with silence and late frames in a
   longer pipe.  Two agents share it in the others: "resident" leaves one resident
   slot, so that boots evict settled residents; "scope" leaves two of them and one
   slot in the scope.                                                              *)
EXTENDS Naturals

CONSTANTS Agents, Pair, Dialogs, FirstDialog, None

VARIABLES environment, up, closing, admission, agent, run, workers, worker, op,
          tasks, proc, owner

Lifecycle == INSTANCE AgentRuntime WITH
  Writers <- {}, Dialogs <- {FirstDialog}, MaxGen <- 2, MaxRuns <- 2, MaxFrames <- 1,
  MaxResident <- 1, MaxScope <- 2, MaxQueue <- 1,
  Requests <- {"spawn", "respawn", "respawn_message", "send", "send_interrupt",
               "interrupt", "soft_interrupt", "close", "confirm_cleanup", "answer"},
  Faults <- {"exit", "stray", "unverified", "reject", "timeout"}
Dialogue == INSTANCE AgentRuntime WITH
  Writers <- {}, MaxGen <- 1, MaxRuns <- 2, MaxFrames <- 2,
  MaxResident <- 1, MaxScope <- 2, MaxQueue <- 1,
  Requests <- {"spawn", "send", "soft_interrupt", "answer"},
  Faults <- {"timeout", "silence"}
Slots == {"spawn", "send", "interrupt", "close", "soft_interrupt"}
OneResident == INSTANCE AgentRuntime WITH
  Agents <- Pair, Writers <- {}, Dialogs <- {}, MaxGen <- 1, MaxRuns <- 2, MaxFrames <- 1,
  MaxResident <- 1, MaxScope <- 2, MaxQueue <- 1,
  Requests <- Slots, Faults <- {"unverified", "exit", "exec"}
OneInScope == INSTANCE AgentRuntime WITH
  Agents <- Pair, Writers <- {}, Dialogs <- {}, MaxGen <- 1, MaxRuns <- 2, MaxFrames <- 1,
  MaxResident <- 2, MaxScope <- 1, MaxQueue <- 1,
  Requests <- Slots, Faults <- {"unverified", "stray"}

Init ==
  \/ environment = "lifecycle" /\ Lifecycle!Init
  \/ environment = "dialogs" /\ Dialogue!Init
  \/ environment \in {"resident", "scope"} /\ OneResident!Init
Next ==
  /\ UNCHANGED environment
  /\ \/ environment = "lifecycle" /\ Lifecycle!Next
     \/ environment = "dialogs" /\ Dialogue!Next
     \/ environment = "resident" /\ OneResident!Next
     \/ environment = "scope" /\ OneInScope!Next
Spec == Init /\ [][Next]_<<environment, Lifecycle!vars>>

\* The properties of AgentRuntime, each in the environment that strains it.
In(e, P) == environment = e => P
NoSilentExecution == In("lifecycle", Lifecycle!NoSilentExecution)
QuestionVisible == In("dialogs", Dialogue!QuestionVisible)
WatchdogStopsSilentRun == Dialogue!WatchdogStopsSilentRun

\* Both limits of the daemon hold, each where it is the one that binds: max_resident_agents
\* bounds the agents that may own a process, max_agents_per_scope the agents of a scope that
\* still count, those with an unverified cleanup included (ensure_capacity).
LimitsHold == In("resident", OneResident!LimitsHold) /\ In("scope", OneInScope!LimitsHold)
=============================================================================
