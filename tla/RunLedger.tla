----------------------------- MODULE RunLedger -------------------------------
(* What the runs table of store.py promises to everyone who reads it, whatever
   coroutine writes it: the legal life of a run, one active run per agent, and
   queued runs started in the order they were added.  AgentRuntime implements
   it.  One step of the daemon may finish a run, add another and start it.        *)
EXTENDS Naturals

CONSTANTS Agents, MaxRuns, None
VARIABLE run

Runs == 1..MaxRuns
Active == {"starting", "running", "needs_input"}
Terminal == {"completed", "failed", "interrupted", "crashed", "cancelled", "timed_out"}

\* A queued run that never started can only be cancelled; nothing leaves Terminal.
Moves ==
  {<<"absent", "starting">>, <<"absent", "queued">>, <<"absent", "running">>,
   <<"queued", "running">>, <<"starting", "running">>, <<"queued", "cancelled">>,
   <<"running", "needs_input">>, <<"needs_input", "running">>}
  \cup (Active \X (Terminal \ {"cancelled"}))

Init == run = [r \in Runs |-> [state |-> "absent", owner |-> None]]

LegalMoves == \A r \in Runs : run'[r].state # run[r].state => <<run[r].state, run'[r].state>> \in Moves

OwnersStay == \A r \in Runs : run[r].owner # None => run'[r].owner = run[r].owner

(* A queued run starts only when everything its agent was given before it is over.
   A run that is added and started at once may pass a queue: send_input finds the
   worker idle in the moment between its process's death and worker_exited.       *)
InOrder ==
  \A r, q \in Runs :
    /\ run[r].state = "queued" /\ run'[r].state = "running"
    /\ q < r /\ run'[q].owner = run'[r].owner
    => run'[q].state \in Terminal

OneActive(rs) ==
  \A r, q \in Runs : rs[r].state \in Active /\ rs[q].state \in Active /\ rs[r].owner = rs[q].owner
     => r = q

Next == LegalMoves /\ OwnersStay /\ InOrder /\ OneActive(run')

Spec == Init /\ [][Next]_run

=============================================================================
