---------------------------- MODULE AgentRuntime ----------------------------
(* The daemon side of metis-pi's durable subagents: Runtime (runtime.py), the
   Worker objects it keeps (worker.py), the agents/runs ledger (store.py) and
   the managed child process behind each worker (pi-sdk.mjs, worker_guard.py).

   The daemon is one asyncio loop, so one action is one coroutine segment
   between two awaits.  A mutation holds its agent's lock across awaits:
   op[a] is the coroutine that holds agent_locks[a], with the await it is at.
   Coroutines that only wait for a lock carry what they captured in tasks.
   Processes, their pipes and the daemon's own death run in between.            *)
EXTENDS Naturals, FiniteSets, Sequences

CONSTANTS
  Agents,       \* ids of the managed agents, all of one scope
  Writers,      \* agents with access=write; they share one cwd subtree
  Dialogs,      \* ids of the UI requests a child may have open at once
  MaxGen,       \* bound: worker generations per agent
  MaxRuns,      \* bound: runs in the ledger
  MaxFrames,    \* bound: unread frames in a pipe (a full pipe blocks its writer)
  MaxResident,  \* config max_resident_agents
  MaxScope,     \* config max_agents_per_scope
  MaxQueue,     \* queued runs one agent may hold (20 in send_input)
  Requests,     \* client operations the environment issues
  Faults,       \* faults the environment injects
  None          \* Python's None: no agent, no dialog

AllRequests == {"spawn", "respawn", "respawn_message", "send", "send_interrupt",
                "interrupt", "soft_interrupt", "close", "confirm_cleanup", "answer"}
AllFaults == {"exit", "stray", "unverified", "reject", "timeout", "unowned",
              "protocol", "exec", "ready", "silence", "crash", "shutdown"}

ASSUME BoundsAssumption ==
  /\ MaxGen \in Nat \ {0} /\ MaxRuns \in Nat \ {0} /\ MaxFrames \in Nat \ {0}
  /\ MaxResident \in Nat \ {0} /\ MaxScope \in Nat \ {0} /\ MaxQueue \in Nat \ {0}
ASSUME SetsAssumption ==
  /\ Writers \subseteq Agents /\ None \notin Agents
  /\ Requests \subseteq AllRequests /\ Faults \subseteq AllFaults

Gens == 1..MaxGen
Runs == 1..MaxRuns
NoRun == 0                                  \* w.run.id is None

VARIABLES
  up,        \* the daemon process exists
  closing,   \* Runtime.closing: shutdown has begun
  admission, \* the agent whose boot holds the admission lock, or None
  agent,     \* ledger table agents (durable)
  run,       \* ledger table runs (durable); ids grow with `created`
  workers,   \* Runtime.workers: the registered generation, or 0
  worker,    \* every Worker object, by agent and generation
  op,        \* the holder of each agent lock
  tasks,     \* spawned coroutines waiting for an agent lock
  proc,      \* the OS process of every generation, with its two pipes
  owner      \* owner.json: the generation that last owned the session, or 0

memory == <<closing, admission, workers, worker, op, tasks>>
vars == <<up, owner, agent, run, proc, memory>>

------------------------------------------------------------------------------
(* Types *)

Resident == {"starting", "running", "needs_input", "idle", "stopping", "orphaned"}
Parked == {"dormant", "closed", "crashed"}
AgentStates == Resident \cup Parked \cup {"absent"}
Cleanups == {"verified", "pending", "not_checked", "unknown"}
Active == {"starting", "running", "needs_input"}
Terminal == {"completed", "failed", "interrupted", "crashed", "cancelled", "timed_out"}
RunStates == Active \cup Terminal \cup {"absent", "queued"}

AgentType == [state: AgentStates, gen: 0..MaxGen, pid: 0..MaxGen,
              cleanup: Cleanups, current: 0..MaxRuns]
RunType == [state: RunStates, owner: Agents \cup {None}]

(* life: the reader and exit tasks of a Worker.  "reading" frames, "failed"
   reader, "exiting" (the guard was reaped, worker_exited waits), "done".       *)
WorkerType == [life: {"none", "reading", "failed", "exiting", "done"},
               run: 0..MaxRuns, ui: SUBSET Dialogs,
               stopping: BOOLEAN, closed: BOOLEAN, tainted: BOOLEAN,
               cancelled: BOOLEAN, failed: BOOLEAN, silent: BOOLEAN]

Kinds == AllRequests \cup {"none", "settle", "fail_worker", "stop_unowned",
                           "evict", "park", "check_idle", "shutdown"}
Steps == {"free", "admit", "capacity", "writer", "lock", "victim", "fork", "ready",
          "unboot", "prompt", "abort", "stop", "reap", "refused"}
OpType == [kind: Kinds, pc: Steps, victim: Agents \cup {None}, vgen: 0..MaxGen,
           back: {"free", "capacity", "writer"}, tried: SUBSET Agents,
           ans: {"none", "ok", "no", "gone"}]
TaskType == [kind: {"settle", "fail_worker", "stop_unowned", "check_idle"},
             agent: Agents, gen: Gens, run: 0..MaxRuns]

(* A process is forked (the guard runs, owner.json still names its predecessor),
   alive (guard and Pi, owner.json names it), stray (its leader died without
   proof about descendants), gone (proved dead) or refused (died before it
   could own the session).  task is what the child executes.                    *)
ProcStates == {"none", "forked", "alive", "stray", "gone", "refused"}
Commands == [cmd: {"prompt", "abort", "answer"}, id: 0..MaxRuns,
             dialog: Dialogs \cup {None}, live: BOOLEAN]
Frames ==
  {f \in [type: {"reply", "ask", "closed", "end", "delta", "start"}, id: 0..MaxRuns,
          dialog: Dialogs \cup {None}, how: {"ok", "no", "error", "cancelled"},
          live: BOOLEAN] :
     /\ f.type = "reply" => f.how \in {"ok", "no"}
     /\ f.type = "ask" => f.dialog \in Dialogs}
ProcType == [st: ProcStates, task: 0..MaxRuns, dialogs: SUBSET Dialogs,
             abort: {"no", "live", "stale"}, strayed: BOOLEAN,
             stdin: Seq(Commands), stdout: Seq(Frames)]

TypeOK ==
  /\ up \in BOOLEAN /\ closing \in BOOLEAN
  /\ admission \in Agents \cup {None}
  /\ agent \in [Agents -> AgentType]
  /\ run \in [Runs -> RunType]
  /\ workers \in [Agents -> 0..MaxGen]
  /\ worker \in [Agents -> [Gens -> WorkerType]]
  /\ op \in [Agents -> OpType]
  /\ tasks \subseteq TaskType
  /\ proc \in [Agents -> [Gens -> ProcType]]
  /\ owner \in [Agents -> 0..MaxGen]

------------------------------------------------------------------------------
(* Ledger operations *)

\* Store.finish: a run already terminal keeps its outcome.
Finish(rs, S, s) ==
  [r \in Runs |-> IF r \in S /\ rs[r].state \in Active \cup {"queued"}
                  THEN [rs[r] EXCEPT !.state = s] ELSE rs[r]]

Queued(rs, a) == {r \in Runs : rs[r].state = "queued" /\ rs[r].owner = a}

\* Mutant: a stopped agent keeps its queue.
KeepQueued(rs, a) == rs

CancelQueued(rs, a) == Finish(rs, Queued(rs, a), "cancelled")

Oldest(S) == CHOOSE r \in S : \A q \in S : r <= q

\* advance_queue takes the queued run created first.
\* Mutant: the one created last.
NewestQueued(rs, a) == CHOOSE r \in Queued(rs, a) : \A q \in Queued(rs, a) : q <= r
NextQueued(rs, a) == Oldest(Queued(rs, a))

\* Runtime.add_run allocates ids in the order of `created`.
Unused == {r \in Runs : run[r].state = "absent"}

AddRun(a, r, s) == [run EXCEPT ![r] = [state |-> s, owner |-> a]]

------------------------------------------------------------------------------
(* Workers, processes and locks *)

NoWorker == [life |-> "none", run |-> NoRun, ui |-> {}, stopping |-> FALSE,
             closed |-> TRUE, tainted |-> FALSE, cancelled |-> FALSE,
             failed |-> FALSE, silent |-> FALSE]

\* Worker.__init__ and Worker.start
NewWorker == [NoWorker EXCEPT !.life = "reading", !.closed = FALSE]

NoProc == [st |-> "none", task |-> NoRun, dialogs |-> {}, abort |-> "no",
           strayed |-> FALSE, stdin |-> <<>>, stdout |-> <<>>]

Free == [kind |-> "none", pc |-> "free", victim |-> None, vgen |-> 0,
         back |-> "free", tried |-> {}, ans |-> "none"]

LockFree(a) == up /\ op[a].pc = "free"
W(a) == worker[a][workers[a]]
HasWorker(a) == workers[a] # 0 /\ ~W(a).closed
Exited(a, g) == proc[a][g].st \notin {"forked", "alive"}

SetAgent(a, ag) == agent' = [agent EXCEPT ![a] = ag]
SetWorker(a, w) == worker' = [worker EXCEPT ![a][workers[a]] = w]
SetOp(a, o) == op' = [op EXCEPT ![a] = o]
SetProc(a, g, p) == proc' = [proc EXCEPT ![a][g] = p]

\* Mutant: the worker keeps the run that was settled.
SettledRun(w) == [w EXCEPT !.ui = {}, !.cancelled = FALSE]

\* RunProjection.finish: no question or cancellation carries into new work.
Settled(w) == [w EXCEPT !.run = NoRun, !.ui = {}, !.cancelled = FALSE]

\* Worker.raw: a full pipe keeps the bytes out until the write times out.
Written(p, c) ==
  IF Len(p.stdin) < MaxFrames /\ p.st \in {"forked", "alive"}
  THEN [p EXCEPT !.stdin = Append(p.stdin, c)] ELSE p

\* Worker.rpc after a timeout: nobody waits for the reply any more.
Abandoned(p) ==
  [p EXCEPT !.abort = IF p.abort = "live" THEN "stale" ELSE p.abort,
            !.stdin = [i \in 1..Len(p.stdin) |-> [p.stdin[i] EXCEPT !.live = FALSE]],
            !.stdout = [i \in 1..Len(p.stdout) |-> [p.stdout[i] EXCEPT !.live = FALSE]]]

\* Mutant: an owner that cannot be identified counts as gone.
OwnershipTrusting(a) ==
  IF owner[a] # 0 /\ proc[a][owner[a]].st = "alive" THEN {"live", "gone"} ELSE {"gone"}

(* worker.ownership: the verdicts the owner record allows.  Without a record only
   the ledger's pid can tell; identities of a live owner may be unreadable.      *)
Ownership(a) ==
  IF owner[a] # 0
  THEN CASE proc[a][owner[a]].st = "gone"  -> {"gone"}
         [] proc[a][owner[a]].st = "alive" -> {"live", "unknown"}
         [] OTHER                          -> {"unknown"}
  ELSE IF agent[a].pid = 0
       THEN IF agent[a].cleanup # "pending" THEN {"gone"} ELSE {"unknown"}
       ELSE IF Exited(a, agent[a].pid) THEN {"gone"} ELSE {"unknown"}

------------------------------------------------------------------------------
(* Segments shared by several coroutines.  Each gives the new value of every
   variable it names from the intermediate values its caller has reached.       *)

\* start_run: project the run, mark the ledger, then await the prompt's reply.
StartRun(a, r, ag, rs, w, kind) ==
  /\ SetAgent(a, [ag EXCEPT !.state = "running", !.current = r])
  /\ run' = [rs EXCEPT ![r].state = "running"]
  /\ SetWorker(a, [NewWorker EXCEPT !.run = r, !.tainted = w.tainted, !.life = w.life])
  /\ SetProc(a, workers[a], Written(proc[a][workers[a]],
       [cmd |-> "prompt", id |-> r, dialog |-> None, live |-> TRUE]))
  /\ SetOp(a, [Free EXCEPT !.kind = kind, !.pc = "prompt",
                           !.ans = IF Exited(a, workers[a]) THEN "gone" ELSE "none"])

\* advance_queue: one step of the loop, after the previous run has settled.
AdvanceQueue(a, ag, rs, w) ==
  IF ~closing /\ Queued(rs, a) # {} /\ ~Exited(a, workers[a])
  THEN StartRun(a, NextQueued(rs, a), ag, rs, w, "settle")
  ELSE /\ SetAgent(a, ag) /\ run' = rs /\ SetWorker(a, w) /\ SetOp(a, Free)
       /\ UNCHANGED proc

\* finish_idle_run: the values the ledger and the worker take.
IdleAgent(ag) == [ag EXCEPT !.state = "idle", !.current = NoRun, !.cleanup = "not_checked"]
IdleWorker(w) == [Settled(w) EXCEPT !.stopping = FALSE]

\* require_worker
Reachable(a) == HasWorker(a) /\ ~W(a).tainted

\* interrupt, up to the await of terminate_worker.
BeginInterrupt(a, o) ==
  /\ Reachable(a)
  /\ SetWorker(a, [W(a) EXCEPT !.stopping = TRUE])
  /\ SetAgent(a, [agent[a] EXCEPT !.state = "stopping"])
  /\ run' = CancelQueued(run, a)
  /\ op' = [o EXCEPT ![a].pc = "stop"]

\* evictable: settled residents that may be parked.
Evictable(a) ==
  /\ HasWorker(a) /\ ~W(a).stopping /\ ~W(a).tainted
  /\ W(a).run = NoRun /\ W(a).ui = {}
  /\ agent[a].gen = workers[a] /\ agent[a].state = "idle"

\* Mutant: a parked writer never conflicts, verified or not.
ResidentWriterConflicts(a) ==
  IF a \notin Writers THEN {} ELSE {b \in Writers \ {a} : agent[b].state \in Resident}

\* assert_writer_exclusive: rows that hold the shared cwd against agent a.
WriterConflicts(a) ==
  IF a \notin Writers THEN {}
  ELSE {b \in Writers \ {a} : agent[b].state \in Resident \/ agent[b].cleanup = "unknown"}

\* Agents that count against max_agents_per_scope.
\* Mutant: parked agents do not, verified or not.
CountedResidents(a) == {b \in Agents \ {a} : agent[b].state \in Resident}
Counted(a) ==
  {b \in Agents \ {a} :
     \/ agent[b].state \in Resident
     \/ agent[b].state \in Parked /\ agent[b].gen > 0 /\ agent[b].cleanup # "verified"}

\* ensure_capacity: the two limits.
\* Mutant: the resident limit is off by one.
FullLate(a) ==
  \/ Cardinality(Counted(a)) >= MaxScope
  \/ Cardinality({b \in Agents : HasWorker(b)}) > MaxResident
Full(a) ==
  \/ Cardinality(Counted(a)) >= MaxScope
  \/ Cardinality({b \in Agents : HasWorker(b)}) >= MaxResident

\* A boot that raises AgentError: spawn also fails the run it had recorded.
\* Mutant: admission is not given back.
AbortBootHolding(a) ==
  /\ SetOp(a, Free) /\ UNCHANGED admission
  /\ IF op[a].kind = "spawn" /\ agent[a].state # "absent"
     THEN /\ SetAgent(a, [agent[a] EXCEPT !.state = "crashed"])
          /\ run' = Finish(run, {r \in Runs : run[r] = [state |-> "starting", owner |-> a]}, "failed")
     ELSE UNCHANGED <<agent, run>>
AbortBoot(a) ==
  /\ SetOp(a, Free)
  /\ admission' = IF admission = a THEN None ELSE admission
  /\ IF op[a].kind = "spawn" /\ agent[a].state # "absent"
     THEN /\ SetAgent(a, [agent[a] EXCEPT !.state = "crashed"])
          /\ run' = Finish(run, {r \in Runs : run[r] = [state |-> "starting", owner |-> a]}, "failed")
     ELSE UNCHANGED <<agent, run>>

------------------------------------------------------------------------------
(* Boot: spawn_agent and _boot_worker, under the admission lock up to the fork *)

Spawn(a) ==
  /\ "spawn" \in Requests /\ LockFree(a) /\ ~closing /\ agent[a].state = "absent"
  /\ SetOp(a, [Free EXCEPT !.kind = "spawn", !.pc = "admit"])
  /\ UNCHANGED <<up, owner, closing, admission, agent, run, workers, worker, tasks, proc>>

\* spawn_agent asks for the writer lease once before it inserts its rows.
Admit(a) ==
  /\ up /\ op[a].pc = "admit" /\ admission = None
  /\ admission' = a
  /\ SetOp(a, [op[a] EXCEPT !.pc = IF op[a].kind = "spawn" THEN "writer" ELSE "capacity"])
  /\ UNCHANGED <<up, owner, closing, agent, run, workers, worker, tasks, proc>>

SpawnInsert(a, r) ==
  /\ up /\ op[a].pc = "writer" /\ agent[a].state = "absent" /\ WriterConflicts(a) = {}
  /\ r \in Unused /\ r = Oldest(Unused)
  /\ SetAgent(a, [agent[a] EXCEPT !.state = "starting"])
  /\ run' = AddRun(a, r, "starting")
  /\ SetOp(a, [op[a] EXCEPT !.pc = "capacity", !.tried = {}])
  /\ UNCHANGED <<up, owner, closing, admission, workers, worker, tasks, proc>>

\* The next victim of ensure_capacity (LRU order left open) or of admit_writer.
Victims(a) ==
  IF op[a].pc = "capacity"
  THEN IF Full(a) THEN {b \in Agents \ op[a].tried : Evictable(b)} ELSE {}
  ELSE {b \in WriterConflicts(a) : Evictable(b)}

PickVictim(a, b) ==
  /\ up /\ op[a].pc \in {"capacity", "writer"} /\ b \in Victims(a)
  /\ SetOp(a, [op[a] EXCEPT !.pc = "lock", !.victim = b, !.vgen = workers[b],
                            !.back = op[a].pc, !.tried = op[a].tried \cup {b}])
  /\ UNCHANGED <<up, owner, closing, admission, agent, run, workers, worker, tasks, proc>>

\* The victim's lock is ours: re-check it, then interrupt it.
LockVictim(a) ==
  LET b == op[a].victim IN
  /\ up /\ op[a].pc = "lock" /\ op[b].pc = "free"
  /\ Evictable(b) /\ (op[a].back = "capacity" => workers[b] = op[a].vgen)
  /\ BeginInterrupt(b, [op EXCEPT ![a].pc = "victim", ![b].kind = "evict"])
  /\ UNCHANGED <<up, owner, closing, admission, workers, tasks, proc>>

\* Mutant: the wait for the victim's lock has no timeout.
VictimGone(a, b) == op[b].pc = "free" /\ (~Evictable(b) \/ (op[a].back = "capacity" /\ workers[b] # op[a].vgen))
VictimSkipped(a, b) ==
  \/ op[b].pc # "free"
  \/ ~Evictable(b)
  \/ op[a].back = "capacity" /\ workers[b] # op[a].vgen

\* A victim busy for EVICT_LOCK_TIMEOUT, or no longer idle: capacity tries the
\* next one, a writer replacement raises its conflict.
SkipVictim(a) ==
  LET b == op[a].victim IN
  /\ up /\ op[a].pc = "lock"
  /\ VictimSkipped(a, b)
  /\ IF op[a].back = "capacity"
     THEN /\ SetOp(a, [op[a] EXCEPT !.pc = "capacity"])
          /\ UNCHANGED <<admission, agent, run>>
     ELSE AbortBoot(a)
  /\ UNCHANGED <<up, owner, closing, workers, worker, tasks, proc>>

\* scope_limit, capacity_exceeded, writer_conflict, or a session that is gone.
BootRefused(a) ==
  /\ up
  /\ \/ op[a].pc = "capacity" /\ Full(a) /\ Victims(a) = {}
     \/ (op[a].pc = "writer" \/ (op[a].pc = "capacity" /\ ~Full(a)))
          /\ \E b \in WriterConflicts(a) : ~Evictable(b)
     \/ op[a].pc \in {"capacity", "writer"} /\ agent[a].gen > 0 /\ "ready" \in Faults
          /\ WriterConflicts(a) = {} /\ (op[a].pc = "capacity" => ~Full(a))
     \/ op[a].pc = "writer" /\ agent[a].state = "absent" /\ Unused = {}   \* bound MaxRuns
  /\ AbortBoot(a)
  /\ UNCHANGED <<up, owner, closing, workers, worker, tasks, proc>>

\* Capacity is granted; a conflicting idle writer is still to be replaced.
AdmitWriter(a) ==
  /\ up /\ op[a].pc = "capacity" /\ ~Full(a) /\ WriterConflicts(a) # {}
  /\ SetOp(a, [op[a] EXCEPT !.pc = "writer"])
  /\ UNCHANGED <<up, owner, closing, admission, agent, run, workers, worker, tasks, proc>>

\* start_guard's before_spawn: the ledger names the generation before it forks.
BeforeSpawn(a) ==
  /\ up /\ agent[a].state # "absent" /\ agent[a].gen < MaxGen /\ WriterConflicts(a) = {}
  /\ op[a].pc = "writer" \/ (op[a].pc = "capacity" /\ ~Full(a))
  /\ SetAgent(a, [agent[a] EXCEPT !.state = "starting", !.gen = agent[a].gen + 1,
                                  !.cleanup = "pending"])
  /\ SetOp(a, [op[a] EXCEPT !.pc = "fork", !.tried = {}, !.victim = None, !.back = "free",
                            !.vgen = 0])
  /\ UNCHANGED <<up, owner, closing, admission, run, workers, worker, tasks, proc>>

Fork(a) ==
  /\ up /\ op[a].pc = "fork" /\ proc[a][agent[a].gen].st = "none"
  /\ SetProc(a, agent[a].gen, [NoProc EXCEPT !.st = "forked"])
  /\ UNCHANGED <<up, owner, agent, run, memory>>

\* create_subprocess_exec raises OSError, which no AgentError handler catches.
ForkFails(a) ==
  /\ "exec" \in Faults /\ up /\ op[a].pc = "fork" /\ proc[a][agent[a].gen].st = "none"
  /\ admission' = None /\ SetOp(a, Free)
  /\ UNCHANGED <<up, owner, closing, agent, run, workers, worker, tasks, proc>>

\* _start_worker registers the Worker and releases admission.
Register(a) ==
  /\ up /\ op[a].pc = "fork" /\ proc[a][agent[a].gen].st # "none"
  /\ SetAgent(a, [agent[a] EXCEPT !.pid = agent[a].gen])
  /\ workers' = [workers EXCEPT ![a] = agent[a].gen]
  /\ worker' = [worker EXCEPT ![a][agent[a].gen] = NewWorker]
  /\ SetOp(a, [op[a] EXCEPT !.pc = "ready"])
  /\ admission' = None
  /\ UNCHANGED <<up, owner, closing, run, tasks, proc>>

\* _ready_worker succeeds; the caller goes on in the same segment.
ReadyOk(a) ==
  LET g == workers[a]
      ag == [agent[a] EXCEPT !.state = "idle", !.cleanup = "not_checked"] IN
  /\ up /\ op[a].pc = "ready" /\ proc[a][g].st = "alive" /\ W(a).life = "reading"
  /\ \/ /\ op[a].kind = "spawn"
        /\ \E r \in Runs : /\ run[r] = [state |-> "starting", owner |-> a]
                           /\ StartRun(a, r, ag, run, W(a), op[a].kind)
     \/ /\ op[a].kind \in {"send", "send_interrupt", "respawn_message"}
        /\ Unused # {}
        /\ LET r == Oldest(Unused) IN
             StartRun(a, r, ag, AddRun(a, r, "queued"), W(a), op[a].kind)
     \/ /\ op[a].kind = "respawn" \/ (op[a].kind # "spawn" /\ Unused = {})  \* bound MaxRuns
        /\ SetAgent(a, ag) /\ SetOp(a, Free)
        /\ UNCHANGED <<run, worker, proc>>
  /\ UNCHANGED <<up, owner, closing, admission, workers, tasks>>

\* Any refusal or exit while get_state or the surface report is awaited.
ReadyFails(a) ==
  /\ up /\ op[a].pc = "ready"
  /\ "ready" \in Faults \/ Exited(a, workers[a]) \/ W(a).life # "reading"
  /\ SetWorker(a, [W(a) EXCEPT !.stopping = TRUE])
  /\ SetOp(a, [op[a] EXCEPT !.pc = "unboot"])
  /\ UNCHANGED <<up, owner, closing, admission, agent, run, workers, tasks, proc>>

------------------------------------------------------------------------------
(* Process termination: stop_owned_process behind terminate_worker *)

\* terminate may report verified: the owner on record is proved dead once this
\* worker's group is, and no descendant escaped a leader that died by itself.
\* Mutant: an empty group is proof enough.
ProvableByGroup(a) == TRUE
Provable(a) ==
  /\ proc[a][workers[a]].st # "stray"
  /\ owner[a] \in {0, workers[a]} \/ proc[a][owner[a]].st = "gone"

(* What terminate may report and leave behind.  A group that cannot be read is
   unknown, whatever the signals did to it (a guard that has no handlers yet dies
   of the first); an identity that cannot be proved is not even signalled.       *)
StopOutcomes(a) ==
  LET st == proc[a][workers[a]].st
      killed == CASE st = "forked" -> "refused" [] st = "alive" -> "gone" [] OTHER -> st IN
  {o \in [cleanup: {"verified", "unknown"}, attempted: BOOLEAN, st: ProcStates] :
     \/ o.attempted /\ o.st = killed /\ o.cleanup = IF Provable(a) THEN "verified" ELSE "unknown"
     \/ "unverified" \in Faults /\ o.cleanup = "unknown"
          /\ \/ o.attempted /\ o.st \in {killed} \cup (IF st = "alive" THEN {"alive", "stray"} ELSE {})
             \/ ~o.attempted /\ o.st = st /\ st \in {"forked", "alive", "stray"}}

\* The process after the outcome: a proved death also ends what it executed.
Stopped(p, st) ==
  [p EXCEPT !.st = st,
            !.task = IF st \in {"gone", "refused"} THEN NoRun ELSE p.task,
            !.dialogs = IF st = p.st THEN p.dialogs ELSE {},
            !.abort = IF st = p.st THEN p.abort ELSE "no",
            !.stdin = IF st = p.st THEN p.stdin ELSE <<>>]

InterruptKinds == {"interrupt", "soft_interrupt", "close", "evict", "park",
                   "check_idle", "send_interrupt", "shutdown"}

\* Mutant: the run's outcome is written to the agent's row.
StateAfterStopOfRun(kind, cleanup) ==
  IF kind = "fail_worker" THEN "failed" ELSE IF kind = "check_idle" THEN "timed_out" ELSE "interrupted"

\* Where interrupt's caller leaves the agent once the cleanup is known.
StateAfterStop(kind, cleanup) ==
  CASE kind = "fail_worker" -> "crashed"
    [] kind = "close" -> IF cleanup = "verified" THEN "closed" ELSE "orphaned"
    [] kind \in {"soft_interrupt", "evict", "park"} /\ cleanup # "verified" -> "orphaned"
    [] OTHER -> "dormant"

\* The run that ends with the process: stop_unowned and a bare terminate_worker
\* leave it to the exit accounting, fail_worker has finished it before.
\* Mutant: every caller leaves it there.
LeftToExit(a, k) == {}
EndsWith(a, k) ==
  IF k \in InterruptKinds /\ ~(k = "shutdown" /\ W(a).tainted) THEN {W(a).run} ELSE {}

\* The end of terminate_worker: interrupt and its caller, fail_worker,
\* stop_unowned and shutdown run on in the same segment.
StopDone(a, o) ==
  LET k == op[a].kind
      g == workers[a]
      own == EndsWith(a, k) IN
  /\ up /\ op[a].pc = "stop" /\ o \in StopOutcomes(a)
  /\ SetProc(a, g, Stopped(proc[a][g], o.st))
  /\ run' = Finish(run, own, IF k = "check_idle" THEN "timed_out" ELSE "interrupted")
  /\ SetWorker(a, [(IF own = {} THEN W(a) ELSE Settled(W(a)))
                     EXCEPT !.closed = W(a).closed \/ o.attempted, !.stopping = TRUE])
  /\ SetAgent(a, [agent[a] EXCEPT !.state = StateAfterStop(k, o.cleanup),
                                  !.current = NoRun, !.cleanup = o.cleanup])
  /\ op' = [b \in Agents |->
       IF b = a THEN IF k = "send_interrupt" /\ o.cleanup = "verified"
                     THEN [Free EXCEPT !.kind = k, !.pc = "admit"] ELSE Free
       ELSE IF k = "evict" /\ op[b].pc = "victim" /\ op[b].victim = a
       THEN IF op[b].back = "writer" /\ o.cleanup # "verified"
            THEN [op[b] EXCEPT !.pc = "refused"] ELSE [op[b] EXCEPT !.pc = op[b].back]
       ELSE op[b]]
  /\ UNCHANGED <<up, owner, closing, admission, workers, tasks>>

\* _ready_worker's failure path: the boot raises after the cleanup is recorded.
UnbootDone(a, o) ==
  LET g == workers[a]
      starting == {r \in Runs : run[r] = [state |-> "starting", owner |-> a]} IN
  /\ up /\ op[a].pc = "unboot" /\ o \in StopOutcomes(a)
  /\ SetProc(a, g, Stopped(proc[a][g], o.st))
  /\ SetWorker(a, [W(a) EXCEPT !.closed = W(a).closed \/ o.attempted])
  /\ SetAgent(a, [agent[a] EXCEPT !.cleanup = o.cleanup,
       !.state = IF op[a].kind = "spawn" THEN "crashed" ELSE agent[a].state])
  /\ run' = IF op[a].kind = "spawn" THEN Finish(run, starting, "failed") ELSE run
  /\ SetOp(a, Free)
  /\ UNCHANGED <<up, owner, closing, admission, workers, tasks>>

\* An eviction for a writer that could not be verified: the boot raises.
EvictionRefused(a) ==
  /\ up /\ op[a].pc = "refused"
  /\ AbortBoot(a)
  /\ UNCHANGED <<up, owner, closing, workers, worker, tasks, proc>>

------------------------------------------------------------------------------
(* Client mutations: mutate, under the agent lock *)

Request(a, name) == name \in Requests /\ LockFree(a) /\ ~closing /\ agent[a].state # "absent"

\* interrupt, and the first half of send_input(interrupt=true) and close_agent.
Interrupt(a, name) ==
  /\ name \in {"interrupt", "send_interrupt", "close"} /\ Request(a, name)
  /\ name = "send_interrupt" => agent[a].gen < MaxGen
  /\ BeginInterrupt(a, [op EXCEPT ![a].kind = name])
  /\ UNCHANGED <<up, owner, closing, admission, workers, tasks, proc>>

\* close_agent without a resident worker: reap_orphan decides from the owner record.
CloseOrphan(a, verdict) ==
  /\ Request(a, "close") /\ ~HasWorker(a) /\ verdict \in Ownership(a) \ {"unknown"}
  /\ IF verdict = "gone"
     THEN /\ SetAgent(a, [agent[a] EXCEPT !.state = "closed", !.current = NoRun,
                                          !.cleanup = "verified"])
          /\ UNCHANGED op
     ELSE /\ SetOp(a, [Free EXCEPT !.kind = "close", !.pc = "reap"])
          /\ UNCHANGED agent
  /\ UNCHANGED <<up, owner, closing, admission, run, workers, worker, tasks, proc>>

\* reap_orphan after stop_group on the recorded owner's process group.
ReapDone(a, proved) ==
  LET g == owner[a] IN
  /\ up /\ op[a].pc = "reap"
  /\ proved => proc[a][g].st # "stray"
  /\ ~proved => "unverified" \in Faults \/ proc[a][g].st = "stray"
  /\ SetProc(a, g, IF proved THEN Stopped(proc[a][g], "gone") ELSE proc[a][g])
  /\ SetAgent(a, [agent[a] EXCEPT !.state = IF proved THEN "closed" ELSE "orphaned",
                                  !.current = NoRun,
                                  !.cleanup = IF proved THEN "verified" ELSE "unknown"])
  /\ SetOp(a, Free)
  /\ UNCHANGED <<up, owner, closing, admission, run, workers, worker, tasks>>

\* confirm_cleanup: an operator vouches for the descendants of one dead owner.
ConfirmCleanup(a) ==
  /\ Request(a, "confirm_cleanup") /\ ~HasWorker(a)
  /\ owner[a] # 0 /\ owner[a] = agent[a].gen /\ proc[a][owner[a]].st \in {"stray", "gone"}
  /\ SetProc(a, owner[a], Stopped(proc[a][owner[a]], "gone"))
  /\ SetAgent(a, [agent[a] EXCEPT !.state = "closed", !.current = NoRun, !.cleanup = "verified"])
  /\ UNCHANGED <<up, owner, closing, admission, run, workers, worker, op, tasks>>

\* respawn_agent, with or without a message.
Respawn(a, name) ==
  /\ name \in {"respawn", "respawn_message"} /\ Request(a, name)
  /\ ~HasWorker(a) /\ agent[a].gen < MaxGen
  /\ agent[a].state # "orphaned" /\ agent[a].cleanup # "unknown"
  /\ SetOp(a, [Free EXCEPT !.kind = name, !.pc = "admit"])
  /\ UNCHANGED <<up, owner, closing, admission, agent, run, workers, worker, tasks, proc>>

\* send_input and followup: ensure_loaded wakes a verified parked session.
SendWake(a) ==
  /\ Request(a, "send") /\ ~HasWorker(a) /\ agent[a].gen < MaxGen
  /\ ~(workers[a] # 0 /\ W(a).tainted)
  /\ agent[a].state \in {"dormant", "closed"} /\ agent[a].cleanup = "verified"
  /\ SetOp(a, [Free EXCEPT !.kind = "send", !.pc = "admit"])
  /\ UNCHANGED <<up, owner, closing, admission, agent, run, workers, worker, tasks, proc>>

\* Mutant: send_input trusts the agent's row instead of the worker's projection.
RunningRow(a) == agent[a].state = "running"
Occupied(a) == W(a).run # NoRun

SendIdle(a, r) ==
  /\ Request(a, "send") /\ Reachable(a) /\ ~W(a).stopping /\ ~Occupied(a)
  /\ r \in Unused /\ r = Oldest(Unused)
  /\ StartRun(a, r, agent[a], AddRun(a, r, "queued"), W(a), "send")
  /\ UNCHANGED <<up, owner, closing, admission, workers, tasks>>

\* send_input(mode=follow_up) behind an active run.
SendQueued(a, r) ==
  /\ Request(a, "send") /\ Reachable(a) /\ ~W(a).stopping /\ Occupied(a)
  /\ Cardinality(Queued(run, a)) < MaxQueue
  /\ r \in Unused /\ r = Oldest(Unused)
  /\ run' = AddRun(a, r, "queued")
  /\ UNCHANGED <<up, owner, agent, proc, memory>>

\* soft_interrupt: ask the child to end the task, without new work behind it.
SoftInterrupt(a) ==
  /\ Request(a, "soft_interrupt") /\ Reachable(a) /\ ~W(a).stopping
  /\ ~Exited(a, workers[a]) /\ W(a).run # NoRun
  /\ SetWorker(a, [W(a) EXCEPT !.stopping = TRUE, !.cancelled = TRUE])
  /\ SetAgent(a, [agent[a] EXCEPT !.state = "stopping"])
  /\ run' = CancelQueued(run, a)
  /\ SetProc(a, workers[a], Written(proc[a][workers[a]],
       [cmd |-> "abort", id |-> W(a).run, dialog |-> None, live |-> TRUE]))
  /\ SetOp(a, [Free EXCEPT !.kind = "soft_interrupt", !.pc = "abort"])
  /\ UNCHANGED <<up, owner, closing, admission, workers, tasks>>

\* Mutant: any dialog that closes resumes the run.
DismissAny(a, d, ag, rs, w) ==
  LET resumes == d \in w.ui /\ w.run # NoRun IN
  /\ agent' = IF resumes THEN [agent EXCEPT ![a] = [ag EXCEPT !.state = "running"]]
              ELSE [agent EXCEPT ![a] = ag]
  /\ run' = IF resumes /\ rs[w.run].state = "needs_input"
            THEN [rs EXCEPT ![w.run].state = "running"] ELSE rs

\* dismiss_ui: the last open question returns the run to running.
Dismiss(a, d, ag, rs, w) ==
  LET left == w.ui \ {d}
      resumes == d \in w.ui /\ left = {} /\ w.run # NoRun IN
  /\ agent' = IF resumes THEN [agent EXCEPT ![a] = [ag EXCEPT !.state = "running"]]
              ELSE [agent EXCEPT ![a] = ag]
  /\ run' = IF resumes /\ rs[w.run].state = "needs_input"
            THEN [rs EXCEPT ![w.run].state = "running"] ELSE rs

\* answer_agent
Answer(a, d) ==
  /\ Request(a, "answer") /\ Reachable(a) /\ d \in W(a).ui
  /\ SetProc(a, workers[a], Written(proc[a][workers[a]],
       [cmd |-> "answer", id |-> NoRun, dialog |-> d, live |-> FALSE]))
  /\ Dismiss(a, d, agent[a], run, W(a))
  /\ SetWorker(a, [W(a) EXCEPT !.ui = W(a).ui \ {d}, !.silent = FALSE])
  /\ UNCHANGED <<up, owner, closing, admission, workers, op, tasks>>

------------------------------------------------------------------------------
(* The replies awaited under the lock *)

PromptOk(a) ==
  /\ up /\ op[a].pc = "prompt" /\ op[a].ans = "ok"
  /\ SetOp(a, Free)
  /\ UNCHANGED <<up, owner, closing, admission, agent, run, workers, worker, tasks, proc>>

\* pi_rejected: the run fails and, from advance_queue, the next one starts.
PromptRejected(a) ==
  LET rs == Finish(run, {W(a).run}, "failed") IN
  /\ up /\ op[a].pc = "prompt" /\ op[a].ans = "no"
  /\ IF op[a].kind = "settle"
     THEN AdvanceQueue(a, IdleAgent(agent[a]), rs, IdleWorker(W(a)))
     ELSE /\ SetAgent(a, IdleAgent(agent[a])) /\ run' = rs
          /\ SetWorker(a, IdleWorker(W(a))) /\ SetOp(a, Free)
          /\ UNCHANGED proc
  /\ UNCHANGED <<up, owner, closing, admission, workers, tasks>>

\* What an uncertain start leaves in the ledger.
\* Mutant: a start nobody confirmed is reported as failed.
FailUncertain(a) == Finish(run, {W(a).run}, "failed")
KeepUncertain(a) == run

\* rpc_timeout or worker_exited: the start is uncertain and the run is retained.
PromptUncertain(a) ==
  /\ up /\ op[a].pc = "prompt"
  /\ op[a].ans = "gone" \/ (op[a].ans = "none" /\ "timeout" \in Faults)
  /\ SetOp(a, Free)
  /\ SetProc(a, workers[a], Abandoned(proc[a][workers[a]]))
  /\ run' = KeepUncertain(a)
  /\ UNCHANGED <<up, owner, closing, admission, agent, workers, worker, tasks>>

\* The child confirmed that the task exited: the worker is kept.
AbortConfirmed(a) ==
  /\ up /\ op[a].pc = "abort" /\ op[a].ans = "ok" /\ ~Exited(a, workers[a])
  /\ SetAgent(a, IdleAgent(agent[a]))
  /\ run' = Finish(run, {W(a).run}, "interrupted")
  /\ SetWorker(a, IdleWorker(W(a)))
  /\ SetOp(a, Free)
  /\ UNCHANGED <<up, owner, closing, admission, workers, tasks, proc>>

\* Anything else falls back on interrupting the process.
AbortForced(a) ==
  /\ up /\ op[a].pc = "abort"
  /\ \/ op[a].ans \in {"no", "gone"}
     \/ op[a].ans = "ok" /\ Exited(a, workers[a])
     \/ op[a].ans = "none" /\ "timeout" \in Faults
  /\ BeginInterrupt(a, [op EXCEPT ![a].ans = "none"])
  /\ SetProc(a, workers[a], Abandoned(proc[a][workers[a]]))
  /\ UNCHANGED <<up, owner, closing, admission, workers, tasks>>

------------------------------------------------------------------------------
(* Coroutines the daemon spawns itself *)

Task(kind, a, g, r) == [kind |-> kind, agent |-> a, gen |-> g, run |-> r]
Done(t) == tasks' = tasks \ {t}

\* Mutant: the run is not compared, only the worker.
SettleAny(a, g, r) == workers[a] = g /\ agent[a].gen = g /\ ~W(a).stopping /\ ~W(a).closed

\* settle re-checks under the lock that its worker and run are still current.
SettleValid(a, g, r) ==
  /\ workers[a] = g /\ agent[a].gen = g
  /\ W(a).run = r /\ ~W(a).stopping /\ ~W(a).closed

Outcome(w) == IF w.cancelled THEN "interrupted" ELSE IF w.failed THEN "failed" ELSE "completed"

Settle(a, g, r) ==
  LET t == Task("settle", a, g, r) IN
  /\ LockFree(a) /\ t \in tasks /\ Done(t)
  /\ IF SettleValid(a, g, r)
     THEN AdvanceQueue(a, IdleAgent(agent[a]), Finish(run, {r}, Outcome(W(a))), IdleWorker(W(a)))
     ELSE UNCHANGED <<agent, run, worker, op, proc>>
  /\ UNCHANGED <<up, owner, closing, admission, workers>>

\* Mutant: stop_unowned spares a worker the daemon no longer admits work to.
StopsReachable(a, g) == workers[a] = g /\ Reachable(a)
StopsUnowned(a, g) == agent[a].gen = g /\ ~worker[a][g].closed

\* stop_unowned: the worker whose host started work no run owns.
StopUnowned(a, g) ==
  LET t == Task("stop_unowned", a, g, NoRun) IN
  /\ LockFree(a) /\ t \in tasks /\ Done(t)
  /\ IF StopsUnowned(a, g)
     THEN /\ run' = CancelQueued(run, a)
          /\ worker' = [worker EXCEPT ![a][g].stopping = TRUE]
          /\ SetOp(a, [Free EXCEPT !.kind = "stop_unowned", !.pc = "stop"])
     ELSE UNCHANGED <<run, worker, op>>
  /\ UNCHANGED <<up, owner, closing, admission, agent, workers, proc>>

\* Mutant: a reader error stops whichever worker is resident when it has the lock.
FailsResident(a, g) == HasWorker(a) /\ ~W(a).stopping
FailsOwn(a, g) == workers[a] = g /\ agent[a].gen = g /\ ~W(a).stopping /\ ~W(a).closed

\* fail_worker: the reader of the protocol pipe raised.
FailWorker(a, g) ==
  LET t == Task("fail_worker", a, g, NoRun) IN
  /\ LockFree(a) /\ t \in tasks /\ Done(t)
  /\ IF FailsOwn(a, g)
     THEN /\ run' = Finish(CancelQueued(run, a), {W(a).run}, "failed")
          /\ SetWorker(a, [Settled(W(a)) EXCEPT !.stopping = TRUE])
          /\ SetOp(a, [Free EXCEPT !.kind = "fail_worker", !.pc = "stop"])
     ELSE UNCHANGED <<run, worker, op>>
  /\ UNCHANGED <<up, owner, closing, admission, agent, workers, proc>>

\* watch_exit saw the guard reaped and drained the readers: replies still
\* awaited are failed, unread frames are lost.
Reaped(a, g) ==
  /\ up /\ worker[a][g].life \in {"reading", "failed"} /\ Exited(a, g)
  /\ worker' = [worker EXCEPT ![a][g].life = "exiting"]
  /\ proc' = [proc EXCEPT ![a][g].stdout = <<>>]
  /\ op' = IF workers[a] = g /\ op[a].pc \in {"prompt", "abort"} /\ op[a].ans = "none"
           THEN [op EXCEPT ![a].ans = "gone"] ELSE op
  /\ UNCHANGED <<up, owner, closing, admission, agent, run, workers, tasks>>

\* The record of this very generation must prove the leaders and descendants dead.
ExitProof(a, g, proved) ==
  \/ proved /\ owner[a] = g /\ proc[a][g].st = "gone"
  \/ ~proved /\ (owner[a] # g \/ proc[a][g].st # "gone" \/ "unverified" \in Faults)

\* worker_exited, then closed and retire_worker in the same segment.
WorkerExited(a, g, proved) ==
  LET w == worker[a][g] IN
  /\ LockFree(a) /\ w.life = "exiting" /\ ExitProof(a, g, proved)
  /\ IF agent[a].gen = g
     THEN /\ run' = CancelQueued(Finish(run, {w.run}, IF w.stopping THEN "interrupted" ELSE "crashed"), a)
          /\ IF agent[a].state \notin {"closed", "dormant"}
             THEN SetAgent(a, [agent[a] EXCEPT !.state = "crashed", !.current = NoRun,
                                !.cleanup = IF proved THEN "verified" ELSE "unknown"])
             ELSE UNCHANGED agent
     ELSE UNCHANGED <<run, agent>>
  /\ worker' = [worker EXCEPT ![a][g] = [NoWorker EXCEPT !.life = "done"]]
  /\ workers' = IF workers[a] = g THEN [workers EXCEPT ![a] = 0] ELSE workers
  /\ UNCHANGED <<up, owner, closing, admission, op, tasks, proc>>

\* Model output stops for idle_timeout_seconds.
FallSilent(a) ==
  /\ "silence" \in Faults /\ up /\ HasWorker(a) /\ W(a).run # NoRun /\ ~W(a).silent
  /\ SetWorker(a, [W(a) EXCEPT !.silent = TRUE])
  /\ UNCHANGED <<up, owner, closing, admission, agent, run, workers, op, tasks, proc>>

Expired(w) == w.run # NoRun /\ w.silent /\ w.ui = {}

\* check_idle observes a worker without its lock; one coroutine, one at a time.
ObserveIdle(a) ==
  LET t == Task("check_idle", a, workers[a], W(a).run) IN
  /\ up /\ ~closing /\ workers[a] # 0 /\ Expired(W(a))
  /\ ~\E u \in tasks : u.kind = "check_idle"
  /\ \A b \in Agents : op[b].kind \notin {"check_idle", "park"}
  /\ tasks' = tasks \cup {t}
  /\ UNCHANGED <<up, owner, closing, admission, agent, run, workers, worker, op, proc>>

\* Mutant: the deadline is not read again after waiting for the lock.
TimeoutSeen(a, g, r) == workers[a] = g /\ W(a).run = r /\ ~W(a).stopping /\ ~W(a).closed
TimeoutValid(a, g, r) ==
  /\ workers[a] = g /\ W(a).run = r /\ ~W(a).stopping /\ ~W(a).closed /\ Expired(W(a))

CheckIdle(a, g, r) ==
  LET t == Task("check_idle", a, g, r) IN
  /\ LockFree(a) /\ t \in tasks /\ Done(t)
  /\ IF TimeoutValid(a, g, r) /\ Reachable(a)
     THEN BeginInterrupt(a, [op EXCEPT ![a].kind = "check_idle"])
     ELSE UNCHANGED <<agent, run, worker, op>>
  /\ UNCHANGED <<up, owner, closing, admission, workers, proc>>

\* park_expired, after the re-check under the lock.
Park(a) ==
  /\ "silence" \in Faults /\ LockFree(a) /\ ~closing /\ Evictable(a)
  /\ ~\E u \in tasks : u.kind = "check_idle"
  /\ \A b \in Agents : op[b].kind \notin {"check_idle", "park"}
  /\ BeginInterrupt(a, [op EXCEPT ![a].kind = "park"])
  /\ UNCHANGED <<up, owner, closing, admission, workers, tasks, proc>>

------------------------------------------------------------------------------
(* The frames of a worker's stdout: read_stdout and on_event *)

\* The frame at the head of a pipe that is still read, and what is left after it.
Heads(a, g, type) ==
  /\ up /\ worker[a][g].life = "reading" /\ proc[a][g].stdout # <<>>
  /\ Head(proc[a][g].stdout).type = type
Consume(a, g) == proc' = [proc EXCEPT ![a][g].stdout = Tail(proc[a][g].stdout)]

\* on_event's filters: another run's frame, an older generation, a tainted worker.
Heeded(a, g) ==
  LET w == worker[a][g] IN
  Head(proc[a][g].stdout).id = w.run /\ w.run # NoRun /\ agent[a].gen = g /\ ~w.tainted

ReadReply(a, g) ==
  LET f == Head(proc[a][g].stdout) IN
  /\ Heads(a, g, "reply") /\ Consume(a, g)
  /\ op' = IF f.live /\ op[a].pc \in {"prompt", "abort"} /\ op[a].ans = "none"
           THEN [op EXCEPT ![a].ans = f.how] ELSE op
  /\ UNCHANGED <<up, owner, closing, admission, agent, run, workers, worker, tasks>>

ReadDropped(a, g) ==
  /\ \E type \in {"ask", "closed", "end", "delta"} : Heads(a, g, type)
  /\ ~Heeded(a, g) /\ Consume(a, g)
  /\ UNCHANGED <<up, owner, agent, run, memory>>

\* extension_ui_request: the run waits for its parent.
ReadAsk(a, g) ==
  LET f == Head(proc[a][g].stdout) IN
  /\ Heads(a, g, "ask") /\ Heeded(a, g) /\ Consume(a, g)
  /\ worker' = [worker EXCEPT ![a][g].ui = worker[a][g].ui \cup {f.dialog}]
  /\ SetAgent(a, [agent[a] EXCEPT !.state = "needs_input"])
  /\ run' = [run EXCEPT ![f.id].state = "needs_input"]
  /\ UNCHANGED <<up, owner, closing, admission, workers, op, tasks>>

ReadClosed(a, g) ==
  LET f == Head(proc[a][g].stdout)
      w == worker[a][g] IN
  /\ Heads(a, g, "closed") /\ Heeded(a, g) /\ Consume(a, g)
  /\ Dismiss(a, f.dialog, agent[a], run, w)
  /\ worker' = [worker EXCEPT ![a][g].ui = w.ui \ {f.dialog},
                              ![a][g].silent = w.silent /\ f.dialog \notin w.ui]
  /\ UNCHANGED <<up, owner, closing, admission, workers, op, tasks>>

\* managed_task_end: the only frame that may settle a run.
ReadEnd(a, g) ==
  LET f == Head(proc[a][g].stdout) IN
  /\ Heads(a, g, "end") /\ Heeded(a, g) /\ Consume(a, g)
  /\ worker' = [worker EXCEPT ![a][g].cancelled = worker[a][g].cancelled \/ f.how = "cancelled",
                              ![a][g].failed = worker[a][g].failed \/ f.how = "error"]
  /\ run' = IF f.how = "cancelled" THEN CancelQueued(run, a) ELSE run
  /\ tasks' = tasks \cup {Task("settle", a, g, f.id)}
  /\ UNCHANGED <<up, owner, closing, admission, agent, workers, op>>

\* message_update with model progress.
ReadDelta(a, g) ==
  /\ Heads(a, g, "delta") /\ Heeded(a, g) /\ Consume(a, g)
  /\ worker' = [worker EXCEPT ![a][g].silent = FALSE]
  /\ UNCHANGED <<up, owner, closing, admission, agent, run, workers, op, tasks>>

\* agent_start outside the managed task queue taints an idle worker.
ReadStart(a, g) ==
  /\ Heads(a, g, "start") /\ Consume(a, g)
  /\ IF /\ agent[a].gen = g /\ worker[a][g].run = NoRun /\ ~worker[a][g].stopping
        /\ agent[a].state \notin {"closed", "dormant"}
     THEN /\ worker' = [worker EXCEPT ![a][g].tainted = TRUE]
          /\ SetAgent(a, [agent[a] EXCEPT !.state = "dormant", !.current = NoRun])
          /\ tasks' = tasks \cup {Task("stop_unowned", a, g, NoRun)}
     ELSE UNCHANGED <<worker, agent, tasks>>
  /\ UNCHANGED <<up, owner, closing, admission, run, workers, op>>

\* read_stdout raises: an oversized or malformed frame.
ReaderFails(a, g) ==
  /\ "protocol" \in Faults /\ up /\ worker[a][g].life = "reading" /\ ~Exited(a, g)
  /\ worker' = [worker EXCEPT ![a][g].life = "failed"]
  /\ tasks' = tasks \cup {Task("fail_worker", a, g, NoRun)}
  /\ UNCHANGED <<up, owner, closing, admission, agent, run, workers, op, proc>>

------------------------------------------------------------------------------
(* The managed child: guard, SDK transport and the task it executes *)

Frame(type, id, d, how, live) ==
  [type |-> type, id |-> id, dialog |-> d, how |-> how, live |-> live]
Sent(p, f) == [p EXCEPT !.stdout = Append(p.stdout, f)]
Running(a, g) == proc[a][g].st = "alive" /\ Len(proc[a][g].stdout) < MaxFrames
Child(a, g, p) == SetProc(a, g, p) /\ UNCHANGED <<up, owner, agent, run, memory>>

\* No other guard holds the session lease, and the recorded owner is proved dead.
PreviousGone(a, g) ==
  /\ \A h \in Gens \ {g} : proc[a][h].st # "alive"
  /\ owner[a] # 0 => proc[a][owner[a]].st = "gone"

\* posix_main: the session lease and check_previous come before the owner record.
GuardRecord(a, g) ==
  /\ proc[a][g].st = "forked"
  /\ \/ /\ PreviousGone(a, g)
        /\ proc' = [proc EXCEPT ![a][g].st = "alive"]
        /\ owner' = [owner EXCEPT ![a] = g]
     \/ /\ ~PreviousGone(a, g)
        /\ proc' = [proc EXCEPT ![a][g].st = "refused"]
        /\ UNCHANGED owner
  /\ UNCHANGED <<up, agent, run, memory>>

\* The guard's own end.  Losing the daemon closes stdin, which ends the child.
ProcExit(a, g, st) ==
  /\ "exit" \in Faults \/ worker[a][g].life = "none"
  /\ \/ proc[a][g].st = "forked" /\ st = "refused" /\ "exit" \in Faults
     \/ proc[a][g].st = "alive" /\ st = "gone"
     \/ proc[a][g].st = "alive" /\ st = "stray" /\ "stray" \in Faults
  /\ Child(a, g, Stopped(proc[a][g], st))

ChildPrompt(a, g) ==
  LET p == proc[a][g]
      c == Head(p.stdin)
      q == [p EXCEPT !.stdin = Tail(p.stdin)] IN
  /\ Running(a, g) /\ p.stdin # <<>> /\ c.cmd = "prompt"
  /\ \/ /\ p.task = NoRun
        /\ Child(a, g, Sent([q EXCEPT !.task = c.id], Frame("reply", NoRun, None, "ok", c.live)))
     \/ /\ p.task # NoRun \/ "reject" \in Faults
        /\ Child(a, g, Sent(q, Frame("reply", NoRun, None, "no", c.live)))

\* abortTask: refused while a preflight cannot be cancelled, or no task is active.
ChildAbort(a, g) ==
  LET p == proc[a][g]
      c == Head(p.stdin)
      q == [p EXCEPT !.stdin = Tail(p.stdin)] IN
  /\ Running(a, g) /\ p.stdin # <<>> /\ c.cmd = "abort"
  /\ \/ /\ p.task # NoRun
        /\ Child(a, g, [q EXCEPT !.abort = IF c.live THEN "live" ELSE "stale"])
     \/ /\ p.task = NoRun \/ "reject" \in Faults
        /\ Child(a, g, Sent(q, Frame("reply", NoRun, None, "no", c.live)))

ChildAnswer(a, g) ==
  LET p == proc[a][g]
      c == Head(p.stdin)
      q == [p EXCEPT !.stdin = Tail(p.stdin), !.dialogs = p.dialogs \ {c.dialog}] IN
  /\ Running(a, g) /\ p.stdin # <<>> /\ c.cmd = "answer"
  /\ Child(a, g, IF c.dialog \in p.dialogs
                 THEN Sent(q, Frame("closed", p.task, c.dialog, "ok", FALSE)) ELSE q)

ChildAsk(a, g, d) ==
  LET p == proc[a][g] IN
  /\ Running(a, g) /\ p.task # NoRun /\ p.abort = "no" /\ d \notin p.dialogs
  /\ Child(a, g, Sent([p EXCEPT !.dialogs = p.dialogs \cup {d}],
                      Frame("ask", p.task, d, "ok", FALSE)))

\* A dialog times out, is aborted, or is discarded with its task.
ChildClose(a, g, d) ==
  LET p == proc[a][g] IN
  /\ Running(a, g) /\ d \in p.dialogs
  /\ Child(a, g, Sent([p EXCEPT !.dialogs = p.dialogs \ {d}],
                      Frame("closed", p.task, d, "ok", FALSE)))

\* TaskQueue: the owned task is over; an accepted abort replies after it.  The host
\* may abort its own task; dialogs it leaves open answer for no later run.
ChildEnd(a, g, how) ==
  LET p == proc[a][g]
      e == Sent([p EXCEPT !.task = NoRun, !.dialogs = {}, !.abort = "no"], Frame("end", p.task, None, how, FALSE)) IN
  /\ Running(a, g) /\ p.task # NoRun
  /\ p.abort # "no" => how = "cancelled" /\ p.dialogs = {}
  /\ Child(a, g, IF p.abort = "no" THEN e
                 ELSE Sent(e, Frame("reply", NoRun, None, "ok", p.abort = "live")))

ChildDelta(a, g) ==
  /\ "silence" \in Faults /\ Running(a, g) /\ proc[a][g].task # NoRun
  /\ Child(a, g, Sent(proc[a][g], Frame("delta", proc[a][g].task, None, "ok", FALSE)))

\* An extension starts a model turn outside the managed queue, at most once here.
ChildStart(a, g) ==
  /\ "unowned" \in Faults /\ Running(a, g) /\ ~proc[a][g].strayed
  /\ Child(a, g, Sent([proc[a][g] EXCEPT !.strayed = TRUE], Frame("start", NoRun, None, "ok", FALSE)))

------------------------------------------------------------------------------
(* The daemon process *)

LoseMemory ==
  /\ up' = FALSE /\ closing' = FALSE /\ admission' = None
  /\ workers' = [a \in Agents |-> 0]
  /\ worker' = [a \in Agents |-> [g \in Gens |-> NoWorker]]
  /\ op' = [a \in Agents |-> Free]
  /\ tasks' = {}

Crash ==
  /\ "crash" \in Faults /\ up /\ LoseMemory
  /\ UNCHANGED <<owner, agent, run, proc>>

\* Every run of a lost daemon is settled.
\* Mutant: only those that were running are.
ReconciledRunning == Finish(run, {r \in Runs : run[r].state = "running"}, "crashed")
Reconciled ==
  Finish(Finish(run, {r \in Runs : run[r].state \in Active}, "crashed"),
         {r \in Runs : run[r].state = "queued"}, "cancelled")

\* _reconcile, with one ownership verdict per agent.
Restart(verdict) ==
  /\ ~up /\ up' = TRUE
  /\ \A a \in Agents : verdict[a] \in Ownership(a)
  /\ agent' = [a \in Agents |->
       IF agent[a].state \in Resident
       THEN [agent[a] EXCEPT !.state = IF verdict[a] = "gone" THEN "dormant" ELSE "orphaned",
                             !.cleanup = IF verdict[a] = "gone" THEN "verified" ELSE "unknown",
                             !.current = NoRun]
       ELSE [agent[a] EXCEPT !.current = NoRun]]
  /\ run' = Reconciled
  /\ UNCHANGED <<proc, owner, memory>>

\* daemon.main drains the admitted operations and stops the watchdog first.
BeginShutdown ==
  /\ "shutdown" \in Faults /\ up /\ ~closing
  /\ \A a \in Agents : op[a].pc = "free" \/ op[a].kind \in {"settle", "fail_worker", "stop_unowned"}
  /\ closing' = TRUE
  /\ UNCHANGED <<up, owner, admission, agent, run, workers, worker, op, tasks, proc>>

\* shutdown interrupts every worker, or only terminates one it may not interrupt.
ShutdownAgent(a) ==
  /\ closing /\ LockFree(a) /\ HasWorker(a)
  /\ \/ BeginInterrupt(a, [op EXCEPT ![a].kind = "shutdown"])
     \/ /\ ~Reachable(a)
        /\ SetWorker(a, [W(a) EXCEPT !.stopping = TRUE])
        /\ SetOp(a, [Free EXCEPT !.kind = "shutdown", !.pc = "stop"])
        /\ UNCHANGED <<agent, run>>
  /\ UNCHANGED <<up, owner, closing, admission, workers, tasks, proc>>

\* Mutant: shutdown does not wait for the locks of workers that are stopping already.
AllStopping == \A a \in Agents : HasWorker(a) => W(a).stopping
AllStopped == \A a \in Agents : HasWorker(a) => LockFree(a) /\ W(a).stopping

\* Every worker was dealt with; what still runs in the background is cancelled.
ShutdownExit ==
  /\ up /\ closing /\ AllStopped
  /\ LoseMemory
  /\ UNCHANGED <<owner, agent, run, proc>>

------------------------------------------------------------------------------

Init ==
  /\ up = TRUE /\ closing = FALSE /\ admission = None
  /\ agent = [a \in Agents |-> [state |-> "absent", gen |-> 0, pid |-> 0,
                                cleanup |-> "verified", current |-> NoRun]]
  /\ run = [r \in Runs |-> [state |-> "absent", owner |-> None]]
  /\ workers = [a \in Agents |-> 0]
  /\ worker = [a \in Agents |-> [g \in Gens |-> NoWorker]]
  /\ op = [a \in Agents |-> Free]
  /\ tasks = {}
  /\ proc = [a \in Agents |-> [g \in Gens |-> NoProc]]
  /\ owner = [a \in Agents |-> 0]

Boot(a) ==
  \/ Spawn(a) \/ Admit(a) \/ LockVictim(a) \/ SkipVictim(a) \/ BootRefused(a)
  \/ AdmitWriter(a) \/ BeforeSpawn(a) \/ Fork(a) \/ ForkFails(a) \/ Register(a)
  \/ ReadyOk(a) \/ ReadyFails(a) \/ EvictionRefused(a)
  \/ \E r \in Runs : SpawnInsert(a, r)
  \/ \E b \in Agents : PickVictim(a, b)

Stop(a) ==
  \E o \in [cleanup: {"verified", "unknown"}, attempted: BOOLEAN, st: ProcStates] :
     StopDone(a, o) \/ UnbootDone(a, o)

Mutate(a) ==
  \/ \E name \in Requests : Interrupt(a, name) \/ Respawn(a, name)
  \/ \E v \in {"gone", "live"} : CloseOrphan(a, v)
  \/ \E proved \in BOOLEAN : ReapDone(a, proved)
  \/ ConfirmCleanup(a) \/ SendWake(a) \/ SoftInterrupt(a)
  \/ \E r \in Runs : SendIdle(a, r) \/ SendQueued(a, r)
  \/ \E d \in Dialogs : Answer(a, d)

Await(a) ==
  \/ PromptOk(a) \/ PromptRejected(a) \/ PromptUncertain(a)
  \/ AbortConfirmed(a) \/ AbortForced(a)

Background(a) ==
  \/ \E g \in Gens :
       \/ StopUnowned(a, g) \/ FailWorker(a, g) \/ Reaped(a, g)
       \/ \E proved \in BOOLEAN : WorkerExited(a, g, proved)
       \/ \E r \in Runs : Settle(a, g, r) \/ CheckIdle(a, g, r)
  \/ FallSilent(a) \/ ObserveIdle(a) \/ Park(a)

Read(a) ==
  \E g \in Gens : \/ ReadReply(a, g) \/ ReadDropped(a, g) \/ ReadAsk(a, g) \/ ReadClosed(a, g)
                  \/ ReadEnd(a, g) \/ ReadDelta(a, g) \/ ReadStart(a, g) \/ ReaderFails(a, g)

Process(a) ==
  \E g \in Gens :
     \/ GuardRecord(a, g) \/ \E st \in ProcStates : ProcExit(a, g, st)
     \/ ChildPrompt(a, g) \/ ChildAbort(a, g) \/ ChildAnswer(a, g)
     \/ \E d \in Dialogs : ChildAsk(a, g, d) \/ ChildClose(a, g, d)
     \/ \E how \in {"ok", "error", "cancelled"} : ChildEnd(a, g, how)
     \/ ChildDelta(a, g) \/ ChildStart(a, g)

Daemon ==
  \/ Crash \/ BeginShutdown \/ ShutdownExit
  \/ \E v \in [Agents -> {"gone", "live", "unknown"}] : Restart(v)

Next ==
  \/ \E a \in Agents : \/ Boot(a) \/ Stop(a) \/ Mutate(a) \/ Await(a) \/ Background(a)
                       \/ Read(a) \/ Process(a) \/ ShutdownAgent(a)
  \/ Daemon

Spec == Init /\ [][Next]_vars

(* Fairness.  A coroutine that holds an agent lock always has a next segment: the
   reply it awaits, or the timer that bounds the wait (EVICT_LOCK_TIMEOUT, the rpc
   and startup timeouts).  asyncio locks are FIFO, so whoever waits for admission
   or for an agent lock gets it if it is released again and again.  Nothing is
   assumed of the child or of the clients.                                       *)
Continue(a) ==
  \/ LockVictim(a) \/ SkipVictim(a) \/ BootRefused(a) \/ AdmitWriter(a) \/ BeforeSpawn(a)
  \/ Fork(a) \/ Register(a) \/ ReadyOk(a) \/ ReadyFails(a) \/ EvictionRefused(a)
  \/ \E r \in Runs : SpawnInsert(a, r)
  \/ \E b \in Agents : PickVictim(a, b)
  \/ \E proved \in BOOLEAN : ReapDone(a, proved)
  \/ Stop(a) \/ Await(a)

\* Coroutines the daemon spawned, once they get the lock.
Handoff(a) ==
  \E g \in Gens :
    \/ StopUnowned(a, g) \/ FailWorker(a, g)
    \/ \E proved \in BOOLEAN : WorkerExited(a, g, proved)
    \/ \E r \in Runs : Settle(a, g, r)

Fairness ==
  \A a \in Agents :
    /\ WF_vars(Continue(a)) /\ SF_vars(Admit(a))
    /\ WF_vars(\E g \in Gens : Reaped(a, g)) /\ SF_vars(Handoff(a))

FairSpec == Spec /\ Fairness

------------------------------------------------------------------------------
(* Properties *)

Live(a) == \E g \in Gens : proc[a][g].st \in {"forked", "alive", "stray"}
Busy(a) == op[a].pc # "free"

\* A Worker whose exit accounting is still to come.
Accountable(a, g) == agent[a].gen = g /\ worker[a][g].life \notin {"none", "done"}

(* An agent has at most one run that is starting, running or waiting for its
   parent: starts, rejections, interrupts and exits of several coroutines never
   leave a second one behind (runtime.py start_run, advance_queue, send_input).   *)
OneActiveRun ==
  \A r, q \in Runs : run[r].state \in Active /\ run[q].state \in Active /\ run[r].owner = run[q].owner
     => r = q

(* An active run is always somebody's to settle: its spawn is still booting, or
   the worker that projects it has its completion or exit accounting to come.  No
   stale settle, timeout, rejection or replacement orphans a run in the ledger.   *)
RunHasOwner ==
  up => \A r \in Runs : run[r].state \in Active =>
    LET a == run[r].owner IN
      \/ run[r].state = "starting" /\ op[a].kind = "spawn"
      \/ \E g \in Gens : Accountable(a, g) /\ worker[a][g].run = r

(* A queued run never waits behind nothing: there is an active run or a stopping
   worker ahead of it, a coroutine that will advance or cancel the queue, or an
   exit still to be accounted for (runtime.py advance_queue, cancel_queued).      *)
NoStrandedQueue ==
  up => \A r \in Runs : run[r].state = "queued" =>
    LET a == run[r].owner IN
      \/ Busy(a) \/ closing
      \/ \E g \in Gens : /\ Accountable(a, g)
                         /\ worker[a][g].run # NoRun \/ worker[a][g].stopping \/ Exited(a, g)

(* A child never goes on executing a task whose run the ledger reports as over,
   unless the agent is quarantined (cleanup unknown) or a coroutine is still
   stopping it: the purpose of stop_unowned, soft_interrupt's fallback and of
   keeping uncertain starts.  A daemon that is down reports nothing; its successor
   reconciles before it serves anyone.                                            *)
NoSilentExecution ==
  up => \A a \in Agents, g \in Gens :
    LET p == proc[a][g] IN
    p.st \in {"alive", "stray"} /\ p.task # NoRun /\ run[p.task].state \in Terminal
      => agent[a].cleanup = "unknown" \/ Busy(a)

(* cleanup=verified is a proof: once no coroutine is working on the agent, none of
   its processes of any generation, nor a descendant it left, still runs.         *)
VerifiedMeansDead == \A a \in Agents : agent[a].cleanup = "verified" /\ ~Busy(a) => ~Live(a)

(* While a worker holds an unanswered question for its run, the ledger says
   needs_input for both the agent and the run, whichever other dialogs of the same
   task close, time out or are answered meanwhile (runtime.py dismiss_ui).        *)
QuestionVisible ==
  up => \A a \in Agents :
    HasWorker(a) /\ W(a).run # NoRun /\ W(a).ui # {} /\ ~W(a).stopping
      => agent[a].state = "needs_input" /\ run[W(a).run].state = "needs_input"

(* Two managed writers of one cwd subtree never have a process alive at the same
   time, counting orphans, strays and processes still being stopped (admit_writer,
   assert_writer_exclusive).                                                      *)
WriterExclusion ==
  \A a, b \in Writers : Live(a) /\ Live(b) => a = b

(* The daemon's residents never exceed max_resident_agents, boots and evictions in
   flight included; only agents quarantined as unknown fall outside the count.    *)
ResidentBound ==
  Cardinality({a \in Agents : Live(a) /\ agent[a].cleanup # "unknown"}) <= MaxResident

(* Boots that wait for admission and evictions that wait for another agent's lock
   or for its end never wait for each other: whoever waits, waits for somebody
   busy, and after two such waits at most comes one who can go on.  Any other await
   is bounded by a timer (_boot_worker, ensure_capacity, admit_writer).            *)
HeldUp(a) ==
  \/ op[a].pc = "admit" /\ admission # None
  \/ op[a].pc = "lock" /\ op[op[a].victim].pc # "free" /\ ~VictimSkipped(a, op[a].victim)
  \/ op[a].pc = "victim"
WaitsFor(a) == IF op[a].pc = "admit" THEN admission ELSE op[a].victim
NoDeadlock ==
  up => \A a \in Agents : HeldUp(a) =>
    LET b == WaitsFor(a) IN
      Busy(b) /\ (HeldUp(b) => Busy(WaitsFor(b)) /\ ~HeldUp(WaitsFor(b)))

(* max_agents_per_scope also counts parked agents whose cleanup is unverified, so
   that failed stops cannot accumulate processes behind the limit.                *)
ScopeBound ==
  Cardinality({a \in Agents : Live(a)}) <= MaxScope

(* Both limits hold at once, which is what ensure_capacity promises a boot that it
   lets through: neither the residents nor the scope can be overrun by the other's
   evictions, parkings or failed stops.                                           *)
LimitsHold == ResidentBound /\ ScopeBound

(* A terminal outcome is final: no late frame, settle, timeout, exit or restart
   changes a run that was reported as over (store.py finish).                     *)
TerminalStays ==
  [][\A r \in Runs : run[r].state \in Terminal => run'[r] = run[r]]_vars

(* The watchdog interrupts a run only on silence that still holds when it has the
   lock: progress, a question or a new run meanwhile cancels the observation.     *)
WatchdogStopsSilentRun ==
  [][\A a \in Agents : op[a].kind # "check_idle" /\ op'[a].kind = "check_idle" => Expired(W(a))]_vars

(* A reader error that waited behind an interrupt and a respawn only ever stops the
   worker whose pipe failed (fail_worker).                                        *)
ReaderFailureIsLocal ==
  [][\A a \in Agents : op[a].kind # "fail_worker" /\ op'[a].kind = "fail_worker"
       => W(a).life # "reading"]_vars

(* A daemon that shuts down in order leaves no run open in the ledger: whatever ran,
   waited or was queued is settled before it exits (Runtime.shutdown).            *)
ShutdownSettles ==
  [][ShutdownExit => \A r \in Runs : run[r].state \in Terminal \cup {"absent"}]_vars

(* A Worker projects only a run that the ledger has as running or needs_input, and
   no two Workers of any agent or generation project the same one: whoever ends a
   run also drops its projection, or loses the worker (RunProjection.finish).     *)
ProjectionsActive ==
  \A a \in Agents, g \in Gens : worker[a][g].run # NoRun =>
    /\ run[worker[a][g].run].state \in {"running", "needs_input"}
    /\ \A b \in Agents, h \in Gens :
         worker[b][h].run = worker[a][g].run => <<b, h>> = <<a, g>>

(* The ledger and the processes agree through crashes and restarts: one active run per
   agent, somebody who will settle it, and nothing executing behind a terminal one.      *)
RunsOwned == OneActiveRun /\ RunHasOwner /\ NoSilentExecution

(* worker.py watch_exit: "A dead process is not yet available for replacement: finish
   its runs and queue under the agent lock before publishing this handoff flag."  *)
ReplacedWorkerHasNoRun ==
  \A a \in Agents, g \in Gens :
    g < agent[a].gen /\ worker[a][g].run # NoRun => run[worker[a][g].run].state \in Terminal

(* docs/subagents/lifecycle.md: "unknown ownership is never cleared automatically".  *)
UnknownNeverCleared ==
  [][\A a \in Agents : agent[a].cleanup = "unknown" /\ agent'[a].cleanup = "verified" => ~Live(a)']_vars

(* Every agent lock is released again, whatever replies never come, and every boot
   that waits for admission gets it: each way out of a boot gives it back.         *)
LockReleased == \A a \in Agents : Busy(a) ~> ~Busy(a)

(* The death of the process behind a run is always accounted for: the run does not
   stay active (watch_exit, worker_exited, interrupt, fail_worker), unless its host
   had started unowned activity (ReplacedWorkerHasNoRun tells what happens then).  *)
ExitSettlesRun ==
  \A a \in Agents, g \in Gens, r \in Runs :
    (worker[a][g].run = r /\ ~worker[a][g].tainted /\ worker[a][g].life # "none" /\ Exited(a, g))
      ~> (run[r].state \in Terminal \/ ~up)

(* The end of a managed task always settles the run its worker projects, by the
   settle coroutine or by whoever made that one obsolete.                         *)
EndSettlesRun ==
  \A a \in Agents, g \in Gens, r \in Runs :
    (Task("settle", a, g, r) \in tasks /\ worker[a][g].run = r /\ ~worker[a][g].tainted)
      ~> (run[r].state \in Terminal \/ ~up)

\* Whatever ends first, the process, the task or the child's answer, the run is settled.
RunsSettle == ExitSettlesRun /\ EndSettlesRun

(* A worker whose host started work outside the managed queue is stopped: its
   process does not stay alive behind an agent reported as dormant.               *)
UnownedWorkStops ==
  \A a \in Agents, g \in Gens :
    (up /\ worker[a][g].tainted) ~> (Exited(a, g) \/ ~up)

\* The ledger of runs is a RunLedger: legal transitions, FIFO starts, one at a time.
Ledger == INSTANCE RunLedger
ImplementsLedger == Ledger!Spec

=============================================================================
