------------------------- MODULE AgentRuntime_proofs -------------------------
(* Type correctness of AgentRuntime for every value of its constants, its freedom from
   deadlock, the locality of reader failures, the patience of the watchdog, the finality of
   outcomes and the visibility of questions.  One lemma per group of actions shows that it
   keeps the types, a second one that it keeps Located, a third one that it keeps admission
   with its holder, a fourth one that it reuses no generation and blames no worker, a fifth
   one that it times nothing out too early, a sixth one that it keeps outcomes and
   projections, a seventh one that it keeps questions visible.                            *)
EXTENDS AgentRuntime, SequenceTheorems, WellFoundedInduction, TLAPS

(* The run created first exists: ids are natural numbers. *)
LEMMA OldestExists ==
  ASSUME NEW S, S \subseteq Runs, S # {}
  PROVE  Oldest(S) \in S /\ \A q \in S : Oldest(S) <= q
<1>1. S \subseteq Nat
  BY DEF Runs
<1>2. PICK x \in S : \A y \in S : ~ (<<y, x>> \in OpToRel(<, Nat))
  BY <1>1, NatLessThanWellFounded, WFMin
<1>3. ASSUME NEW y \in S
      PROVE  x <= y
  <2>1. y < x => <<y, x>> \in OpToRel(<, Nat)
    BY <1>1 DEF OpToRel
  <2>2. ~ (y < x)
    BY <1>2, <2>1, Zenon
  <2> QED
    BY <1>1, <2>2
<1> QED
  BY <1>3 DEF Oldest

(* Store.finish leaves a ledger of runs. *)
LEMMA FinishType ==
  ASSUME NEW rs \in [Runs -> RunType], NEW S, NEW s \in RunStates
  PROVE  Finish(rs, S, s) \in [Runs -> RunType]
BY DEF Finish, RunType

(* cancel_queued leaves a ledger of runs. *)
LEMMA CancelQueuedType ==
  ASSUME NEW rs \in [Runs -> RunType], NEW a
  PROVE  CancelQueued(rs, a) \in [Runs -> RunType]
BY FinishType DEF CancelQueued, RunStates, Terminal

(* Runtime.add_run leaves a ledger of runs. *)
LEMMA AddRunType ==
  ASSUME TypeOK, NEW a \in Agents, NEW r, NEW s \in RunStates
  PROVE  AddRun(a, r, s) \in [Runs -> RunType]
BY DEF AddRun, TypeOK, RunType

(* The values a Worker is given by __init__, RunProjection.finish and finish_idle_run. *)
LEMMA WorkerValues ==
  /\ NoWorker \in WorkerType /\ NewWorker \in WorkerType
  /\ \A w \in WorkerType : Settled(w) \in WorkerType /\ IdleWorker(w) \in WorkerType
  /\ \A w \in WorkerType : [w EXCEPT !.stopping = TRUE] \in WorkerType
<1>1. NoRun \in 0..MaxRuns
  BY BoundsAssumption DEF NoRun
<1>2. NoWorker \in WorkerType
  BY <1>1 DEF NoWorker, WorkerType
<1>3. NewWorker \in WorkerType
  BY <1>2 DEF NewWorker, WorkerType
<1>4. ASSUME NEW w \in WorkerType
      PROVE  Settled(w) \in WorkerType
  BY <1>1 DEF WorkerType, Settled
<1>5. ASSUME NEW w \in WorkerType
      PROVE  IdleWorker(w) \in WorkerType
  BY <1>4 DEF WorkerType, IdleWorker
<1>6. ASSUME NEW w \in WorkerType
      PROVE  [w EXCEPT !.stopping = TRUE] \in WorkerType
  BY DEF WorkerType
<1> QED
  BY <1>2, <1>3, <1>4, <1>5, <1>6

(* The row finish_idle_run leaves is an agent. *)
LEMMA AgentValues ==
  ASSUME NEW ag \in AgentType
  PROVE  IdleAgent(ag) \in AgentType
<1>1. NoRun \in 0..MaxRuns
  BY BoundsAssumption DEF NoRun
<1> QED
  BY <1>1 DEF AgentType, IdleAgent, AgentStates, Resident, Cleanups

(* A command written to a child's stdin leaves a process. *)
LEMMA WrittenType ==
  ASSUME NEW p \in ProcType, NEW c \in Commands
  PROVE  Written(p, c) \in ProcType
<1>1. Append(p.stdin, c) \in Seq(Commands)
  BY AppendProperties DEF ProcType
<1> QED
  BY <1>1 DEF Written, ProcType

(* A frame a child writes to its stdout leaves a process. *)
LEMMA SentType ==
  ASSUME NEW p \in ProcType, NEW f \in Frames
  PROVE  Sent(p, f) \in ProcType
<1>1. Append(p.stdout, f) \in Seq(Frames)
  BY AppendProperties DEF ProcType
<1> QED
  BY <1>1 DEF Sent, ProcType

(* A pipe whose commands nobody waits for any more is still a pipe of commands. *)
LEMMA StaleCommands ==
  ASSUME NEW s \in Seq(Commands)
  PROVE  [i \in 1..Len(s) |-> [s[i] EXCEPT !.live = FALSE]] \in Seq(Commands)
<1>1. ASSUME NEW i \in 1..Len(s)
      PROVE  [s[i] EXCEPT !.live = FALSE] \in Commands
  <2>1. s[i] \in Commands
    BY ElementOfSeq
  <2> QED
    BY <2>1 DEF Commands
<1>2. Len(s) \in Nat
  BY LenProperties
<1>3. [i \in 1..Len(s) |-> [s[i] EXCEPT !.live = FALSE]] \in [1..Len(s) -> Commands]
  BY <1>1
<1>4. [1..Len(s) -> Commands] \subseteq Seq(Commands)
  <2>1. [1..Len(s) -> Commands] \in {[1..n -> Commands] : n \in Nat}
    BY <1>2, Zenon
  <2>2. Seq(Commands) = UNION {[1..n -> Commands] : n \in Nat}
    BY SeqDef
  <2> QED
    BY <2>1, <2>2, Zenon
<1> QED
  BY <1>3, <1>4, Zenon

(* A pipe whose replies nobody waits for any more is still a pipe of frames. *)
LEMMA StaleFrames ==
  ASSUME NEW s \in Seq(Frames)
  PROVE  [i \in 1..Len(s) |-> [s[i] EXCEPT !.live = FALSE]] \in Seq(Frames)
<1>1. ASSUME NEW i \in 1..Len(s)
      PROVE  [s[i] EXCEPT !.live = FALSE] \in Frames
  <2>1. s[i] \in Frames
    BY ElementOfSeq
  <2> QED
    BY <2>1 DEF Frames
<1>2. Len(s) \in Nat
  BY LenProperties
<1>3. [i \in 1..Len(s) |-> [s[i] EXCEPT !.live = FALSE]] \in [1..Len(s) -> Frames]
  BY <1>1
<1>4. [1..Len(s) -> Frames] \subseteq Seq(Frames)
  <2>1. [1..Len(s) -> Frames] \in {[1..n -> Frames] : n \in Nat}
    BY <1>2, Zenon
  <2>2. Seq(Frames) = UNION {[1..n -> Frames] : n \in Nat}
    BY SeqDef
  <2> QED
    BY <2>1, <2>2, Zenon
<1> QED
  BY <1>3, <1>4, Zenon

(* An rpc that gave up leaves a process. *)
LEMMA AbandonedType ==
  ASSUME NEW p \in ProcType
  PROVE  Abandoned(p) \in ProcType
<1>1. p.stdin \in Seq(Commands) /\ p.stdout \in Seq(Frames)
  BY DEF ProcType
<1> DEFINE in == [i \in 1..Len(p.stdin) |-> [p.stdin[i] EXCEPT !.live = FALSE]]
<1> DEFINE out == [i \in 1..Len(p.stdout) |-> [p.stdout[i] EXCEPT !.live = FALSE]]
<1>2. in \in Seq(Commands) /\ out \in Seq(Frames)
  BY <1>1, StaleCommands, StaleFrames
<1> HIDE DEF in, out
<1>3. [p EXCEPT !.abort = IF p.abort = "live" THEN "stale" ELSE p.abort,
                !.stdin = in, !.stdout = out] \in ProcType
  BY <1>2 DEF ProcType
<1> QED
  BY <1>3 DEF Abandoned, in, out

(* Every outcome of a termination leaves a process. *)
LEMMA StoppedType ==
  ASSUME NEW p \in ProcType, NEW st \in ProcStates
  PROVE  Stopped(p, st) \in ProcType
<1>1. << >> \in Seq(Commands) /\ NoRun \in 0..MaxRuns
  BY EmptySeq, BoundsAssumption DEF NoRun
<1>2. p.stdin \in Seq(Commands) /\ p.stdout \in Seq(Frames)
  BY DEF ProcType
<1> QED
  BY <1>1, <1>2 DEF Stopped, ProcType

(* A process before and just after its fork. *)
LEMMA NoProcType == NoProc \in ProcType /\ [NoProc EXCEPT !.st = "forked"] \in ProcType
<1>1. << >> \in Seq(Commands) /\ << >> \in Seq(Frames) /\ NoRun \in 0..MaxRuns
  BY EmptySeq, BoundsAssumption DEF NoRun
<1> QED
  BY <1>1 DEF NoProc, ProcType, ProcStates

(* An agent lock nobody holds. *)
LEMMA FreeType == Free \in OpType
BY BoundsAssumption DEF Free, OpType, Kinds, Steps

------------------------------------------------------------------------------
(* What the type invariant of a step rests on: whoever waits at a step that names
   a generation or a victim has one.                                              *)
LocatedAt(a) ==
  /\ op[a].pc = "fork" => agent[a].gen \in Gens
  /\ op[a].pc \in {"ready", "unboot", "prompt", "abort"} => workers[a] \in Gens
  /\ op[a].pc = "stop" /\ op[a].kind # "stop_unowned" => workers[a] \in Gens
  /\ op[a].pc \in {"lock", "victim"} => op[a].victim \in Agents
Located == \A a \in Agents : LocatedAt(a)

------------------------------------------------------------------------------
(* Updates of one variable at one agent.  A worker or process is only touched at
   a generation that exists: index 0 of either function is out of its domain.     *)
LEMMA SetAgentType ==
  ASSUME TypeOK, NEW a \in Agents, NEW ag \in AgentType, SetAgent(a, ag)
  PROVE  agent' \in [Agents -> AgentType]
BY DEF TypeOK, SetAgent

(* One lock's holder moves on. *)
LEMMA SetOpType ==
  ASSUME TypeOK, NEW a \in Agents, NEW o \in OpType, SetOp(a, o)
  PROVE  op' \in [Agents -> OpType]
BY DEF TypeOK, SetOp

(* The resident Worker of one agent changes. *)
LEMMA SetWorkerType ==
  ASSUME TypeOK, NEW a \in Agents, NEW w, workers[a] \in Gens => w \in WorkerType,
         SetWorker(a, w)
  PROVE  worker' \in [Agents -> [Gens -> WorkerType]]
BY DEF TypeOK, SetWorker

(* One generation's process changes. *)
LEMMA SetProcType ==
  ASSUME TypeOK, NEW a \in Agents, NEW g, NEW p, g \in Gens => p \in ProcType,
         SetProc(a, g, p)
  PROVE  proc' \in [Agents -> [Gens -> ProcType]]
BY DEF TypeOK, SetProc

(* start_run keeps the types of everything it writes. *)
LEMMA StartRunType ==
  ASSUME TypeOK, NEW a \in Agents, NEW r \in Runs, NEW ag \in AgentType,
         NEW rs \in [Runs -> RunType], NEW w, workers[a] \in Gens => w \in WorkerType,
         NEW kind \in Kinds, StartRun(a, r, ag, rs, w, kind)
  PROVE  /\ agent' \in [Agents -> AgentType] /\ run' \in [Runs -> RunType]
         /\ worker' \in [Agents -> [Gens -> WorkerType]]
         /\ proc' \in [Agents -> [Gens -> ProcType]] /\ op' \in [Agents -> OpType]
<1>1. r \in 0..MaxRuns
  BY BoundsAssumption DEF Runs
<1>2. agent' \in [Agents -> AgentType]
  <2>1. [ag EXCEPT !.state = "running", !.current = r] \in AgentType
    BY <1>1 DEF AgentType, AgentStates, Resident
  <2> QED
    BY <2>1, SetAgentType DEF StartRun
<1>3. run' \in [Runs -> RunType]
  BY DEF StartRun, RunType, RunStates, Active
<1>4. worker' \in [Agents -> [Gens -> WorkerType]]
  <2>1. workers[a] \in Gens =>
          [NewWorker EXCEPT !.run = r, !.tainted = w.tainted, !.life = w.life] \in WorkerType
    BY <1>1, WorkerValues DEF WorkerType
  <2> QED
    BY <2>1, SetWorkerType DEF StartRun
<1>5. proc' \in [Agents -> [Gens -> ProcType]]
  <2>1. [cmd |-> "prompt", id |-> r, dialog |-> None, live |-> TRUE] \in Commands
    BY <1>1 DEF Commands
  <2>2. workers[a] \in Gens =>
          Written(proc[a][workers[a]],
            [cmd |-> "prompt", id |-> r, dialog |-> None, live |-> TRUE]) \in ProcType
    BY <2>1, WrittenType DEF TypeOK
  <2> QED
    BY <2>2, SetProcType DEF StartRun
<1>6. op' \in [Agents -> OpType]
  <2>1. [Free EXCEPT !.kind = kind, !.pc = "prompt",
                     !.ans = IF Exited(a, workers[a]) THEN "gone" ELSE "none"] \in OpType
    BY FreeType DEF OpType, Steps
  <2> QED
    BY <2>1, SetOpType DEF StartRun
<1> QED
  BY <1>2, <1>3, <1>4, <1>5, <1>6

(* interrupt keeps the types of everything it writes before its await. *)
LEMMA BeginInterruptType ==
  ASSUME TypeOK, NEW a \in Agents, NEW o \in [Agents -> OpType], BeginInterrupt(a, o)
  PROVE  /\ agent' \in [Agents -> AgentType] /\ run' \in [Runs -> RunType]
         /\ worker' \in [Agents -> [Gens -> WorkerType]] /\ op' \in [Agents -> OpType]
<1>1. agent' \in [Agents -> AgentType]
  <2>1. agent[a] \in AgentType /\ "stopping" \in AgentStates
    BY DEF TypeOK, AgentStates, Resident
  <2>2. [agent[a] EXCEPT !.state = "stopping"] \in AgentType
    BY <2>1 DEF AgentType
  <2> QED
    BY <2>2, SetAgentType DEF BeginInterrupt
<1>2. run' \in [Runs -> RunType]
  BY CancelQueuedType DEF BeginInterrupt, TypeOK
<1>3. worker' \in [Agents -> [Gens -> WorkerType]]
  <2>1. workers[a] \in Gens => W(a) \in WorkerType
    BY DEF TypeOK, W
  <2>2. workers[a] \in Gens => [W(a) EXCEPT !.stopping = TRUE] \in WorkerType
    BY <2>1 DEF WorkerType
  <2> QED
    BY <2>2, SetWorkerType DEF BeginInterrupt
<1>4. op' \in [Agents -> OpType]
  BY DEF BeginInterrupt, OpType, Steps
<1> QED
  BY <1>1, <1>2, <1>3, <1>4

(* advance_queue keeps the types whether or not it starts the next run. *)
LEMMA AdvanceQueueType ==
  ASSUME TypeOK, NEW a \in Agents, NEW ag \in AgentType, NEW rs \in [Runs -> RunType],
         NEW w, workers[a] \in Gens => w \in WorkerType, AdvanceQueue(a, ag, rs, w)
  PROVE  /\ agent' \in [Agents -> AgentType] /\ run' \in [Runs -> RunType]
         /\ worker' \in [Agents -> [Gens -> WorkerType]]
         /\ proc' \in [Agents -> [Gens -> ProcType]] /\ op' \in [Agents -> OpType]
<1>1. CASE ~closing /\ Queued(rs, a) # {} /\ ~Exited(a, workers[a])
  <2>1. NextQueued(rs, a) \in Runs
    BY <1>1, OldestExists DEF NextQueued, Queued
  <2>2. StartRun(a, NextQueued(rs, a), ag, rs, w, "settle") /\ "settle" \in Kinds
    BY <1>1 DEF AdvanceQueue, Kinds
  <2> QED
    BY <2>1, <2>2, StartRunType
<1>2. CASE ~(~closing /\ Queued(rs, a) # {} /\ ~Exited(a, workers[a]))
  <2>1. /\ SetAgent(a, ag) /\ run' = rs /\ SetWorker(a, w) /\ SetOp(a, Free)
        /\ UNCHANGED proc
    BY <1>2 DEF AdvanceQueue
  <2> QED
    BY <2>1, SetAgentType, SetWorkerType, SetOpType, FreeType DEF TypeOK
<1> QED
  BY <1>1, <1>2

(* A boot that raises keeps the types of everything it writes. *)
LEMMA AbortBootType ==
  ASSUME TypeOK, NEW a \in Agents, AbortBoot(a)
  PROVE  /\ agent' \in [Agents -> AgentType] /\ run' \in [Runs -> RunType]
         /\ op' \in [Agents -> OpType] /\ admission' \in Agents \cup {None}
<1>1. op' \in [Agents -> OpType] /\ admission' \in Agents \cup {None}
  <2>1. op' \in [Agents -> OpType]
    BY SetOpType, FreeType DEF AbortBoot
  <2> QED
    BY <2>1 DEF AbortBoot, TypeOK
<1>2. agent' \in [Agents -> AgentType] /\ run' \in [Runs -> RunType]
  <2>1. [agent[a] EXCEPT !.state = "crashed"] \in AgentType
    BY DEF TypeOK, AgentType, AgentStates, Parked
  <2>2. Finish(run, {r \in Runs : run[r] = [state |-> "starting", owner |-> a]}, "failed")
          \in [Runs -> RunType]
    BY FinishType DEF TypeOK, RunStates, Terminal
  <2>3. CASE op[a].kind = "spawn" /\ agent[a].state # "absent"
    BY <2>1, <2>2, <2>3, SetAgentType DEF AbortBoot
  <2>4. CASE ~(op[a].kind = "spawn" /\ agent[a].state # "absent")
    BY <2>4 DEF AbortBoot, TypeOK
  <2> QED
    BY <2>3, <2>4
<1> QED
  BY <1>1, <1>2

(* The current values at one agent. *)
LEMMA Values ==
  ASSUME TypeOK, NEW a \in Agents
  PROVE  /\ agent[a] \in AgentType /\ op[a] \in OpType
         /\ workers[a] \in Gens => W(a) \in WorkerType /\ proc[a][workers[a]] \in ProcType
         /\ \A g \in Gens : worker[a][g] \in WorkerType /\ proc[a][g] \in ProcType
BY DEF TypeOK, W

(* A lock's holder at another await. *)
LEMMA OpAt ==
  ASSUME NEW o \in OpType, NEW pc \in Steps
  PROVE  [o EXCEPT !.pc = pc] \in OpType
BY DEF OpType

(* A coroutine that has just taken a lock. *)
LEMMA OpStarts ==
  ASSUME NEW k \in Kinds, NEW pc \in Steps
  PROVE  [Free EXCEPT !.kind = k, !.pc = pc] \in OpType
BY FreeType DEF OpType

(* An agent's row with another state. *)
LEMMA AgentMoves ==
  ASSUME NEW ag \in AgentType, NEW s \in AgentStates
  PROVE  [ag EXCEPT !.state = s] \in AgentType
BY DEF AgentType

------------------------------------------------------------------------------
(* Type correctness: one lemma per group of actions. *)
(* spawn_agent and _boot_worker, with the evictions they await, keep the types. *)
LEMMA BootType ==
  ASSUME TypeOK, Located, NEW a \in Agents, Boot(a)
  PROVE  TypeOK'
<1>0. agent[a] \in AgentType /\ op[a] \in OpType /\ (workers[a] \in Gens => W(a) \in WorkerType)
  BY Values
<1> USE <1>0, SetOpType
<1>1. CASE Spawn(a)
  <2>1. [Free EXCEPT !.kind = "spawn", !.pc = "admit"] \in OpType
    BY OpStarts DEF Kinds, AllRequests, Steps
  <2> QED
    BY <1>1, <2>1 DEF Spawn, TypeOK
<1>2. CASE Admit(a)
  <2>1. [op[a] EXCEPT !.pc = IF op[a].kind = "spawn" THEN "writer" ELSE "capacity"] \in OpType
    BY OpAt DEF Steps
  <2> QED
    BY <1>2, <2>1 DEF Admit, TypeOK
<1>3. CASE LockVictim(a)
  <2>1. op[a].victim \in Agents
    BY <1>3 DEF LockVictim, Located, LocatedAt
  <2>2. [op EXCEPT ![a].pc = "victim", ![op[a].victim].kind = "evict"] \in [Agents -> OpType]
    <3>1. [op EXCEPT ![a].pc = "victim"] \in [Agents -> OpType]
      BY OpAt DEF Steps, TypeOK
    <3>2. \A o \in OpType : [o EXCEPT !.kind = "evict"] \in OpType
      BY DEF OpType, Kinds
    <3> QED
      BY <3>1, <3>2
  <2> QED
    BY <1>3, <2>1, <2>2, BeginInterruptType DEF LockVictim, TypeOK
<1>4. CASE SkipVictim(a)
  <2>1. CASE op[a].back = "capacity"
    <3>1. [op[a] EXCEPT !.pc = "capacity"] \in OpType
      BY OpAt DEF Steps
    <3> QED
      BY <1>4, <2>1, <3>1 DEF SkipVictim, TypeOK
  <2>2. CASE op[a].back # "capacity"
    BY <1>4, <2>2, AbortBootType DEF SkipVictim, TypeOK
  <2> QED
    BY <2>1, <2>2
<1>5. CASE BootRefused(a)
  BY <1>5, AbortBootType DEF BootRefused, TypeOK
<1>6. CASE AdmitWriter(a)
  <2>1. [op[a] EXCEPT !.pc = "writer"] \in OpType
    BY OpAt DEF Steps
  <2> QED
    BY <1>6, <2>1 DEF AdmitWriter, TypeOK
<1>7. CASE BeforeSpawn(a)
  <2>1. [op[a] EXCEPT !.pc = "fork", !.tried = {}, !.victim = None, !.back = "free",
                      !.vgen = 0] \in OpType
    <3>1. 0 \in 0..MaxGen
      BY BoundsAssumption
    <3> QED
      BY <3>1 DEF OpType, Steps
  <2>2. agent[a].gen + 1 \in 0..MaxGen
    BY <1>7, BoundsAssumption DEF BeforeSpawn, AgentType
  <2>3. [agent[a] EXCEPT !.state = "starting", !.gen = agent[a].gen + 1,
                         !.cleanup = "pending"] \in AgentType
    BY <2>2 DEF AgentType, AgentStates, Resident, Cleanups
  <2> QED
    BY <1>7, <2>1, <2>3, SetAgentType DEF BeforeSpawn, TypeOK
<1>8. CASE Fork(a)
  BY <1>8, NoProcType, SetProcType DEF Fork, TypeOK, memory
<1>9. CASE ForkFails(a)
  BY <1>9, FreeType DEF ForkFails, TypeOK
<1>10. CASE Register(a)
  <2>1. [op[a] EXCEPT !.pc = "ready"] \in OpType
    BY OpAt DEF Steps
  <2>2. agent[a].gen \in 0..MaxGen /\ [agent[a] EXCEPT !.pid = agent[a].gen] \in AgentType
    BY DEF AgentType
  <2>3. worker' \in [Agents -> [Gens -> WorkerType]]
    BY <1>10, WorkerValues DEF Register, TypeOK
  <2> QED
    BY <1>10, <2>1, <2>2, <2>3, SetAgentType DEF Register, TypeOK
<1>11. CASE ReadyOk(a)
  <2> DEFINE ag == [agent[a] EXCEPT !.state = "idle", !.cleanup = "not_checked"]
  <2>1. ag \in AgentType
    BY DEF AgentType, AgentStates, Resident, Cleanups
  <2>2. op[a].kind \in Kinds
    BY DEF OpType
  <2> HIDE DEF ag
  <2>3. CASE \E r \in Runs : StartRun(a, r, ag, run, W(a), op[a].kind)
    BY <1>11, <2>1, <2>2, <2>3, StartRunType DEF ReadyOk, TypeOK
  <2>4. CASE Unused # {} /\ StartRun(a, Oldest(Unused), ag, AddRun(a, Oldest(Unused), "queued"),
                                     W(a), op[a].kind)
    <3>1. Oldest(Unused) \in Runs
      BY <2>4, OldestExists DEF Unused
    <3>2. AddRun(a, Oldest(Unused), "queued") \in [Runs -> RunType]
      BY AddRunType DEF RunStates
    <3> QED
      BY <1>11, <2>1, <2>2, <2>4, <3>1, <3>2, StartRunType DEF ReadyOk, TypeOK
  <2>5. CASE SetAgent(a, ag) /\ SetOp(a, Free) /\ UNCHANGED <<run, worker, proc>>
    BY <1>11, <2>1, <2>5, SetAgentType, FreeType DEF ReadyOk, TypeOK
  <2> QED
    BY <1>11, <2>3, <2>4, <2>5, Zenon DEF ReadyOk, ag
<1>12. CASE ReadyFails(a)
  <2>1. workers[a] \in Gens => [W(a) EXCEPT !.stopping = TRUE] \in WorkerType
    BY DEF WorkerType
  <2>2. [op[a] EXCEPT !.pc = "unboot"] \in OpType
    BY OpAt DEF Steps
  <2> QED
    BY <1>12, <2>1, <2>2, SetWorkerType DEF ReadyFails, TypeOK
<1>13. CASE EvictionRefused(a)
  BY <1>13, AbortBootType DEF EvictionRefused, TypeOK
<1>14. ASSUME NEW r \in Runs, SpawnInsert(a, r)
       PROVE  TypeOK'
  <2>1. AddRun(a, r, "starting") \in [Runs -> RunType]
    BY AddRunType DEF RunStates, Active
  <2>2. [agent[a] EXCEPT !.state = "starting"] \in AgentType
    BY AgentMoves DEF AgentStates, Resident
  <2>3. [op[a] EXCEPT !.pc = "capacity", !.tried = {}] \in OpType
    BY DEF OpType, Steps
  <2> QED
    BY <1>14, <2>1, <2>2, <2>3, SetAgentType DEF SpawnInsert, TypeOK
<1>15. ASSUME NEW b \in Agents, PickVictim(a, b)
       PROVE  TypeOK'
  <2>1. workers[b] \in 0..MaxGen
    BY DEF TypeOK
  <2>2. [op[a] EXCEPT !.pc = "lock", !.victim = b, !.vgen = workers[b],
                      !.back = op[a].pc, !.tried = op[a].tried \cup {b}] \in OpType
    BY <1>15, <2>1 DEF PickVictim, OpType, Steps
  <2> QED
    BY <1>15, <2>2 DEF PickVictim, TypeOK
<1> QED
  BY <1>1, <1>2, <1>3, <1>4, <1>5, <1>6, <1>7, <1>8, <1>9, <1>10, <1>11, <1>12, <1>13,
     <1>14, <1>15 DEF Boot
(* The end of terminate_worker in interrupt, shutdown, fail_worker and _ready_worker keeps the types. *)
LEMMA StopType ==
  ASSUME TypeOK, NEW a \in Agents, Stop(a)
  PROVE  TypeOK'
<1>0. agent[a] \in AgentType /\ op[a] \in OpType /\ (workers[a] \in Gens => W(a) \in WorkerType)
  BY Values
<1>1. PICK o \in [cleanup: {"verified", "unknown"}, attempted: BOOLEAN, st: ProcStates] :
        StopDone(a, o) \/ UnbootDone(a, o)
  BY DEF Stop
<1>2. o.cleanup \in Cleanups /\ o.attempted \in BOOLEAN /\ o.st \in ProcStates
  BY <1>1 DEF Cleanups
<1>3. workers[a] \in Gens => Stopped(proc[a][workers[a]], o.st) \in ProcType
  BY <1>2, Values, StoppedType
<1>4. CASE StopDone(a, o)
  <2>1. proc' \in [Agents -> [Gens -> ProcType]]
    BY <1>3, <1>4, SetProcType DEF StopDone
  <2>2. run' \in [Runs -> RunType]
    BY <1>4, FinishType DEF StopDone, TypeOK, RunStates, Terminal
  <2>3. worker' \in [Agents -> [Gens -> WorkerType]]
    <3> DEFINE w == IF EndsWith(a, op[a].kind) = {} THEN W(a) ELSE Settled(W(a))
    <3>1. workers[a] \in Gens => w \in WorkerType
      BY <1>0, WorkerValues
    <3> HIDE DEF w
    <3>2. workers[a] \in Gens => W(a).closed \in BOOLEAN
      BY <1>0 DEF WorkerType
    <3>3. workers[a] \in Gens =>
            [w EXCEPT !.closed = W(a).closed \/ o.attempted, !.stopping = TRUE] \in WorkerType
      BY <3>1, <3>2, <1>2 DEF WorkerType
    <3>4. SetWorker(a, [w EXCEPT !.closed = W(a).closed \/ o.attempted, !.stopping = TRUE])
      BY <1>4, Zenon DEF StopDone, w
    <3> QED
      BY <3>3, <3>4, SetWorkerType
  <2>4. agent' \in [Agents -> AgentType]
    <3>1. StateAfterStop(op[a].kind, o.cleanup) \in AgentStates
      BY DEF StateAfterStop, AgentStates, Parked, Resident
    <3>2. NoRun \in 0..MaxRuns
      BY BoundsAssumption DEF NoRun
    <3>3. [agent[a] EXCEPT !.state = StateAfterStop(op[a].kind, o.cleanup),
                           !.current = NoRun, !.cleanup = o.cleanup] \in AgentType
      BY <1>0, <1>2, <3>1, <3>2 DEF AgentType
    <3> QED
      BY <1>4, <3>3, SetAgentType DEF StopDone
  <2>5. op' \in [Agents -> OpType]
    <3>1. Free \in OpType /\ [Free EXCEPT !.kind = "send_interrupt", !.pc = "admit"] \in OpType
      BY FreeType, OpStarts DEF Kinds, AllRequests, Steps
    <3>2. ASSUME NEW b \in Agents
          PROVE  /\ op[b] \in OpType
                 /\ [op[b] EXCEPT !.pc = "refused"] \in OpType
                 /\ [op[b] EXCEPT !.pc = op[b].back] \in OpType
      <4>1. op[b] \in OpType /\ op[b].back \in Steps
        BY DEF TypeOK, OpType, Steps
      <4> QED
        BY <4>1, OpAt DEF Steps
    <3> QED
      BY <1>4, <3>1, <3>2 DEF StopDone
  <2> QED
    BY <1>4, <2>1, <2>2, <2>3, <2>4, <2>5 DEF StopDone, TypeOK
<1>5. CASE UnbootDone(a, o)
  <2>1. proc' \in [Agents -> [Gens -> ProcType]]
    BY <1>3, <1>5, SetProcType DEF UnbootDone
  <2>2. worker' \in [Agents -> [Gens -> WorkerType]]
    <3>1. workers[a] \in Gens => [W(a) EXCEPT !.closed = W(a).closed \/ o.attempted] \in WorkerType
      BY <1>0, <1>2 DEF WorkerType
    <3> QED
      BY <1>5, <3>1, SetWorkerType DEF UnbootDone
  <2>3. agent' \in [Agents -> AgentType]
    <3>1. [agent[a] EXCEPT !.cleanup = o.cleanup,
             !.state = IF op[a].kind = "spawn" THEN "crashed" ELSE agent[a].state] \in AgentType
      BY <1>0, <1>2 DEF AgentType, AgentStates, Parked
    <3> QED
      BY <1>5, <3>1, SetAgentType DEF UnbootDone
  <2>4. run' \in [Runs -> RunType]
    BY <1>5, FinishType DEF UnbootDone, TypeOK, RunStates, Terminal
  <2>5. op' \in [Agents -> OpType]
    BY <1>5, SetOpType, FreeType DEF UnbootDone
  <2> QED
    BY <1>5, <2>1, <2>2, <2>3, <2>4, <2>5 DEF UnbootDone, TypeOK
<1> QED
  BY <1>1, <1>4, <1>5

(* dismiss_ui keeps the types of the agent's and the run's row. *)
LEMMA DismissType ==
  ASSUME TypeOK, NEW a \in Agents, NEW d, NEW w, Dismiss(a, d, agent[a], run, w)
  PROVE  agent' \in [Agents -> AgentType] /\ run' \in [Runs -> RunType]
<1>1. [agent[a] EXCEPT !.state = "running"] \in AgentType
  BY Values, AgentMoves DEF AgentStates, Resident
<1>2. agent' \in [Agents -> AgentType]
  BY <1>1, Values DEF Dismiss, TypeOK
<1>3. run' \in [Runs -> RunType]
  <2>1. [run EXCEPT ![w.run].state = "running"] \in [Runs -> RunType]
    BY DEF TypeOK, RunType, RunStates, Active
  <2> QED
    BY <2>1 DEF Dismiss, TypeOK
<1> QED
  BY <1>2, <1>3

(* The client's mutations keep the types. *)
LEMMA MutateType ==
  ASSUME TypeOK, NEW a \in Agents, Mutate(a)
  PROVE  TypeOK'
<1>0. agent[a] \in AgentType /\ op[a] \in OpType /\ (workers[a] \in Gens => W(a) \in WorkerType)
  BY Values
<1>00. NoRun \in 0..MaxRuns /\ Requests \subseteq Kinds
  BY BoundsAssumption, SetsAssumption DEF NoRun, Kinds
<1>1. ASSUME NEW name \in Requests, Interrupt(a, name)
      PROVE  TypeOK'
  <2>1. [op EXCEPT ![a].kind = name] \in [Agents -> OpType]
    <3>1. \A o \in OpType : [o EXCEPT !.kind = name] \in OpType
      BY <1>00 DEF OpType
    <3> QED
      BY <3>1 DEF TypeOK
  <2> QED
    BY <1>1, <2>1, BeginInterruptType DEF Interrupt, TypeOK
<1>2. ASSUME NEW name \in Requests, Respawn(a, name)
      PROVE  TypeOK'
  <2>1. [Free EXCEPT !.kind = name, !.pc = "admit"] \in OpType
    BY <1>00, OpStarts DEF Steps
  <2> QED
    BY <1>2, <2>1, SetOpType DEF Respawn, TypeOK
<1>3. ASSUME NEW v \in {"gone", "live"}, CloseOrphan(a, v)
      PROVE  TypeOK'
  <2>1. [agent[a] EXCEPT !.state = "closed", !.current = NoRun, !.cleanup = "verified"] \in AgentType
    BY <1>0, <1>00 DEF AgentType, AgentStates, Parked, Cleanups
  <2>2. [Free EXCEPT !.kind = "close", !.pc = "reap"] \in OpType
    BY OpStarts DEF Kinds, AllRequests, Steps
  <2> QED
    BY <1>3, <2>1, <2>2, SetAgentType, SetOpType DEF CloseOrphan, TypeOK
<1>4. ASSUME NEW proved \in BOOLEAN, ReapDone(a, proved)
      PROVE  TypeOK'
  <2>1. owner[a] \in Gens => Stopped(proc[a][owner[a]], "gone") \in ProcType /\ proc[a][owner[a]] \in ProcType
    BY Values, StoppedType DEF ProcStates
  <2>2. [agent[a] EXCEPT !.state = IF proved THEN "closed" ELSE "orphaned",
                         !.current = NoRun,
                         !.cleanup = IF proved THEN "verified" ELSE "unknown"] \in AgentType
    BY <1>0, <1>00 DEF AgentType, AgentStates, Parked, Resident, Cleanups
  <2>3. proc' \in [Agents -> [Gens -> ProcType]]
    BY <1>4, <2>1, SetProcType DEF ReapDone
  <2> QED
    BY <1>4, <2>2, <2>3, SetAgentType, SetOpType, FreeType DEF ReapDone, TypeOK
<1>5. CASE ConfirmCleanup(a)
  <2>1. owner[a] \in Gens => Stopped(proc[a][owner[a]], "gone") \in ProcType
    BY Values, StoppedType DEF ProcStates
  <2>2. [agent[a] EXCEPT !.state = "closed", !.current = NoRun, !.cleanup = "verified"] \in AgentType
    BY <1>0, <1>00 DEF AgentType, AgentStates, Parked, Cleanups
  <2>3. proc' \in [Agents -> [Gens -> ProcType]]
    BY <1>5, <2>1, SetProcType DEF ConfirmCleanup
  <2> QED
    BY <1>5, <2>2, <2>3, SetAgentType DEF ConfirmCleanup, TypeOK
<1>6. CASE SendWake(a)
  <2>1. [Free EXCEPT !.kind = "send", !.pc = "admit"] \in OpType
    BY OpStarts DEF Kinds, AllRequests, Steps
  <2> QED
    BY <1>6, <2>1, SetOpType DEF SendWake, TypeOK
<1>7. CASE SoftInterrupt(a)
  <2>1. workers[a] \in Gens => [W(a) EXCEPT !.stopping = TRUE, !.cancelled = TRUE] \in WorkerType
    BY <1>0 DEF WorkerType
  <2>2. [agent[a] EXCEPT !.state = "stopping"] \in AgentType
    BY <1>0, AgentMoves DEF AgentStates, Resident
  <2>3. CancelQueued(run, a) \in [Runs -> RunType]
    BY CancelQueuedType DEF TypeOK
  <2>4. proc' \in [Agents -> [Gens -> ProcType]]
    <3> DEFINE c == [cmd |-> "abort", id |-> W(a).run, dialog |-> None, live |-> TRUE]
    <3>1. workers[a] \in Gens => c \in Commands
      BY <1>0 DEF WorkerType, Commands
    <3>2. workers[a] \in Gens => Written(proc[a][workers[a]], c) \in ProcType
      BY <3>1, Values, WrittenType
    <3> QED
      BY <1>7, <3>2, SetProcType DEF SoftInterrupt
  <2>5. [Free EXCEPT !.kind = "soft_interrupt", !.pc = "abort"] \in OpType
    BY OpStarts DEF Kinds, AllRequests, Steps
  <2> QED
    BY <1>7, <2>1, <2>2, <2>3, <2>4, <2>5, SetWorkerType, SetAgentType, SetOpType
       DEF SoftInterrupt, TypeOK
<1>8. ASSUME NEW r \in Runs, SendIdle(a, r)
      PROVE  TypeOK'
  <2>1. AddRun(a, r, "queued") \in [Runs -> RunType] /\ "send" \in Kinds
    BY AddRunType DEF RunStates, Kinds, AllRequests
  <2> QED
    BY <1>8, <1>0, <2>1, StartRunType DEF SendIdle, TypeOK
<1>9. ASSUME NEW r \in Runs, SendQueued(a, r)
      PROVE  TypeOK'
  <2>1. AddRun(a, r, "queued") \in [Runs -> RunType]
    BY AddRunType DEF RunStates
  <2> QED
    BY <1>9, <2>1 DEF SendQueued, TypeOK, memory
<1>10. ASSUME NEW d \in Dialogs, Answer(a, d)
       PROVE  TypeOK'
  <2>1. proc' \in [Agents -> [Gens -> ProcType]]
    <3> DEFINE c == [cmd |-> "answer", id |-> NoRun, dialog |-> d, live |-> FALSE]
    <3>1. c \in Commands
      BY <1>00 DEF Commands
    <3>2. workers[a] \in Gens => Written(proc[a][workers[a]], c) \in ProcType
      BY <3>1, Values, WrittenType
    <3> QED
      BY <1>10, <3>2, SetProcType DEF Answer
  <2>2. workers[a] \in Gens => [W(a) EXCEPT !.ui = W(a).ui \ {d}, !.silent = FALSE] \in WorkerType
    BY <1>0 DEF WorkerType
  <2> QED
    BY <1>10, <2>1, <2>2, DismissType, SetWorkerType DEF Answer, TypeOK
<1> QED
  BY <1>1, <1>2, <1>3, <1>4, <1>5, <1>6, <1>7, <1>8, <1>9, <1>10 DEF Mutate
(* The end of the prompt's and of the abort's await keeps the types. *)
LEMMA AwaitType ==
  ASSUME TypeOK, NEW a \in Agents, Await(a)
  PROVE  TypeOK'
<1>0. agent[a] \in AgentType /\ op[a] \in OpType /\ (workers[a] \in Gens => W(a) \in WorkerType)
  BY Values
<1> USE FreeType, SetOpType
<1>a. workers[a] \in Gens => Abandoned(proc[a][workers[a]]) \in ProcType
  BY Values, AbandonedType
<1>1. CASE PromptOk(a)
  BY <1>1 DEF PromptOk, TypeOK
<1>2. CASE PromptRejected(a)
  <2>1. Finish(run, {W(a).run}, "failed") \in [Runs -> RunType]
    BY FinishType DEF TypeOK, RunStates, Terminal
  <2>2. IdleAgent(agent[a]) \in AgentType /\ (workers[a] \in Gens => IdleWorker(W(a)) \in WorkerType)
    BY <1>0, AgentValues, WorkerValues
  <2>3. CASE op[a].kind = "settle"
    BY <1>2, <2>1, <2>2, <2>3, AdvanceQueueType DEF PromptRejected, TypeOK
  <2>4. CASE op[a].kind # "settle"
    BY <1>2, <2>1, <2>2, <2>4, SetAgentType, SetWorkerType DEF PromptRejected, TypeOK
  <2> QED
    BY <2>3, <2>4
<1>3. CASE PromptUncertain(a)
  BY <1>3, <1>a, SetProcType DEF PromptUncertain, KeepUncertain, TypeOK
<1>4. CASE AbortConfirmed(a)
  <2>1. Finish(run, {W(a).run}, "interrupted") \in [Runs -> RunType]
    BY FinishType DEF TypeOK, RunStates, Terminal
  <2>2. IdleAgent(agent[a]) \in AgentType /\ (workers[a] \in Gens => IdleWorker(W(a)) \in WorkerType)
    BY <1>0, AgentValues, WorkerValues
  <2> QED
    BY <1>4, <2>1, <2>2, SetAgentType, SetWorkerType DEF AbortConfirmed, TypeOK
<1>5. CASE AbortForced(a)
  <2>1. [op EXCEPT ![a].ans = "none"] \in [Agents -> OpType]
    <3>1. [op[a] EXCEPT !.ans = "none"] \in OpType
      BY <1>0 DEF OpType
    <3> QED
      BY <3>1 DEF TypeOK
  <2> QED
    BY <1>5, <1>a, <2>1, BeginInterruptType, SetProcType DEF AbortForced, TypeOK
<1> QED
  BY <1>1, <1>2, <1>3, <1>4, <1>5 DEF Await

(* The coroutines the daemon spawns itself keep the types. *)
LEMMA BackgroundType ==
  ASSUME TypeOK, NEW a \in Agents, Background(a)
  PROVE  TypeOK'
<1>0. agent[a] \in AgentType /\ op[a] \in OpType /\ (workers[a] \in Gens => W(a) \in WorkerType)
  BY Values
<1>a. \A t : Done(t) => tasks' \subseteq TaskType
  BY DEF Done, TypeOK
<1>b. CancelQueued(run, a) \in [Runs -> RunType]
  BY CancelQueuedType DEF TypeOK
<1>1. ASSUME NEW g \in Gens, StopUnowned(a, g)
      PROVE  TypeOK'
  <2>1. [Free EXCEPT !.kind = "stop_unowned", !.pc = "stop"] \in OpType
    BY OpStarts DEF Kinds, Steps
  <2>2. [worker[a][g] EXCEPT !.stopping = TRUE] \in WorkerType
    BY Values, WorkerValues
  <2>3. [worker EXCEPT ![a][g].stopping = TRUE] \in [Agents -> [Gens -> WorkerType]]
    BY <2>2 DEF TypeOK
  <2> QED
    BY <1>1, <1>a, <1>b, <2>1, <2>3, SetOpType DEF StopUnowned, TypeOK
<1>2. ASSUME NEW g \in Gens, FailWorker(a, g)
      PROVE  TypeOK'
  <2>1. [Free EXCEPT !.kind = "fail_worker", !.pc = "stop"] \in OpType
    BY OpStarts DEF Kinds, Steps
  <2>2. workers[a] \in Gens => [Settled(W(a)) EXCEPT !.stopping = TRUE] \in WorkerType
    <3>1. workers[a] \in Gens => Settled(W(a)) \in WorkerType
      BY <1>0, WorkerValues
    <3> QED
      BY <3>1 DEF WorkerType
  <2>3. Finish(CancelQueued(run, a), {W(a).run}, "failed") \in [Runs -> RunType]
    BY <1>b, FinishType DEF RunStates, Terminal
  <2> QED
    BY <1>2, <1>a, <2>1, <2>2, <2>3, SetOpType, SetWorkerType DEF FailWorker, TypeOK
<1>3. ASSUME NEW g \in Gens, Reaped(a, g)
      PROVE  TypeOK'
  <2>1. [worker[a][g] EXCEPT !.life = "exiting"] \in WorkerType
    BY Values DEF WorkerType
  <2>2. [proc[a][g] EXCEPT !.stdout = <<>>] \in ProcType
    BY Values, EmptySeq DEF ProcType
  <2>3. [op[a] EXCEPT !.ans = "gone"] \in OpType
    BY <1>0 DEF OpType
  <2>4. worker' \in [Agents -> [Gens -> WorkerType]] /\ proc' \in [Agents -> [Gens -> ProcType]]
    BY <1>3, <2>1, <2>2 DEF Reaped, TypeOK
  <2>5. op' \in [Agents -> OpType]
    BY <1>3, <2>3 DEF Reaped, TypeOK
  <2> QED
    BY <1>3, <2>4, <2>5 DEF Reaped, TypeOK
<1>4. ASSUME NEW g \in Gens, NEW proved \in BOOLEAN, WorkerExited(a, g, proved)
      PROVE  TypeOK'
  <2>1. [NoWorker EXCEPT !.life = "done"] \in WorkerType
    BY WorkerValues DEF WorkerType
  <2>2. worker' \in [Agents -> [Gens -> WorkerType]]
    BY <1>4, <2>1 DEF WorkerExited, TypeOK
  <2>3. CancelQueued(Finish(run, {worker[a][g].run},
            IF worker[a][g].stopping THEN "interrupted" ELSE "crashed"), a) \in [Runs -> RunType]
    <3>1. (IF worker[a][g].stopping THEN "interrupted" ELSE "crashed") \in RunStates
      BY DEF RunStates, Terminal
    <3> QED
      BY <3>1, FinishType, CancelQueuedType DEF TypeOK
  <2>4. run' \in [Runs -> RunType]
    BY <1>4, <2>3 DEF WorkerExited, TypeOK
  <2>5. [agent[a] EXCEPT !.state = "crashed", !.current = NoRun,
           !.cleanup = IF proved THEN "verified" ELSE "unknown"] \in AgentType
    <3>1. NoRun \in 0..MaxRuns
      BY BoundsAssumption DEF NoRun
    <3> QED
      BY <1>0, <3>1 DEF AgentType, AgentStates, Parked, Cleanups
  <2>6. agent' \in [Agents -> AgentType]
    BY <1>4, <2>5, SetAgentType DEF WorkerExited, TypeOK
  <2>7. workers' \in [Agents -> 0..MaxGen]
    BY <1>4, BoundsAssumption DEF WorkerExited, TypeOK
  <2> QED
    BY <1>4, <2>2, <2>4, <2>6, <2>7 DEF WorkerExited, TypeOK
<1>5. ASSUME NEW g \in Gens, NEW r \in Runs, Settle(a, g, r)
      PROVE  TypeOK'
  <2>1. Finish(run, {r}, Outcome(W(a))) \in [Runs -> RunType]
    <3>1. Outcome(W(a)) \in RunStates
      BY DEF Outcome, RunStates, Terminal
    <3> QED
      BY <3>1, FinishType DEF TypeOK
  <2>2. IdleAgent(agent[a]) \in AgentType /\ (workers[a] \in Gens => IdleWorker(W(a)) \in WorkerType)
    BY <1>0, AgentValues, WorkerValues
  <2>3. CASE SettleValid(a, g, r)
    BY <1>5, <1>a, <2>1, <2>2, <2>3, AdvanceQueueType DEF Settle, TypeOK
  <2>4. CASE ~SettleValid(a, g, r)
    BY <1>5, <1>a, <2>4 DEF Settle, TypeOK
  <2> QED
    BY <2>3, <2>4
<1>6. ASSUME NEW g \in Gens, NEW r \in Runs, CheckIdle(a, g, r)
      PROVE  TypeOK'
  <2>1. [op EXCEPT ![a].kind = "check_idle"] \in [Agents -> OpType]
    <3>1. [op[a] EXCEPT !.kind = "check_idle"] \in OpType
      BY <1>0 DEF OpType, Kinds
    <3> QED
      BY <3>1 DEF TypeOK
  <2> QED
    BY <1>6, <1>a, <2>1, BeginInterruptType DEF CheckIdle, TypeOK
<1>7. CASE FallSilent(a)
  <2>1. workers[a] \in Gens => [W(a) EXCEPT !.silent = TRUE] \in WorkerType
    BY <1>0 DEF WorkerType
  <2> QED
    BY <1>7, <2>1, SetWorkerType DEF FallSilent, TypeOK
<1>8. CASE ObserveIdle(a)
  <2>1. workers[a] \in Gens /\ W(a).run \in 0..MaxRuns
    BY <1>8, <1>0 DEF ObserveIdle, TypeOK, WorkerType, Gens
  <2>2. Task("check_idle", a, workers[a], W(a).run) \in TaskType
    BY <2>1 DEF Task, TaskType
  <2> QED
    BY <1>8, <2>2 DEF ObserveIdle, TypeOK
<1>9. CASE Park(a)
  <2>1. [op EXCEPT ![a].kind = "park"] \in [Agents -> OpType]
    <3>1. [op[a] EXCEPT !.kind = "park"] \in OpType
      BY <1>0 DEF OpType, Kinds
    <3> QED
      BY <3>1 DEF TypeOK
  <2> QED
    BY <1>9, <2>1, BeginInterruptType DEF Park, TypeOK
<1> QED
  BY <1>1, <1>2, <1>3, <1>4, <1>5, <1>6, <1>7, <1>8, <1>9 DEF Background
(* Taking a frame off a pipe leaves a pipe. *)
LEMMA ConsumeType ==
  ASSUME TypeOK, NEW a \in Agents, NEW g \in Gens, NEW type, Heads(a, g, type)
  PROVE  /\ Head(proc[a][g].stdout) \in Frames
         /\ Consume(a, g) => proc' \in [Agents -> [Gens -> ProcType]]
<1>1. proc[a][g].stdout \in Seq(Frames) /\ proc[a][g].stdout # << >>
  BY Values DEF ProcType, Heads
<1>2. Head(proc[a][g].stdout) \in Frames /\ Tail(proc[a][g].stdout) \in Seq(Frames)
  BY <1>1, HeadTailProperties
<1>3. [proc[a][g] EXCEPT !.stdout = Tail(proc[a][g].stdout)] \in ProcType
  BY <1>2, Values DEF ProcType
<1>4. Consume(a, g) => proc' \in [Agents -> [Gens -> ProcType]]
  BY <1>3 DEF Consume, TypeOK
<1> QED
  BY <1>2, <1>4

(* read_stdout and on_event keep the types for every kind of frame. *)
LEMMA ReadType ==
  ASSUME TypeOK, NEW a \in Agents, Read(a)
  PROVE  TypeOK'
<1>1. PICK g \in Gens :
        \/ ReadReply(a, g) \/ ReadDropped(a, g) \/ ReadAsk(a, g) \/ ReadClosed(a, g)
        \/ ReadEnd(a, g) \/ ReadDelta(a, g) \/ ReadStart(a, g) \/ ReaderFails(a, g)
  BY DEF Read
<1>0. /\ agent[a] \in AgentType /\ op[a] \in OpType /\ worker[a][g] \in WorkerType
      /\ NoRun \in 0..MaxRuns
  BY Values, BoundsAssumption DEF NoRun
<1> DEFINE f == Head(proc[a][g].stdout)
<1>2. CASE ReadReply(a, g)
  <2>1. f \in Frames /\ proc' \in [Agents -> [Gens -> ProcType]]
    BY <1>2, ConsumeType DEF ReadReply
  <2>2. f.how \in {"ok", "no"}
    BY <1>2, <2>1 DEF ReadReply, Heads, Frames
  <2>3. [op[a] EXCEPT !.ans = f.how] \in OpType
    BY <1>0, <2>2 DEF OpType
  <2>4. op' \in [Agents -> OpType]
    BY <1>2, <2>3 DEF ReadReply, TypeOK
  <2> QED
    BY <1>2, <2>1, <2>4 DEF ReadReply, TypeOK
<1>3. CASE ReadDropped(a, g)
  BY <1>3, ConsumeType DEF ReadDropped, TypeOK, memory
<1>4. CASE ReadAsk(a, g)
  <2>1. f \in Frames /\ proc' \in [Agents -> [Gens -> ProcType]]
    BY <1>4, ConsumeType DEF ReadAsk
  <2>2. [agent[a] EXCEPT !.state = "needs_input"] \in AgentType
    BY <1>0, AgentMoves DEF AgentStates, Resident
  <2>3. run' \in [Runs -> RunType]
    <3>1. \A r \in Runs : [run[r] EXCEPT !.state = "needs_input"] \in RunType
      BY DEF TypeOK, RunType, RunStates, Active
    <3> QED
      BY <1>4, <3>1 DEF ReadAsk, TypeOK
  <2>4. f.dialog \in Dialogs
    BY <1>4, <2>1 DEF ReadAsk, Heads, Frames
  <2>5. [worker[a][g] EXCEPT !.ui = worker[a][g].ui \cup {f.dialog}] \in WorkerType
    BY <1>0, <2>4 DEF WorkerType
  <2>6. worker' \in [Agents -> [Gens -> WorkerType]]
    BY <1>4, <2>5 DEF ReadAsk, TypeOK
  <2> QED
    BY <1>4, <2>1, <2>2, <2>3, <2>6, SetAgentType DEF ReadAsk, TypeOK
<1>5. CASE ReadClosed(a, g)
  <2>1. proc' \in [Agents -> [Gens -> ProcType]]
    BY <1>5, ConsumeType DEF ReadClosed
  <2>2. agent' \in [Agents -> AgentType] /\ run' \in [Runs -> RunType]
    BY <1>5, DismissType DEF ReadClosed
  <2>3. [worker[a][g] EXCEPT !.ui = worker[a][g].ui \ {f.dialog},
           !.silent = worker[a][g].silent /\ f.dialog \notin worker[a][g].ui] \in WorkerType
    BY <1>0 DEF WorkerType
  <2>4. worker' \in [Agents -> [Gens -> WorkerType]]
    <3> DEFINE v == [worker[a][g] EXCEPT !.ui = worker[a][g].ui \ {f.dialog},
                       !.silent = worker[a][g].silent /\ f.dialog \notin worker[a][g].ui]
    <3>1. worker' = [worker EXCEPT ![a][g] = v]
      BY <1>5 DEF ReadClosed
    <3>2. v \in WorkerType
      BY <2>3
    <3> HIDE DEF v
    <3> QED
      BY <3>1, <3>2 DEF TypeOK
  <2> QED
    BY <1>5, <2>1, <2>2, <2>4 DEF ReadClosed, TypeOK
<1>6. CASE ReadEnd(a, g)
  <2>1. f \in Frames /\ proc' \in [Agents -> [Gens -> ProcType]]
    BY <1>6, ConsumeType DEF ReadEnd
  <2>2. [worker[a][g] EXCEPT !.cancelled = worker[a][g].cancelled \/ f.how = "cancelled",
                             !.failed = worker[a][g].failed \/ f.how = "error"] \in WorkerType
    BY <1>0 DEF WorkerType
  <2>3. worker' \in [Agents -> [Gens -> WorkerType]]
    <3> DEFINE v == [worker[a][g] EXCEPT !.cancelled = worker[a][g].cancelled \/ f.how = "cancelled",
                                         !.failed = worker[a][g].failed \/ f.how = "error"]
    <3>1. worker' = [worker EXCEPT ![a][g] = v]
      BY <1>6 DEF ReadEnd
    <3>2. v \in WorkerType
      BY <2>2
    <3> HIDE DEF v
    <3> QED
      BY <3>1, <3>2 DEF TypeOK
  <2>4. run' \in [Runs -> RunType]
    BY <1>6, CancelQueuedType DEF ReadEnd, TypeOK
  <2>5. Task("settle", a, g, f.id) \in TaskType
    BY <2>1 DEF Task, TaskType, Frames
  <2> QED
    BY <1>6, <2>1, <2>3, <2>4, <2>5 DEF ReadEnd, TypeOK
<1>7. CASE ReadDelta(a, g)
  <2>1. [worker[a][g] EXCEPT !.silent = FALSE] \in WorkerType
    BY <1>0 DEF WorkerType
  <2>2. worker' \in [Agents -> [Gens -> WorkerType]]
    BY <1>7, <2>1 DEF ReadDelta, TypeOK
  <2> QED
    BY <1>7, <2>2, ConsumeType DEF ReadDelta, TypeOK
<1>8. CASE ReadStart(a, g)
  <2>1. [worker[a][g] EXCEPT !.tainted = TRUE] \in WorkerType
    BY <1>0 DEF WorkerType
  <2>2. worker' \in [Agents -> [Gens -> WorkerType]]
    <3>1. [worker EXCEPT ![a][g].tainted = TRUE] \in [Agents -> [Gens -> WorkerType]]
      BY <2>1 DEF TypeOK
    <3> QED
      BY <1>8, <3>1 DEF ReadStart, TypeOK
  <2>3. [agent[a] EXCEPT !.state = "dormant", !.current = NoRun] \in AgentType
    BY <1>0 DEF AgentType, AgentStates, Parked
  <2>4. agent' \in [Agents -> AgentType]
    BY <1>8, <2>3, SetAgentType DEF ReadStart, TypeOK
  <2>5. Task("stop_unowned", a, g, NoRun) \in TaskType
    BY <1>0 DEF Task, TaskType
  <2>6. tasks' \subseteq TaskType
    BY <1>8, <2>5 DEF ReadStart, TypeOK
  <2> QED
    BY <1>8, <2>2, <2>4, <2>6, ConsumeType DEF ReadStart, TypeOK
<1>9. CASE ReaderFails(a, g)
  <2>1. [worker[a][g] EXCEPT !.life = "failed"] \in WorkerType
    BY <1>0 DEF WorkerType
  <2>2. Task("fail_worker", a, g, NoRun) \in TaskType
    BY <1>0 DEF Task, TaskType
  <2> QED
    BY <1>9, <2>1, <2>2 DEF ReaderFails, TypeOK
<1> QED
  BY <1>1, <1>2, <1>3, <1>4, <1>5, <1>6, <1>7, <1>8, <1>9

(* A child's step on its own process keeps the types. *)
LEMMA ChildType ==
  ASSUME TypeOK, NEW a \in Agents, NEW g \in Gens, NEW p \in ProcType, Child(a, g, p)
  PROVE  TypeOK'
BY SetProcType DEF Child, TypeOK, memory

(* The frames the child writes are frames. *)
LEMMA FrameType ==
  ASSUME NEW type \in {"reply", "ask", "closed", "end", "delta", "start"}, NEW id \in 0..MaxRuns,
         NEW d \in Dialogs \cup {None}, NEW how \in {"ok", "no", "error", "cancelled"},
         NEW live \in BOOLEAN, type = "reply" => how \in {"ok", "no"},
         type = "ask" => d \in Dialogs
  PROVE  Frame(type, id, d, how, live) \in Frames
BY DEF Frame, Frames

(* The command at the head of stdin, and what is left behind it. *)
LEMMA CommandType ==
  ASSUME TypeOK, NEW a \in Agents, NEW g \in Gens, proc[a][g].stdin # << >>
  PROVE  /\ Head(proc[a][g].stdin) \in Commands
         /\ [proc[a][g] EXCEPT !.stdin = Tail(proc[a][g].stdin)] \in ProcType
<1>1. proc[a][g].stdin \in Seq(Commands) /\ proc[a][g] \in ProcType
  BY Values DEF ProcType
<1>2. Head(proc[a][g].stdin) \in Commands /\ Tail(proc[a][g].stdin) \in Seq(Commands)
  BY <1>1, HeadTailProperties
<1> QED
  BY <1>1, <1>2 DEF ProcType

(* The guard and the managed child reach neither the ledger nor the daemon's memory. *)
LEMMA ProcessKeeps ==
  ASSUME NEW a \in Agents, Process(a)
  PROVE  UNCHANGED <<up, agent, run, memory>>
<1>1. ASSUME NEW g \in Gens, NEW p, Child(a, g, p)
      PROVE  UNCHANGED <<up, agent, run, memory>>
  BY <1>1 DEF Child
<1>2. ASSUME NEW g \in Gens, ~GuardRecord(a, g), ~ \E p : Child(a, g, p)
      PROVE  /\ \A st : ~ProcExit(a, g, st)
             /\ ~ChildPrompt(a, g) /\ ~ChildAbort(a, g) /\ ~ChildAnswer(a, g)
             /\ \A d : ~ChildAsk(a, g, d) /\ ~ChildClose(a, g, d)
             /\ \A how : ~ChildEnd(a, g, how)
             /\ ~ChildDelta(a, g) /\ ~ChildStart(a, g)
  <2>1. /\ \A st : ~ProcExit(a, g, st)
        /\ ~ChildPrompt(a, g) /\ ~ChildAbort(a, g) /\ ~ChildAnswer(a, g)
    BY <1>2 DEF ProcExit, ChildPrompt, ChildAbort, ChildAnswer
  <2>2. \A d : ~ChildAsk(a, g, d) /\ ~ChildClose(a, g, d)
    BY <1>2 DEF ChildAsk, ChildClose
  <2>3. /\ \A how : ~ChildEnd(a, g, how)
        /\ ~ChildDelta(a, g) /\ ~ChildStart(a, g)
    BY <1>2 DEF ChildEnd, ChildDelta, ChildStart
  <2> QED
    BY <2>1, <2>2, <2>3
<1>3. ASSUME NEW g \in Gens, GuardRecord(a, g)
      PROVE  UNCHANGED <<up, agent, run, memory>>
  BY <1>3 DEF GuardRecord
<1> QED
  BY <1>1, <1>2, <1>3 DEF Process

(* The guard and the managed child keep the types. *)
LEMMA ProcessType ==
  ASSUME TypeOK, NEW a \in Agents, Process(a)
  PROVE  TypeOK'
<1>1. PICK g \in Gens :
        \/ GuardRecord(a, g) \/ \E st \in ProcStates : ProcExit(a, g, st)
        \/ ChildPrompt(a, g) \/ ChildAbort(a, g) \/ ChildAnswer(a, g)
        \/ \E d \in Dialogs : ChildAsk(a, g, d) \/ ChildClose(a, g, d)
        \/ \E how \in {"ok", "error", "cancelled"} : ChildEnd(a, g, how)
        \/ ChildDelta(a, g) \/ ChildStart(a, g)
  BY DEF Process
<1> DEFINE p == proc[a][g]
           c == Head(p.stdin)
           q == [p EXCEPT !.stdin = Tail(p.stdin)]
<1>0. p \in ProcType /\ p.task \in 0..MaxRuns /\ NoRun \in 0..MaxRuns
  BY Values, BoundsAssumption DEF NoRun, ProcType
<1>c. p.stdin # << >> => c \in Commands /\ c.id \in 0..MaxRuns /\ c.live \in BOOLEAN /\ q \in ProcType
  <2>1. p.stdin # << >> => c \in Commands /\ q \in ProcType
    BY CommandType
  <2> QED
    BY <2>1 DEF Commands
<1> HIDE DEF p, c, q
<1>2. CASE GuardRecord(a, g)
  <2>1. [p EXCEPT !.st = "alive"] \in ProcType /\ [p EXCEPT !.st = "refused"] \in ProcType
    BY <1>0 DEF ProcType, ProcStates
  <2>2. /\ [proc EXCEPT ![a][g].st = "alive"] \in [Agents -> [Gens -> ProcType]]
        /\ [proc EXCEPT ![a][g].st = "refused"] \in [Agents -> [Gens -> ProcType]]
    BY <2>1 DEF TypeOK, p
  <2>3. g \in 0..MaxGen
    BY BoundsAssumption DEF Gens
  <2>4. [owner EXCEPT ![a] = g] \in [Agents -> 0..MaxGen]
    BY <2>3 DEF TypeOK
  <2>5. proc' \in [Agents -> [Gens -> ProcType]] /\ owner' \in [Agents -> 0..MaxGen]
    BY <1>2, <2>2, <2>4 DEF GuardRecord, TypeOK
  <2> QED
    BY <1>2, <2>5 DEF GuardRecord, TypeOK, memory
<1>3. ASSUME NEW st \in ProcStates, ProcExit(a, g, st)
      PROVE  TypeOK'
  BY <1>3, <1>0, StoppedType, ChildType DEF ProcExit, p
<1>4. CASE ChildPrompt(a, g)
  <2>1. p.stdin # << >>
    BY <1>4 DEF ChildPrompt, p
  <2>2. /\ Sent([q EXCEPT !.task = c.id], Frame("reply", NoRun, None, "ok", c.live)) \in ProcType
        /\ Sent(q, Frame("reply", NoRun, None, "no", c.live)) \in ProcType
    <3>1. [q EXCEPT !.task = c.id] \in ProcType
      BY <1>c, <2>1 DEF ProcType
    <3>2. /\ Frame("reply", NoRun, None, "ok", c.live) \in Frames
          /\ Frame("reply", NoRun, None, "no", c.live) \in Frames
      BY <1>0, <1>c, <2>1, FrameType
    <3> QED
      BY <1>c, <2>1, <3>1, <3>2, SentType
  <2> QED
    BY <1>4, <2>2, ChildType DEF ChildPrompt, p, c, q
<1>5. CASE ChildAbort(a, g)
  <2>1. p.stdin # << >>
    BY <1>5 DEF ChildAbort, p
  <2>2. /\ [q EXCEPT !.abort = IF c.live THEN "live" ELSE "stale"] \in ProcType
        /\ Sent(q, Frame("reply", NoRun, None, "no", c.live)) \in ProcType
    <3>1. [q EXCEPT !.abort = IF c.live THEN "live" ELSE "stale"] \in ProcType
      BY <1>c, <2>1 DEF ProcType
    <3>2. Frame("reply", NoRun, None, "no", c.live) \in Frames
      BY <1>0, <1>c, <2>1, FrameType
    <3> QED
      BY <1>c, <2>1, <3>1, <3>2, SentType
  <2> QED
    BY <1>5, <2>2, ChildType DEF ChildAbort, p, c, q
<1>6. CASE ChildAnswer(a, g)
  <2>1. p.stdin # << >>
    BY <1>6 DEF ChildAnswer, p
  <2> DEFINE q2 == [p EXCEPT !.stdin = Tail(p.stdin), !.dialogs = p.dialogs \ {c.dialog}]
  <2>2. q2 \in ProcType
    <3>1. Tail(p.stdin) \in Seq(Commands)
      BY <1>0, <2>1, HeadTailProperties DEF ProcType
    <3> QED
      BY <1>0, <3>1 DEF ProcType
  <2>3. c.dialog \in p.dialogs => Sent(q2, Frame("closed", p.task, c.dialog, "ok", FALSE)) \in ProcType
    <3>1. c.dialog \in p.dialogs => c.dialog \in Dialogs \cup {None}
      BY <1>0 DEF ProcType
    <3>2. c.dialog \in p.dialogs => Frame("closed", p.task, c.dialog, "ok", FALSE) \in Frames
      BY <1>0, <3>1, FrameType
    <3> HIDE DEF q2
    <3> QED
      BY <2>2, <3>2, SentType
  <2> QED
    BY <1>6, <2>2, <2>3, ChildType DEF ChildAnswer, p, c
<1>7. ASSUME NEW d \in Dialogs, ChildAsk(a, g, d)
      PROVE  TypeOK'
  <2>1. [p EXCEPT !.dialogs = p.dialogs \cup {d}] \in ProcType
    BY <1>0 DEF ProcType
  <2>2. Frame("ask", p.task, d, "ok", FALSE) \in Frames
    BY <1>0, FrameType
  <2> QED
    BY <1>7, <2>1, <2>2, SentType, ChildType DEF ChildAsk, p
<1>8. ASSUME NEW d \in Dialogs, ChildClose(a, g, d)
      PROVE  TypeOK'
  <2>1. [p EXCEPT !.dialogs = p.dialogs \ {d}] \in ProcType
    BY <1>0 DEF ProcType
  <2>2. Frame("closed", p.task, d, "ok", FALSE) \in Frames
    BY <1>0, FrameType
  <2> QED
    BY <1>8, <2>1, <2>2, SentType, ChildType DEF ChildClose, p
<1>9. ASSUME NEW how \in {"ok", "error", "cancelled"}, ChildEnd(a, g, how)
      PROVE  TypeOK'
  <2>1. [p EXCEPT !.task = NoRun, !.dialogs = {}, !.abort = "no"] \in ProcType
    BY <1>0 DEF ProcType
  <2>2. /\ Frame("end", p.task, None, how, FALSE) \in Frames
        /\ Frame("reply", NoRun, None, "ok", p.abort = "live") \in Frames
    BY <1>0, FrameType
  <2> DEFINE e == Sent([p EXCEPT !.task = NoRun, !.dialogs = {}, !.abort = "no"],
                       Frame("end", p.task, None, how, FALSE))
  <2>3. e \in ProcType /\ Sent(e, Frame("reply", NoRun, None, "ok", p.abort = "live")) \in ProcType
    BY <2>1, <2>2, SentType
  <2> QED
    BY <1>9, <2>3, ChildType DEF ChildEnd, p
<1>10. CASE ChildDelta(a, g)
  <2>1. Frame("delta", p.task, None, "ok", FALSE) \in Frames
    BY <1>0, FrameType
  <2> QED
    BY <1>10, <1>0, <2>1, SentType, ChildType DEF ChildDelta, p
<1>11. CASE ChildStart(a, g)
  <2>1. [p EXCEPT !.strayed = TRUE] \in ProcType /\ Frame("start", NoRun, None, "ok", FALSE) \in Frames
    BY <1>0, FrameType DEF ProcType
  <2> QED
    BY <1>11, <2>1, SentType, ChildType DEF ChildStart, p
<1> QED
  BY <1>1, <1>2, <1>3, <1>4, <1>5, <1>6, <1>7, <1>8, <1>9, <1>10, <1>11

(* What a new daemon process starts from. *)
LEMMA LoseMemoryType ==
  ASSUME TypeOK, LoseMemory
  PROVE  /\ up' \in BOOLEAN /\ closing' \in BOOLEAN /\ admission' \in Agents \cup {None}
         /\ workers' \in [Agents -> 0..MaxGen] /\ op' \in [Agents -> OpType]
         /\ worker' \in [Agents -> [Gens -> WorkerType]] /\ tasks' \subseteq TaskType
<1>1. 0 \in 0..MaxGen /\ Free \in OpType /\ NoWorker \in WorkerType
  BY FreeType, WorkerValues, BoundsAssumption
<1> QED
  BY <1>1 DEF LoseMemory

(* Crash, restart and shutdown of the daemon keep the types. *)
LEMMA DaemonType ==
  ASSUME TypeOK, Daemon \/ \E a \in Agents : ShutdownAgent(a)
  PROVE  TypeOK'
<1>1. CASE Crash \/ ShutdownExit
  BY <1>1, LoseMemoryType DEF Crash, ShutdownExit, TypeOK
<1>2. CASE BeginShutdown
  BY <1>2 DEF BeginShutdown, TypeOK
<1>3. ASSUME NEW v \in [Agents -> {"gone", "live", "unknown"}], Restart(v)
      PROVE  TypeOK'
  <2>1. agent' \in [Agents -> AgentType]
    <3>1. NoRun \in 0..MaxRuns
      BY BoundsAssumption DEF NoRun
    <3>2. ASSUME NEW a \in Agents
          PROVE  /\ [agent[a] EXCEPT !.state = IF v[a] = "gone" THEN "dormant" ELSE "orphaned",
                        !.cleanup = IF v[a] = "gone" THEN "verified" ELSE "unknown",
                        !.current = NoRun] \in AgentType
                 /\ [agent[a] EXCEPT !.current = NoRun] \in AgentType
      BY Values, <3>1 DEF AgentType, AgentStates, Resident, Parked, Cleanups
    <3> QED
      BY <1>3, <3>2 DEF Restart
  <2>2. run' \in [Runs -> RunType]
    <3>1. Reconciled \in [Runs -> RunType]
      BY FinishType DEF Reconciled, TypeOK, RunStates, Terminal
    <3> QED
      BY <1>3, <3>1 DEF Restart
  <2> QED
    BY <1>3, <2>1, <2>2 DEF Restart, TypeOK, memory
<1>4. ASSUME NEW a \in Agents, ShutdownAgent(a)
      PROVE  TypeOK'
  <2>1. CASE BeginInterrupt(a, [op EXCEPT ![a].kind = "shutdown"])
    <3>1. [op EXCEPT ![a].kind = "shutdown"] \in [Agents -> OpType]
      <4>1. [op[a] EXCEPT !.kind = "shutdown"] \in OpType
        BY Values DEF OpType, Kinds
      <4> QED
        BY <4>1 DEF TypeOK
    <3> QED
      BY <1>4, <2>1, <3>1, BeginInterruptType DEF ShutdownAgent, TypeOK
  <2>2. CASE ~BeginInterrupt(a, [op EXCEPT ![a].kind = "shutdown"])
    <3>1. workers[a] \in Gens => [W(a) EXCEPT !.stopping = TRUE] \in WorkerType
      BY Values, WorkerValues
    <3>2. [Free EXCEPT !.kind = "shutdown", !.pc = "stop"] \in OpType
      BY OpStarts DEF Kinds, Steps
    <3> QED
      BY <1>4, <2>2, <3>1, <3>2, SetWorkerType, SetOpType DEF ShutdownAgent, TypeOK
  <2> QED
    BY <2>1, <2>2
<1> QED
  BY <1>1, <1>2, <1>3, <1>4 DEF Daemon
------------------------------------------------------------------------------
(* Located is inductive with the type invariant. *)

\* The parts of the state Located reads at b, unchanged up to a coroutine that moved
\* on to a step that names nothing.
LocatedFrame(b) ==
  /\ agent'[b].gen = agent[b].gen /\ workers'[b] = workers[b]
  /\ \/ op'[b].pc = op[b].pc /\ op'[b].victim = op[b].victim /\ op'[b].kind = op[b].kind
     \/ op'[b].pc \in {"free", "admit", "capacity", "writer", "refused", "reap"}
     \/ op'[b].pc = "stop" /\ op'[b].kind = "stop_unowned"

(* Located survives a step that leaves or frees every coroutine. *)
LEMMA LocatedKept ==
  ASSUME Located, \A b \in Agents : LocatedFrame(b)
  PROVE  Located'
<1> SUFFICES ASSUME NEW b \in Agents
             PROVE  LocatedAt(b)'
  BY DEF Located
<1>1. LocatedAt(b) /\ LocatedFrame(b)
  BY DEF Located
<1> QED
  BY <1>1 DEF LocatedAt, LocatedFrame

(* Located survives a step in which one coroutine moves to a step it fits. *)
LEMMA LocatedMoves ==
  ASSUME Located, NEW a \in Agents, \A b \in Agents \ {a} : LocatedFrame(b), LocatedAt(a)'
  PROVE  Located'
<1> SUFFICES ASSUME NEW b \in Agents, b # a
             PROVE  LocatedAt(b)'
  BY DEF Located
<1>1. LocatedAt(b) /\ LocatedFrame(b)
  BY DEF Located
<1> QED
  BY <1>1 DEF LocatedAt, LocatedFrame

(* The same for a step that sets one lock's holder and no generation. *)
LEMMA LocatedSetOp ==
  ASSUME TypeOK, Located, NEW a \in Agents, NEW o, SetOp(a, o),
         \A b \in Agents : agent'[b].gen = agent[b].gen, UNCHANGED workers,
         o.pc # "fork",
         o.pc \in {"ready", "unboot", "prompt", "abort"} => workers[a] \in Gens,
         o.pc = "stop" => workers[a] \in Gens \/ o.kind = "stop_unowned",
         o.pc \in {"lock", "victim"} => o.victim \in Agents
  PROVE  Located'
<1>1. op'[a] = o /\ \A b \in Agents \ {a} : op'[b] = op[b]
  BY DEF SetOp, TypeOK
<1> QED
  BY <1>1, LocatedMoves DEF LocatedFrame, LocatedAt

(* An agent's row written with the generation it had. *)
LEMMA GenKept ==
  ASSUME TypeOK, NEW a \in Agents, NEW ag, SetAgent(a, ag), ag.gen = agent[a].gen
  PROVE  \A b \in Agents : agent'[b].gen = agent[b].gen
BY DEF SetAgent, TypeOK

(* Updates of an agent's row that leave its generation alone. *)
LEMMA GenSame ==
  ASSUME TypeOK, NEW a \in Agents
  PROVE  /\ \A s : [agent[a] EXCEPT !.state = s].gen = agent[a].gen
         /\ \A s : [agent[a] EXCEPT !.state = s, !.current = NoRun].gen = agent[a].gen
         /\ IdleAgent(agent[a]).gen = agent[a].gen
BY DEF TypeOK, AgentType, IdleAgent

(* interrupt only waits for the end of a worker that is registered. *)
LEMMA LocatedInterrupt ==
  ASSUME TypeOK, Located, NEW a \in Agents, NEW o \in [Agents -> OpType],
         \A b \in Agents \ {a} : o[b] = op[b],
         BeginInterrupt(a, o), UNCHANGED workers
  PROVE  Located'
<1>0. agent \in [Agents -> AgentType] /\ op \in [Agents -> OpType]
  BY DEF TypeOK
<1>1. workers[a] \in Gens
  BY DEF BeginInterrupt, Reachable, HasWorker, TypeOK, Gens
<1>2. \A b \in Agents \ {a} : op'[b] = op[b] /\ agent'[b] = agent[b]
  BY <1>0 DEF BeginInterrupt, SetAgent
<1>3. op'[a].pc = "stop" /\ workers'[a] = workers[a]
  BY DEF BeginInterrupt, OpType
<1> QED
  BY <1>1, <1>2, <1>3, LocatedMoves DEF LocatedFrame, LocatedAt

(* start_run only awaits the reply of a worker that is registered. *)
LEMMA LocatedStart ==
  ASSUME TypeOK, Located, NEW a \in Agents, workers[a] \in Gens, UNCHANGED workers,
         NEW r, NEW ag, NEW rs, NEW w, NEW k, StartRun(a, r, ag, rs, w, k)
  PROVE  Located'
<1>0. agent \in [Agents -> AgentType] /\ op \in [Agents -> OpType]
  BY DEF TypeOK
<1>2. \A b \in Agents \ {a} : op'[b] = op[b] /\ agent'[b] = agent[b]
  BY <1>0 DEF StartRun, SetAgent, SetOp
<1>3. op'[a].pc = "prompt"
  BY <1>0 DEF StartRun, SetOp, Free
<1> QED
  BY <1>2, <1>3, LocatedMoves DEF LocatedFrame, LocatedAt

(* advance_queue starts the next run on a registered worker or frees the lock. *)
LEMMA LocatedAdvance ==
  ASSUME TypeOK, Located, NEW a \in Agents, NEW ag, NEW rs, NEW w, workers[a] \in Gens,
         ag.gen = agent[a].gen, AdvanceQueue(a, ag, rs, w), UNCHANGED workers
  PROVE  Located'
<1>0. agent \in [Agents -> AgentType] /\ op \in [Agents -> OpType]
  BY DEF TypeOK
<1>1. CASE ~closing /\ Queued(rs, a) # {} /\ ~Exited(a, workers[a])
  BY <1>1, LocatedStart DEF AdvanceQueue
<1>2. CASE ~(~closing /\ Queued(rs, a) # {} /\ ~Exited(a, workers[a]))
  <2>1. SetAgent(a, ag) /\ SetOp(a, Free)
    BY <1>2 DEF AdvanceQueue
  <2>2. op'[a] = Free /\ \A b \in Agents \ {a} : op'[b] = op[b] /\ agent'[b] = agent[b]
    BY <1>0, <2>1 DEF SetOp, SetAgent
  <2> QED
    BY <2>2, LocatedMoves DEF LocatedFrame, LocatedAt, Free
<1> QED
  BY <1>1, <1>2

(* A boot that raises frees its lock. *)
LEMMA LocatedAbort ==
  ASSUME TypeOK, Located, NEW a \in Agents, AbortBoot(a), UNCHANGED workers
  PROVE  Located'
<1>1. \A b \in Agents : agent'[b].gen = agent[b].gen
  <2>1. CASE op[a].kind = "spawn" /\ agent[a].state # "absent"
    BY <2>1, GenKept, GenSame DEF AbortBoot
  <2>2. CASE ~(op[a].kind = "spawn" /\ agent[a].state # "absent")
    BY <2>2 DEF AbortBoot
  <2> QED
    BY <2>1, <2>2
<1>2. SetOp(a, Free)
  BY DEF AbortBoot
<1> QED
  BY <1>1, <1>2, LocatedSetOp DEF Free

(* Every step of a boot fits the generation or victim it names. *)
LEMMA LocatedBoot ==
  ASSUME TypeOK, Located, NEW a \in Agents, Boot(a)
  PROVE  Located'
<1>0. op[a] \in OpType /\ LocatedAt(a) /\ agent[a] \in AgentType
  BY DEF TypeOK, Located
<1>1. CASE Spawn(a)
  BY <1>1, LocatedSetOp DEF Spawn, Free
<1>2. CASE Admit(a)
  BY <1>0, <1>2, LocatedSetOp DEF Admit, OpType
<1>3. ASSUME NEW b \in Agents, b = op[a].victim, LockVictim(a)
      PROVE  Located'
  <2>1. b # a /\ op[b].pc = "free"
    BY <1>0, <1>3 DEF LockVictim
  <2>2. workers[b] \in Gens
    BY <1>3, <2>1 DEF LockVictim, BeginInterrupt, Reachable, HasWorker, TypeOK, Gens
  <2>3. op'[b].pc = "stop" /\ workers' = workers /\ op'[a].pc = "victim" /\ op'[a].victim = b
    BY <1>3, <2>1 DEF LockVictim, BeginInterrupt, TypeOK, OpType
  <2>4. \A c \in Agents \ {b} : agent'[c] = agent[c]
    BY <1>3, <2>1 DEF LockVictim, BeginInterrupt, TypeOK, SetAgent
  <2>5. \A c \in Agents \ {a, b} : op'[c] = op[c]
    BY <1>3, <2>1 DEF LockVictim, BeginInterrupt, TypeOK
  <2>6. LocatedAt(a)' /\ LocatedAt(b)'
    BY <2>1, <2>2, <2>3 DEF LocatedAt
  <2>7. ASSUME NEW c \in Agents, c # a, c # b
        PROVE  LocatedAt(c)'
    BY <2>3, <2>4, <2>5, <2>7 DEF LocatedAt, Located
  <2> QED
    BY <2>6, <2>7 DEF Located
<1>4. CASE SkipVictim(a)
  <2>1. CASE op[a].back = "capacity"
    <3>1. SetOp(a, [op[a] EXCEPT !.pc = "capacity"]) /\ UNCHANGED <<agent, workers>>
      BY <1>4, <2>1 DEF SkipVictim
    <3> QED
      BY <1>0, <3>1, LocatedSetOp DEF OpType
  <2>2. CASE op[a].back # "capacity"
    BY <1>4, <2>2, LocatedAbort DEF SkipVictim
  <2> QED
    BY <2>1, <2>2
<1>5. CASE BootRefused(a)
  BY <1>5, LocatedAbort DEF BootRefused
<1>6. CASE AdmitWriter(a)
  BY <1>0, <1>6, LocatedSetOp DEF AdmitWriter, OpType
<1>7. CASE BeforeSpawn(a)
  <2>1. agent'[a].gen \in Gens
    <3>1. agent'[a].gen = agent[a].gen + 1
      BY <1>0, <1>7 DEF BeforeSpawn, SetAgent, TypeOK, AgentType
    <3>2. agent[a].gen \in 0..MaxGen /\ agent[a].gen < MaxGen
      BY <1>0, <1>7 DEF BeforeSpawn, AgentType
    <3> QED
      BY <3>1, <3>2, BoundsAssumption DEF Gens
  <2>2. op'[a].pc = "fork"
    BY <1>0, <1>7 DEF BeforeSpawn, SetOp, TypeOK, OpType
  <2>3. \A b \in Agents \ {a} : agent'[b] = agent[b] /\ op'[b] = op[b]
    BY <1>7 DEF BeforeSpawn, SetAgent, SetOp, TypeOK
  <2>4. workers' = workers
    BY <1>7 DEF BeforeSpawn
  <2> QED
    BY <2>1, <2>2, <2>3, <2>4, LocatedMoves DEF LocatedFrame, LocatedAt
<1>8. CASE Fork(a)
  BY <1>8, LocatedKept DEF Fork, memory, LocatedFrame
<1>9. CASE ForkFails(a)
  BY <1>9, LocatedSetOp DEF ForkFails, Free
<1>10. CASE Register(a)
  <2>1. agent[a].gen \in Gens
    BY <1>0, <1>10 DEF Register, LocatedAt
  <2>2. workers'[a] \in Gens /\ \A b \in Agents \ {a} : workers'[b] = workers[b]
    BY <1>10, <2>1 DEF Register, TypeOK
  <2>3. op'[a].pc = "ready" /\ \A b \in Agents \ {a} : op'[b] = op[b]
    BY <1>0, <1>10 DEF Register, SetOp, TypeOK, OpType
  <2>4. \A b \in Agents \ {a} : agent'[b] = agent[b]
    BY <1>10 DEF Register, SetAgent, TypeOK
  <2> QED
    BY <2>2, <2>3, <2>4, LocatedMoves DEF LocatedFrame, LocatedAt
<1>11. CASE ReadyOk(a)
  <2> DEFINE ag == [agent[a] EXCEPT !.state = "idle", !.cleanup = "not_checked"]
  <2>1. workers[a] \in Gens /\ workers' = workers
    BY <1>0, <1>11 DEF ReadyOk, LocatedAt
  <2>2. \/ \E r, rs, k : StartRun(a, r, ag, rs, W(a), k)
        \/ SetAgent(a, ag) /\ SetOp(a, Free)
    BY <1>11 DEF ReadyOk
  <2>3. CASE \E r, rs, k : StartRun(a, r, ag, rs, W(a), k)
    BY <2>1, <2>3, LocatedStart
  <2>4. CASE SetAgent(a, ag) /\ SetOp(a, Free)
    <3>1. ag.gen = agent[a].gen
      BY <1>0 DEF AgentType
    <3> QED
      BY <2>1, <2>4, <3>1, GenKept, LocatedSetOp DEF Free
  <2> QED
    BY <2>2, <2>3, <2>4
<1>12. CASE ReadyFails(a)
  <2>1. workers[a] \in Gens
    BY <1>0, <1>12 DEF ReadyFails, LocatedAt
  <2> QED
    BY <1>0, <1>12, <2>1, LocatedSetOp DEF ReadyFails, OpType
<1>13. CASE EvictionRefused(a)
  BY <1>13, LocatedAbort DEF EvictionRefused
<1>14. ASSUME NEW r \in Runs, SpawnInsert(a, r)
       PROVE  Located'
  BY <1>0, <1>14, GenKept, GenSame, LocatedSetOp DEF SpawnInsert, OpType
<1>15. ASSUME NEW b \in Agents, PickVictim(a, b)
       PROVE  Located'
  BY <1>0, <1>15, LocatedSetOp DEF PickVictim, OpType
<1>16. LockVictim(a) => op[a].victim \in Agents
  BY <1>0 DEF LockVictim, LocatedAt
<1> QED
  BY <1>1, <1>2, <1>3, <1>4, <1>5, <1>6, <1>7, <1>8, <1>9, <1>10, <1>11, <1>12, <1>13,
     <1>14, <1>15, <1>16 DEF Boot

(* The end of a termination frees the lock, or sends it on to a wake-up. *)
LEMMA LocatedStop ==
  ASSUME TypeOK, Located, NEW a \in Agents, Stop(a)
  PROVE  Located'
<1>1. PICK o \in [cleanup: {"verified", "unknown"}, attempted: BOOLEAN, st: ProcStates] :
        StopDone(a, o) \/ UnbootDone(a, o)
  BY DEF Stop
<1>2. CASE StopDone(a, o)
  <2>1. \A b \in Agents : agent'[b].gen = agent[b].gen
    <3> DEFINE ag == [agent[a] EXCEPT !.state = StateAfterStop(op[a].kind, o.cleanup),
                                      !.current = NoRun, !.cleanup = o.cleanup]
    <3>1. ag.gen = agent[a].gen /\ SetAgent(a, ag)
      BY <1>2 DEF TypeOK, AgentType, StopDone
    <3> QED
      BY <3>1, GenKept
  <2>2. op'[a].pc \in {"free", "admit"}
    BY <1>2 DEF StopDone, Free
  <2>3. ASSUME NEW b \in Agents, b # a
        PROVE  LocatedFrame(b)
    <3>1. op[b] \in OpType
      BY DEF TypeOK
    <3>2. op'[b] \in {op[b], [op[b] EXCEPT !.pc = "refused"], [op[b] EXCEPT !.pc = op[b].back]}
      BY <1>2, <2>3 DEF StopDone
    <3>3. workers' = workers
      BY <1>2 DEF StopDone
    <3> QED
      BY <2>1, <3>1, <3>2, <3>3 DEF OpType, LocatedFrame
  <2>4. workers' = workers
    BY <1>2 DEF StopDone
  <2> QED
    BY <2>1, <2>2, <2>3, <2>4, LocatedKept DEF LocatedFrame
<1>3. CASE UnbootDone(a, o)
  <2> DEFINE ag == [agent[a] EXCEPT !.cleanup = o.cleanup,
                      !.state = IF op[a].kind = "spawn" THEN "crashed" ELSE agent[a].state]
  <2>1. ag.gen = agent[a].gen /\ SetAgent(a, ag)
    BY <1>3 DEF TypeOK, AgentType, UnbootDone
  <2> QED
    BY <1>3, <2>1, GenKept, LocatedSetOp DEF UnbootDone, Free
<1> QED
  BY <1>1, <1>2, <1>3

(* The client's mutations only wait for workers that are registered. *)
LEMMA LocatedMutate ==
  ASSUME TypeOK, Located, NEW a \in Agents, Mutate(a)
  PROVE  Located'
<1>0. op \in [Agents -> OpType] /\ LocatedAt(a)
  BY DEF TypeOK, Located
<1>1. ASSUME NEW name \in Requests, Interrupt(a, name)
      PROVE  Located'
  <2> DEFINE o == [op EXCEPT ![a].kind = name]
  <2>1. o \in [Agents -> OpType] /\ \A b \in Agents \ {a} : o[b] = op[b]
    BY <1>0, SetsAssumption DEF OpType, Kinds
  <2> HIDE DEF o
  <2>2. BeginInterrupt(a, o) /\ UNCHANGED workers
    BY <1>1 DEF Interrupt, o
  <2> QED
    BY <2>1, <2>2, LocatedInterrupt
<1>2. ASSUME NEW name \in Requests, Respawn(a, name)
      PROVE  Located'
  BY <1>2, LocatedSetOp DEF Respawn, Free
<1>3. ASSUME NEW v \in {"gone", "live"}, CloseOrphan(a, v)
      PROVE  Located'
  <2>1. CASE v = "gone"
    <3> DEFINE ag == [agent[a] EXCEPT !.state = "closed", !.current = NoRun, !.cleanup = "verified"]
    <3>1. ag.gen = agent[a].gen /\ SetAgent(a, ag) /\ UNCHANGED <<op, workers>>
      BY <1>3, <2>1 DEF CloseOrphan, TypeOK, AgentType
    <3> QED
      BY <3>1, GenKept, LocatedKept DEF LocatedFrame
  <2>2. CASE v # "gone"
    BY <1>3, <2>2, LocatedSetOp DEF CloseOrphan, Free
  <2> QED
    BY <2>1, <2>2
<1>4. ASSUME NEW proved \in BOOLEAN, ReapDone(a, proved)
      PROVE  Located'
  <2> DEFINE ag == [agent[a] EXCEPT !.state = IF proved THEN "closed" ELSE "orphaned",
                                    !.current = NoRun,
                                    !.cleanup = IF proved THEN "verified" ELSE "unknown"]
  <2>1. ag.gen = agent[a].gen /\ SetAgent(a, ag)
    BY <1>4 DEF TypeOK, AgentType, ReapDone
  <2> QED
    BY <1>4, <2>1, GenKept, LocatedSetOp DEF ReapDone, Free
<1>5. CASE ConfirmCleanup(a)
  <2> DEFINE ag == [agent[a] EXCEPT !.state = "closed", !.current = NoRun, !.cleanup = "verified"]
  <2>1. ag.gen = agent[a].gen /\ SetAgent(a, ag)
    BY <1>5 DEF TypeOK, AgentType, ConfirmCleanup
  <2> QED
    BY <1>5, <2>1, GenKept, LocatedKept DEF ConfirmCleanup, LocatedFrame
<1>6. CASE SendWake(a)
  BY <1>6, LocatedSetOp DEF SendWake, Free
<1>7. CASE SoftInterrupt(a)
  <2>1. workers[a] \in Gens
    BY <1>7 DEF SoftInterrupt, Reachable, HasWorker, TypeOK, Gens
  <2> QED
    BY <1>7, <2>1, GenKept, GenSame, LocatedSetOp DEF SoftInterrupt, Free
<1>8. ASSUME NEW r \in Runs, SendIdle(a, r)
      PROVE  Located'
  <2>1. workers[a] \in Gens
    BY <1>8 DEF SendIdle, Reachable, HasWorker, TypeOK, Gens
  <2> QED
    BY <1>8, <2>1, LocatedStart DEF SendIdle
<1>9. ASSUME NEW r \in Runs, SendQueued(a, r)
      PROVE  Located'
  BY <1>9, LocatedKept DEF SendQueued, memory, LocatedFrame
<1>10. ASSUME NEW d \in Dialogs, Answer(a, d)
       PROVE  Located'
  <2>1. agent'[a].gen = agent[a].gen /\ \A b \in Agents \ {a} : agent'[b] = agent[b]
    BY <1>10 DEF Answer, Dismiss, TypeOK, AgentType
  <2> QED
    BY <1>10, <2>1, LocatedKept DEF Answer, LocatedFrame
<1> QED
  BY <1>1, <1>2, <1>3, <1>4, <1>5, <1>6, <1>7, <1>8, <1>9, <1>10 DEF Mutate

(* The replies awaited end at a registered worker or free the lock. *)
LEMMA LocatedAwait ==
  ASSUME TypeOK, Located, NEW a \in Agents, Await(a)
  PROVE  Located'
<1>0. op \in [Agents -> OpType] /\ LocatedAt(a)
  BY DEF TypeOK, Located
<1>1. CASE PromptOk(a)
  BY <1>1, LocatedSetOp DEF PromptOk, Free
<1>2. CASE PromptRejected(a)
  <2>1. CASE op[a].kind = "settle"
    <3>1. workers[a] \in Gens
      BY <1>0, <1>2 DEF PromptRejected, LocatedAt
    <3> QED
      BY <1>2, <2>1, <3>1, GenSame, LocatedAdvance DEF PromptRejected
  <2>2. CASE op[a].kind # "settle"
    <3>1. SetAgent(a, IdleAgent(agent[a])) /\ SetOp(a, Free) /\ UNCHANGED workers
      BY <1>2, <2>2 DEF PromptRejected
    <3> QED
      BY <3>1, GenKept, GenSame, LocatedSetOp DEF Free
  <2> QED
    BY <2>1, <2>2
<1>3. CASE PromptUncertain(a)
  BY <1>3, LocatedSetOp DEF PromptUncertain, Free
<1>4. CASE AbortConfirmed(a)
  BY <1>4, GenKept, GenSame, LocatedSetOp DEF AbortConfirmed, Free
<1>5. CASE AbortForced(a)
  <2> DEFINE o == [op EXCEPT ![a].ans = "none"]
  <2>1. o \in [Agents -> OpType] /\ \A b \in Agents \ {a} : o[b] = op[b]
    BY <1>0 DEF OpType
  <2> HIDE DEF o
  <2>2. BeginInterrupt(a, o) /\ UNCHANGED workers
    BY <1>5 DEF AbortForced, o
  <2> QED
    BY <2>1, <2>2, LocatedInterrupt
<1> QED
  BY <1>1, <1>2, <1>3, <1>4, <1>5 DEF Await

(* interrupt on behalf of a caller other than the client. *)
LEMMA LocatedKind ==
  ASSUME TypeOK, Located, NEW a \in Agents, NEW k \in Kinds,
         BeginInterrupt(a, [op EXCEPT ![a].kind = k]), UNCHANGED workers
  PROVE  Located'
<1> DEFINE o == [op EXCEPT ![a].kind = k]
<1>1. o \in [Agents -> OpType] /\ \A b \in Agents \ {a} : o[b] = op[b]
  <2>1. op \in [Agents -> OpType] /\ op[a] \in OpType
    BY DEF TypeOK
  <2>2. [op[a] EXCEPT !.kind = k] \in OpType
    BY <2>1 DEF OpType
  <2> QED
    BY <2>1, <2>2
<1>2. BeginInterrupt(a, o)
  OBVIOUS
<1> HIDE DEF o
<1> QED
  BY <1>1, <1>2, LocatedInterrupt

(* The daemon's own coroutines fit; worker_exited unregisters only under a free lock. *)
LEMMA LocatedBackground ==
  ASSUME TypeOK, Located, NEW a \in Agents, Background(a)
  PROVE  Located'
<1>0. op \in [Agents -> OpType]
  BY DEF TypeOK
<1>1. ASSUME NEW g \in Gens, StopUnowned(a, g)
      PROVE  Located'
  <2>1. CASE StopsUnowned(a, g)
    BY <1>1, <2>1, LocatedSetOp DEF StopUnowned, Free
  <2>2. CASE ~StopsUnowned(a, g)
    BY <1>1, <2>2, LocatedKept DEF StopUnowned, LocatedFrame
  <2> QED
    BY <2>1, <2>2
<1>2. ASSUME NEW g \in Gens, FailWorker(a, g)
      PROVE  Located'
  <2>1. CASE FailsOwn(a, g)
    BY <1>2, <2>1, LocatedSetOp DEF FailWorker, FailsOwn, Free
  <2>2. CASE ~FailsOwn(a, g)
    BY <1>2, <2>2, LocatedKept DEF FailWorker, LocatedFrame
  <2> QED
    BY <2>1, <2>2
<1>3. ASSUME NEW g \in Gens, Reaped(a, g)
      PROVE  Located'
  <2>1. \A b \in Agents : op'[b] = op[b] \/ op'[b] = [op[b] EXCEPT !.ans = "gone"]
    BY <1>0, <1>3 DEF Reaped
  <2>2. \A b \in Agents : /\ op'[b].pc = op[b].pc /\ op'[b].victim = op[b].victim
                          /\ op'[b].kind = op[b].kind
    <3> SUFFICES ASSUME NEW b \in Agents
                 PROVE  /\ op'[b].pc = op[b].pc /\ op'[b].victim = op[b].victim
                        /\ op'[b].kind = op[b].kind
      OBVIOUS
    <3>1. op[b] \in OpType
      BY <1>0
    <3> QED
      BY <2>1, <3>1 DEF OpType
  <2> QED
    BY <1>3, <2>2, LocatedKept DEF Reaped, LocatedFrame
<1>4. ASSUME NEW g \in Gens, NEW proved \in BOOLEAN, WorkerExited(a, g, proved)
      PROVE  Located'
  <2>1. op'[a].pc = "free" /\ op' = op /\ \A b \in Agents \ {a} : workers'[b] = workers[b]
    BY <1>4 DEF WorkerExited, LockFree, TypeOK
  <2>2. \A b \in Agents \ {a} : agent'[b] = agent[b]
    BY <1>4 DEF WorkerExited, SetAgent, TypeOK
  <2> QED
    BY <2>1, <2>2, LocatedMoves DEF LocatedFrame, LocatedAt
<1>5. ASSUME NEW g \in Gens, NEW r \in Runs, Settle(a, g, r)
      PROVE  Located'
  <2>1. CASE SettleValid(a, g, r)
    <3>1. workers[a] \in Gens /\ UNCHANGED workers
      BY <1>5, <2>1 DEF SettleValid, Settle
    <3> QED
      BY <1>5, <2>1, <3>1, GenSame, LocatedAdvance DEF Settle
  <2>2. CASE ~SettleValid(a, g, r)
    BY <1>5, <2>2, LocatedKept DEF Settle, LocatedFrame
  <2> QED
    BY <2>1, <2>2
<1>6. ASSUME NEW g \in Gens, NEW r \in Runs, CheckIdle(a, g, r)
      PROVE  Located'
  <2>1. "check_idle" \in Kinds
    BY DEF Kinds
  <2>2. CASE TimeoutValid(a, g, r) /\ Reachable(a)
    BY <1>6, <2>1, <2>2, LocatedKind DEF CheckIdle
  <2>3. CASE ~(TimeoutValid(a, g, r) /\ Reachable(a))
    BY <1>6, <2>3, LocatedKept DEF CheckIdle, LocatedFrame
  <2> QED
    BY <2>2, <2>3
<1>7. CASE FallSilent(a) \/ ObserveIdle(a)
  BY <1>7, LocatedKept DEF FallSilent, ObserveIdle, LocatedFrame
<1>8. CASE Park(a)
  <2>1. "park" \in Kinds
    BY DEF Kinds
  <2> QED
    BY <1>8, <2>1, LocatedKind DEF Park
<1> QED
  BY <1>1, <1>2, <1>3, <1>4, <1>5, <1>6, <1>7, <1>8 DEF Background

(* The readers move no coroutine, they only answer its await. *)
LEMMA LocatedRead ==
  ASSUME TypeOK, Located, NEW a \in Agents, Read(a)
  PROVE  Located'
<1>0. agent \in [Agents -> AgentType] /\ op \in [Agents -> OpType]
  BY DEF TypeOK
<1>1. PICK g \in Gens : \/ ReadReply(a, g) \/ ReadDropped(a, g) \/ ReadAsk(a, g) \/ ReadClosed(a, g)
                        \/ ReadEnd(a, g) \/ ReadDelta(a, g) \/ ReadStart(a, g) \/ ReaderFails(a, g)
  BY DEF Read
<1>2. CASE ReadReply(a, g)
  <2>1. \A b \in Agents : \/ op'[b] = op[b]
                          \/ \E x : op'[b] = [op[b] EXCEPT !.ans = x]
    BY <1>0, <1>2 DEF ReadReply
  <2>2. \A b \in Agents : /\ op'[b].pc = op[b].pc /\ op'[b].victim = op[b].victim
                          /\ op'[b].kind = op[b].kind
    <3> SUFFICES ASSUME NEW b \in Agents
                 PROVE  /\ op'[b].pc = op[b].pc /\ op'[b].victim = op[b].victim
                        /\ op'[b].kind = op[b].kind
      OBVIOUS
    <3>1. op[b] \in OpType
      BY <1>0
    <3>2. CASE op'[b] = op[b]
      BY <3>2
    <3>3. ASSUME NEW x, op'[b] = [op[b] EXCEPT !.ans = x]
          PROVE  /\ op'[b].pc = op[b].pc /\ op'[b].victim = op[b].victim
                 /\ op'[b].kind = op[b].kind
      BY <3>1, <3>3 DEF OpType
    <3> QED
      BY <2>1, <3>2, <3>3
  <2> QED
    BY <1>2, <2>2, LocatedKept DEF ReadReply, LocatedFrame
<1>3. CASE ReadDropped(a, g)
  BY <1>3, LocatedKept DEF ReadDropped, memory, LocatedFrame
<1>4. CASE ReadAsk(a, g)
  BY <1>4, GenKept, GenSame, LocatedKept DEF ReadAsk, LocatedFrame
<1>5. CASE ReadClosed(a, g)
  <2>1. agent'[a].gen = agent[a].gen /\ \A b \in Agents \ {a} : agent'[b] = agent[b]
    BY <1>0, <1>5 DEF ReadClosed, Dismiss, AgentType
  <2> QED
    BY <1>5, <2>1, LocatedKept DEF ReadClosed, LocatedFrame
<1>6. CASE ReadEnd(a, g) \/ ReadDelta(a, g) \/ ReaderFails(a, g)
  BY <1>6, LocatedKept DEF ReadEnd, ReadDelta, ReaderFails, LocatedFrame
<1>7. CASE ReadStart(a, g)
  <2>1. UNCHANGED agent \/ SetAgent(a, [agent[a] EXCEPT !.state = "dormant", !.current = NoRun])
    BY <1>7 DEF ReadStart
  <2>2. \A b \in Agents : agent'[b].gen = agent[b].gen
    BY <2>1, GenKept, GenSame
  <2> QED
    BY <1>7, <2>2, LocatedKept DEF ReadStart, LocatedFrame
<1> QED
  BY <1>1, <1>2, <1>3, <1>4, <1>5, <1>6, <1>7

(* A step that touches neither rows, registrations nor coroutines. *)
LEMMA LocatedSame ==
  ASSUME Located, UNCHANGED <<agent, workers, op>>
  PROVE  Located'
BY LocatedKept DEF LocatedFrame

(* The child, the shutdown, the daemon's own death and restart, and stuttering. *)
LEMMA LocatedRest ==
  ASSUME TypeOK, Located,
         \/ \E a \in Agents : Process(a) \/ ShutdownAgent(a)
         \/ Daemon \/ UNCHANGED vars
  PROVE  Located'
<1>2. ASSUME NEW a \in Agents, Process(a)
      PROVE  Located'
  <2>1. UNCHANGED <<agent, workers, op>>
    BY <1>2, ProcessKeeps DEF memory
  <2> QED
    BY <2>1, LocatedSame
<1>3. ASSUME NEW a \in Agents, ShutdownAgent(a)
      PROVE  Located'
  <2>1. "shutdown" \in Kinds /\ workers[a] \in Gens /\ UNCHANGED workers
    BY <1>3 DEF Kinds, ShutdownAgent, HasWorker, TypeOK, Gens
  <2>2. CASE BeginInterrupt(a, [op EXCEPT ![a].kind = "shutdown"])
    BY <2>1, <2>2, LocatedKind
  <2>3. CASE ~BeginInterrupt(a, [op EXCEPT ![a].kind = "shutdown"])
    BY <1>3, <2>1, <2>3, LocatedSetOp DEF ShutdownAgent, Free
  <2> QED
    BY <2>2, <2>3
<1>4. CASE Daemon
  <2>1. CASE Crash \/ ShutdownExit
    <3>1. \A a \in Agents : op'[a].pc = "free"
      BY <2>1 DEF Crash, ShutdownExit, LoseMemory, Free
    <3> QED
      BY <3>1 DEF Located, LocatedAt
  <2>2. CASE BeginShutdown
    BY <2>2, LocatedSame DEF BeginShutdown
  <2>3. ASSUME NEW v, Restart(v)
        PROVE  Located'
    <3>1. \A a \in Agents : agent'[a].gen = agent[a].gen
      BY <2>3 DEF Restart, TypeOK, AgentType
    <3> QED
      BY <2>3, <3>1, LocatedKept DEF Restart, memory, LocatedFrame
  <2> QED
    BY <1>4, <2>1, <2>2, <2>3 DEF Daemon
<1>5. CASE UNCHANGED vars
  BY <1>5, LocatedSame DEF vars, memory
<1> QED
  BY <1>2, <1>3, <1>4, <1>5

(* The empty ledger and the idle daemon. *)
LEMMA TypeInit == Init => TypeOK /\ Located
<1> SUFFICES ASSUME Init
             PROVE  TypeOK /\ Located
  OBVIOUS
<1>1. TypeOK
  <2>1. /\ 0 \in 0..MaxGen /\ NoRun \in 0..MaxRuns
        /\ Free \in OpType /\ NoWorker \in WorkerType /\ NoProc \in ProcType
    BY FreeType, WorkerValues, NoProcType, BoundsAssumption DEF NoRun
  <2>2. [state |-> "absent", gen |-> 0, pid |-> 0, cleanup |-> "verified", current |-> NoRun] \in AgentType
    BY <2>1 DEF AgentType, AgentStates, Cleanups
  <2>3. [state |-> "absent", owner |-> None] \in RunType
    BY DEF RunType, RunStates
  <2> QED
    BY <2>1, <2>2, <2>3 DEF Init, TypeOK
<1>2. Located
  BY DEF Init, Located, LocatedAt, Free
<1> QED
  BY <1>1, <1>2

(* The type invariant is inductive together with Located. *)
LEMMA TypeStep == TypeOK /\ Located /\ [Next]_vars => TypeOK' /\ Located'
<1> SUFFICES ASSUME TypeOK, Located, [Next]_vars
             PROVE  TypeOK' /\ Located'
  OBVIOUS
<1>1. ASSUME NEW a \in Agents, Boot(a) \/ Stop(a) \/ Mutate(a) \/ Await(a) \/ Background(a)
      PROVE  TypeOK' /\ Located'
  BY <1>1, BootType, StopType, MutateType, AwaitType, BackgroundType,
     LocatedBoot, LocatedStop, LocatedMutate, LocatedAwait, LocatedBackground
<1>2. ASSUME NEW a \in Agents, Read(a) \/ Process(a)
      PROVE  TypeOK' /\ Located'
  BY <1>2, ReadType, ProcessType, LocatedRead, LocatedRest
<1>3. CASE Daemon \/ \E a \in Agents : ShutdownAgent(a)
  BY <1>3, DaemonType, LocatedRest
<1>4. CASE UNCHANGED vars
  <2>1. Located'
    BY <1>4, LocatedRest
  <2>2. TypeOK'
    BY <1>4 DEF vars, memory, TypeOK
  <2> QED
    BY <2>1, <2>2
<1> QED
  BY <1>1, <1>2, <1>3, <1>4 DEF Next

(* Every variable of the daemon, its ledger and its children keeps its type: no
   interleaving of boots, evictions, stops, crashes and restarts uses a generation or
   a run that does not exist (runtime.py, worker.py, store.py). *)
THEOREM TypeCorrect == Spec => []TypeOK
BY TypeInit, TypeStep, PTL DEF Spec


------------------------------------------------------------------------------
(* Boots and evictions never wait for each other in a circle. *)

\* The awaits of a boot that holds the admission lock.
UnderAdmission == {"capacity", "writer", "lock", "victim", "refused", "fork"}
(* The boot that holds admission is the one that is under it, and the agent whose end it
   awaits is being stopped for it, by nobody who waits in turn.                          *)
AdmissionHeld ==
  /\ \A a \in Agents : op[a].pc \in UnderAdmission => admission = a
  /\ admission # None => op[admission].pc \in UnderAdmission
  /\ \A a \in Agents : op[a].pc \in {"lock", "victim"} => op[a].back \in {"capacity", "writer"}
  /\ \A a \in Agents : op[a].pc = "victim" =>
       op[op[a].victim].kind = "evict" /\ op[op[a].victim].pc = "stop"

\* A holder that stays where it is, moves without admission, or goes on under it.
LockKept(b) ==
  \/ /\ op'[b].pc = op[b].pc /\ op'[b].victim = op[b].victim
     /\ op'[b].kind = op[b].kind /\ op'[b].back = op[b].back
  \/ op[b].pc \notin UnderAdmission \cup {"stop"} /\ op'[b].pc \notin UnderAdmission
  \/ /\ op[b].pc \in UnderAdmission \ {"victim"} /\ op'[b].pc \in UnderAdmission \ {"victim"}
     /\ op'[b].pc = "lock" => op'[b].back \in {"capacity", "writer"}
LocksKept == UNCHANGED admission /\ \A b \in Agents : LockKept(b)
\* Of a step that is no boot's, only the first two, and it begins no spawn.
LockStays(b) ==
  \/ /\ op'[b].pc = op[b].pc /\ op'[b].victim = op[b].victim
     /\ op'[b].kind = op[b].kind /\ op'[b].back = op[b].back
  \/ /\ op[b].pc \notin UnderAdmission \cup {"stop"} /\ op'[b].pc \notin UnderAdmission
     /\ op'[b].pc = "admit" => op'[b].kind # "spawn"
LocksStay == UNCHANGED admission /\ \A b \in Agents : LockStays(b)

(* Such a step leaves admission with its holder. *)
LEMMA AdmissionKept ==
  ASSUME TypeOK, Located, AdmissionHeld, LocksKept
  PROVE  AdmissionHeld'
<1>1. admission \in Agents \cup {None} /\ admission' = admission
  BY DEF TypeOK, LocksKept
<1>2. ASSUME NEW b \in Agents
      PROVE  op'[b].pc \in UnderAdmission <=> op[b].pc \in UnderAdmission
  BY <1>2 DEF LocksKept, LockKept
<1>3. ASSUME NEW b \in Agents, op'[b].pc = "victim"
      PROVE  op[b].pc = "victim" /\ op'[b].victim = op[b].victim /\ op'[b].back = op[b].back
  BY <1>3 DEF LocksKept, LockKept, UnderAdmission
<1>4. ASSUME NEW b \in Agents, op'[b].pc = "lock"
      PROVE  op'[b].back \in {"capacity", "writer"}
  BY <1>4 DEF LocksKept, LockKept, UnderAdmission, AdmissionHeld
<1>5. ASSUME NEW b \in Agents, op[b].pc = "stop"
      PROVE  op'[b].pc = "stop" /\ op'[b].kind = op[b].kind
  BY <1>5 DEF LocksKept, LockKept, UnderAdmission
<1>6. ASSUME NEW b \in Agents, op[b].pc = "victim"
      PROVE  op[b].victim \in Agents
  BY <1>6 DEF Located, LocatedAt
<1> QED
  BY <1>1, <1>2, <1>3, <1>4, <1>5, <1>6 DEF AdmissionHeld

LEMMA AdmissionStays ==
  ASSUME TypeOK, Located, AdmissionHeld, LocksStay
  PROVE  AdmissionHeld'
<1>1. LocksKept
  BY DEF LocksKept, LockKept, LocksStay, LockStays
<1> QED
  BY <1>1, AdmissionKept

(* A step that touches no lock. *)
LEMMA LocksSame ==
  ASSUME UNCHANGED <<admission, op>>
  PROVE  LocksStay
BY DEF LocksStay, LockStays

(* One holder moves between awaits without admission. *)
LEMMA LocksSet ==
  ASSUME TypeOK, NEW a \in Agents, NEW o, SetOp(a, o), UNCHANGED admission,
         op[a].pc \notin UnderAdmission \cup {"stop"}, o.pc \notin UnderAdmission,
         o.pc = "admit" => o.kind # "spawn"
  PROVE  LocksStay
<1>1. op'[a] = o /\ \A b \in Agents \ {a} : op'[b] = op[b]
  BY DEF TypeOK, SetOp
<1> QED
  BY <1>1 DEF LocksStay, LockStays

(* start_run moves on to the await of its prompt. *)
LEMMA LocksStart ==
  ASSUME TypeOK, NEW a \in Agents, NEW r, NEW ag, NEW rs, NEW w, NEW k,
         StartRun(a, r, ag, rs, w, k), UNCHANGED admission,
         op[a].pc \notin UnderAdmission \cup {"stop"}
  PROVE  LocksStay
<1> DEFINE o == [Free EXCEPT !.kind = k, !.pc = "prompt",
                             !.ans = IF Exited(a, workers[a]) THEN "gone" ELSE "none"]
<1>1. SetOp(a, o)
  BY DEF StartRun
<1>2. o.pc = "prompt"
  BY DEF Free
<1> HIDE DEF o
<1> QED
  BY <1>1, <1>2, LocksSet DEF UnderAdmission

(* interrupt moves on to the end of the process. *)
LEMMA LocksInterrupt ==
  ASSUME TypeOK, NEW a \in Agents, NEW o \in [Agents -> OpType],
         \A b \in Agents \ {a} : o[b] = op[b], BeginInterrupt(a, o), UNCHANGED admission,
         op[a].pc \notin UnderAdmission \cup {"stop"}
  PROVE  LocksStay
<1>1. op'[a].pc = "stop" /\ \A b \in Agents \ {a} : op'[b] = op[b]
  BY DEF BeginInterrupt, OpType
<1> QED
  BY <1>1 DEF LocksStay, LockStays, UnderAdmission

(* A boot that ends, or registers its worker, leaves admission free. *)
LEMMA AdmissionReleased ==
  ASSUME TypeOK, AdmissionHeld, NEW a \in Agents, NEW o, SetOp(a, o), admission' = None,
         op[a].pc \in UnderAdmission \ {"victim"}, o.pc \notin UnderAdmission
  PROVE  AdmissionHeld'
<1>1. op'[a] = o /\ \A b \in Agents \ {a} : op'[b] = op[b]
  BY DEF TypeOK, SetOp
<1>2. \A b \in Agents \ {a} : op[b].pc \notin UnderAdmission
  BY DEF AdmissionHeld
<1>3. ASSUME NEW b \in Agents
      PROVE  op'[b].pc \notin UnderAdmission
  BY <1>1, <1>2
<1> QED
  BY <1>3 DEF AdmissionHeld, UnderAdmission

(* A boot that raises gives admission back. *)
LEMMA AdmissionAborted ==
  ASSUME TypeOK, AdmissionHeld, NEW a \in Agents, AbortBoot(a),
         op[a].pc \in UnderAdmission \ {"victim"}
  PROVE  AdmissionHeld'
<1>1. admission = a
  BY DEF AdmissionHeld
<1>2. SetOp(a, Free) /\ admission' = None
  BY <1>1 DEF AbortBoot
<1> QED
  BY <1>2, AdmissionReleased DEF Free, UnderAdmission

(* A boot that admission was free for takes it. *)
LEMMA AdmitHolds ==
  ASSUME TypeOK, AdmissionHeld, NEW a \in Agents, Admit(a)
  PROVE  AdmissionHeld'
<1>1. op \in [Agents -> OpType] /\ None \notin Agents
  BY SetsAssumption DEF TypeOK
<1>2. /\ admission' = a /\ op'[a].pc \in {"writer", "capacity"}
      /\ \A b \in Agents \ {a} : op'[b] = op[b]
  BY <1>1 DEF Admit, SetOp, OpType
<1>3. \A b \in Agents : op[b].pc \notin UnderAdmission
  BY <1>1 DEF AdmissionHeld, Admit
<1> QED
  BY <1>2, <1>3 DEF AdmissionHeld, UnderAdmission

(* The victim is stopped by the boot that waits for it. *)
LEMMA VictimHolds ==
  ASSUME TypeOK, Located, AdmissionHeld, NEW a \in Agents, LockVictim(a)
  PROVE  AdmissionHeld'
<1> DEFINE v == op[a].victim
           o == [op EXCEPT ![a].pc = "victim", ![v].kind = "evict"]
<1>1. /\ op \in [Agents -> OpType] /\ op[a].pc = "lock" /\ op[v].pc = "free" /\ v # a
      /\ v \in Agents /\ admission = a /\ admission' = admission
  BY DEF TypeOK, LockVictim, Located, LocatedAt, AdmissionHeld, UnderAdmission
<1>2. op' = [o EXCEPT ![v].pc = "stop"]
  BY DEF LockVictim, BeginInterrupt
<1>3. \A b \in Agents \ {a, v} : op'[b] = op[b]
  BY <1>1, <1>2
<1>4. op'[a] = [op[a] EXCEPT !.pc = "victim"] /\ op'[v].pc = "stop" /\ op'[v].kind = "evict"
  BY <1>1, <1>2 DEF OpType
<1>5. op'[a].pc = "victim" /\ op'[a].victim = v /\ op'[a].back = op[a].back
  BY <1>1, <1>4 DEF OpType
<1>6. \A b \in Agents \ {a, v} : op'[b].pc \notin UnderAdmission
  BY <1>1, <1>3 DEF AdmissionHeld
<1> HIDE DEF v, o
<1> QED
  BY <1>1, <1>4, <1>5, <1>6 DEF AdmissionHeld, UnderAdmission

(* Every step of a boot. *)
LEMMA AdmissionBoot ==
  ASSUME TypeOK, Located, AdmissionHeld, NEW a \in Agents, Boot(a)
  PROVE  AdmissionHeld'
<1>0. op \in [Agents -> OpType] /\ op[a] \in OpType
  BY DEF TypeOK
<1>1. CASE Spawn(a)
  <2>1. op[a].pc = "free" /\ UNCHANGED admission /\ op'[a].pc = "admit" /\ \A b \in Agents \ {a} : op'[b] = op[b]
    BY <1>0, <1>1 DEF Spawn, LockFree, SetOp, Free
  <2> QED
    BY <2>1, AdmissionKept DEF LocksKept, LockKept, UnderAdmission
<1>2. CASE Admit(a)
  BY <1>2, AdmitHolds
<1>3. CASE LockVictim(a)
  BY <1>3, VictimHolds
<1>4. CASE SkipVictim(a)
  <2>1. CASE op[a].back = "capacity"
    <3>1. SetOp(a, [op[a] EXCEPT !.pc = "capacity"]) /\ UNCHANGED admission /\ op[a].pc = "lock"
      BY <1>4, <2>1 DEF SkipVictim
    <3>2. op'[a].pc = "capacity" /\ \A b \in Agents \ {a} : op'[b] = op[b]
      BY <1>0, <3>1 DEF SetOp, OpType
    <3> QED
      BY <3>1, <3>2, AdmissionKept DEF LocksKept, LockKept, UnderAdmission
  <2>2. CASE op[a].back # "capacity"
    BY <1>4, <2>2, AdmissionAborted DEF SkipVictim, UnderAdmission
  <2> QED
    BY <2>1, <2>2
<1>5. CASE BootRefused(a)
  BY <1>5, AdmissionAborted DEF BootRefused, UnderAdmission
<1>6. CASE AdmitWriter(a)
  <2>1. SetOp(a, [op[a] EXCEPT !.pc = "writer"]) /\ UNCHANGED admission /\ op[a].pc = "capacity"
    BY <1>6 DEF AdmitWriter
  <2>2. op'[a].pc = "writer" /\ \A b \in Agents \ {a} : op'[b] = op[b]
    BY <1>0, <2>1 DEF SetOp, OpType
  <2> QED
    BY <2>1, <2>2, AdmissionKept DEF LocksKept, LockKept, UnderAdmission
<1>7. CASE BeforeSpawn(a)
  <2> DEFINE o == [op[a] EXCEPT !.pc = "fork", !.tried = {}, !.victim = None, !.back = "free",
                                !.vgen = 0]
  <2>1. SetOp(a, o) /\ UNCHANGED admission /\ op[a].pc \in {"capacity", "writer"}
    BY <1>7 DEF BeforeSpawn
  <2>2. o.pc = "fork"
    BY <1>0 DEF OpType
  <2> HIDE DEF o
  <2>3. op'[a].pc = "fork" /\ \A b \in Agents \ {a} : op'[b] = op[b]
    BY <1>0, <2>1, <2>2 DEF SetOp
  <2> QED
    BY <2>1, <2>3, AdmissionKept DEF LocksKept, LockKept, UnderAdmission
<1>8. CASE Fork(a)
  BY <1>8, LocksSame, AdmissionStays DEF Fork, memory
<1>9. CASE ForkFails(a)
  BY <1>9, AdmissionReleased DEF ForkFails, Free, UnderAdmission
<1>10. CASE Register(a)
  <2> DEFINE o == [op[a] EXCEPT !.pc = "ready"]
  <2>1. SetOp(a, o) /\ admission' = None /\ op[a].pc = "fork"
    BY <1>10 DEF Register
  <2>2. o.pc = "ready"
    BY <1>0 DEF OpType
  <2> HIDE DEF o
  <2> QED
    BY <2>1, <2>2, AdmissionReleased DEF UnderAdmission
<1>11. CASE ReadyOk(a)
  <2>1. op[a].pc = "ready" /\ UNCHANGED admission
    BY <1>11 DEF ReadyOk
  <2>2. CASE SetOp(a, Free)
    BY <2>1, <2>2, LocksSet, AdmissionStays DEF Free, UnderAdmission
  <2>3. CASE \E r, ag, rs, w, k : StartRun(a, r, ag, rs, w, k)
    BY <2>1, <2>3, LocksStart, AdmissionStays DEF UnderAdmission
  <2> QED
    BY <1>11, <2>2, <2>3 DEF ReadyOk
<1>12. CASE ReadyFails(a)
  <2> DEFINE o == [op[a] EXCEPT !.pc = "unboot"]
  <2>1. SetOp(a, o) /\ UNCHANGED admission /\ op[a].pc = "ready" /\ o.pc = "unboot"
    BY <1>0, <1>12 DEF ReadyFails, OpType
  <2> HIDE DEF o
  <2> QED
    BY <2>1, LocksSet, AdmissionStays DEF UnderAdmission
<1>13. CASE EvictionRefused(a)
  BY <1>13, AdmissionAborted DEF EvictionRefused, UnderAdmission
<1>14. ASSUME NEW r \in Runs, SpawnInsert(a, r)
       PROVE  AdmissionHeld'
  <2> DEFINE o == [op[a] EXCEPT !.pc = "capacity", !.tried = {}]
  <2>1. SetOp(a, o) /\ UNCHANGED admission /\ op[a].pc = "writer"
    BY <1>14 DEF SpawnInsert
  <2>2. o.pc = "capacity"
    BY <1>0 DEF OpType
  <2> HIDE DEF o
  <2>3. op'[a].pc = "capacity" /\ \A b \in Agents \ {a} : op'[b] = op[b]
    BY <1>0, <2>1, <2>2 DEF SetOp
  <2> QED
    BY <2>1, <2>3, AdmissionKept DEF LocksKept, LockKept, UnderAdmission
<1>15. ASSUME NEW b \in Agents, PickVictim(a, b)
       PROVE  AdmissionHeld'
  <2> DEFINE o == [op[a] EXCEPT !.pc = "lock", !.victim = b, !.vgen = workers[b],
                                !.back = op[a].pc, !.tried = op[a].tried \cup {b}]
  <2>1. SetOp(a, o) /\ UNCHANGED admission /\ op[a].pc \in {"capacity", "writer"}
    BY <1>15 DEF PickVictim
  <2>2. o.pc = "lock" /\ o.back = op[a].pc
    BY <1>0 DEF OpType
  <2> HIDE DEF o
  <2>3. op'[a] = o /\ \A c \in Agents \ {a} : op'[c] = op[c]
    BY <1>0, <2>1 DEF SetOp
  <2> QED
    BY <2>1, <2>2, <2>3, AdmissionKept DEF LocksKept, LockKept, UnderAdmission
<1> QED
  BY <1>1, <1>2, <1>3, <1>4, <1>5, <1>6, <1>7, <1>8, <1>9, <1>10, <1>11, <1>12, <1>13, <1>14,
     <1>15 DEF Boot

(* The end of a stop hands the boot that waits for it back to where it was. *)
LEMMA AdmissionStop ==
  ASSUME TypeOK, Located, AdmissionHeld, NEW a \in Agents, Stop(a)
  PROVE  AdmissionHeld'
<1>1. PICK o : StopDone(a, o) \/ UnbootDone(a, o)
  BY DEF Stop
<1>2. CASE UnbootDone(a, o)
  BY <1>2, LocksSet, AdmissionStays DEF UnbootDone, Free, UnderAdmission
<1>3. CASE StopDone(a, o)
  <2>1. op \in [Agents -> OpType] /\ op[a].pc = "stop" /\ UNCHANGED admission
    BY <1>3 DEF StopDone, TypeOK
  <2>2. op'[a].pc \in {"free", "admit"}
    BY <1>3 DEF StopDone, Free
  <2>3. ASSUME NEW b \in Agents \ {a}
        PROVE  \/ op'[b] = op[b] /\ ~ (op[b].pc = "victim" /\ op[b].victim = a)
               \/ /\ op[b].pc = "victim" /\ op[b].victim = a
                  /\ op'[b].pc \in {"refused", "capacity", "writer"}
    <3>1. CASE op[b].pc = "victim" /\ op[b].victim = a
      <4>1. op[a].kind = "evict" /\ op[b].back \in {"capacity", "writer"}
        BY <3>1 DEF AdmissionHeld
      <4>2. op'[b] = IF op[b].back = "writer" /\ o.cleanup # "verified"
                     THEN [op[b] EXCEPT !.pc = "refused"] ELSE [op[b] EXCEPT !.pc = op[b].back]
        BY <1>3, <3>1, <4>1 DEF StopDone
      <4> QED
        BY <2>1, <3>1, <4>1, <4>2 DEF OpType
    <3>2. CASE ~ (op[b].pc = "victim" /\ op[b].victim = a)
      BY <1>3, <3>2 DEF StopDone
    <3> QED
      BY <3>1, <3>2
  <2>4. ASSUME NEW b \in Agents
        PROVE  op'[b].pc \in UnderAdmission <=> op[b].pc \in UnderAdmission
    BY <2>1, <2>2, <2>3 DEF UnderAdmission
  <2>5. ASSUME NEW b \in Agents, op'[b].pc \in {"lock", "victim"}
        PROVE  op'[b] = op[b] /\ ((b # a /\ op[b].victim # a) \/ op[b].pc = "lock")
    BY <2>2, <2>3, <2>5
  <2>6. ASSUME NEW b \in Agents, op'[b].pc = "victim"
        PROVE  op'[op'[b].victim].kind = "evict" /\ op'[op'[b].victim].pc = "stop"
    <3>1. op'[b] = op[b] /\ op[b].victim # a /\ op[b].victim \in Agents
      BY <2>5, <2>6 DEF Located, LocatedAt
    <3>2. op[op[b].victim].kind = "evict" /\ op[op[b].victim].pc = "stop"
      BY <2>6, <3>1 DEF AdmissionHeld
    <3> QED
      BY <2>3, <3>1, <3>2
  <2>7. admission \in Agents \cup {None} /\ None \notin Agents
    BY SetsAssumption DEF TypeOK
  <2> QED
    BY <2>1, <2>4, <2>5, <2>6, <2>7 DEF AdmissionHeld
<1> QED
  BY <1>1, <1>2, <1>3

(* What clients ask for begins with a free lock, and never takes admission. *)
LEMMA LocksMutate ==
  ASSUME TypeOK, NEW a \in Agents, Mutate(a)
  PROVE  LocksStay
<1>0. op \in [Agents -> OpType]
  BY DEF TypeOK
<1>1. ASSUME NEW name \in Requests, Interrupt(a, name)
      PROVE  LocksStay
  <2> DEFINE o == [op EXCEPT ![a].kind = name]
  <2>1. o \in [Agents -> OpType] /\ \A b \in Agents \ {a} : o[b] = op[b]
    BY <1>0, SetsAssumption DEF OpType, Kinds
  <2> HIDE DEF o
  <2>2. BeginInterrupt(a, o) /\ UNCHANGED admission /\ op[a].pc = "free"
    BY <1>1 DEF Interrupt, Request, LockFree, o
  <2> QED
    BY <2>1, <2>2, LocksInterrupt DEF UnderAdmission
<1>2. ASSUME NEW name \in Requests, Respawn(a, name)
      PROVE  LocksStay
  BY <1>2, LocksSet DEF Respawn, Request, LockFree, Free, UnderAdmission
<1>3. ASSUME NEW v \in {"gone", "live"}, CloseOrphan(a, v)
      PROVE  LocksStay
  <2>1. CASE v = "gone"
    BY <1>3, <2>1, LocksSame DEF CloseOrphan
  <2>2. CASE v # "gone"
    BY <1>3, <2>2, LocksSet DEF CloseOrphan, Request, LockFree, Free, UnderAdmission
  <2> QED
    BY <2>1, <2>2
<1>4. ASSUME NEW proved \in BOOLEAN, ReapDone(a, proved)
      PROVE  LocksStay
  BY <1>4, LocksSet DEF ReapDone, Free, UnderAdmission
<1>5. CASE ConfirmCleanup(a)
  BY <1>5, LocksSame DEF ConfirmCleanup
<1>6. CASE SendWake(a)
  BY <1>6, LocksSet DEF SendWake, Request, LockFree, Free, UnderAdmission
<1>7. CASE SoftInterrupt(a)
  BY <1>7, LocksSet DEF SoftInterrupt, Request, LockFree, Free, UnderAdmission
<1>8. ASSUME NEW r \in Runs, SendIdle(a, r)
      PROVE  LocksStay
  BY <1>8, LocksStart DEF SendIdle, Request, LockFree, UnderAdmission
<1>9. ASSUME NEW r \in Runs, SendQueued(a, r)
      PROVE  LocksStay
  BY <1>9, LocksSame DEF SendQueued, memory
<1>10. ASSUME NEW d \in Dialogs, Answer(a, d)
       PROVE  LocksStay
  BY <1>10, LocksSame DEF Answer
<1> QED
  BY <1>1, <1>2, <1>3, <1>4, <1>5, <1>6, <1>7, <1>8, <1>9, <1>10 DEF Mutate

(* advance_queue awaits a prompt or frees the lock. *)
LEMMA LocksAdvance ==
  ASSUME TypeOK, NEW a \in Agents, NEW ag, NEW rs, NEW w, AdvanceQueue(a, ag, rs, w),
         UNCHANGED admission, op[a].pc \notin UnderAdmission \cup {"stop"}
  PROVE  LocksStay
<1>1. CASE ~closing /\ Queued(rs, a) # {} /\ ~Exited(a, workers[a])
  BY <1>1, LocksStart DEF AdvanceQueue
<1>2. CASE ~(~closing /\ Queued(rs, a) # {} /\ ~Exited(a, workers[a]))
  <2>1. SetOp(a, Free)
    BY <1>2 DEF AdvanceQueue
  <2> QED
    BY <2>1, LocksSet DEF Free, UnderAdmission
<1> QED
  BY <1>1, <1>2

(* The replies awaited. *)
LEMMA LocksAwait ==
  ASSUME TypeOK, NEW a \in Agents, Await(a)
  PROVE  LocksStay
<1>0. op \in [Agents -> OpType]
  BY DEF TypeOK
<1>1. CASE PromptOk(a)
  BY <1>1, LocksSet DEF PromptOk, Free, UnderAdmission
<1>2. CASE PromptRejected(a)
  BY <1>2, LocksSet, LocksAdvance DEF PromptRejected, Free, UnderAdmission
<1>3. CASE PromptUncertain(a)
  BY <1>3, LocksSet DEF PromptUncertain, Free, UnderAdmission
<1>4. CASE AbortConfirmed(a)
  BY <1>4, LocksSet DEF AbortConfirmed, Free, UnderAdmission
<1>5. CASE AbortForced(a)
  <2> DEFINE o == [op EXCEPT ![a].ans = "none"]
  <2>1. o \in [Agents -> OpType] /\ \A b \in Agents \ {a} : o[b] = op[b]
    BY <1>0 DEF OpType
  <2> HIDE DEF o
  <2>2. BeginInterrupt(a, o) /\ UNCHANGED admission /\ op[a].pc = "abort"
    BY <1>5 DEF AbortForced, o
  <2> QED
    BY <2>1, <2>2, LocksInterrupt DEF UnderAdmission
<1> QED
  BY <1>1, <1>2, <1>3, <1>4, <1>5 DEF Await

(* interrupt on behalf of a caller other than the client, under a free lock. *)
LEMMA LocksKind ==
  ASSUME TypeOK, NEW a \in Agents, NEW k \in Kinds, op[a].pc = "free",
         BeginInterrupt(a, [op EXCEPT ![a].kind = k]), UNCHANGED admission
  PROVE  LocksStay
<1> DEFINE o == [op EXCEPT ![a].kind = k]
<1>1. o \in [Agents -> OpType] /\ \A b \in Agents \ {a} : o[b] = op[b]
  <2>1. op \in [Agents -> OpType] /\ op[a] \in OpType
    BY DEF TypeOK
  <2>2. [op[a] EXCEPT !.kind = k] \in OpType
    BY <2>1 DEF OpType
  <2> QED
    BY <2>1, <2>2
<1>2. BeginInterrupt(a, o)
  OBVIOUS
<1> HIDE DEF o
<1> QED
  BY <1>1, <1>2, LocksInterrupt DEF UnderAdmission

(* A holder whose awaited reply is known. *)
LEMMA LocksAnswered ==
  ASSUME TypeOK, NEW a \in Agents, NEW s, UNCHANGED admission,
         op' = op \/ op' = [op EXCEPT ![a].ans = s]
  PROVE  LocksStay
<1>1. op \in [Agents -> OpType]
  BY DEF TypeOK
<1>2. \A b \in Agents : /\ op'[b].pc = op[b].pc /\ op'[b].victim = op[b].victim
                        /\ op'[b].kind = op[b].kind /\ op'[b].back = op[b].back
  BY <1>1 DEF OpType
<1> QED
  BY <1>2 DEF LocksStay, LockStays

(* The coroutines the daemon spawns begin with a free lock as well. *)
LEMMA LocksBackground ==
  ASSUME TypeOK, NEW a \in Agents, Background(a)
  PROVE  LocksStay
<1>1. ASSUME NEW g \in Gens, StopUnowned(a, g)
      PROVE  LocksStay
  <2>1. CASE StopsUnowned(a, g)
    BY <1>1, <2>1, LocksSet DEF StopUnowned, LockFree, Free, UnderAdmission
  <2>2. CASE ~ StopsUnowned(a, g)
    BY <1>1, <2>2, LocksSame DEF StopUnowned
  <2> QED
    BY <2>1, <2>2
<1>2. ASSUME NEW g \in Gens, FailWorker(a, g)
      PROVE  LocksStay
  <2>1. CASE FailsOwn(a, g)
    BY <1>2, <2>1, LocksSet DEF FailWorker, LockFree, Free, UnderAdmission
  <2>2. CASE ~ FailsOwn(a, g)
    BY <1>2, <2>2, LocksSame DEF FailWorker
  <2> QED
    BY <2>1, <2>2
<1>3. ASSUME NEW g \in Gens, Reaped(a, g)
      PROVE  LocksStay
  BY <1>3, LocksAnswered DEF Reaped
<1>4. ASSUME NEW g \in Gens, NEW proved \in BOOLEAN, WorkerExited(a, g, proved)
      PROVE  LocksStay
  BY <1>4, LocksSame DEF WorkerExited
<1>5. ASSUME NEW g \in Gens, NEW r \in Runs, Settle(a, g, r)
      PROVE  LocksStay
  <2>1. CASE SettleValid(a, g, r)
    BY <1>5, <2>1, LocksAdvance DEF Settle, LockFree, UnderAdmission
  <2>2. CASE ~ SettleValid(a, g, r)
    BY <1>5, <2>2, LocksSame DEF Settle
  <2> QED
    BY <2>1, <2>2
<1>6. ASSUME NEW g \in Gens, NEW r \in Runs, CheckIdle(a, g, r)
      PROVE  LocksStay
  <2>1. CASE TimeoutValid(a, g, r) /\ Reachable(a)
    BY <1>6, <2>1, LocksKind DEF CheckIdle, LockFree, Kinds
  <2>2. CASE ~ (TimeoutValid(a, g, r) /\ Reachable(a))
    BY <1>6, <2>2, LocksSame DEF CheckIdle
  <2> QED
    BY <2>1, <2>2
<1>7. CASE FallSilent(a) \/ ObserveIdle(a)
  BY <1>7, LocksSame DEF FallSilent, ObserveIdle
<1>8. CASE Park(a)
  BY <1>8, LocksKind DEF Park, LockFree, Kinds
<1> QED
  BY <1>1, <1>2, <1>3, <1>4, <1>5, <1>6, <1>7, <1>8 DEF Background

(* Frames, processes and a shutdown's interrupts leave admission alone. *)
LEMMA LocksRead ==
  ASSUME TypeOK, NEW a \in Agents, Read(a) \/ Process(a) \/ ShutdownAgent(a)
  PROVE  LocksStay
<1>1. CASE Read(a)
  <2>1. PICK g \in Gens :
          \/ ReadReply(a, g) \/ ReadDropped(a, g) \/ ReadAsk(a, g) \/ ReadClosed(a, g)
          \/ ReadEnd(a, g) \/ ReadDelta(a, g) \/ ReadStart(a, g) \/ ReaderFails(a, g)
    BY <1>1 DEF Read
  <2>2. CASE ReadReply(a, g)
    BY <2>2, LocksAnswered DEF ReadReply
  <2>3. CASE ReadDropped(a, g) \/ ReadAsk(a, g) \/ ReadClosed(a, g) \/ ReadEnd(a, g)
    BY <2>3, LocksSame DEF ReadDropped, ReadAsk, ReadClosed, ReadEnd, memory
  <2>4. CASE ReadDelta(a, g) \/ ReadStart(a, g) \/ ReaderFails(a, g)
    BY <2>4, LocksSame DEF ReadDelta, ReadStart, ReaderFails
  <2> QED
    BY <2>1, <2>2, <2>3, <2>4
<1>2. CASE Process(a)
  BY <1>2, ProcessKeeps, LocksSame DEF memory
<1>3. CASE ShutdownAgent(a)
  <2>1. CASE BeginInterrupt(a, [op EXCEPT ![a].kind = "shutdown"])
    BY <1>3, <2>1, LocksKind DEF ShutdownAgent, LockFree, Kinds
  <2>2. CASE ~ BeginInterrupt(a, [op EXCEPT ![a].kind = "shutdown"])
    BY <1>3, <2>2, LocksSet DEF ShutdownAgent, LockFree, Free, UnderAdmission
  <2> QED
    BY <2>1, <2>2
<1> QED
  BY <1>1, <1>2, <1>3

(* So does the daemon, or it forgets it. *)
LEMMA AdmissionRest ==
  ASSUME TypeOK, Located, AdmissionHeld, Daemon \/ UNCHANGED vars
  PROVE  AdmissionHeld'
<1>1. CASE Daemon
  <2>1. CASE Crash \/ ShutdownExit
    BY <2>1 DEF Crash, ShutdownExit, LoseMemory, AdmissionHeld, Free, UnderAdmission
  <2>2. CASE BeginShutdown
    BY <2>2, LocksSame, AdmissionStays DEF BeginShutdown
  <2>3. ASSUME NEW v \in [Agents -> {"gone", "live", "unknown"}], Restart(v)
        PROVE  AdmissionHeld'
    BY <2>3, LocksSame, AdmissionStays DEF Restart, memory
  <2> QED
    BY <1>1, <2>1, <2>2, <2>3 DEF Daemon
<1>2. CASE UNCHANGED vars
  BY <1>2, LocksSame, AdmissionStays DEF vars, memory
<1> QED
  BY <1>1, <1>2

(* At first nobody boots. *)
LEMMA AdmissionInit == Init => AdmissionHeld
BY DEF Init, AdmissionHeld, Free, UnderAdmission

(* Who holds admission, and for whom a victim stops, is inductive. *)
LEMMA AdmissionStep == TypeOK /\ Located /\ AdmissionHeld /\ [Next]_vars => AdmissionHeld'
<1> SUFFICES ASSUME TypeOK, Located, AdmissionHeld, [Next]_vars
             PROVE  AdmissionHeld'
  OBVIOUS
<1>1. ASSUME NEW a \in Agents, Boot(a) \/ Stop(a)
      PROVE  AdmissionHeld'
  BY <1>1, AdmissionBoot, AdmissionStop
<1>2. ASSUME NEW a \in Agents,
             \/ Mutate(a) \/ Await(a) \/ Background(a) \/ Read(a) \/ Process(a) \/ ShutdownAgent(a)
      PROVE  AdmissionHeld'
  BY <1>2, LocksMutate, LocksAwait, LocksBackground, LocksRead, AdmissionStays
<1>3. CASE Daemon \/ UNCHANGED vars
  BY <1>3, AdmissionRest
<1> QED
  BY <1>1, <1>2, <1>3 DEF Next

(* Whoever waits, waits for somebody busy, and nobody waits behind an eviction. *)
LEMMA NobodyWaitsInCircles == TypeOK /\ Located /\ AdmissionHeld => NoDeadlock
<1> SUFFICES ASSUME TypeOK, Located, AdmissionHeld, NEW a \in Agents, HeldUp(a)
             PROVE  /\ Busy(WaitsFor(a))
                    /\ HeldUp(WaitsFor(a)) =>
                         Busy(WaitsFor(WaitsFor(a))) /\ ~ HeldUp(WaitsFor(WaitsFor(a)))
  BY DEF NoDeadlock
<1>1. ASSUME NEW b \in Agents, op[b].pc = "victim"
      PROVE  WaitsFor(b) \in Agents /\ Busy(WaitsFor(b)) /\ ~ HeldUp(WaitsFor(b))
  BY <1>1 DEF Located, LocatedAt, AdmissionHeld, WaitsFor, Busy, HeldUp
<1>2. CASE op[a].pc = "admit"
  <2>1. admission \in Agents /\ WaitsFor(a) = admission /\ op[admission].pc \in UnderAdmission
    BY <1>2 DEF HeldUp, WaitsFor, AdmissionHeld, TypeOK
  <2>2. HeldUp(admission) => op[admission].pc = "victim"
    BY <2>1 DEF HeldUp, VictimSkipped, UnderAdmission
  <2> QED
    BY <1>1, <2>1, <2>2 DEF Busy, UnderAdmission
<1>3. CASE op[a].pc = "victim"
  BY <1>1, <1>3
<1> QED
  BY <1>2, <1>3 DEF HeldUp, VictimSkipped

(* Boots that wait for admission, and boots that wait for the lock or the end of an
   agent they evict, never wait for each other, whatever the number of agents, the limits,
   the requests and the faults (_boot_worker, ensure_capacity, admit_writer).           *)
THEOREM BootsNeverDeadlock == Spec => []NoDeadlock
BY TypeInit, TypeStep, AdmissionInit, AdmissionStep, NobodyWaitsInCircles, PTL DEF Spec


------------------------------------------------------------------------------
(* A reader error only stops the worker whose pipe failed.  The task fail_worker spawned names
   the agent and its generation; an interrupt and a respawn may come before it has the lock.
   Generations are never used twice, so the task cannot name a worker that reads.             *)

\* A worker whose reader has raised or whose pipe is at its end.
Past == {"failed", "exiting", "done"}

FailuresKnown == \A t \in tasks : t.kind = "fail_worker" => worker[t.agent][t.gen].life \in Past
\* A worker has a generation its agent was given; at the fork the last one has none yet.
Numbered ==
  \A a \in Agents, g \in Gens : worker[a][g].life # "none" =>
    g <= agent[a].gen /\ (op[a].pc = "fork" => g # agent[a].gen)
FailureInv == FailuresKnown /\ Numbered

\* What a step that neither names nor registers a generation does.
LivesAge ==
  \A b \in Agents, h \in Gens :
    \/ worker'[b][h].life = worker[b][h].life
    \/ worker[b][h].life # "none" /\ worker'[b][h].life \in Past
GensStay == \A b \in Agents : agent'[b].gen = agent[b].gen
Reported == \A t \in tasks' : t.kind = "fail_worker" => t \in tasks \/ worker'[t.agent][t.gen].life \in Past
Blamed(b) == op'[b].kind = "fail_worker" => op[b].kind = "fail_worker" \/ W(b).life \in Past
OpsBlameless == \A b \in Agents : (op'[b].pc = "fork" => op[b].pc = "fork") /\ Blamed(b)
Blameless == LivesAge /\ GensStay /\ Reported /\ OpsBlameless

LEMMA BlamelessKeeps ==
  ASSUME TypeOK, FailureInv, Blameless
  PROVE  FailureInv'
<1>1. ASSUME NEW t \in tasks', t.kind = "fail_worker"
      PROVE  worker'[t.agent][t.gen].life \in Past
  <2>1. CASE t \in tasks
    <3>1. t.agent \in Agents /\ t.gen \in Gens
      BY <2>1 DEF TypeOK, TaskType
    <3>2. worker[t.agent][t.gen].life \in Past
      BY <1>1, <2>1 DEF FailureInv, FailuresKnown
    <3> QED
      BY <3>1, <3>2 DEF Blameless, LivesAge
  <2>2. CASE t \notin tasks
    BY <1>1, <2>2 DEF Blameless, Reported
  <2> QED
    BY <2>1, <2>2
<1>2. ASSUME NEW a \in Agents, NEW g \in Gens, worker'[a][g].life # "none"
      PROVE  g <= agent'[a].gen /\ (op'[a].pc = "fork" => g # agent'[a].gen)
  <2>1. worker[a][g].life # "none"
    BY <1>2 DEF Blameless, LivesAge
  <2>2. agent'[a].gen = agent[a].gen /\ (op'[a].pc = "fork" => op[a].pc = "fork")
    BY DEF Blameless, GensStay, OpsBlameless
  <2> QED
    BY <2>1, <2>2 DEF FailureInv, Numbered
<1> QED
  BY <1>1, <1>2 DEF FailureInv, FailuresKnown, Numbered

(* The resident Worker changes, but not its life. *)
LEMMA LifeSet ==
  ASSUME TypeOK, NEW a \in Agents, NEW w, SetWorker(a, w), workers[a] \in Gens => w.life = W(a).life
  PROVE  LivesAge
<1> SUFFICES ASSUME NEW b \in Agents, NEW h \in Gens
             PROVE  worker'[b][h].life = worker[b][h].life
  BY DEF LivesAge
<1>1. worker \in [Agents -> [Gens -> WorkerType]]
  BY DEF TypeOK
<1>2. CASE b = a /\ h = workers[a]
  BY <1>1, <1>2 DEF SetWorker, W
<1>3. CASE b # a \/ h # workers[a]
  BY <1>1, <1>3 DEF SetWorker
<1> QED
  BY <1>2, <1>3

(* One generation's Worker changes; its life goes on or passes. *)
LEMMA LifeAt ==
  ASSUME TypeOK, NEW a \in Agents, NEW g \in Gens, NEW w, worker' = [worker EXCEPT ![a][g] = w],
         w.life = worker[a][g].life \/ (worker[a][g].life # "none" /\ w.life \in Past)
  PROVE  LivesAge
<1> SUFFICES ASSUME NEW b \in Agents, NEW h \in Gens
             PROVE  \/ worker'[b][h].life = worker[b][h].life
                    \/ worker[b][h].life # "none" /\ worker'[b][h].life \in Past
  BY DEF LivesAge
<1>1. worker \in [Agents -> [Gens -> WorkerType]]
  BY DEF TypeOK
<1>2. CASE b = a /\ h = g
  <2>1. worker'[b][h] = w
    BY <1>1, <1>2
  <2> QED
    BY <1>2, <2>1
<1>3. CASE b # a \/ h # g
  <2>1. worker'[b][h] = worker[b][h]
    BY <1>1, <1>3
  <2> QED
    BY <2>1
<1> QED
  BY <1>2, <1>3

LEMMA LifeSame ==
  ASSUME UNCHANGED worker
  PROVE  LivesAge
BY DEF LivesAge

(* What the coroutines write into a Worker leaves its life alone. *)
LEMMA LifeValues ==
  ASSUME NEW w \in WorkerType
  PROVE  /\ Settled(w).life = w.life /\ Settled(w) \in WorkerType
         /\ IdleWorker(w).life = w.life
         /\ [w EXCEPT !.stopping = TRUE].life = w.life
         /\ [w EXCEPT !.stopping = TRUE, !.cancelled = TRUE].life = w.life
         /\ [w EXCEPT !.silent = TRUE].life = w.life
         /\ \A u : [w EXCEPT !.ui = u, !.silent = FALSE].life = w.life
         /\ \A c : [w EXCEPT !.closed = c, !.stopping = TRUE].life = w.life
         /\ [Settled(w) EXCEPT !.stopping = TRUE].life = w.life
         /\ \A c : [Settled(w) EXCEPT !.closed = c, !.stopping = TRUE].life = w.life
<1>1. Settled(w) \in WorkerType /\ Settled(w).life = w.life
  <2>1. Settled(w).life = w.life
    BY DEF Settled, WorkerType
  <2> QED
    BY <2>1, WorkerValues
<1>2. IdleWorker(w).life = w.life
  BY <1>1 DEF IdleWorker, WorkerType
<1> QED
  BY <1>1, <1>2 DEF WorkerType

LEMMA ReportedFew ==
  ASSUME tasks' \subseteq tasks
  PROVE  Reported
BY DEF Reported

(* One lock's holder moves on, to no fork. *)
LEMMA BlamelessSet ==
  ASSUME TypeOK, NEW a \in Agents, NEW o, SetOp(a, o), o.pc # "fork",
         o.kind = "fail_worker" => op[a].kind = "fail_worker" \/ W(a).life \in Past,
         GensStay, LivesAge, tasks' \subseteq tasks
  PROVE  Blameless
<1>1. op'[a] = o /\ \A b \in Agents \ {a} : op'[b] = op[b]
  BY DEF SetOp, TypeOK
<1>2. OpsBlameless
  BY <1>1 DEF OpsBlameless, Blamed
<1> QED
  BY <1>2, ReportedFew DEF Blameless

LEMMA BlamelessKept ==
  ASSUME \A b \in Agents : op'[b].pc = op[b].pc /\ op'[b].kind = op[b].kind, GensStay, LivesAge, Reported
  PROVE  Blameless
BY DEF Blameless, OpsBlameless, Blamed

(* start_run projects on the Worker that is there. *)
LEMMA BlamelessStart ==
  ASSUME TypeOK, NEW a \in Agents, NEW r, NEW ag, NEW rs, NEW w, NEW k, StartRun(a, r, ag, rs, w, k),
         ag.gen = agent[a].gen, workers[a] \in Gens => w.life = W(a).life,
         k # "fail_worker" \/ k = op[a].kind, tasks' \subseteq tasks
  PROVE  Blameless
<1> DEFINE n == [NewWorker EXCEPT !.run = r, !.tainted = w.tainted, !.life = w.life]
           o == [Free EXCEPT !.kind = k, !.pc = "prompt", !.ans = IF Exited(a, workers[a]) THEN "gone" ELSE "none"]
           b == [ag EXCEPT !.state = "running", !.current = r]
<1>1. SetWorker(a, n) /\ SetOp(a, o) /\ SetAgent(a, b)
  BY Zenon DEF StartRun
<1>2. n.life = w.life /\ o.pc = "prompt" /\ o.kind = k
  BY DEF NewWorker, NoWorker, Free
<1> HIDE DEF n, o
<1>3. LivesAge
  BY <1>1, <1>2, LifeSet
<1>4. \A c \in Agents : c # a => agent'[c] = agent[c]
  BY <1>1 DEF SetAgent, TypeOK
<1>5. agent'[a].gen = agent[a].gen
  BY <1>1 DEF SetAgent, TypeOK
<1>6. GensStay
  BY <1>4, <1>5 DEF GensStay
<1> QED
  BY <1>1, <1>2, <1>3, <1>6, BlamelessSet

(* interrupt, for whoever calls it. *)
LEMMA BlamelessInterrupt ==
  ASSUME TypeOK, NEW a \in Agents, NEW o \in [Agents -> OpType], \A b \in Agents \ {a} : o[b] = op[b],
         o[a].kind # "fail_worker" \/ op[a].kind = "fail_worker",
         BeginInterrupt(a, o), tasks' \subseteq tasks
  PROVE  Blameless
<1>1. workers[a] \in Gens /\ W(a) \in WorkerType
  BY Values DEF BeginInterrupt, Reachable, HasWorker, TypeOK, Gens
<1>2. LivesAge
  BY <1>1, LifeSet, LifeValues DEF BeginInterrupt
<1>3. GensStay
  BY GenKept, GenSame DEF BeginInterrupt, GensStay
<1>4. /\ op'[a].pc = "stop" /\ op'[a].kind = o[a].kind
      /\ \A b \in Agents \ {a} : op'[b] = op[b]
  BY DEF BeginInterrupt, OpType
<1>5. OpsBlameless
  BY <1>4 DEF OpsBlameless, Blamed
<1> QED
  BY <1>2, <1>3, <1>5, ReportedFew DEF Blameless

LEMMA BlamelessKind ==
  ASSUME TypeOK, NEW a \in Agents, NEW k \in Kinds \ {"fail_worker"},
         BeginInterrupt(a, [op EXCEPT ![a].kind = k]), tasks' \subseteq tasks
  PROVE  Blameless
<1> DEFINE o == [op EXCEPT ![a].kind = k]
<1>1. op \in [Agents -> OpType] /\ op[a] \in OpType
  BY DEF TypeOK
<1>2. [op[a] EXCEPT !.kind = k] \in OpType /\ [op[a] EXCEPT !.kind = k].kind = k
  BY <1>1 DEF OpType
<1>3. o \in [Agents -> OpType] /\ (\A b \in Agents \ {a} : o[b] = op[b]) /\ o[a].kind = k
  BY <1>1, <1>2
<1>4. BeginInterrupt(a, o)
  OBVIOUS
<1> HIDE DEF o
<1> QED
  BY <1>3, <1>4, BlamelessInterrupt

(* advance_queue starts the next run, or frees the lock. *)
LEMMA BlamelessAdvance ==
  ASSUME TypeOK, NEW a \in Agents, NEW ag, NEW rs, NEW w, AdvanceQueue(a, ag, rs, w),
         ag.gen = agent[a].gen, workers[a] \in Gens => w.life = W(a).life, tasks' \subseteq tasks
  PROVE  Blameless
<1>1. CASE ~closing /\ Queued(rs, a) # {} /\ ~Exited(a, workers[a])
  BY <1>1, BlamelessStart DEF AdvanceQueue
<1>2. CASE ~(~closing /\ Queued(rs, a) # {} /\ ~Exited(a, workers[a]))
  <2>1. SetAgent(a, ag) /\ SetWorker(a, w) /\ SetOp(a, Free)
    BY <1>2 DEF AdvanceQueue
  <2>2. GensStay
    BY <2>1, GenKept DEF GensStay
  <2> QED
    BY <2>1, <2>2, LifeSet, BlamelessSet DEF Free
<1> QED
  BY <1>1, <1>2

(* A boot that raises frees its lock. *)
LEMMA BlamelessAbort ==
  ASSUME TypeOK, NEW a \in Agents, AbortBoot(a), UNCHANGED <<worker, tasks>>
  PROVE  Blameless
<1>1. GensStay
  BY GenKept, GenSame DEF AbortBoot, GensStay
<1>2. SetOp(a, Free)
  BY DEF AbortBoot
<1> QED
  BY <1>1, <1>2, LifeSame, BlamelessSet DEF Free


(* The boot: admission, evictions and the check of the limits register nothing yet. *)
LEMMA BlamelessBoot ==
  ASSUME TypeOK, Located, NEW a \in Agents, Boot(a), ~ BeforeSpawn(a), ~ Register(a)
  PROVE  Blameless
<1>0. op[a] \in OpType /\ LocatedAt(a) /\ agent[a] \in AgentType
  BY DEF TypeOK, Located
<1>1. ASSUME UNCHANGED agent
      PROVE  GensStay
  BY <1>1 DEF GensStay
<1>2. ASSUME NEW pc \in Steps \ {"fork"}, SetOp(a, [op[a] EXCEPT !.pc = pc]), UNCHANGED <<agent, tasks>>, LivesAge
      PROVE  Blameless
  <2>1. [op[a] EXCEPT !.pc = pc].pc = pc /\ [op[a] EXCEPT !.pc = pc].kind = op[a].kind
    BY <1>0 DEF OpType
  <2> QED
    BY <1>1, <1>2, <2>1, BlamelessSet
<1>3. CASE Spawn(a)
  BY <1>1, <1>3, LifeSame, BlamelessSet DEF Spawn, Free
<1>4. CASE Admit(a)
  BY <1>2, <1>4, LifeSame DEF Admit, Steps
<1>5. CASE AdmitWriter(a)
  BY <1>2, <1>5, LifeSame DEF AdmitWriter, Steps
<1>6. CASE SkipVictim(a)
  <2>1. CASE op[a].back = "capacity"
    BY <1>2, <1>6, <2>1, LifeSame DEF SkipVictim, Steps
  <2>2. CASE op[a].back # "capacity"
    BY <1>6, <2>2, BlamelessAbort DEF SkipVictim
  <2> QED
    BY <2>1, <2>2
<1>7. CASE BootRefused(a) \/ EvictionRefused(a)
  BY <1>7, BlamelessAbort DEF BootRefused, EvictionRefused
<1>8. CASE Fork(a)
  <2>1. UNCHANGED <<agent, op, worker, tasks>>
    BY <1>8 DEF Fork, memory
  <2> QED
    BY <1>1, <2>1, LifeSame, ReportedFew, BlamelessKept
<1>9. CASE ForkFails(a)
  BY <1>1, <1>9, LifeSame, BlamelessSet DEF ForkFails, Free
<1>10. CASE ReadyFails(a)
  <2>1. W(a) \in WorkerType
    BY <1>0, <1>10, Values DEF ReadyFails, LocatedAt
  <2>2. LivesAge
    BY <1>10, <2>1, LifeSet, LifeValues DEF ReadyFails
  <2> QED
    BY <1>2, <1>10, <2>2 DEF ReadyFails, Steps
<1>11. CASE ReadyOk(a)
  <2> DEFINE ag == [agent[a] EXCEPT !.state = "idle", !.cleanup = "not_checked"]
  <2>1. (\E r, rs : StartRun(a, r, ag, rs, W(a), op[a].kind)) \/ (SetAgent(a, ag) /\ SetOp(a, Free) /\ UNCHANGED worker)
    BY <1>11, Zenon DEF ReadyOk
  <2>2. ag.gen = agent[a].gen /\ UNCHANGED tasks
    BY <1>0, <1>11 DEF AgentType, ReadyOk
  <2> HIDE DEF ag
  <2>3. CASE \E r, rs : StartRun(a, r, ag, rs, W(a), op[a].kind)
    BY <2>2, <2>3, BlamelessStart
  <2>4. CASE SetAgent(a, ag) /\ SetOp(a, Free) /\ UNCHANGED worker
    <3>1. GensStay
      BY <2>2, <2>4, GenKept DEF GensStay
    <3> QED
      BY <2>2, <2>4, <3>1, LifeSame, BlamelessSet DEF Free
  <2> QED
    BY <2>1, <2>3, <2>4
<1>12. ASSUME NEW r \in Runs, SpawnInsert(a, r)
       PROVE  Blameless
  <2> DEFINE o == [op[a] EXCEPT !.pc = "capacity", !.tried = {}]
  <2>1. SetOp(a, o) /\ o.pc = "capacity" /\ o.kind = op[a].kind /\ UNCHANGED <<worker, tasks>>
    BY <1>0, <1>12 DEF SpawnInsert, OpType
  <2>2. GensStay
    BY <1>12, GenKept, GenSame DEF SpawnInsert, GensStay
  <2> HIDE DEF o
  <2> QED
    BY <2>1, <2>2, LifeSame, BlamelessSet
<1>13. ASSUME NEW b \in Agents, PickVictim(a, b)
       PROVE  Blameless
  <2> DEFINE o == [op[a] EXCEPT !.pc = "lock", !.victim = b, !.vgen = workers[b],
                                !.back = op[a].pc, !.tried = op[a].tried \cup {b}]
  <2>1. SetOp(a, o) /\ o.pc = "lock" /\ o.kind = op[a].kind /\ UNCHANGED <<agent, worker, tasks>>
    BY <1>0, <1>13 DEF PickVictim, OpType
  <2> HIDE DEF o
  <2> QED
    BY <1>1, <2>1, LifeSame, BlamelessSet
<1>14. CASE LockVictim(a)
  <2>1. PICK b \in Agents : b = op[a].victim
    BY <1>0, <1>14 DEF LockVictim, LocatedAt
  <2>2. b # a /\ op[b].pc = "free"
    BY <1>0, <1>14, <2>1 DEF LockVictim
  <2> DEFINE n == [op EXCEPT ![a].pc = "victim"]
             m == [n EXCEPT ![b].kind = "evict"]
  <2>3. op[a] \in OpType /\ op[b] \in OpType /\ op \in [Agents -> OpType]
    BY DEF TypeOK
  <2>4. /\ n \in [Agents -> OpType] /\ n[a].pc = "victim" /\ n[a].kind = op[a].kind
        /\ \A c \in Agents \ {a} : n[c] = op[c]
    BY <2>3 DEF OpType, Steps
  <2>5. BeginInterrupt(b, m) /\ UNCHANGED tasks
    BY <1>14, <2>1 DEF LockVictim
  <2> HIDE DEF n
  <2>6. /\ m \in [Agents -> OpType] /\ m[b].kind = "evict"
        /\ \A c \in Agents \ {b} : m[c] = n[c]
    BY <2>4 DEF OpType, Kinds
  <2> HIDE DEF m
  <2>7. workers[b] \in Gens /\ W(b) \in WorkerType
    BY <2>5, Values DEF BeginInterrupt, Reachable, HasWorker, TypeOK, Gens
  <2>8. LivesAge
    BY <2>5, <2>7, LifeSet, LifeValues DEF BeginInterrupt
  <2>9. GensStay
    BY <2>5, GenKept, GenSame DEF BeginInterrupt, GensStay
  <2>10. /\ op'[b].pc = "stop" /\ op'[b].kind = "evict"
         /\ \A c \in Agents \ {b} : op'[c] = n[c]
    BY <2>5, <2>6 DEF BeginInterrupt, OpType
  <2>11. OpsBlameless
    BY <2>2, <2>4, <2>10 DEF OpsBlameless, Blamed
  <2> QED
    BY <2>5, <2>8, <2>9, <2>11, ReportedFew DEF Blameless
<1> QED
  BY <1>3, <1>4, <1>5, <1>6, <1>7, <1>8, <1>9, <1>10, <1>11, <1>12, <1>13, <1>14 DEF Boot

(* A generation is named before the fork, one above the last. *)
LEMMA NamesNext ==
  ASSUME TypeOK, FailureInv, NEW a \in Agents, BeforeSpawn(a)
  PROVE  FailureInv' /\ \A b \in Agents : Blamed(b)
<1>1. agent[a] \in AgentType /\ op[a] \in OpType /\ UNCHANGED <<worker, tasks>>
  BY DEF TypeOK, BeforeSpawn
<1>2. agent'[a].gen = agent[a].gen + 1 /\ agent[a].gen \in Nat /\ \A b \in Agents \ {a} : agent'[b] = agent[b]
  BY <1>1, BoundsAssumption DEF BeforeSpawn, SetAgent, TypeOK, AgentType
<1>3. op'[a].kind = op[a].kind /\ \A b \in Agents \ {a} : op'[b] = op[b]
  BY <1>1 DEF BeforeSpawn, SetOp, TypeOK, OpType
<1>4. Numbered'
  <2> SUFFICES ASSUME NEW b \in Agents, NEW g \in Gens, worker[b][g].life # "none"
               PROVE  g <= agent'[b].gen /\ (op'[b].pc = "fork" => g # agent'[b].gen)
    BY <1>1 DEF Numbered
  <2>1. g <= agent[b].gen /\ (op[b].pc = "fork" => g # agent[b].gen) /\ g \in Nat
    BY BoundsAssumption DEF FailureInv, Numbered, Gens
  <2>2. CASE b = a
    BY <1>2, <2>1, <2>2
  <2>3. CASE b # a
    BY <1>2, <1>3, <2>1, <2>3
  <2> QED
    BY <2>2, <2>3
<1> QED
  BY <1>1, <1>3, <1>4 DEF FailureInv, FailuresKnown, Blamed

(* The Worker that is registered is the first of its generation. *)
LEMMA RegistersFresh ==
  ASSUME TypeOK, Located, FailureInv, NEW a \in Agents, Register(a)
  PROVE  FailureInv' /\ \A b \in Agents : Blamed(b)
<1> DEFINE g == agent[a].gen
<1>1. /\ g \in Gens /\ op[a].pc = "fork" /\ UNCHANGED tasks /\ op[a] \in OpType
      /\ worker' = [worker EXCEPT ![a][g] = NewWorker]
  BY DEF Register, Located, LocatedAt, TypeOK
<1>2. \A b \in Agents, h \in Gens : <<b, h>> # <<a, g>> => worker'[b][h] = worker[b][h]
  BY <1>1 DEF TypeOK
<1>3. \A b \in Agents : agent'[b].gen = agent[b].gen
  <2>1. \A b \in Agents : b # a => agent'[b] = agent[b]
    BY DEF Register, SetAgent, TypeOK
  <2>2. agent'[a].gen = agent[a].gen
    BY DEF Register, SetAgent, TypeOK, AgentType
  <2> QED
    BY <2>1, <2>2
<1>4. op'[a].pc = "ready" /\ op'[a].kind = op[a].kind /\ \A b \in Agents \ {a} : op'[b] = op[b]
  BY <1>1 DEF Register, SetOp, TypeOK, OpType
<1>5. worker[a][g].life = "none"
  BY <1>1 DEF FailureInv, Numbered
<1> HIDE DEF g
<1>6. FailuresKnown'
  <2> SUFFICES ASSUME NEW t \in tasks, t.kind = "fail_worker"
               PROVE  worker'[t.agent][t.gen].life \in Past
    BY <1>1 DEF FailuresKnown
  <2>1. t.agent \in Agents /\ t.gen \in Gens /\ worker[t.agent][t.gen].life \in Past
    BY DEF TypeOK, TaskType, FailureInv, FailuresKnown
  <2>2. <<t.agent, t.gen>> # <<a, g>>
    BY <1>5, <2>1 DEF Past
  <2> QED
    BY <1>2, <2>1, <2>2
<1>7. Numbered'
  <2> SUFFICES ASSUME NEW b \in Agents, NEW h \in Gens, worker'[b][h].life # "none"
               PROVE  h <= agent'[b].gen /\ (op'[b].pc = "fork" => h # agent'[b].gen)
    BY DEF Numbered
  <2>1. CASE <<b, h>> = <<a, g>>
    <3>1. b = a /\ h = agent[a].gen
      BY <2>1 DEF g
    <3> QED
      BY <1>3, <1>4, <3>1, BoundsAssumption DEF Gens
  <2>2. CASE <<b, h>> # <<a, g>>
    <3>1. h <= agent[b].gen /\ (op[b].pc = "fork" => h # agent[b].gen)
      BY <1>2, <2>2 DEF FailureInv, Numbered
    <3> QED
      BY <1>3, <1>4, <3>1
  <2> QED
    BY <2>1, <2>2
<1> QED
  BY <1>4, <1>6, <1>7 DEF FailureInv, Blamed


(* The end of a termination keeps the Worker, whose exit is still to come. *)
LEMMA BlamelessStop ==
  ASSUME TypeOK, Located, NEW a \in Agents, Stop(a)
  PROVE  Blameless
<1>1. PICK o \in [cleanup: {"verified", "unknown"}, attempted: BOOLEAN, st: ProcStates] :
        StopDone(a, o) \/ UnbootDone(a, o)
  BY DEF Stop
<1>2. workers[a] \in Gens => W(a) \in WorkerType
  BY Values
<1>3. CASE StopDone(a, o)
  <2> DEFINE own == EndsWith(a, op[a].kind)
             w == [(IF own = {} THEN W(a) ELSE Settled(W(a)))
                     EXCEPT !.closed = W(a).closed \/ o.attempted, !.stopping = TRUE]
             ag == [agent[a] EXCEPT !.state = StateAfterStop(op[a].kind, o.cleanup),
                                    !.current = NoRun, !.cleanup = o.cleanup]
  <2>1. SetWorker(a, w) /\ UNCHANGED tasks
    BY <1>3 DEF StopDone
  <2>2. workers[a] \in Gens => w.life = W(a).life
    BY <1>2, LifeValues
  <2>3. LivesAge
    BY <2>1, <2>2, LifeSet
  <2>4. ag.gen = agent[a].gen /\ SetAgent(a, ag)
    BY <1>3 DEF TypeOK, AgentType, StopDone
  <2>5. GensStay
    BY <2>4, GenKept DEF GensStay
  <2>6. ASSUME NEW b \in Agents
        PROVE  (op'[b].pc = "fork" => op[b].pc = "fork") /\ Blamed(b)
    <3>1. op[b] \in OpType /\ op[a] \in OpType
      BY DEF TypeOK
    <3>2. CASE b = a
      <4>1. op'[a] = Free \/ (op[a].kind = "send_interrupt" /\ op'[a] = [Free EXCEPT !.kind = op[a].kind, !.pc = "admit"])
        BY <1>3 DEF StopDone
      <4>2. op'[a].pc \in {"free", "admit"} /\ op'[a].kind \in {"none", "send_interrupt"}
        <5>1. Free.pc = "free" /\ Free.kind = "none"
          BY DEF Free
        <5>2. [Free EXCEPT !.kind = "send_interrupt", !.pc = "admit"].pc = "admit"
              /\ [Free EXCEPT !.kind = "send_interrupt", !.pc = "admit"].kind = "send_interrupt"
          BY DEF Free
        <5> QED
          BY <4>1, <5>1, <5>2
      <4> QED
        BY <3>2, <4>2 DEF Blamed
    <3>3. CASE b # a
      <4>1. op'[b] \in {op[b], [op[b] EXCEPT !.pc = "refused"], [op[b] EXCEPT !.pc = op[b].back]}
        BY <1>3, <3>3 DEF StopDone
      <4> QED
        BY <3>1, <4>1 DEF OpType, Blamed
    <3> QED
      BY <3>2, <3>3
  <2> QED
    BY <2>1, <2>3, <2>5, <2>6, ReportedFew DEF Blameless, OpsBlameless
<1>4. CASE UnbootDone(a, o)
  <2> DEFINE ag == [agent[a] EXCEPT !.cleanup = o.cleanup,
                      !.state = IF op[a].kind = "spawn" THEN "crashed" ELSE agent[a].state]
  <2>1. ag.gen = agent[a].gen /\ SetAgent(a, ag)
    BY <1>4 DEF TypeOK, AgentType, UnbootDone
  <2>2. GensStay
    BY <2>1, GenKept DEF GensStay
  <2>3. workers[a] \in Gens
    BY <1>4 DEF UnbootDone, Located, LocatedAt
  <2>4. LivesAge
    <3> DEFINE w == [W(a) EXCEPT !.closed = W(a).closed \/ o.attempted]
    <3>1. SetWorker(a, w)
      BY <1>4, Zenon DEF UnbootDone
    <3>2. w.life = W(a).life
      BY <1>2, <2>3 DEF WorkerType
    <3> HIDE DEF w
    <3> QED
      BY <3>1, <3>2, LifeSet
  <2> QED
    BY <1>4, <2>2, <2>4, BlamelessSet DEF UnbootDone, Free
<1> QED
  BY <1>1, <1>3, <1>4

(* The client's mutations. *)
LEMMA BlamelessMutate ==
  ASSUME TypeOK, Located, NEW a \in Agents, Mutate(a)
  PROVE  Blameless
<1>0. workers[a] \in Gens => W(a) \in WorkerType
  BY Values
<1>1. ASSUME NEW name \in Requests, Interrupt(a, name)
      PROVE  Blameless
  BY <1>1, BlamelessKind DEF Interrupt, Kinds, AllRequests
<1>2. ASSUME NEW name \in Requests, Respawn(a, name)
      PROVE  Blameless
  <2>1. GensStay
    BY <1>2 DEF Respawn, GensStay
  <2> QED
    BY <1>2, <2>1, LifeSame, BlamelessSet DEF Respawn, Free
<1>3. ASSUME NEW v \in {"gone", "live"}, CloseOrphan(a, v)
      PROVE  Blameless
  <2>1. CASE v = "gone"
    <3> DEFINE ag == [agent[a] EXCEPT !.state = "closed", !.current = NoRun, !.cleanup = "verified"]
    <3>1. ag.gen = agent[a].gen /\ SetAgent(a, ag) /\ UNCHANGED <<op, worker, tasks>>
      BY <1>3, <2>1 DEF CloseOrphan, TypeOK, AgentType
    <3>2. GensStay
      BY <3>1, GenKept DEF GensStay
    <3> QED
      BY <3>1, <3>2, LifeSame, ReportedFew, BlamelessKept
  <2>2. CASE v # "gone"
    <3>1. GensStay
      BY <1>3, <2>2 DEF CloseOrphan, GensStay
    <3> QED
      BY <1>3, <2>2, <3>1, LifeSame, BlamelessSet DEF CloseOrphan, Free
  <2> QED
    BY <2>1, <2>2
<1>4. ASSUME NEW proved \in BOOLEAN, ReapDone(a, proved)
      PROVE  Blameless
  <2> DEFINE ag == [agent[a] EXCEPT !.state = IF proved THEN "closed" ELSE "orphaned",
                                    !.current = NoRun,
                                    !.cleanup = IF proved THEN "verified" ELSE "unknown"]
  <2>1. ag.gen = agent[a].gen /\ SetAgent(a, ag)
    BY <1>4 DEF TypeOK, AgentType, ReapDone
  <2>2. GensStay
    BY <2>1, GenKept DEF GensStay
  <2> QED
    BY <1>4, <2>2, LifeSame, BlamelessSet DEF ReapDone, Free
<1>5. CASE ConfirmCleanup(a)
  <2> DEFINE ag == [agent[a] EXCEPT !.state = "closed", !.current = NoRun, !.cleanup = "verified"]
  <2>1. ag.gen = agent[a].gen /\ SetAgent(a, ag)
    BY <1>5 DEF TypeOK, AgentType, ConfirmCleanup
  <2>2. GensStay
    BY <2>1, GenKept DEF GensStay
  <2>3. UNCHANGED <<op, worker, tasks>>
    BY <1>5 DEF ConfirmCleanup
  <2> QED
    BY <2>2, <2>3, LifeSame, ReportedFew, BlamelessKept
<1>6. CASE SendWake(a)
  <2>1. GensStay
    BY <1>6 DEF SendWake, GensStay
  <2> QED
    BY <1>6, <2>1, LifeSame, BlamelessSet DEF SendWake, Free
<1>7. CASE SoftInterrupt(a)
  <2>1. workers[a] \in Gens
    BY <1>7 DEF SoftInterrupt, Reachable, HasWorker, TypeOK, Gens
  <2>2. LivesAge
    BY <1>0, <1>7, <2>1, LifeSet, LifeValues DEF SoftInterrupt
  <2>3. GensStay
    BY <1>7, GenKept, GenSame DEF SoftInterrupt, GensStay
  <2> QED
    BY <1>7, <2>2, <2>3, BlamelessSet DEF SoftInterrupt, Free
<1>8. ASSUME NEW r \in Runs, SendIdle(a, r)
      PROVE  Blameless
  BY <1>8, BlamelessStart DEF SendIdle
<1>9. ASSUME NEW r \in Runs, SendQueued(a, r)
      PROVE  Blameless
  <2>1. UNCHANGED <<agent, op, worker, tasks>>
    BY <1>9 DEF SendQueued, memory
  <2> QED
    BY <2>1, LifeSame, ReportedFew, BlamelessKept DEF GensStay
<1>10. ASSUME NEW d \in Dialogs, Answer(a, d)
       PROVE  Blameless
  <2>1. agent'[a].gen = agent[a].gen /\ \A b \in Agents \ {a} : agent'[b] = agent[b]
    BY <1>10 DEF Answer, Dismiss, TypeOK, AgentType
  <2>2. GensStay
    BY <2>1 DEF GensStay
  <2>3. workers[a] \in Gens
    BY <1>10 DEF Answer, Reachable, HasWorker, TypeOK, Gens
  <2>4. LivesAge
    BY <1>0, <1>10, <2>3, LifeSet, LifeValues DEF Answer
  <2>5. UNCHANGED <<op, tasks>>
    BY <1>10 DEF Answer
  <2> QED
    BY <2>2, <2>4, <2>5, ReportedFew, BlamelessKept
<1> QED
  BY <1>1, <1>2, <1>3, <1>4, <1>5, <1>6, <1>7, <1>8, <1>9, <1>10 DEF Mutate

(* The replies awaited. *)
LEMMA BlamelessAwait ==
  ASSUME TypeOK, Located, NEW a \in Agents, Await(a)
  PROVE  Blameless
<1>0. op \in [Agents -> OpType] /\ LocatedAt(a) /\ (workers[a] \in Gens => W(a) \in WorkerType)
  BY Values DEF TypeOK, Located
<1>1. CASE PromptOk(a)
  <2>1. GensStay
    BY <1>1 DEF PromptOk, GensStay
  <2> QED
    BY <1>1, <2>1, LifeSame, BlamelessSet DEF PromptOk, Free
<1>2. CASE PromptRejected(a)
  <2>1. IdleAgent(agent[a]).gen = agent[a].gen /\ IdleWorker(W(a)).life = W(a).life
    BY <1>0, <1>2, GenSame, LifeValues DEF PromptRejected, LocatedAt
  <2>2. CASE op[a].kind = "settle"
    BY <1>2, <2>1, <2>2, BlamelessAdvance DEF PromptRejected
  <2>3. CASE op[a].kind # "settle"
    <3>1. /\ SetAgent(a, IdleAgent(agent[a])) /\ SetOp(a, Free) /\ UNCHANGED tasks
          /\ SetWorker(a, IdleWorker(W(a)))
      BY <1>2, <2>3 DEF PromptRejected
    <3>2. GensStay
      BY <2>1, <3>1, GenKept DEF GensStay
    <3>3. LivesAge
      BY <2>1, <3>1, LifeSet
    <3> QED
      BY <3>1, <3>2, <3>3, BlamelessSet DEF Free
  <2> QED
    BY <2>2, <2>3
<1>3. CASE PromptUncertain(a)
  <2>1. GensStay
    BY <1>3 DEF PromptUncertain, GensStay
  <2> QED
    BY <1>3, <2>1, LifeSame, BlamelessSet DEF PromptUncertain, Free
<1>4. CASE AbortConfirmed(a)
  <2>1. GensStay
    BY <1>4, GenKept, GenSame DEF AbortConfirmed, GensStay
  <2>2. LivesAge
    BY <1>0, <1>4, LifeSet, LifeValues DEF AbortConfirmed
  <2> QED
    BY <1>4, <2>1, <2>2, BlamelessSet DEF AbortConfirmed, Free
<1>5. CASE AbortForced(a)
  <2> DEFINE o == [op EXCEPT ![a].ans = "none"]
  <2>1. o \in [Agents -> OpType] /\ (\A b \in Agents \ {a} : o[b] = op[b]) /\ o[a].kind = op[a].kind
    BY <1>0 DEF OpType
  <2> HIDE DEF o
  <2>2. BeginInterrupt(a, o) /\ UNCHANGED tasks
    BY <1>5 DEF AbortForced, o
  <2> QED
    BY <2>1, <2>2, BlamelessInterrupt
<1> QED
  BY <1>1, <1>2, <1>3, <1>4, <1>5 DEF Await

(* The daemon's own coroutines: fail_worker begins only where the pipe of the resident worker
   failed, and worker_exited leaves nothing that reads. *)
LEMMA BlamelessBackground ==
  ASSUME TypeOK, Located, FailuresKnown, NEW a \in Agents, Background(a)
  PROVE  Blameless
<1>0. op \in [Agents -> OpType] /\ (workers[a] \in Gens => W(a) \in WorkerType)
  BY Values DEF TypeOK
<1>a. ASSUME UNCHANGED <<agent, op>>, LivesAge, Reported
      PROVE  Blameless
  BY <1>a, BlamelessKept DEF GensStay
<1>1. ASSUME NEW g \in Gens, StopUnowned(a, g)
      PROVE  Blameless
  <2>1. UNCHANGED agent /\ tasks' \subseteq tasks
    BY <1>1 DEF StopUnowned, Done
  <2>2. CASE StopsUnowned(a, g)
    <3> DEFINE w == [worker[a][g] EXCEPT !.stopping = TRUE]
    <3>1. SetOp(a, [Free EXCEPT !.kind = "stop_unowned", !.pc = "stop"]) /\ worker' = [worker EXCEPT ![a][g] = w]
      BY <1>1, <2>2 DEF StopUnowned, TypeOK
    <3>2. w.life = worker[a][g].life
      BY LifeValues, Values
    <3>3. LivesAge
      BY <3>1, <3>2, LifeAt
    <3> QED
      BY <2>1, <3>1, <3>3, BlamelessSet DEF Free, GensStay
  <2>3. CASE ~ StopsUnowned(a, g)
    <3>1. UNCHANGED <<worker, op>>
      BY <1>1, <2>3 DEF StopUnowned
    <3> QED
      BY <1>a, <2>1, <3>1, LifeSame, ReportedFew
  <2> QED
    BY <2>2, <2>3
<1>2. ASSUME NEW g \in Gens, FailWorker(a, g)
      PROVE  Blameless
  <2>1. UNCHANGED agent /\ tasks' \subseteq tasks
    BY <1>2 DEF FailWorker, Done
  <2>2. CASE FailsOwn(a, g)
    <3>1. /\ SetOp(a, [Free EXCEPT !.kind = "fail_worker", !.pc = "stop"]) /\ workers[a] = g
          /\ SetWorker(a, [Settled(W(a)) EXCEPT !.stopping = TRUE])
      BY <1>2, <2>2 DEF FailWorker, FailsOwn
    <3>2. LivesAge
      BY <1>0, <3>1, LifeSet, LifeValues
    <3>3. W(a).life \in Past
      <4> DEFINE t == Task("fail_worker", a, g, NoRun)
      <4>1. t \in tasks /\ t.kind = "fail_worker" /\ t.agent = a /\ t.gen = g
        BY <1>2 DEF FailWorker, Task
      <4> QED
        BY <3>1, <4>1 DEF FailuresKnown, W
    <3> QED
      BY <2>1, <3>1, <3>2, <3>3, BlamelessSet DEF Free, GensStay
  <2>3. CASE ~ FailsOwn(a, g)
    <3>1. UNCHANGED <<worker, op>>
      BY <1>2, <2>3 DEF FailWorker
    <3> QED
      BY <1>a, <2>1, <3>1, LifeSame, ReportedFew
  <2> QED
    BY <2>2, <2>3
<1>3. ASSUME NEW g \in Gens, Reaped(a, g)
      PROVE  Blameless
  <2> DEFINE w == [worker[a][g] EXCEPT !.life = "exiting"]
  <2>1. worker' = [worker EXCEPT ![a][g] = w] /\ worker[a][g].life # "none"
    BY <1>3 DEF Reaped, TypeOK
  <2>2. w.life \in Past
    BY Values DEF WorkerType, Past
  <2>3. LivesAge
    BY <2>1, <2>2, LifeAt
  <2>4. op' = op \/ op' = [op EXCEPT ![a].ans = "gone"]
    BY <1>3 DEF Reaped
  <2>5. \A b \in Agents : op'[b].pc = op[b].pc /\ op'[b].kind = op[b].kind
    BY <1>0, <2>4 DEF OpType
  <2>6. GensStay /\ UNCHANGED tasks
    BY <1>3 DEF Reaped, GensStay
  <2> QED
    BY <2>3, <2>5, <2>6, ReportedFew, BlamelessKept
<1>4. ASSUME NEW g \in Gens, NEW proved \in BOOLEAN, WorkerExited(a, g, proved)
      PROVE  Blameless
  <2> DEFINE w == [NoWorker EXCEPT !.life = "done"]
             ag == [agent[a] EXCEPT !.state = "crashed", !.current = NoRun, !.cleanup = IF proved THEN "verified" ELSE "unknown"]
  <2>1. worker' = [worker EXCEPT ![a][g] = w] /\ worker[a][g].life = "exiting" /\ UNCHANGED <<op, tasks>>
    BY <1>4 DEF WorkerExited
  <2>2. w.life \in Past
    BY DEF NoWorker, Past
  <2>3. LivesAge
    BY <2>1, <2>2, LifeAt
  <2>4. ag.gen = agent[a].gen
    BY DEF TypeOK, AgentType
  <2>5. UNCHANGED agent \/ SetAgent(a, ag)
    BY <1>4 DEF WorkerExited
  <2>6. GensStay
    BY <2>4, <2>5, GenKept DEF GensStay
  <2> QED
    BY <2>1, <2>3, <2>6, ReportedFew, BlamelessKept
<1>5. ASSUME NEW g \in Gens, NEW r \in Runs, Settle(a, g, r)
      PROVE  Blameless
  <2>1. tasks' \subseteq tasks
    BY <1>5 DEF Settle, Done
  <2>2. CASE SettleValid(a, g, r)
    <3>1. workers[a] = g /\ AdvanceQueue(a, IdleAgent(agent[a]), Finish(run, {r}, Outcome(W(a))), IdleWorker(W(a)))
      BY <1>5, <2>2 DEF SettleValid, Settle
    <3>2. IdleAgent(agent[a]).gen = agent[a].gen /\ IdleWorker(W(a)).life = W(a).life
      BY <1>0, <3>1, GenSame, LifeValues
    <3> QED
      BY <2>1, <3>1, <3>2, BlamelessAdvance
  <2>3. CASE ~ SettleValid(a, g, r)
    <3>1. UNCHANGED <<agent, worker, op>>
      BY <1>5, <2>3 DEF Settle
    <3> QED
      BY <1>a, <2>1, <3>1, LifeSame, ReportedFew
  <2> QED
    BY <2>2, <2>3
<1>6. ASSUME NEW g \in Gens, NEW r \in Runs, CheckIdle(a, g, r)
      PROVE  Blameless
  <2>1. tasks' \subseteq tasks /\ "check_idle" \in Kinds \ {"fail_worker"}
    BY <1>6 DEF CheckIdle, Done, Kinds
  <2>2. CASE TimeoutValid(a, g, r) /\ Reachable(a)
    BY <1>6, <2>1, <2>2, BlamelessKind DEF CheckIdle
  <2>3. CASE ~(TimeoutValid(a, g, r) /\ Reachable(a))
    <3>1. UNCHANGED <<agent, worker, op>>
      BY <1>6, <2>3 DEF CheckIdle
    <3> QED
      BY <1>a, <2>1, <3>1, LifeSame, ReportedFew
  <2> QED
    BY <2>2, <2>3
<1>7. CASE FallSilent(a)
  <2>1. workers[a] \in Gens /\ UNCHANGED <<agent, op, tasks>>
    BY <1>7 DEF FallSilent, HasWorker, TypeOK, Gens
  <2>2. LivesAge
    BY <1>0, <1>7, <2>1, LifeSet, LifeValues DEF FallSilent
  <2> QED
    BY <1>a, <2>1, <2>2, ReportedFew
<1>8. CASE ObserveIdle(a)
  <2>1. UNCHANGED <<agent, worker, op>> /\ tasks' = tasks \cup {Task("check_idle", a, workers[a], W(a).run)}
    BY <1>8 DEF ObserveIdle
  <2>2. Reported
    BY <2>1 DEF Reported, Task
  <2> QED
    BY <1>a, <2>1, <2>2, LifeSame
<1>9. CASE Park(a)
  <2>1. "park" \in Kinds \ {"fail_worker"}
    BY DEF Kinds
  <2> QED
    BY <1>9, <2>1, BlamelessKind DEF Park
<1> QED
  BY <1>1, <1>2, <1>3, <1>4, <1>5, <1>6, <1>7, <1>8, <1>9 DEF Background

(* The readers: one that raises spawns fail_worker for its own worker. *)
LEMMA BlamelessRead ==
  ASSUME TypeOK, Located, NEW a \in Agents, Read(a)
  PROVE  Blameless
<1>0. op \in [Agents -> OpType]
  BY DEF TypeOK
<1>1. PICK g \in Gens : \/ ReadReply(a, g) \/ ReadDropped(a, g) \/ ReadAsk(a, g) \/ ReadClosed(a, g)
                        \/ ReadEnd(a, g) \/ ReadDelta(a, g) \/ ReadStart(a, g) \/ ReaderFails(a, g)
  BY DEF Read
<1>2. worker[a][g] \in WorkerType /\ worker \in [Agents -> [Gens -> WorkerType]]
  BY DEF TypeOK
<1>3. CASE ReadReply(a, g)
  <2>1. op' = op \/ op' = [op EXCEPT ![a].ans = Head(proc[a][g].stdout).how]
    BY <1>3 DEF ReadReply
  <2>2. \A b \in Agents : op'[b].pc = op[b].pc /\ op'[b].kind = op[b].kind
    BY <1>0, <2>1 DEF OpType
  <2>3. UNCHANGED <<agent, worker, tasks>>
    BY <1>3 DEF ReadReply
  <2> QED
    BY <2>2, <2>3, LifeSame, ReportedFew, BlamelessKept DEF GensStay
<1>4. CASE ReadDropped(a, g)
  <2>1. UNCHANGED <<agent, op, worker, tasks>>
    BY <1>4 DEF ReadDropped, memory
  <2> QED
    BY <2>1, LifeSame, ReportedFew, BlamelessKept DEF GensStay
<1>5. CASE ReadAsk(a, g)
  <2> DEFINE w == [worker[a][g] EXCEPT !.ui = worker[a][g].ui \cup {Head(proc[a][g].stdout).dialog}]
  <2>1. worker' = [worker EXCEPT ![a][g] = w] /\ w.life = worker[a][g].life
    BY <1>2, <1>5 DEF ReadAsk, WorkerType
  <2>2. LivesAge
    BY <2>1, LifeAt
  <2>3. GensStay
    BY <1>5, GenKept, GenSame DEF ReadAsk, GensStay
  <2>4. UNCHANGED <<op, tasks>>
    BY <1>5 DEF ReadAsk
  <2> QED
    BY <2>2, <2>3, <2>4, ReportedFew, BlamelessKept
<1>6. CASE ReadClosed(a, g)
  <2>1. agent'[a].gen = agent[a].gen /\ \A b \in Agents \ {a} : agent'[b] = agent[b]
    BY <1>6 DEF ReadClosed, Dismiss, TypeOK, AgentType
  <2>2. GensStay
    BY <2>1 DEF GensStay
  <2>3. \A b \in Agents, h \in Gens : worker'[b][h].life = worker[b][h].life
    BY <1>2, <1>6 DEF ReadClosed, WorkerType
  <2>4. UNCHANGED <<op, tasks>>
    BY <1>6 DEF ReadClosed
  <2> QED
    BY <2>2, <2>3, <2>4, ReportedFew, BlamelessKept DEF LivesAge
<1>7. CASE ReadEnd(a, g)
  <2>1. \A b \in Agents, h \in Gens : worker'[b][h].life = worker[b][h].life
    BY <1>2, <1>7 DEF ReadEnd, WorkerType
  <2>2. UNCHANGED <<agent, op>> /\ tasks' = tasks \cup {Task("settle", a, g, Head(proc[a][g].stdout).id)}
    BY <1>7 DEF ReadEnd
  <2>3. Reported
    BY <2>2 DEF Reported, Task
  <2> QED
    BY <2>1, <2>2, <2>3, BlamelessKept DEF LivesAge, GensStay
<1>8. CASE ReadDelta(a, g)
  <2> DEFINE w == [worker[a][g] EXCEPT !.silent = FALSE]
  <2>1. worker' = [worker EXCEPT ![a][g] = w] /\ w.life = worker[a][g].life
    BY <1>2, <1>8 DEF ReadDelta, WorkerType
  <2>2. LivesAge
    BY <2>1, LifeAt
  <2>3. UNCHANGED <<agent, op, tasks>>
    BY <1>8 DEF ReadDelta
  <2> QED
    BY <2>2, <2>3, ReportedFew, BlamelessKept DEF GensStay
<1>9. CASE ReadStart(a, g)
  <2> DEFINE w == [worker[a][g] EXCEPT !.tainted = TRUE]
  <2>1. UNCHANGED worker \/ (worker' = [worker EXCEPT ![a][g] = w] /\ w.life = worker[a][g].life)
    BY <1>2, <1>9 DEF ReadStart, WorkerType
  <2>2. LivesAge
    BY <2>1, LifeAt, LifeSame
  <2>3. UNCHANGED agent \/ SetAgent(a, [agent[a] EXCEPT !.state = "dormant", !.current = NoRun])
    BY <1>9 DEF ReadStart
  <2>4. GensStay
    BY <2>3, GenKept, GenSame DEF GensStay
  <2>5. UNCHANGED op /\ tasks' \subseteq tasks \cup {Task("stop_unowned", a, g, NoRun)}
    BY <1>9 DEF ReadStart
  <2>6. Reported
    BY <2>5 DEF Reported, Task
  <2> QED
    BY <2>2, <2>4, <2>5, <2>6, BlamelessKept
<1>10. CASE ReaderFails(a, g)
  <2> DEFINE w == [worker[a][g] EXCEPT !.life = "failed"]
             t == Task("fail_worker", a, g, NoRun)
  <2>1. worker' = [worker EXCEPT ![a][g] = w] /\ w.life = "failed" /\ worker[a][g].life = "reading"
    BY <1>2, <1>10 DEF ReaderFails, WorkerType
  <2>2. LivesAge
    BY <2>1, LifeAt DEF Past
  <2>3. UNCHANGED <<agent, op>> /\ tasks' = tasks \cup {t}
    BY <1>10 DEF ReaderFails
  <2>4. t.agent = a /\ t.gen = g
    BY DEF Task
  <2>5. worker'[a][g].life \in Past
    BY <1>2, <2>1 DEF Past
  <2> HIDE DEF t
  <2>6. Reported
    BY <2>3, <2>4, <2>5 DEF Reported
  <2> QED
    BY <2>2, <2>3, <2>6, BlamelessKept DEF GensStay
<1> QED
  BY <1>1, <1>3, <1>4, <1>5, <1>6, <1>7, <1>8, <1>9, <1>10

LEMMA BlamelessShutdown ==
  ASSUME TypeOK, NEW a \in Agents, ShutdownAgent(a)
  PROVE  Blameless
<1>1. "shutdown" \in Kinds \ {"fail_worker"} /\ workers[a] \in Gens /\ W(a) \in WorkerType /\ UNCHANGED tasks
  BY Values DEF Kinds, ShutdownAgent, HasWorker, TypeOK, Gens
<1>2. CASE BeginInterrupt(a, [op EXCEPT ![a].kind = "shutdown"])
  BY <1>1, <1>2, BlamelessKind
<1>3. CASE ~ BeginInterrupt(a, [op EXCEPT ![a].kind = "shutdown"])
  <2>1. /\ SetWorker(a, [W(a) EXCEPT !.stopping = TRUE])
        /\ SetOp(a, [Free EXCEPT !.kind = "shutdown", !.pc = "stop"]) /\ UNCHANGED agent
    BY <1>3 DEF ShutdownAgent
  <2>2. LivesAge
    BY <1>1, <2>1, LifeSet, LifeValues
  <2> QED
    BY <1>1, <2>1, <2>2, BlamelessSet DEF Free, GensStay
<1> QED
  BY <1>2, <1>3

(* The daemon's death takes its workers and tasks along; a restart changes no generation. *)
LEMMA RestartGens ==
  ASSUME TypeOK, NEW v, Restart(v)
  PROVE  \A a \in Agents : agent'[a].gen = agent[a].gen
<1> SUFFICES ASSUME NEW a \in Agents
             PROVE  agent'[a].gen = agent[a].gen
  OBVIOUS
<1>1. agent[a] \in AgentType
  BY DEF TypeOK
<1>2. PICK s, c : \/ agent'[a] = [agent[a] EXCEPT !.state = s, !.cleanup = c, !.current = NoRun]
                  \/ agent'[a] = [agent[a] EXCEPT !.current = NoRun]
  BY Zenon DEF Restart
<1> QED
  BY <1>1, <1>2 DEF AgentType

LEMMA FailureDaemon ==
  ASSUME TypeOK, FailureInv, Daemon
  PROVE  FailureInv' /\ \A b \in Agents : Blamed(b)
<1>1. CASE Crash \/ ShutdownExit
  <2>1. LoseMemory
    BY <1>1 DEF Crash, ShutdownExit
  <2>2. \A a \in Agents : op'[a].kind # "fail_worker"
    BY <2>1 DEF LoseMemory, Free
  <2>3. \A a \in Agents, g \in Gens : worker'[a][g].life = "none"
    BY <2>1 DEF LoseMemory, NoWorker
  <2>4. tasks' = {}
    BY <2>1 DEF LoseMemory
  <2> QED
    BY <2>2, <2>3, <2>4 DEF FailureInv, FailuresKnown, Numbered, Blamed
<1>2. CASE BeginShutdown
  <2>1. UNCHANGED <<agent, op, worker, tasks>>
    BY <1>2 DEF BeginShutdown
  <2> QED
    BY <2>1 DEF FailureInv, FailuresKnown, Numbered, Blamed
<1>3. ASSUME NEW v, Restart(v)
      PROVE  FailureInv' /\ \A b \in Agents : Blamed(b)
  <2>1. UNCHANGED <<op, worker, tasks>>
    BY <1>3, Zenon DEF Restart, memory
  <2>2. \A a \in Agents : agent'[a].gen = agent[a].gen
    BY <1>3, RestartGens
  <2> QED
    BY <2>1, <2>2 DEF FailureInv, FailuresKnown, Numbered, Blamed
<1> QED
  BY <1>1, <1>2, <1>3 DEF Daemon

LEMMA FailureStep ==
  ASSUME TypeOK, Located, FailureInv, [Next]_vars
  PROVE  FailureInv' /\ \A b \in Agents : Blamed(b)
<1>1. ASSUME Blameless
      PROVE  FailureInv' /\ \A b \in Agents : Blamed(b)
  BY <1>1, BlamelessKeeps DEF Blameless, OpsBlameless
<1>2. ASSUME NEW a \in Agents, Boot(a)
      PROVE  FailureInv' /\ \A b \in Agents : Blamed(b)
  BY <1>1, <1>2, BlamelessBoot, NamesNext, RegistersFresh
<1>3. ASSUME NEW a \in Agents, Stop(a) \/ Mutate(a) \/ Await(a) \/ Background(a) \/ Read(a) \/ ShutdownAgent(a)
      PROVE  FailureInv' /\ \A b \in Agents : Blamed(b)
  BY <1>1, <1>3, BlamelessStop, BlamelessMutate, BlamelessAwait, BlamelessBackground, BlamelessRead, BlamelessShutdown DEF FailureInv
<1>4. CASE (\E a \in Agents : Process(a)) \/ UNCHANGED vars
  <2>1. UNCHANGED <<agent, op, worker, tasks>>
    BY <1>4, ProcessKeeps DEF vars, memory
  <2> QED
    BY <1>1, <2>1, LifeSame, ReportedFew, BlamelessKept DEF GensStay
<1> QED
  BY <1>2, <1>3, <1>4, FailureDaemon DEF Next

(* For any faults, agents, generations and schedules, a reader error that waited behind an
   interrupt, an eviction, a crash or a respawn only ever stops the worker whose pipe failed
   (worker.py read_stdout, runtime.py fail_worker). *)
THEOREM FailuresStayLocal == Spec => ReaderFailureIsLocal
<1> DEFINE Inv == TypeOK /\ Located /\ FailureInv
<1>1. Init => Inv
  <2>1. Init => FailureInv
    BY DEF Init, FailureInv, FailuresKnown, Numbered, NoWorker
  <2> QED
    BY <2>1, TypeInit
<1>2. Inv /\ [Next]_vars => Inv'
  BY TypeStep, FailureStep
<1>3. Inv /\ [Next]_vars =>
        [\A a \in Agents : op[a].kind # "fail_worker" /\ op'[a].kind = "fail_worker" => W(a).life # "reading"]_vars
  BY FailureStep DEF Blamed, Past
<1> HIDE DEF Inv
<1> QED
  BY <1>1, <1>2, <1>3, PTL DEF Spec, ReaderFailureIsLocal
------------------------------------------------------------------------------
(* Only a silent run is timed out.  check_idle waits for the agent's lock between the silence
   it saw and the interrupt, so the proof reads the deadline where the lock is taken; every
   other action that names a coroutine gives it another kind.                               *)

Watchful(b) == op'[b].kind = "check_idle" => op[b].kind = "check_idle" \/ Expired(W(b))
Patient == \A b \in Agents : Watchful(b)

(* A coroutine that nobody names keeps its kind. *)
LEMMA PatientSame ==
  ASSUME \A b \in Agents : op'[b].kind \in {op[b].kind, "none", "evict"}
  PROVE  Patient
BY DEF Patient, Watchful

(* One lock's holder moves on. *)
LEMMA PatientSet ==
  ASSUME TypeOK, NEW a \in Agents, NEW o, SetOp(a, o), o.kind = op[a].kind \/ o.kind # "check_idle"
  PROVE  Patient
<1>1. op'[a] = o /\ \A b \in Agents \ {a} : op'[b] = op[b]
  BY DEF SetOp, TypeOK
<1> QED
  BY <1>1 DEF Patient, Watchful

(* interrupt, for whoever calls it. *)
LEMMA PatientInterrupt ==
  ASSUME NEW a \in Agents, NEW o \in [Agents -> OpType], BeginInterrupt(a, o),
         \A b \in Agents : o[b].kind = "check_idle" => op[b].kind = "check_idle" \/ Expired(W(b))
  PROVE  Patient
<1>1. \A b \in Agents : op'[b].kind = o[b].kind
  BY DEF BeginInterrupt, OpType
<1> QED
  BY <1>1 DEF Patient, Watchful

(* interrupt by a caller of its own kind. *)
LEMMA PatientKind ==
  ASSUME TypeOK, NEW a \in Agents, NEW k \in Kinds, k = "check_idle" => Expired(W(a)),
         BeginInterrupt(a, [op EXCEPT ![a].kind = k])
  PROVE  Patient
<1> DEFINE o == [op EXCEPT ![a].kind = k]
<1>1. op \in [Agents -> OpType] /\ op[a] \in OpType
  BY DEF TypeOK
<1>2. [op[a] EXCEPT !.kind = k] \in OpType /\ [op[a] EXCEPT !.kind = k].kind = k
  BY <1>1 DEF OpType
<1>3. o \in [Agents -> OpType] /\ (\A b \in Agents \ {a} : o[b] = op[b]) /\ o[a].kind = k
  BY <1>1, <1>2
<1>4. BeginInterrupt(a, o)
  OBVIOUS
<1> HIDE DEF o
<1>5. \A b \in Agents : o[b].kind = "check_idle" => op[b].kind = "check_idle" \/ Expired(W(b))
  BY <1>3
<1> QED
  BY <1>3, <1>4, <1>5, PatientInterrupt

(* start_run, for whoever calls it. *)
LEMMA PatientStart ==
  ASSUME TypeOK, NEW a \in Agents, NEW r, NEW ag, NEW rs, NEW w, NEW k, StartRun(a, r, ag, rs, w, k),
         k = op[a].kind \/ k # "check_idle"
  PROVE  Patient
<1> DEFINE o == [Free EXCEPT !.kind = k, !.pc = "prompt", !.ans = IF Exited(a, workers[a]) THEN "gone" ELSE "none"]
<1>1. SetOp(a, o)
  BY Zenon DEF StartRun
<1>2. o.kind = k
  BY DEF Free
<1> HIDE DEF o
<1> QED
  BY <1>1, <1>2, PatientSet

(* advance_queue, for whoever calls it. *)
LEMMA PatientAdvance ==
  ASSUME TypeOK, NEW a \in Agents, NEW ag, NEW rs, NEW w, AdvanceQueue(a, ag, rs, w)
  PROVE  Patient
<1>1. CASE StartRun(a, NextQueued(rs, a), ag, rs, w, "settle")
  BY <1>1, PatientStart
<1>2. CASE SetOp(a, Free)
  BY <1>2, PatientSet DEF Free
<1> QED
  BY <1>1, <1>2 DEF AdvanceQueue

(* spawn_agent and _boot_worker: their own coroutine, and the eviction of an idle worker. *)
LEMMA PatientBoot ==
  ASSUME TypeOK, NEW a \in Agents, Boot(a)
  PROVE  Patient
<1>0. op \in [Agents -> OpType] /\ op[a] \in OpType
  BY DEF TypeOK
<1>1. CASE Spawn(a) \/ SkipVictim(a) \/ BootRefused(a) \/ ForkFails(a) \/ EvictionRefused(a)
  <2>1. \/ SetOp(a, [Free EXCEPT !.kind = "spawn", !.pc = "admit"])
        \/ SetOp(a, [op[a] EXCEPT !.pc = "capacity"]) \/ SetOp(a, Free)
    BY <1>1 DEF Spawn, SkipVictim, BootRefused, ForkFails, EvictionRefused, AbortBoot
  <2>2. /\ [Free EXCEPT !.kind = "spawn", !.pc = "admit"].kind = "spawn" /\ Free.kind = "none"
        /\ [op[a] EXCEPT !.pc = "capacity"].kind = op[a].kind
    BY <1>0 DEF Free, OpType
  <2> QED
    BY <2>1, <2>2, PatientSet
<1>2. CASE Admit(a) \/ AdmitWriter(a) \/ Register(a) \/ ReadyFails(a)
  <2>1. PICK s \in {"writer", "capacity", "ready", "unboot"} : SetOp(a, [op[a] EXCEPT !.pc = s])
    BY <1>2 DEF Admit, AdmitWriter, Register, ReadyFails
  <2>2. [op[a] EXCEPT !.pc = s].kind = op[a].kind
    BY <1>0 DEF OpType
  <2> QED
    BY <2>1, <2>2, PatientSet
<1>3. CASE BeforeSpawn(a)
  <2> DEFINE o == [op[a] EXCEPT !.pc = "fork", !.tried = {}, !.victim = None, !.back = "free", !.vgen = 0]
  <2>1. SetOp(a, o) /\ o.kind = op[a].kind
    BY <1>0, <1>3 DEF BeforeSpawn, OpType
  <2> HIDE DEF o
  <2> QED
    BY <2>1, PatientSet
<1>4. ASSUME NEW r \in Runs, SpawnInsert(a, r)
      PROVE  Patient
  <2> DEFINE o == [op[a] EXCEPT !.pc = "capacity", !.tried = {}]
  <2>1. SetOp(a, o) /\ o.kind = op[a].kind
    BY <1>0, <1>4 DEF SpawnInsert, OpType
  <2> HIDE DEF o
  <2> QED
    BY <2>1, PatientSet
<1>5. ASSUME NEW b \in Agents, PickVictim(a, b)
      PROVE  Patient
  <2> DEFINE o == [op[a] EXCEPT !.pc = "lock", !.victim = b, !.vgen = workers[b], !.back = op[a].pc,
                                !.tried = op[a].tried \cup {b}]
  <2>1. SetOp(a, o) /\ o.kind = op[a].kind
    BY <1>0, <1>5 DEF PickVictim, OpType
  <2> HIDE DEF o
  <2> QED
    BY <2>1, PatientSet
<1>6. CASE Fork(a)
  <2>1. UNCHANGED op
    BY <1>6 DEF Fork, memory
  <2> QED
    BY <2>1, PatientSame
<1>7. CASE LockVictim(a)
  <2> DEFINE b == op[a].victim
             o == [op EXCEPT ![a].pc = "victim", ![b].kind = "evict"]
  <2>1. BeginInterrupt(b, o)
    BY <1>7 DEF LockVictim
  <2>2. \A c \in Agents : op'[c].kind \in {op[c].kind, "evict"}
    <3>1. op' = [o EXCEPT ![b].pc = "stop"]
      BY <2>1 DEF BeginInterrupt
    <3> QED
      BY <1>0, <3>1 DEF OpType
  <2> QED
    BY <2>2, PatientSame
<1>8. CASE ReadyOk(a)
  <2> DEFINE ag == [agent[a] EXCEPT !.state = "idle", !.cleanup = "not_checked"]
  <2>1. \/ \E r, rs : StartRun(a, r, ag, rs, W(a), op[a].kind)
        \/ \E rs : StartRun(a, Oldest(Unused), ag, rs, W(a), op[a].kind)
        \/ SetOp(a, Free)
    BY <1>8 DEF ReadyOk
  <2> HIDE DEF ag
  <2> QED
    BY <2>1, PatientStart, PatientSet DEF Free
<1> QED
  BY <1>1, <1>2, <1>3, <1>4, <1>5, <1>6, <1>7, <1>8 DEF Boot

(* The end of terminate_worker hands back a lock and, after an eviction, the booter's wait. *)
LEMMA PatientStop ==
  ASSUME TypeOK, NEW a \in Agents, Stop(a)
  PROVE  Patient
<1>0. op \in [Agents -> OpType]
  BY DEF TypeOK
<1>1. PICK o \in [cleanup: {"verified", "unknown"}, attempted: BOOLEAN, st: ProcStates] :
        StopDone(a, o) \/ UnbootDone(a, o)
  BY DEF Stop
<1>2. CASE StopDone(a, o)
  <2>1. ASSUME NEW b \in Agents
        PROVE  op'[b].kind \in {op[b].kind, "none", "send_interrupt"}
    <3>1. \/ op'[b] = Free \/ op'[b] = op[b]
          \/ op'[b] = [Free EXCEPT !.kind = "send_interrupt", !.pc = "admit"]
          \/ \E s \in Steps : op'[b] = [op[b] EXCEPT !.pc = s]
      BY <1>0, <1>2 DEF StopDone, OpType, Steps
    <3>2. Free.kind = "none" /\ [Free EXCEPT !.kind = "send_interrupt", !.pc = "admit"].kind = "send_interrupt"
      BY DEF Free
    <3>3. op[b] \in OpType
      BY <1>0
    <3>4. \A s \in Steps : [op[b] EXCEPT !.pc = s].kind = op[b].kind
      BY <3>3 DEF OpType
    <3> QED
      BY <3>1, <3>2, <3>4
  <2> QED
    BY <2>1 DEF Patient, Watchful
<1>3. CASE UnbootDone(a, o)
  <2>1. SetOp(a, Free)
    BY <1>3 DEF UnbootDone
  <2> QED
    BY <2>1, PatientSet DEF Free
<1> QED
  BY <1>1, <1>2, <1>3

(* The client's requests, each under its own name. *)
LEMMA PatientMutate ==
  ASSUME TypeOK, NEW a \in Agents, Mutate(a)
  PROVE  Patient
<1>1. ASSUME NEW name \in Requests, Interrupt(a, name)
      PROVE  Patient
  <2>1. name \in {"interrupt", "send_interrupt", "close"} /\ BeginInterrupt(a, [op EXCEPT ![a].kind = name])
    BY <1>1 DEF Interrupt
  <2>2. name \in Kinds /\ name # "check_idle"
    BY <2>1 DEF Kinds, AllRequests
  <2> QED
    BY <2>1, <2>2, PatientKind
<1>2. CASE \/ \E name \in Requests : Respawn(a, name)
           \/ \E v \in {"gone", "live"} : CloseOrphan(a, v)
           \/ SendWake(a) \/ SoftInterrupt(a) \/ \E proved \in BOOLEAN : ReapDone(a, proved)
  <2>1. \/ UNCHANGED op \/ SetOp(a, Free)
        \/ \E k \in {"respawn", "respawn_message", "send", "close", "soft_interrupt"}, s \in Steps :
             SetOp(a, [Free EXCEPT !.kind = k, !.pc = s])
    BY <1>2 DEF Respawn, CloseOrphan, SendWake, SoftInterrupt, ReapDone, Steps
  <2>2. /\ Free.kind = "none"
        /\ \A k \in {"respawn", "respawn_message", "send", "close", "soft_interrupt"}, s \in Steps :
             [Free EXCEPT !.kind = k, !.pc = s].kind = k
    BY DEF Free
  <2>3. CASE UNCHANGED op
    BY <2>3, PatientSame
  <2>4. ASSUME NEW k \in {"respawn", "respawn_message", "send", "close", "soft_interrupt"}, NEW s \in Steps,
               SetOp(a, [Free EXCEPT !.kind = k, !.pc = s])
        PROVE  Patient
    BY <2>2, <2>4, PatientSet
  <2>5. CASE SetOp(a, Free)
    BY <2>2, <2>5, PatientSet
  <2> QED
    BY <2>1, <2>3, <2>4, <2>5
<1>3. CASE ConfirmCleanup(a) \/ (\E r \in Runs : SendQueued(a, r)) \/ \E d \in Dialogs : Answer(a, d)
  <2>1. UNCHANGED op
    BY <1>3 DEF ConfirmCleanup, SendQueued, Answer, memory
  <2> QED
    BY <2>1, PatientSame
<1>4. ASSUME NEW r \in Runs, SendIdle(a, r)
      PROVE  Patient
  BY <1>4, PatientStart DEF SendIdle
<1> QED
  BY <1>1, <1>2, <1>3, <1>4 DEF Mutate

(* The replies awaited under the lock. *)
LEMMA PatientAwait ==
  ASSUME TypeOK, NEW a \in Agents, Await(a)
  PROVE  Patient
<1>0. op \in [Agents -> OpType]
  BY DEF TypeOK
<1>1. CASE PromptOk(a) \/ PromptUncertain(a) \/ AbortConfirmed(a)
  <2>1. SetOp(a, Free)
    BY <1>1 DEF PromptOk, PromptUncertain, AbortConfirmed
  <2> QED
    BY <2>1, PatientSet DEF Free
<1>2. CASE PromptRejected(a)
  <2>1. SetOp(a, Free) \/ \E rs : AdvanceQueue(a, IdleAgent(agent[a]), rs, IdleWorker(W(a)))
    BY <1>2 DEF PromptRejected
  <2> QED
    BY <2>1, PatientSet, PatientAdvance DEF Free
<1>3. CASE AbortForced(a)
  <2>1. op' = [[op EXCEPT ![a].ans = "none"] EXCEPT ![a].pc = "stop"]
    BY <1>3 DEF AbortForced, BeginInterrupt
  <2>2. \A b \in Agents : op'[b].kind = op[b].kind
    BY <1>0, <2>1 DEF OpType
  <2> QED
    BY <2>2, PatientSame
<1> QED
  BY <1>1, <1>2, <1>3 DEF Await

(* What the daemon spawns itself: check_idle reads the deadline again under the lock. *)
LEMMA PatientBackground ==
  ASSUME TypeOK, NEW a \in Agents, Background(a)
  PROVE  Patient
<1>0. op \in [Agents -> OpType]
  BY DEF TypeOK
<1>1. ASSUME NEW g \in Gens, NEW r \in Runs, CheckIdle(a, g, r)
      PROVE  Patient
  <2>1. UNCHANGED op \/ (Expired(W(a)) /\ BeginInterrupt(a, [op EXCEPT ![a].kind = "check_idle"]))
    BY <1>1 DEF CheckIdle, TimeoutValid
  <2>2. "check_idle" \in Kinds
    BY DEF Kinds
  <2> QED
    BY <2>1, <2>2, PatientSame, PatientKind
<1>2. ASSUME NEW g \in Gens, NEW r \in Runs, Settle(a, g, r)
      PROVE  Patient
  <2>1. UNCHANGED op \/ \E rs : AdvanceQueue(a, IdleAgent(agent[a]), rs, IdleWorker(W(a)))
    BY <1>2 DEF Settle
  <2> QED
    BY <2>1, PatientSame, PatientAdvance
<1>3. ASSUME NEW g \in Gens, StopUnowned(a, g) \/ FailWorker(a, g)
      PROVE  Patient
  <2>1. \/ UNCHANGED op
        \/ \E k \in {"stop_unowned", "fail_worker"} : SetOp(a, [Free EXCEPT !.kind = k, !.pc = "stop"])
    BY <1>3 DEF StopUnowned, FailWorker
  <2>2. \A k \in {"stop_unowned", "fail_worker"} : [Free EXCEPT !.kind = k, !.pc = "stop"].kind = k
    BY DEF Free
  <2> QED
    BY <2>1, <2>2, PatientSame, PatientSet
<1>4. ASSUME NEW g \in Gens, Reaped(a, g)
      PROVE  Patient
  <2>1. op' = op \/ op' = [op EXCEPT ![a].ans = "gone"]
    BY <1>4 DEF Reaped
  <2>2. \A b \in Agents : op'[b].kind = op[b].kind
    BY <1>0, <2>1 DEF OpType
  <2> QED
    BY <2>2, PatientSame
<1>5. CASE FallSilent(a) \/ ObserveIdle(a) \/ \E g \in Gens, proved \in BOOLEAN : WorkerExited(a, g, proved)
  <2>1. UNCHANGED op
    BY <1>5 DEF FallSilent, ObserveIdle, WorkerExited
  <2> QED
    BY <2>1, PatientSame
<1>6. CASE Park(a)
  BY <1>6, PatientKind DEF Park, Kinds
<1> QED
  BY <1>1, <1>2, <1>3, <1>4, <1>5, <1>6 DEF Background

(* Every step names coroutines after what they do. *)
LEMMA PatientStep ==
  ASSUME TypeOK, [Next]_vars
  PROVE  Patient
<1>0. op \in [Agents -> OpType]
  BY DEF TypeOK
<1>1. ASSUME NEW a \in Agents, Read(a)
      PROVE  Patient
  <2>1. UNCHANGED op \/ \E x : op' = [op EXCEPT ![a].ans = x]
    BY <1>1 DEF Read, ReadReply, ReadDropped, ReadAsk, ReadClosed, ReadEnd, ReadDelta, ReadStart,
                ReaderFails, memory
  <2>2. \A b \in Agents : op'[b].kind = op[b].kind
    BY <1>0, <2>1 DEF OpType
  <2> QED
    BY <2>2, PatientSame
<1>2. ASSUME NEW a \in Agents, ShutdownAgent(a)
      PROVE  Patient
  <2>1. \/ BeginInterrupt(a, [op EXCEPT ![a].kind = "shutdown"])
        \/ SetOp(a, [Free EXCEPT !.kind = "shutdown", !.pc = "stop"])
    BY <1>2 DEF ShutdownAgent
  <2>2. [Free EXCEPT !.kind = "shutdown", !.pc = "stop"].kind = "shutdown" /\ "shutdown" \in Kinds
    BY DEF Free, Kinds
  <2> QED
    BY <2>1, <2>2, PatientKind, PatientSet
<1>3. CASE Daemon
  <2>1. UNCHANGED op \/ op' = [a \in Agents |-> Free]
    BY <1>3 DEF Daemon, Crash, BeginShutdown, ShutdownExit, Restart, LoseMemory, memory
  <2> QED
    BY <2>1, PatientSame DEF Free
<1>4. CASE (\E a \in Agents : Process(a)) \/ UNCHANGED vars
  <2>1. UNCHANGED op
    BY <1>4, ProcessKeeps DEF vars, memory
  <2> QED
    BY <2>1, PatientSame
<1> QED
  BY <1>1, <1>2, <1>3, <1>4, PatientBoot, PatientStop, PatientMutate, PatientAwait,
     PatientBackground DEF Next

(* The watchdog interrupts a run only if its model output is still overdue, with no question
   open, when it holds the agent's lock (runtime.py check_idle). *)
THEOREM WatchdogIsPatient == Spec => WatchdogStopsSilentRun
<1>1. TypeOK /\ [Next]_vars => [\A a \in Agents : op[a].kind # "check_idle" /\ op'[a].kind = "check_idle" => Expired(W(a))]_vars
  BY PatientStep DEF Patient, Watchful
<1> QED
  BY <1>1, TypeCorrect, PTL DEF Spec, WatchdogStopsSilentRun
------------------------------------------------------------------------------
(* Outcomes are final and projections match the ledger: ProjectionsActive is
   inductive with the type invariant, and whatever starts, finishes or moves a run
   either leaves its projection alone or replaces it in the same segment.        *)

Waiting == {"absent", "queued", "starting"}
Projected == {"running", "needs_input"}

\* A daemon that is down projects nothing.
DownIsEmpty == ~up => \A a \in Agents, g \in Gens : worker[a][g].run = NoRun

OutcomeInv == TypeOK /\ Located /\ DownIsEmpty /\ ProjectionsActive

\* The ledger rs is the one of this state, but for runs nobody projects yet, runs
\* that ask or stop asking, and the end of run e.
Ended(rs, e) ==
  \A r \in Runs :
    \/ rs[r] = run[r]
    \/ run[r].state \in Waiting
    \/ run[r].state \in Projected /\ rs[r].state \in Projected
    \/ r = e /\ run[r].state \notin Terminal /\ rs[r].state \in Terminal

\* What the Worker of generation h of b projects was projected before and goes on.
Carried(b, h) ==
  worker'[b][h].run # NoRun =>
    worker'[b][h].run = worker[b][h].run /\ run'[worker[b][h].run].state \in Projected

Final == \A r \in Runs : run[r].state \in Terminal => run'[r] = run[r]

\* The two kinds of steps: no run starts, or exactly one does.
StepKeeps == Final /\ \A b \in Agents, h \in Gens : Carried(b, h)
StepStarts(a, g, r) ==
  /\ Final /\ worker'[a][g].run = r
  /\ run[r].state \notin Projected /\ run'[r].state \in Projected
  /\ \A b \in Agents, h \in Gens : <<b, h>> # <<a, g>> => Carried(b, h)
StepOk == StepKeeps \/ \E a \in Agents, g \in Gens, r \in Runs : StepStarts(a, g, r)

------------------------------------------------------------------------------
(* The two kinds of steps preserve ProjectionsActive. *)

LEMMA ProjectedRun ==
  ASSUME TypeOK, NEW a \in Agents, NEW g \in Gens, worker[a][g].run # NoRun
  PROVE  worker[a][g].run \in Runs
<1>1. worker[a][g] \in WorkerType
  BY DEF TypeOK
<1> QED
  BY <1>1, BoundsAssumption DEF WorkerType, Runs, NoRun

(* A step that starts at most one run, on a run nobody projects, preserves ProjectionsActive. *)
LEMMA StepProjects ==
  ASSUME TypeOK, ProjectionsActive, StepOk
  PROVE  ProjectionsActive'
<1>1. ASSUME StepKeeps
      PROVE  ProjectionsActive'
  BY <1>1 DEF StepKeeps, Carried, ProjectionsActive, Projected
<1>2. ASSUME NEW a \in Agents, NEW g \in Gens, NEW r \in Runs, StepStarts(a, g, r)
      PROVE  ProjectionsActive'
  <2> SUFFICES ASSUME NEW b \in Agents, NEW h \in Gens, worker'[b][h].run # NoRun
               PROVE  /\ run'[worker'[b][h].run].state \in Projected
                      /\ \A c \in Agents, i \in Gens :
                           worker'[c][i].run = worker'[b][h].run => <<c, i>> = <<b, h>>
    BY DEF ProjectionsActive, Projected
  <2>1. \A c \in Agents, i \in Gens : <<c, i>> # <<a, g>> /\ worker'[c][i].run # NoRun =>
          /\ worker'[c][i].run = worker[c][i].run
          /\ worker[c][i].run # r
          /\ run'[worker[c][i].run].state \in Projected
    BY <1>2 DEF StepStarts, Carried, ProjectionsActive, Projected
  <2>2. worker'[a][g].run = r /\ run'[r].state \in Projected
    BY <1>2 DEF StepStarts
  <2>3. CASE <<b, h>> = <<a, g>>
    <3>1. b = a /\ h = g
      BY <2>3
    <3>2. worker'[b][h].run = r
      BY <2>2, <3>1
    <3>3. ASSUME NEW c \in Agents, NEW i \in Gens, worker'[c][i].run = worker'[b][h].run
          PROVE  <<c, i>> = <<b, h>>
      BY <2>1, <2>3, <3>2, <3>3
    <3> QED
      BY <2>2, <3>2, <3>3
  <2>4. CASE <<b, h>> # <<a, g>>
    <3>1. /\ worker'[b][h].run = worker[b][h].run /\ worker[b][h].run # r
          /\ run'[worker[b][h].run].state \in Projected
      BY <2>1, <2>4
    <3>2. ASSUME NEW c \in Agents, NEW i \in Gens, worker'[c][i].run = worker'[b][h].run
          PROVE  <<c, i>> = <<b, h>>
      <4>1. <<c, i>> # <<a, g>>
        BY <2>2, <3>1, <3>2
      <4>2. worker[c][i].run = worker[b][h].run /\ worker[b][h].run # NoRun
        BY <2>1, <3>1, <3>2, <4>1
      <4> QED
        BY <4>2 DEF ProjectionsActive
    <3> QED
      BY <3>1, <3>2
  <2> QED
    BY <2>3, <2>4
<1> QED
  BY <1>1, <1>2 DEF StepOk

------------------------------------------------------------------------------
(* What the segments do to the ledger. *)

LEMMA States ==
  /\ Waiting \cap Projected = {} /\ Waiting \cap Terminal = {} /\ Projected \cap Terminal = {}
  /\ RunStates = Waiting \cup Projected \cup Terminal
BY DEF Waiting, Projected, Terminal, RunStates, Active

(* The ledger as it is. *)
LEMMA EndedSame == \A e : Ended(run, e)
BY DEF Ended

(* Store.finish ends exactly the run it is given, unless that run is over already. *)
LEMMA FinishEnded ==
  ASSUME TypeOK, NEW e, NEW s \in Terminal
  PROVE  Ended(Finish(run, {e}, s), e)
<1> SUFFICES ASSUME NEW r \in Runs
             PROVE  \/ Finish(run, {e}, s)[r] = run[r]
                    \/ r = e /\ run[r].state \notin Terminal /\ Finish(run, {e}, s)[r].state \in Terminal
  BY DEF Ended
<1>1. run[r] \in RunType
  BY DEF TypeOK
<1> QED
  BY <1>1 DEF Finish, RunType, Terminal, Active

\* The same after some queued runs were cancelled.
LEMMA FinishAfter ==
  ASSUME TypeOK, NEW rs \in [Runs -> RunType], NEW e, Ended(rs, NoRun)
  PROVE  Ended(Finish(rs, {e}, "failed"), e)
<1> DEFINE f == Finish(rs, {e}, "failed")
<1>1. ASSUME NEW r \in Runs
      PROVE  f[r] = rs[r] \/ (r = e /\ rs[r].state \notin Terminal /\ f[r].state \in Terminal)
  <2>1. rs[r] \in RunType
    OBVIOUS
  <2> QED
    BY <2>1 DEF Finish, RunType, Terminal, Active
<1>2. ASSUME NEW r \in Runs
      PROVE  \/ rs[r] = run[r] \/ run[r].state \in Waiting
             \/ run[r].state \in Projected /\ rs[r].state \in Projected
  BY BoundsAssumption DEF Ended, Runs, NoRun
<1> HIDE DEF f
<1>3. Ended(f, e)
  <2> SUFFICES ASSUME NEW r \in Runs
               PROVE  \/ f[r] = run[r]
                      \/ run[r].state \in Waiting
                      \/ run[r].state \in Projected /\ f[r].state \in Projected
                      \/ r = e /\ run[r].state \notin Terminal /\ f[r].state \in Terminal
    BY DEF Ended
  <2> QED
    BY <1>1, <1>2, States
<1> QED
  BY <1>3 DEF f

(* cancel_queued only ends runs that wait. *)
LEMMA CancelEnded ==
  ASSUME TypeOK, NEW rs \in [Runs -> RunType], NEW e, NEW a, Ended(rs, e)
  PROVE  Ended(CancelQueued(rs, a), e)
<1> DEFINE c == CancelQueued(rs, a)
<1>1. ASSUME NEW r \in Runs
      PROVE  c[r] = rs[r] \/ rs[r].state = "queued"
  BY DEF CancelQueued, Finish, Queued
<1>2. ASSUME NEW r \in Runs, rs[r].state = "queued"
      PROVE  run[r].state \in Waiting
  BY <1>2 DEF Ended, Waiting, Projected, Terminal
<1> HIDE DEF c
<1>3. Ended(c, e)
  BY <1>1, <1>2 DEF Ended
<1> QED
  BY <1>3 DEF c

\* Boots that fail only end runs that are starting.
LEMMA StartingEnded ==
  ASSUME TypeOK, NEW S, \A r \in S \cap Runs : run[r].state = "starting", NEW s, NEW e
  PROVE  Ended(Finish(run, S, s), e)
BY DEF Ended, Finish, Waiting

------------------------------------------------------------------------------
(* What the segments do to ledger and projections together. *)

Drops == \A b \in Agents, h \in Gens : worker'[b][h].run \in {worker[b][h].run, NoRun}

(* Whoever ends at most one run, and none that is over, keeps every outcome. *)
LEMMA EndedFinal ==
  ASSUME TypeOK, NEW e, Ended(run', e)
  PROVE  Final
BY States DEF Ended, Final

(* A step that ends a run which no Worker goes on projecting. *)
LEMMA EndStep ==
  ASSUME TypeOK, ProjectionsActive, NEW e, Ended(run', e), Drops,
         \A b \in Agents, h \in Gens : worker'[b][h].run # NoRun => worker[b][h].run # e
  PROVE  StepOk
<1>1. Final
  BY EndedFinal
<1>2. ASSUME NEW b \in Agents, NEW h \in Gens, worker'[b][h].run # NoRun
      PROVE  worker'[b][h].run = worker[b][h].run /\ run'[worker[b][h].run].state \in Projected
  <2>1. worker'[b][h].run = worker[b][h].run
    BY <1>2 DEF Drops
  <2>2. worker[b][h].run \in Runs /\ run[worker[b][h].run].state \in Projected
    BY <1>2, <2>1, ProjectedRun DEF ProjectionsActive, Projected
  <2> QED
    BY <1>2, <2>1, <2>2, States DEF Ended
<1> QED
  BY <1>1, <1>2 DEF StepOk, StepKeeps, Carried

\* Nothing ends that a Worker projects.
LEMMA KeepStep ==
  ASSUME TypeOK, ProjectionsActive, Ended(run', NoRun), Drops
  PROVE  StepOk
<1>1. \A b \in Agents, h \in Gens : worker'[b][h].run # NoRun => worker[b][h].run # NoRun
  BY DEF Drops
<1> QED
  BY <1>1, EndStep

\* A Worker that loses the run which ends.
LEMMA SettleStep ==
  ASSUME TypeOK, ProjectionsActive, NEW a \in Agents, NEW g \in Gens,
         Ended(run', worker[a][g].run), NEW w, w.run = NoRun,
         worker' = [worker EXCEPT ![a][g] = w]
  PROVE  StepOk
<1>1. worker'[a][g].run = NoRun
  BY DEF TypeOK
<1>2. \A b \in Agents, h \in Gens : <<b, h>> # <<a, g>> => worker'[b][h] = worker[b][h]
  BY DEF TypeOK
<1>3. Drops
  BY <1>1, <1>2 DEF Drops
<1>4. \A b \in Agents, h \in Gens : worker'[b][h].run # NoRun => worker[b][h].run # worker[a][g].run
  BY <1>1, <1>2 DEF ProjectionsActive
<1> QED
  BY <1>3, <1>4, EndStep

(* start_run replaces the projection of a run that is over by one that waited. *)
LEMMA StartStep ==
  ASSUME TypeOK, ProjectionsActive, NEW a \in Agents, workers[a] \in Gens,
         NEW r \in Runs, NEW rs \in [Runs -> RunType], NEW ag, NEW w, NEW k,
         Ended(rs, W(a).run), run[r].state \in Waiting, StartRun(a, r, ag, rs, w, k)
  PROVE  StepOk
<1> DEFINE g == workers[a]
<1>1. worker'[a][workers[a]].run = r
  BY DEF StartRun, SetWorker, TypeOK, NewWorker, NoWorker
<1>2. \A b \in Agents, h \in Gens : <<b, h>> # <<a, g>> => worker'[b][h] = worker[b][h]
  BY DEF StartRun, SetWorker, TypeOK
<1>3. run'[r].state = "running" /\ \A q \in Runs \ {r} : run'[q] = rs[q]
  BY DEF StartRun, RunType
<1>4. Final
  <2> SUFFICES ASSUME NEW q \in Runs, run[q].state \in Terminal
               PROVE  run'[q] = run[q]
    BY DEF Final
  <2>1. q # r
    BY States
  <2>2. rs[q] = run[q]
    BY States DEF Ended
  <2> QED
    BY <1>3, <2>1, <2>2
<1>5. ASSUME NEW b \in Agents, NEW h \in Gens, <<b, h>> # <<a, g>>, worker'[b][h].run # NoRun
      PROVE  worker'[b][h].run = worker[b][h].run /\ run'[worker[b][h].run].state \in Projected
  <2> DEFINE q == worker[b][h].run
  <2>1. worker'[b][h].run = worker[b][h].run
    BY <1>2, <1>5
  <2>2. q \in Runs /\ run[q].state \in Projected
    BY <1>5, <2>1, ProjectedRun DEF ProjectionsActive, Projected
  <2>3. q # r
    BY <2>2, States
  <2>4. q # W(a).run
    BY <1>5, <2>1 DEF ProjectionsActive, W
  <2>5. rs[q].state \in Projected
    BY <2>2, <2>4, States DEF Ended
  <2> QED
    BY <1>3, <2>1, <2>2, <2>3, <2>5
<1>6. run[r].state \notin Projected /\ run'[r].state \in Projected
  BY <1>3, States DEF Projected
<1>7. \E gg \in Gens : StepStarts(a, gg, r)
  BY <1>1, <1>4, <1>5, <1>6 DEF StepStarts, Carried
<1> QED
  BY <1>7 DEF StepOk

(* advance_queue starts a run that waited, or leaves the worker idle. *)
LEMMA AdvanceStep ==
  ASSUME TypeOK, ProjectionsActive, NEW a \in Agents, workers[a] \in Gens,
         NEW rs \in [Runs -> RunType], NEW ag, NEW w, w.run = NoRun,
         Ended(rs, W(a).run), AdvanceQueue(a, ag, rs, w)
  PROVE  StepOk
<1>1. CASE ~closing /\ Queued(rs, a) # {} /\ ~Exited(a, workers[a])
  <2> DEFINE r == NextQueued(rs, a)
  <2>1. r \in Runs /\ rs[r].state = "queued"
    BY <1>1, OldestExists DEF NextQueued, Queued
  <2>2. run[r].state \in Waiting
    BY <2>1 DEF Ended, Waiting, Projected, Terminal
  <2>3. StartRun(a, r, ag, rs, w, "settle")
    BY <1>1 DEF AdvanceQueue
  <2> HIDE DEF r
  <2> QED
    BY <2>1, <2>2, <2>3, StartStep
<1>2. CASE ~(~closing /\ Queued(rs, a) # {} /\ ~Exited(a, workers[a]))
  <2>1. run' = rs /\ SetWorker(a, w)
    BY <1>2 DEF AdvanceQueue
  <2> QED
    BY <2>1, SettleStep DEF SetWorker, W
<1> QED
  BY <1>1, <1>2

------------------------------------------------------------------------------
(* Every action is one of the two kinds of steps. *)

LEMMA SameStep ==
  ASSUME TypeOK, ProjectionsActive, UNCHANGED <<run, worker>>
  PROVE  StepOk
BY EndedSame, KeepStep DEF Drops

(* One Worker changes, and projects what it did or nothing. *)
LEMMA DropsAt ==
  ASSUME TypeOK, NEW a \in Agents, NEW g, NEW w,
         g \in Gens => w.run \in {worker[a][g].run, NoRun},
         worker' = [worker EXCEPT ![a][g] = w]
  PROVE  Drops
BY DEF TypeOK, Drops

\* A Worker of which only flags or dialogs change.
LEMMA FlagStep ==
  ASSUME TypeOK, ProjectionsActive, Ended(run', NoRun), NEW a \in Agents, NEW g, NEW w,
         g \in Gens => w.run = worker[a][g].run, worker' = [worker EXCEPT ![a][g] = w]
  PROVE  StepOk
<1>1. Drops
  BY DropsAt
<1> QED
  BY <1>1, KeepStep

(* cancel_queued ends no run that is projected. *)
LEMMA CancelStep ==
  ASSUME TypeOK, NEW a
  PROVE  Ended(CancelQueued(run, a), NoRun)
BY EndedSame, CancelEnded DEF TypeOK

(* Runtime.add_run takes an id that was never used. *)
LEMMA AddEnded ==
  ASSUME TypeOK, NEW a \in Agents, NEW r \in Unused, NEW s \in RunStates, NEW e
  PROVE  /\ Ended(AddRun(a, r, s), e) /\ AddRun(a, r, s) \in [Runs -> RunType]
         /\ r \in Runs /\ run[r].state \in Waiting
<1>1. r \in Runs /\ run[r].state = "absent"
  BY DEF Unused
<1>2. \A q \in Runs : q # r => AddRun(a, r, s)[q] = run[q]
  BY DEF AddRun, TypeOK
<1>3. Ended(AddRun(a, r, s), e)
  BY <1>1, <1>2 DEF Ended, Waiting
<1> QED
  BY <1>1, <1>3, AddRunType DEF Waiting

(* interrupt, up to its await, keeps every projection. *)
LEMMA InterruptStep ==
  ASSUME TypeOK, ProjectionsActive, NEW a \in Agents, NEW o, BeginInterrupt(a, o)
  PROVE  StepOk
<1> DEFINE w == [W(a) EXCEPT !.stopping = TRUE]
<1>1. workers[a] \in Gens => w.run = worker[a][workers[a]].run
  BY DEF TypeOK, WorkerType, W
<1>2. worker' = [worker EXCEPT ![a][workers[a]] = w] /\ run' = CancelQueued(run, a)
  BY DEF BeginInterrupt, SetWorker
<1> HIDE DEF w
<1> QED
  BY <1>1, <1>2, CancelStep, FlagStep

(* A boot that raises ends its own run, which nobody projects yet. *)
LEMMA AbortStep ==
  ASSUME TypeOK, ProjectionsActive, NEW a \in Agents, AbortBoot(a), UNCHANGED worker
  PROVE  StepOk
<1> DEFINE S == {r \in Runs : run[r] = [state |-> "starting", owner |-> a]}
<1>1. run' = run \/ run' = Finish(run, S, "failed")
  BY DEF AbortBoot
<1>2. Ended(run', NoRun)
  BY <1>1, StartingEnded, EndedSame
<1> QED
  BY <1>2, KeepStep DEF Drops

(* A boot starts its run only once, on the worker it registered. *)
LEMMA BootStep ==
  ASSUME TypeOK, Located, ProjectionsActive, NEW a \in Agents, Boot(a)
  PROVE  StepOk
<1>1. CASE \/ Spawn(a) \/ Admit(a) \/ AdmitWriter(a) \/ BeforeSpawn(a) \/ Fork(a) \/ ForkFails(a)
           \/ \E b \in Agents : PickVictim(a, b)
  BY <1>1, SameStep DEF Spawn, Admit, AdmitWriter, BeforeSpawn, Fork, ForkFails, PickVictim, memory
<1>2. CASE LockVictim(a)
  <2>1. op[a].victim \in Agents
    BY <1>2 DEF LockVictim, Located, LocatedAt
  <2>2. \E o : BeginInterrupt(op[a].victim, o)
    BY <1>2 DEF LockVictim
  <2> QED
    BY <2>1, <2>2, InterruptStep
<1>3. CASE SkipVictim(a)
  <2>1. CASE op[a].back = "capacity"
    BY <1>3, <2>1, SameStep DEF SkipVictim
  <2>2. CASE op[a].back # "capacity"
    BY <1>3, <2>2, AbortStep DEF SkipVictim
  <2> QED
    BY <2>1, <2>2
<1>4. CASE BootRefused(a) \/ EvictionRefused(a)
  BY <1>4, AbortStep DEF BootRefused, EvictionRefused
<1>5. CASE Register(a)
  <2>1. NewWorker.run = NoRun
    BY DEF NewWorker, NoWorker
  <2>2. worker' = [worker EXCEPT ![a][agent[a].gen] = NewWorker] /\ run' = run
    BY <1>5 DEF Register
  <2> QED
    BY <2>1, <2>2, DropsAt, EndedSame, KeepStep
<1>6. CASE ReadyOk(a)
  <2> DEFINE ag == [agent[a] EXCEPT !.state = "idle", !.cleanup = "not_checked"]
  <2>1. workers[a] \in Gens
    BY <1>6 DEF ReadyOk, Located, LocatedAt
  <2>2. \/ \E r \in Runs : \E k : run[r].state = "starting" /\ StartRun(a, r, ag, run, W(a), k)
        \/ \E k : Unused # {} /\ StartRun(a, Oldest(Unused), ag, AddRun(a, Oldest(Unused), "queued"), W(a), k)
        \/ UNCHANGED <<run, worker>>
    BY <1>6 DEF ReadyOk
  <2>3. ASSUME NEW r \in Runs, NEW k, run[r].state = "starting", StartRun(a, r, ag, run, W(a), k)
        PROVE  StepOk
    <3>1. run \in [Runs -> RunType] /\ run[r].state \in Waiting
      BY <2>3 DEF TypeOK, Waiting
    <3> QED
      BY <2>1, <2>3, <3>1, EndedSame, StartStep
  <2>4. ASSUME NEW k, Unused # {},
               StartRun(a, Oldest(Unused), ag, AddRun(a, Oldest(Unused), "queued"), W(a), k)
        PROVE  StepOk
    <3>1. Oldest(Unused) \in Unused
      BY <2>4, OldestExists DEF Unused
    <3>2. "queued" \in RunStates
      BY DEF RunStates
    <3> QED
      BY <2>1, <2>4, <3>1, <3>2, AddEnded, StartStep
  <2> QED
    BY <2>2, <2>3, <2>4, SameStep
<1>7. CASE ReadyFails(a)
  <2> DEFINE w == [W(a) EXCEPT !.stopping = TRUE]
  <2>1. workers[a] \in Gens => w.run = worker[a][workers[a]].run
    BY DEF TypeOK, WorkerType, W
  <2>2. worker' = [worker EXCEPT ![a][workers[a]] = w] /\ run' = run
    BY <1>7 DEF ReadyFails, SetWorker
  <2> HIDE DEF w
  <2> QED
    BY <2>1, <2>2, EndedSame, FlagStep
<1>8. ASSUME NEW r \in Runs, SpawnInsert(a, r)
      PROVE  StepOk
  <2>1. run' = AddRun(a, r, "starting") /\ r \in Unused /\ worker' = worker
    BY <1>8 DEF SpawnInsert
  <2>2. "starting" \in RunStates
    BY DEF RunStates, Active
  <2> QED
    BY <2>1, <2>2, AddEnded, KeepStep DEF Drops
<1> QED
  BY <1>1, <1>2, <1>3, <1>4, <1>5, <1>6, <1>7, <1>8 DEF Boot

(* The run that a termination ends is dropped by the worker that projected it. *)
LEMMA StopStep ==
  ASSUME TypeOK, Located, ProjectionsActive, NEW a \in Agents, Stop(a)
  PROVE  StepOk
<1>1. PICK o \in [cleanup: {"verified", "unknown"}, attempted: BOOLEAN, st: ProcStates] :
        StopDone(a, o) \/ UnbootDone(a, o)
  BY DEF Stop
<1>2. CASE StopDone(a, o)
  <2> DEFINE own == EndsWith(a, op[a].kind)
             w == [(IF own = {} THEN W(a) ELSE Settled(W(a)))
                     EXCEPT !.closed = W(a).closed \/ o.attempted, !.stopping = TRUE]
             s == IF op[a].kind = "check_idle" THEN "timed_out" ELSE "interrupted"
  <2>1. worker' = [worker EXCEPT ![a][workers[a]] = w] /\ run' = Finish(run, own, s)
    BY <1>2 DEF StopDone, SetWorker
  <2>2. s \in Terminal
    BY DEF Terminal
  <2>3. CASE own = {}
    <3>1. workers[a] \in Gens => w.run = worker[a][workers[a]].run
      BY <2>3 DEF TypeOK, WorkerType, W
    <3>2. Finish(run, {}, s) = run
      BY DEF Finish, TypeOK
    <3> HIDE DEF w
    <3> QED
      BY <2>1, <2>3, <3>1, <3>2, EndedSame, FlagStep
  <2>4. CASE own # {}
    <3>1. own = {W(a).run} /\ op[a].kind # "stop_unowned"
      BY <2>4 DEF EndsWith, InterruptKinds
    <3>2. workers[a] \in Gens
      BY <1>2, <3>1 DEF StopDone, Located, LocatedAt
    <3>3. W(a) \in WorkerType
      BY <3>2, Values
    <3>4. w.run = NoRun
      BY <2>4, <3>3 DEF Settled, WorkerType
    <3>5. Ended(run', worker[a][workers[a]].run)
      BY <2>1, <2>2, <3>1, FinishEnded DEF W
    <3> HIDE DEF w
    <3> QED
      BY <2>1, <3>2, <3>4, <3>5, SettleStep
  <2> QED
    BY <2>3, <2>4
<1>3. CASE UnbootDone(a, o)
  <2> DEFINE S == {r \in Runs : run[r] = [state |-> "starting", owner |-> a]}
             w == [W(a) EXCEPT !.closed = W(a).closed \/ o.attempted]
  <2>1. run' = run \/ run' = Finish(run, S, "failed")
    BY <1>3 DEF UnbootDone
  <2>2. Ended(run', NoRun)
    BY <2>1, StartingEnded, EndedSame
  <2>3. workers[a] \in Gens => w.run = worker[a][workers[a]].run
    BY DEF TypeOK, WorkerType, W
  <2>4. worker' = [worker EXCEPT ![a][workers[a]] = w]
    BY <1>3 DEF UnbootDone, SetWorker
  <2> HIDE DEF w
  <2> QED
    BY <2>2, <2>3, <2>4, FlagStep
<1> QED
  BY <1>1, <1>2, <1>3

\* dismiss_ui moves the projected run, if any, from needs_input to running.
LEMMA DismissEnded ==
  ASSUME TypeOK, NEW a, NEW d, NEW ag, NEW w, Dismiss(a, d, ag, run, w)
  PROVE  Ended(run', NoRun)
BY DEF Dismiss, Ended, Projected, TypeOK, RunType

(* The client's mutations end no projected run and start only new ones. *)
LEMMA MutateStep ==
  ASSUME TypeOK, Located, ProjectionsActive, NEW a \in Agents, Mutate(a)
  PROVE  StepOk
<1>1. ASSUME NEW name, Interrupt(a, name)
      PROVE  StepOk
  BY <1>1, InterruptStep DEF Interrupt
<1>2. ASSUME \/ \E name \in Requests : Respawn(a, name)
             \/ \E v \in {"gone", "live"} : CloseOrphan(a, v)
             \/ \E proved \in BOOLEAN : ReapDone(a, proved)
             \/ ConfirmCleanup(a) \/ SendWake(a)
      PROVE  StepOk
  BY <1>2, SameStep DEF Respawn, CloseOrphan, ReapDone, ConfirmCleanup, SendWake
<1>3. CASE SoftInterrupt(a)
  <2> DEFINE w == [W(a) EXCEPT !.stopping = TRUE, !.cancelled = TRUE]
  <2>1. workers[a] \in Gens => w.run = worker[a][workers[a]].run
    BY DEF TypeOK, WorkerType, W
  <2>2. worker' = [worker EXCEPT ![a][workers[a]] = w] /\ run' = CancelQueued(run, a)
    BY <1>3 DEF SoftInterrupt, SetWorker
  <2> HIDE DEF w
  <2> QED
    BY <2>1, <2>2, CancelStep, FlagStep
<1>4. ASSUME NEW r \in Runs, SendIdle(a, r)
      PROVE  StepOk
  <2>1. workers[a] \in Gens
    BY <1>4 DEF SendIdle, Reachable, HasWorker, TypeOK, Gens
  <2>2. r \in Unused /\ StartRun(a, r, agent[a], AddRun(a, r, "queued"), W(a), "send")
    BY <1>4 DEF SendIdle
  <2>3. "queued" \in RunStates
    BY DEF RunStates
  <2> QED
    BY <2>1, <2>2, <2>3, AddEnded, StartStep
<1>5. ASSUME NEW r \in Runs, SendQueued(a, r)
      PROVE  StepOk
  <2>1. run' = AddRun(a, r, "queued") /\ r \in Unused /\ worker' = worker
    BY <1>5 DEF SendQueued, memory
  <2>2. "queued" \in RunStates
    BY DEF RunStates
  <2> QED
    BY <2>1, <2>2, AddEnded, KeepStep DEF Drops
<1>6. ASSUME NEW d \in Dialogs, Answer(a, d)
      PROVE  StepOk
  <2> DEFINE w == [W(a) EXCEPT !.ui = W(a).ui \ {d}, !.silent = FALSE]
  <2>1. workers[a] \in Gens => w.run = worker[a][workers[a]].run
    BY DEF TypeOK, WorkerType, W
  <2>2. worker' = [worker EXCEPT ![a][workers[a]] = w] /\ Dismiss(a, d, agent[a], run, W(a))
    BY <1>6 DEF Answer, SetWorker
  <2> HIDE DEF w
  <2> QED
    BY <2>1, <2>2, DismissEnded, FlagStep
<1> QED
  BY <1>1, <1>2, <1>3, <1>4, <1>5, <1>6 DEF Mutate

\* A run that ends while its worker is dropped or idled.
LEMMA IdleStep ==
  ASSUME TypeOK, ProjectionsActive, NEW a \in Agents, workers[a] \in Gens,
         NEW s \in Terminal, run' = Finish(run, {W(a).run}, s), SetWorker(a, IdleWorker(W(a)))
  PROVE  StepOk
<1>1. IdleWorker(W(a)).run = NoRun
  BY Values DEF IdleWorker, Settled, WorkerType
<1>2. Ended(run', worker[a][workers[a]].run)
  BY FinishEnded DEF W
<1> QED
  BY <1>1, <1>2, SettleStep DEF SetWorker

(* A rejected start and a confirmed abort drop the run they end. *)
LEMMA AwaitStep ==
  ASSUME TypeOK, Located, ProjectionsActive, NEW a \in Agents, Await(a)
  PROVE  StepOk
<1>0. {"failed", "interrupted"} \subseteq Terminal
  BY DEF Terminal
<1>1. CASE PromptOk(a) \/ PromptUncertain(a)
  BY <1>1, SameStep DEF PromptOk, PromptUncertain, KeepUncertain
<1>2. CASE PromptRejected(a)
  <2> DEFINE rs == Finish(run, {W(a).run}, "failed")
  <2>1. workers[a] \in Gens
    BY <1>2 DEF PromptRejected, Located, LocatedAt
  <2>2. IdleWorker(W(a)).run = NoRun
    BY <2>1, Values DEF IdleWorker, Settled, WorkerType
  <2>3. rs \in [Runs -> RunType] /\ Ended(rs, W(a).run)
    BY <1>0, FinishType, FinishEnded, States DEF TypeOK
  <2>4. CASE op[a].kind = "settle"
    <3>1. AdvanceQueue(a, IdleAgent(agent[a]), rs, IdleWorker(W(a)))
      BY <1>2, <2>4 DEF PromptRejected
    <3> HIDE DEF rs
    <3> QED
      BY <2>1, <2>2, <2>3, <3>1, AdvanceStep
  <2>5. CASE op[a].kind # "settle"
    BY <1>0, <1>2, <2>1, <2>5, IdleStep DEF PromptRejected
  <2> QED
    BY <2>4, <2>5
<1>3. CASE AbortConfirmed(a)
  <2>1. workers[a] \in Gens
    BY <1>3 DEF AbortConfirmed, Located, LocatedAt
  <2> QED
    BY <1>0, <1>3, <2>1, IdleStep DEF AbortConfirmed
<1>4. CASE AbortForced(a)
  BY <1>4, InterruptStep DEF AbortForced
<1> QED
  BY <1>1, <1>2, <1>3, <1>4 DEF Await

(* settle, fail_worker and worker_exited drop the run they end. *)
LEMMA BackgroundStep ==
  ASSUME TypeOK, Located, ProjectionsActive, NEW a \in Agents, Background(a)
  PROVE  StepOk
<1>1. ASSUME NEW g \in Gens, StopUnowned(a, g)
      PROVE  StepOk
  <2>1. CASE StopsUnowned(a, g)
    <3> DEFINE w == [worker[a][g] EXCEPT !.stopping = TRUE]
    <3>1. w.run = worker[a][g].run
      BY DEF TypeOK, WorkerType
    <3>2. worker' = [worker EXCEPT ![a][g] = w] /\ run' = CancelQueued(run, a)
      BY <1>1, <2>1 DEF StopUnowned, TypeOK
    <3> HIDE DEF w
    <3> QED
      BY <3>1, <3>2, CancelStep, FlagStep
  <2>2. CASE ~StopsUnowned(a, g)
    BY <1>1, <2>2, SameStep DEF StopUnowned
  <2> QED
    BY <2>1, <2>2
<1>2. ASSUME NEW g \in Gens, FailWorker(a, g)
      PROVE  StepOk
  <2>1. CASE FailsOwn(a, g)
    <3> DEFINE w == [Settled(W(a)) EXCEPT !.stopping = TRUE]
               rs == CancelQueued(run, a)
    <3>1. workers[a] \in Gens
      BY <2>1 DEF FailsOwn
    <3>2. w.run = NoRun
      BY <3>1, Values DEF Settled, WorkerType
    <3>3. worker' = [worker EXCEPT ![a][workers[a]] = w] /\ run' = Finish(rs, {W(a).run}, "failed")
      BY <1>2, <2>1 DEF FailWorker, SetWorker
    <3>4. rs \in [Runs -> RunType] /\ Ended(rs, NoRun)
      BY CancelQueuedType, CancelStep DEF TypeOK
    <3>5. Ended(run', W(a).run)
      BY <3>3, <3>4, FinishAfter
    <3> HIDE DEF w
    <3> QED
      BY <3>1, <3>2, <3>3, <3>5, SettleStep DEF W
  <2>2. CASE ~FailsOwn(a, g)
    BY <1>2, <2>2, SameStep DEF FailWorker
  <2> QED
    BY <2>1, <2>2
<1>3. ASSUME NEW g \in Gens, Reaped(a, g)
      PROVE  StepOk
  <2> DEFINE w == [worker[a][g] EXCEPT !.life = "exiting"]
  <2>1. w.run = worker[a][g].run
    BY DEF TypeOK, WorkerType
  <2>2. worker' = [worker EXCEPT ![a][g] = w] /\ run' = run
    BY <1>3 DEF Reaped, TypeOK
  <2> HIDE DEF w
  <2> QED
    BY <2>1, <2>2, EndedSame, FlagStep
<1>4. ASSUME NEW g \in Gens, NEW proved \in BOOLEAN, WorkerExited(a, g, proved)
      PROVE  StepOk
  <2> DEFINE w == [NoWorker EXCEPT !.life = "done"]
             e == worker[a][g].run
             s == IF worker[a][g].stopping THEN "interrupted" ELSE "crashed"
  <2>1. w.run = NoRun
    BY DEF NoWorker
  <2>2. worker' = [worker EXCEPT ![a][g] = w]
    BY <1>4 DEF WorkerExited
  <2>3. run' = run \/ run' = CancelQueued(Finish(run, {e}, s), a)
    BY <1>4 DEF WorkerExited
  <2>4. s \in Terminal /\ Terminal \subseteq RunStates
    BY States DEF Terminal
  <2>5. Finish(run, {e}, s) \in [Runs -> RunType] /\ Ended(Finish(run, {e}, s), e)
    BY <2>4, FinishType, FinishEnded DEF TypeOK
  <2> HIDE DEF w, s
  <2>6. Ended(run', e)
    BY <2>3, <2>5, CancelEnded, EndedSame
  <2> QED
    BY <2>1, <2>2, <2>6, SettleStep
<1>5. ASSUME NEW g \in Gens, NEW r \in Runs, Settle(a, g, r)
      PROVE  StepOk
  <2>1. CASE SettleValid(a, g, r)
    <3> DEFINE s == Outcome(W(a))
               rs == Finish(run, {r}, s)
    <3>1. workers[a] \in Gens /\ W(a).run = r
      BY <2>1 DEF SettleValid
    <3>2. IdleWorker(W(a)).run = NoRun
      BY <3>1, Values DEF IdleWorker, Settled, WorkerType
    <3>3. s \in Terminal /\ Terminal \subseteq RunStates
      BY States DEF Outcome, Terminal
    <3>4. rs \in [Runs -> RunType] /\ Ended(rs, W(a).run)
      BY <3>1, <3>3, FinishType, FinishEnded DEF TypeOK
    <3>5. AdvanceQueue(a, IdleAgent(agent[a]), rs, IdleWorker(W(a)))
      BY <1>5, <2>1 DEF Settle
    <3> HIDE DEF rs
    <3> QED
      BY <3>1, <3>2, <3>4, <3>5, AdvanceStep
  <2>2. CASE ~SettleValid(a, g, r)
    BY <1>5, <2>2, SameStep DEF Settle
  <2> QED
    BY <2>1, <2>2
<1>6. ASSUME NEW g \in Gens, NEW r \in Runs, CheckIdle(a, g, r)
      PROVE  StepOk
  BY <1>6, InterruptStep, SameStep DEF CheckIdle
<1>7. CASE FallSilent(a)
  <2> DEFINE w == [W(a) EXCEPT !.silent = TRUE]
  <2>1. workers[a] \in Gens => w.run = worker[a][workers[a]].run
    BY DEF TypeOK, WorkerType, W
  <2>2. worker' = [worker EXCEPT ![a][workers[a]] = w] /\ run' = run
    BY <1>7 DEF FallSilent, SetWorker
  <2> HIDE DEF w
  <2> QED
    BY <2>1, <2>2, EndedSame, FlagStep
<1>8. CASE ObserveIdle(a)
  BY <1>8, SameStep DEF ObserveIdle
<1>9. CASE Park(a)
  BY <1>9, InterruptStep DEF Park
<1> QED
  BY <1>1, <1>2, <1>3, <1>4, <1>5, <1>6, <1>7, <1>8, <1>9 DEF Background

(* A frame asks, answers or ends only for the run its worker projects. *)
LEMMA ReadStep ==
  ASSUME TypeOK, ProjectionsActive, NEW a \in Agents, Read(a)
  PROVE  StepOk
<1>1. PICK g \in Gens : \/ ReadReply(a, g) \/ ReadDropped(a, g) \/ ReadAsk(a, g) \/ ReadClosed(a, g)
                        \/ ReadEnd(a, g) \/ ReadDelta(a, g) \/ ReadStart(a, g) \/ ReaderFails(a, g)
  BY DEF Read
<1> DEFINE w == worker[a][g]
           f == Head(proc[a][g].stdout)
<1>0. worker \in [Agents -> [Gens -> WorkerType]] /\ w \in WorkerType
  BY DEF TypeOK
<1>2. CASE ReadReply(a, g) \/ ReadDropped(a, g)
  BY <1>2, SameStep DEF ReadReply, ReadDropped, memory
<1>3. CASE ReadAsk(a, g)
  <2>1. f.id = w.run /\ w.run # NoRun
    BY <1>3 DEF ReadAsk, Heeded
  <2>2. w.run \in Runs /\ run[w.run].state \in Projected
    BY <2>1, ProjectedRun DEF ProjectionsActive, Projected
  <2>3. run' = [run EXCEPT ![w.run].state = "needs_input"]
    BY <1>3, <2>1 DEF ReadAsk
  <2>4. Ended(run', NoRun)
    BY <2>2, <2>3 DEF Ended, Projected, TypeOK, RunType
  <2> DEFINE v == [w EXCEPT !.ui = w.ui \cup {f.dialog}]
  <2>5. v.run = w.run /\ worker' = [worker EXCEPT ![a][g] = v]
    BY <1>0, <1>3 DEF ReadAsk, WorkerType
  <2> HIDE DEF v
  <2> QED
    BY <2>4, <2>5, FlagStep
<1>4. CASE ReadClosed(a, g)
  <2> DEFINE v == [w EXCEPT !.ui = w.ui \ {f.dialog}, !.silent = w.silent /\ f.dialog \notin w.ui]
  <2>1. v.run = w.run /\ worker' = [worker EXCEPT ![a][g] = v]
    BY <1>0, <1>4 DEF ReadClosed, WorkerType
  <2>2. Ended(run', NoRun)
    BY <1>4, DismissEnded DEF ReadClosed
  <2> HIDE DEF v
  <2> QED
    BY <2>1, <2>2, FlagStep
<1>5. CASE ReadEnd(a, g)
  <2> DEFINE v == [w EXCEPT !.cancelled = w.cancelled \/ f.how = "cancelled",
                            !.failed = w.failed \/ f.how = "error"]
  <2>1. v.run = w.run /\ worker' = [worker EXCEPT ![a][g] = v]
    <3>1. worker' = [worker EXCEPT ![a][g] = v]
      BY <1>5 DEF ReadEnd
    <3>2. v.run = w.run
      BY <1>0 DEF WorkerType
    <3> QED
      BY <3>1, <3>2
  <2>2. Ended(run', NoRun)
    BY <1>5, CancelStep, EndedSame DEF ReadEnd
  <2> HIDE DEF v
  <2> QED
    BY <2>1, <2>2, FlagStep
<1>6. CASE ReadDelta(a, g)
  <2> DEFINE v == [w EXCEPT !.silent = FALSE]
  <2>1. v.run = w.run /\ worker' = [worker EXCEPT ![a][g] = v] /\ run' = run
    BY <1>0, <1>6 DEF ReadDelta, WorkerType
  <2> HIDE DEF v
  <2> QED
    BY <2>1, EndedSame, FlagStep
<1>7. CASE ReadStart(a, g)
  <2> DEFINE v == [w EXCEPT !.tainted = TRUE]
  <2>1. v.run = w.run
    BY <1>0 DEF WorkerType
  <2>2. run' = run /\ (worker' = worker \/ worker' = [worker EXCEPT ![a][g] = v])
    BY <1>0, <1>7 DEF ReadStart
  <2> HIDE DEF v
  <2> QED
    BY <2>1, <2>2, EndedSame, FlagStep, SameStep
<1>8. CASE ReaderFails(a, g)
  <2> DEFINE v == [w EXCEPT !.life = "failed"]
  <2>1. v.run = w.run /\ worker' = [worker EXCEPT ![a][g] = v] /\ run' = run
    BY <1>0, <1>8 DEF ReaderFails, WorkerType
  <2> HIDE DEF v
  <2> QED
    BY <2>1, EndedSame, FlagStep
<1> QED
  BY <1>1, <1>2, <1>3, <1>4, <1>5, <1>6, <1>7, <1>8

(* The child reaches neither the ledger nor the projections. *)
LEMMA ProcessStep ==
  ASSUME TypeOK, ProjectionsActive, NEW a \in Agents, Process(a)
  PROVE  StepOk
<1>1. UNCHANGED <<run, worker>>
  BY ProcessKeeps DEF memory
<1> QED
  BY <1>1, SameStep

(* _reconcile ends what the ledger left open, and nobody projects it. *)
LEMMA DaemonStep ==
  ASSUME TypeOK, DownIsEmpty, ProjectionsActive,
         Daemon \/ \E a \in Agents : ShutdownAgent(a)
  PROVE  StepOk
<1>1. CASE Crash \/ ShutdownExit
  <2>1. run' = run /\ Drops
    BY <1>1 DEF Crash, ShutdownExit, LoseMemory, Drops, NoWorker
  <2> QED
    BY <2>1, EndedSame, KeepStep
<1>2. CASE BeginShutdown
  BY <1>2, SameStep DEF BeginShutdown
<1>3. ASSUME NEW v, Restart(v)
      PROVE  StepOk
  <2>1. \A b \in Agents, h \in Gens : worker'[b][h].run = NoRun
    BY <1>3 DEF Restart, memory, DownIsEmpty
  <2>2. Final
    BY <1>3 DEF Restart, Reconciled, Finish, Final, Terminal, Active, TypeOK
  <2> QED
    BY <2>1, <2>2 DEF StepOk, StepKeeps, Carried
<1>4. ASSUME NEW a \in Agents, ShutdownAgent(a)
      PROVE  StepOk
  <2>1. CASE \E o : BeginInterrupt(a, o)
    BY <2>1, InterruptStep
  <2>2. CASE ~\E o : BeginInterrupt(a, o)
    <3> DEFINE w == [W(a) EXCEPT !.stopping = TRUE]
    <3>1. workers[a] \in Gens => w.run = worker[a][workers[a]].run
      BY DEF TypeOK, WorkerType, W
    <3>2. worker' = [worker EXCEPT ![a][workers[a]] = w] /\ run' = run
      BY <1>4, <2>2 DEF ShutdownAgent, SetWorker
    <3> HIDE DEF w
    <3> QED
      BY <3>1, <3>2, EndedSame, FlagStep
  <2> QED
    BY <2>1, <2>2
<1> QED
  BY <1>1, <1>2, <1>3, <1>4 DEF Daemon

(* Every step of the system is one of the two kinds. *)
LEMMA NextStep ==
  ASSUME OutcomeInv, [Next]_vars
  PROVE  StepOk
<1> USE DEF OutcomeInv
<1>1. ASSUME NEW a \in Agents, \/ Boot(a) \/ Stop(a) \/ Mutate(a) \/ Await(a) \/ Background(a)
                               \/ Read(a) \/ Process(a)
      PROVE  StepOk
  BY <1>1, BootStep, StopStep, MutateStep, AwaitStep, BackgroundStep, ReadStep, ProcessStep
<1>2. CASE Daemon \/ \E a \in Agents : ShutdownAgent(a)
  BY <1>2, DaemonStep
<1>3. CASE UNCHANGED vars
  BY <1>3, SameStep DEF vars, memory
<1> QED
  BY <1>1, <1>2, <1>3 DEF Next

------------------------------------------------------------------------------
(* DownIsEmpty: whoever changes a Worker needs a daemon that is up. *)

(* Whoever changes a Worker or registers one needs a daemon that is up. *)
LEMMA UpSteps ==
  ASSUME NEW a \in Agents, \/ Boot(a) \/ Stop(a) \/ Mutate(a) \/ Await(a) \/ Background(a)
                           \/ Read(a) \/ ShutdownAgent(a)
  PROVE  up' = TRUE
<1>1. CASE Boot(a)
  BY <1>1 DEF Boot, Spawn, Admit, LockVictim, SkipVictim, BootRefused, AdmitWriter, BeforeSpawn,
              Fork, ForkFails, Register, ReadyOk, ReadyFails, EvictionRefused, SpawnInsert,
              PickVictim, LockFree
<1>2. CASE Stop(a)
  BY <1>2 DEF Stop, StopDone, UnbootDone
<1>3. CASE Mutate(a)
  BY <1>3 DEF Mutate, Interrupt, Respawn, CloseOrphan, ReapDone, ConfirmCleanup, SendWake,
              SoftInterrupt, SendIdle, SendQueued, Answer, Request, LockFree
<1>4. CASE Await(a)
  BY <1>4 DEF Await, PromptOk, PromptRejected, PromptUncertain, AbortConfirmed, AbortForced
<1>5. CASE Background(a)
  BY <1>5 DEF Background, StopUnowned, FailWorker, Reaped, WorkerExited, Settle, CheckIdle,
              FallSilent, ObserveIdle, Park, LockFree
<1>6. CASE Read(a)
  BY <1>6 DEF Read, ReadReply, ReadDropped, ReadAsk, ReadClosed, ReadEnd, ReadDelta, ReadStart,
              ReaderFails, Heads
<1>7. CASE ShutdownAgent(a)
  BY <1>7 DEF ShutdownAgent, LockFree
<1> QED
  BY <1>1, <1>2, <1>3, <1>4, <1>5, <1>6, <1>7

LEMMA DownStep ==
  ASSUME DownIsEmpty, [Next]_vars
  PROVE  DownIsEmpty'
<1>1. ASSUME NEW a \in Agents, \/ Boot(a) \/ Stop(a) \/ Mutate(a) \/ Await(a) \/ Background(a)
                               \/ Read(a) \/ ShutdownAgent(a)
      PROVE  up' = TRUE
  BY <1>1, UpSteps
<1>2. ASSUME NEW a \in Agents, Process(a)
      PROVE  UNCHANGED <<up, worker>>
  BY <1>2, ProcessKeeps DEF memory
<1>3. CASE Daemon
  <2>1. CASE Crash \/ ShutdownExit
    <3>1. worker' = [a \in Agents |-> [g \in Gens |-> NoWorker]]
      BY <2>1 DEF Crash, ShutdownExit, LoseMemory
    <3> QED
      BY <3>1 DEF DownIsEmpty, NoWorker
  <2>2. CASE BeginShutdown \/ \E v \in [Agents -> {"gone", "live", "unknown"}] : Restart(v)
    BY <2>2 DEF BeginShutdown, Restart, DownIsEmpty
  <2> QED
    BY <1>3, <2>1, <2>2 DEF Daemon
<1>4. CASE UNCHANGED vars
  BY <1>4 DEF vars, memory, DownIsEmpty
<1> QED
  BY <1>1, <1>2, <1>3, <1>4 DEF Next, DownIsEmpty

------------------------------------------------------------------------------
(* The theorems. *)

LEMMA OutcomeInit == Init => OutcomeInv
<1> SUFFICES ASSUME Init
             PROVE  DownIsEmpty /\ ProjectionsActive
  BY TypeInit DEF OutcomeInv
<1>1. \A a \in Agents, g \in Gens : worker[a][g].run = NoRun
  BY DEF Init, NoWorker
<1> QED
  BY <1>1 DEF DownIsEmpty, ProjectionsActive

(* OutcomeInv is inductive. *)
LEMMA OutcomeStep == OutcomeInv /\ [Next]_vars => OutcomeInv'
<1> SUFFICES ASSUME OutcomeInv, [Next]_vars
             PROVE  OutcomeInv'
  OBVIOUS
<1>1. TypeOK' /\ Located'
  BY TypeStep DEF OutcomeInv
<1>2. DownIsEmpty'
  BY DownStep DEF OutcomeInv
<1>3. ProjectionsActive'
  BY NextStep, StepProjects DEF OutcomeInv
<1> QED
  BY <1>1, <1>2, <1>3 DEF OutcomeInv

(* The inductive invariant holds: types, coroutines at fitting steps, a daemon that is
   down projects nothing, and projections match the ledger. *)
THEOREM OutcomeInvariant == Spec => []OutcomeInv
BY OutcomeInit, OutcomeStep, PTL DEF Spec

(* A Worker projects only a run that the ledger has as running or needs_input, and no
   two Workers project the same one (RunProjection.finish, Store.finish). *)
THEOREM ProjectionsMatch == Spec => []ProjectionsActive
<1>1. OutcomeInv => ProjectionsActive
  BY DEF OutcomeInv
<1> QED
  BY <1>1, OutcomeInvariant, PTL

(* A terminal outcome is final whatever arrives late: frames, settles, timeouts, exits,
   rejections and restarts of the daemon (Store.finish and its callers). *)
THEOREM OutcomesFinal == Spec => TerminalStays
<1>1. OutcomeInv /\ [Next]_vars => [Final]_vars
  <2> SUFFICES ASSUME OutcomeInv, [Next]_vars
               PROVE  Final
    OBVIOUS
  <2> QED
    BY NextStep DEF StepOk, StepKeeps, StepStarts
<1>2. Spec => [][Final]_vars
  BY <1>1, OutcomeInvariant, PTL DEF Spec
<1> QED
  BY <1>2 DEF TerminalStays, Final

------------------------------------------------------------------------------
(* A question is visible while its worker holds it.  Frames are read and answers are taken
   beside whoever holds the agent's lock, so the invariant also says which coroutines can hold
   it meanwhile: none of them works on an open worker without saying so, and no Worker but the
   registered one speaks for its agent.                                                       *)

\* The awaits at which an agent has no open worker, and those at which it projects no run yet.
Workless == {"admit", "capacity", "writer", "lock", "victim", "refused", "fork", "reap"}
Unready == {"ready", "unboot"}

\* A Worker that holds no question, or is given up.
Mute(w) == w.closed \/ w.run = NoRun \/ w.ui = {} \/ w.stopping
Asking(a) == workers[a] # 0 /\ ~ Mute(W(a))

\* A row is its registered Worker's to write, and nobody boots behind an open one.
SpeaksAlone(a) == \A g \in Gens : Accountable(a, g) => workers[a] = g
Fitting(a) ==
  /\ op[a].pc \in Workless \/ agent[a].state = "absent" => ~ HasWorker(a)
  /\ op[a].pc \in Unready => W(a).run = NoRun
  /\ op[a].pc \in Unready \cup {"fork"} => agent[a].state # "absent"
Shown(a) == Asking(a) => agent[a].state = "needs_input" /\ run[W(a).run].state = "needs_input"
Visible(a) == SpeaksAlone(a) /\ Fitting(a) /\ Shown(a)

DownRegisters == ~ up => \A a \in Agents : workers[a] = 0
QuestionInv == DownRegisters /\ \A a \in Agents : Visible(a)
QuestionNow == OutcomeInv /\ FailureInv /\ QuestionInv

\* The ledger rs still asks what is asked in this state, but for run e, unless it is over.
GoesOnAsking(rs, e) ==
  \A r \in Runs : r # e /\ run[r].state = "needs_input" => rs[r].state \in Terminal \cup {"needs_input"}

(* An untouched ledger asks what it asked. *)
LEMMA AskingSame == \A e : GoesOnAsking(run, e)
BY DEF GoesOnAsking

(* Store.finish and the cancellation of an agent's queue only end runs. *)
LEMMA AskingFinish ==
  ASSUME NEW rs \in [Runs -> RunType], NEW e, GoesOnAsking(rs, e), NEW S, NEW s \in Terminal
  PROVE  GoesOnAsking(Finish(rs, S, s), e)
<1> SUFFICES ASSUME NEW r \in Runs, r # e, run[r].state = "needs_input"
             PROVE  Finish(rs, S, s)[r].state \in Terminal \cup {"needs_input"}
  BY DEF GoesOnAsking
<1>1. rs[r].state \in Terminal \cup {"needs_input"} /\ rs[r] \in RunType
  BY DEF GoesOnAsking
<1> QED
  BY <1>1 DEF Finish, RunType

LEMMA AskingCancel ==
  ASSUME NEW rs \in [Runs -> RunType], NEW e, GoesOnAsking(rs, e), NEW a
  PROVE  GoesOnAsking(CancelQueued(rs, a), e)
BY AskingFinish DEF CancelQueued, Terminal

(* A new run takes a number that asks nothing. *)
LEMMA AskingAdd ==
  ASSUME TypeOK, NEW a \in Agents, NEW r \in Unused, NEW s, NEW e
  PROVE  GoesOnAsking(AddRun(a, r, s), e)
<1> SUFFICES ASSUME NEW q \in Runs, run[q].state = "needs_input"
             PROVE  AddRun(a, r, s)[q].state = "needs_input"
  BY DEF GoesOnAsking
<1>1. q # r
  BY DEF Unused
<1> QED
  BY <1>1 DEF AddRun, TypeOK

\* A run that starts has waited.
LEMMA AskingStarts ==
  ASSUME NEW rs \in [Runs -> RunType], NEW e, GoesOnAsking(rs, e), NEW r \in Runs, rs[r].state \in Waiting,
         run' = [rs EXCEPT ![r].state = "running"]
  PROVE  GoesOnAsking(run', e)
<1> SUFFICES ASSUME NEW q \in Runs, q # e, run[q].state = "needs_input"
             PROVE  run'[q].state \in Terminal \cup {"needs_input"}
  BY DEF GoesOnAsking
<1>1. rs[q].state \in Terminal \cup {"needs_input"}
  BY DEF GoesOnAsking
<1>2. q # r
  BY <1>1 DEF Waiting, Terminal
<1> QED
  BY <1>1, <1>2

(* What a Worker went on asking, the ledger still has as asked. *)
LEMMA StillAsked ==
  ASSUME QuestionNow, StepOk, NEW e, GoesOnAsking(run', e), NEW b \in Agents, Asking(b), W(b).run # e,
         worker'[b][workers[b]].run = W(b).run
  PROVE  run'[W(b).run].state = "needs_input"
<1> DEFINE g == workers[b]
           r == worker[b][g].run
<1>1. g \in Gens /\ r # NoRun /\ r = W(b).run
  BY DEF QuestionNow, OutcomeInv, TypeOK, Asking, Mute, W, Gens
<1>2. r \in Runs /\ run[r].state = "needs_input"
  BY <1>1, ProjectedRun DEF QuestionNow, OutcomeInv, QuestionInv, Visible, Shown
<1>3. run'[r].state \in Projected
  <2>1. ASSUME Carried(b, g)
        PROVE  run'[r].state \in Projected
    BY <1>1, <2>1 DEF Carried, W
  <2>2. ASSUME NEW c \in Agents, NEW h \in Gens, NEW q \in Runs, StepStarts(c, h, q)
        PROVE  Carried(b, g)
    <3>1. <<b, g>> # <<c, h>>
      <4> SUFFICES ASSUME b = c, g = h
                   PROVE  FALSE
        OBVIOUS
      <4>1. worker'[b][g].run = q /\ run[q].state \notin Projected
        BY <2>2 DEF StepStarts
      <4> QED
        BY <1>1, <1>2, <4>1 DEF W, Projected
    <3> QED
      BY <1>1, <2>2, <3>1 DEF StepStarts
  <2> QED
    BY <1>1, <2>1, <2>2 DEF StepOk, StepKeeps
<1> HIDE DEF r
<1>4. run'[r].state \in Terminal \cup {"needs_input"}
  BY <1>1, <1>2 DEF GoesOnAsking
<1> QED
  BY <1>1, <1>3, <1>4 DEF Projected, Terminal

------------------------------------------------------------------------------
(* What a step does to one agent. *)

\* A Worker of which only flags and tasks change; it may be given up.
Flagged(w, v) ==
  /\ v.run = w.run /\ v.ui = w.ui /\ v.closed = w.closed /\ (w.stopping => v.stopping)
  /\ v.life \notin {"none", "done"} => w.life \notin {"none", "done"}
\* The lock's holder stays, leaves, or goes on booting without a worker.
HolderGoesOn(b) ==
  /\ op'[b].pc \in Workless => op[b].pc \in Workless
  /\ op'[b].pc \in Unready => op[b].pc \in Unready
  /\ op'[b].pc = "fork" => op[b].pc = "fork"
Elsewhere(a) ==
  \A b \in Agents \ {a} :
    /\ worker'[b] = worker[b] /\ workers'[b] = workers[b] /\ agent'[b] = agent[b]
    /\ HolderGoesOn(b)

(* A Worker left alone has had nothing but its flags changed. *)
LEMMA FlaggedSame == \A w : Flagged(w, w)
BY DEF Flagged

(* Whoever is only watched, or flagged, shows what it showed. *)
LEMMA FlaggedVisible ==
  ASSUME QuestionNow, StepOk, NEW e, GoesOnAsking(run', e), NEW b \in Agents, Asking(b) => W(b).run # e,
         workers'[b] = workers[b], agent'[b] = agent[b], HolderGoesOn(b),
         \A h \in Gens : Flagged(worker[b][h], worker'[b][h])
  PROVE  Visible(b)'
<1> DEFINE w == worker[b][workers[b]]
           v == worker'[b][workers[b]]
<1>1. Visible(b) /\ TypeOK
  BY DEF QuestionNow, QuestionInv, OutcomeInv
<1>2. workers[b] # 0 => workers[b] \in Gens
  BY <1>1 DEF TypeOK, Gens
<1>3. workers[b] # 0 => Flagged(w, v)
  BY <1>2
<1>4. SpeaksAlone(b)'
  BY <1>1 DEF Visible, SpeaksAlone, Accountable, Flagged
<1>5. Fitting(b)'
  <2>1. HasWorker(b)' => HasWorker(b)
    BY <1>3 DEF HasWorker, W, Flagged
  <2>2. op'[b].pc \in Workless => ~ HasWorker(b)
    BY <1>1 DEF Visible, Fitting, HolderGoesOn
  <2>3. op'[b].pc \in Unready => op[b].pc \in Unready
    BY DEF HolderGoesOn
  <2>4. op'[b].pc = "fork" => op[b].pc = "fork"
    BY DEF HolderGoesOn
  <2>5. op'[b].pc \in Unready => workers[b] \in Gens
    BY <1>1, <2>3 DEF QuestionNow, OutcomeInv, Located, LocatedAt, Unready
  <2>6. op'[b].pc \in Unready => W(b)'.run = NoRun
    BY <1>1, <1>3, <2>3, <2>5 DEF Visible, Fitting, W, Flagged, Gens
  <2> QED
    BY <1>1, <2>1, <2>2, <2>3, <2>4, <2>6 DEF Visible, Fitting
<1>6. Shown(b)'
  <2> SUFFICES ASSUME Asking(b)'
               PROVE  agent'[b].state = "needs_input" /\ run'[W(b)'.run].state = "needs_input"
    BY DEF Shown
  <2>1. Asking(b) /\ v.run = W(b).run /\ W(b)'.run = W(b).run
    BY <1>3 DEF Asking, Mute, Flagged, W
  <2>2. run'[W(b).run].state = "needs_input"
    BY <2>1, StillAsked
  <2> QED
    BY <1>1, <2>1, <2>2 DEF Visible, Shown
<1> QED
  BY <1>4, <1>5, <1>6 DEF Visible

(* A step of one agent leaves every other as visible as it was. *)
LEMMA OthersVisible ==
  ASSUME QuestionNow, StepOk, NEW a \in Agents, NEW e, GoesOnAsking(run', e),
         e = NoRun \/ \E g \in Gens : e = worker[a][g].run, Elsewhere(a), Visible(a)'
  PROVE  \A b \in Agents : Visible(b)'
<1> SUFFICES ASSUME NEW b \in Agents, b # a
             PROVE  Visible(b)'
  OBVIOUS
<1>1. Asking(b) => W(b).run # e
  <2> SUFFICES ASSUME Asking(b), NEW g \in Gens, e = worker[a][g].run
               PROVE  W(b).run # e
    BY DEF Asking, Mute
  <2>1. workers[b] \in Gens /\ W(b).run # NoRun
    BY DEF QuestionNow, OutcomeInv, TypeOK, Asking, Mute, Gens
  <2> QED
    BY <2>1 DEF QuestionNow, OutcomeInv, ProjectionsActive, W
<1>2. \A h \in Gens : Flagged(worker[b][h], worker'[b][h])
  BY FlaggedSame DEF Elsewhere
<1> QED
  BY <1>1, <1>2, FlaggedVisible DEF Elsewhere

(* An agent without an open worker. *)
LEMMA BareVisible ==
  ASSUME QuestionNow, NEW a \in Agents, ~ HasWorker(a), workers'[a] = workers[a], worker'[a] = worker[a],
         agent'[a].gen = agent[a].gen, op'[a].pc \notin Unready,
         op'[a].pc = "fork" => agent'[a].state # "absent"
  PROVE  Visible(a)'
<1>1. ~ HasWorker(a)' /\ ~ Asking(a)'
  BY DEF HasWorker, Asking, Mute, W
<1>2. SpeaksAlone(a)'
  BY DEF QuestionNow, QuestionInv, Visible, SpeaksAlone, Accountable
<1> QED
  BY <1>1, <1>2 DEF Visible, Fitting, Shown

(* A registered Worker that is given up, or asks nothing. *)
LEMMA MuteVisible ==
  ASSUME QuestionNow, NEW a \in Agents, workers[a] \in Gens, workers'[a] = workers[a],
         NEW w, worker' = [worker EXCEPT ![a][workers[a]] = w], w.life = W(a).life, Mute(w),
         agent'[a].gen = agent[a].gen, agent'[a].state # "absent",
         op'[a].pc \in Workless => w.closed, op'[a].pc \in Unready => w.run = NoRun
  PROVE  Visible(a)'
<1>1. worker'[a][workers[a]] = w /\ \A h \in Gens : h # workers[a] => worker'[a][h] = worker[a][h]
  BY DEF QuestionNow, OutcomeInv, TypeOK
<1>2. W(a)' = w
  BY <1>1 DEF W
<1>3. SpeaksAlone(a)'
  BY <1>1 DEF QuestionNow, QuestionInv, Visible, SpeaksAlone, Accountable, W
<1>4. Fitting(a)'
  BY <1>2 DEF Fitting, HasWorker
<1> QED
  BY <1>2, <1>3, <1>4 DEF Visible, Shown, Asking

------------------------------------------------------------------------------
(* The segments shared by several coroutines. *)

(* What the invariant says of the whole state and of one agent. *)
LEMMA NowParts ==
  ASSUME QuestionNow
  PROVE  /\ TypeOK /\ Located /\ ProjectionsActive
         /\ \A a \in Agents : Visible(a) /\ SpeaksAlone(a) /\ Fitting(a) /\ Shown(a)
BY DEF QuestionNow, OutcomeInv, QuestionInv, Visible

(* One lock's holder moves on. *)
LEMMA ElsewhereSet ==
  ASSUME TypeOK, NEW a \in Agents, \A b \in Agents \ {a} : op'[b] = op[b],
         \A b \in Agents \ {a} : worker'[b] = worker[b] /\ workers'[b] = workers[b] /\ agent'[b] = agent[b]
  PROVE  Elsewhere(a)
BY DEF Elsewhere, HolderGoesOn

(* Updates of one agent's coroutine, row and Worker, read field by field. *)
LEMMA OpElsewhere ==
  ASSUME TypeOK, NEW a \in Agents, NEW o, SetOp(a, o)
  PROVE  op'[a] = o /\ \A b \in Agents \ {a} : op'[b] = op[b]
BY DEF SetOp, TypeOK

LEMMA AgentElsewhere ==
  ASSUME TypeOK, NEW a \in Agents, NEW ag, SetAgent(a, ag)
  PROVE  agent'[a] = ag /\ \A b \in Agents \ {a} : agent'[b] = agent[b]
BY DEF SetAgent, TypeOK

LEMMA WorkerElsewhere ==
  ASSUME TypeOK, NEW a \in Agents, NEW g, NEW w, worker' = [worker EXCEPT ![a][g] = w]
  PROVE  /\ \A b \in Agents \ {a} : worker'[b] = worker[b]
         /\ \A h \in Gens : h # g => worker'[a][h] = worker[a][h]
         /\ g \in Gens => worker'[a][g] = w
BY DEF TypeOK

(* interrupt gives the worker up before its await. *)
LEMMA InterruptVisible ==
  ASSUME QuestionNow, StepOk, NEW a \in Agents, NEW o, BeginInterrupt(a, o), UNCHANGED workers,
         op'[a].pc = "stop", \A b \in Agents \ {a} : HolderGoesOn(b)
  PROVE  \A b \in Agents : Visible(b)'
<1> DEFINE w == [W(a) EXCEPT !.stopping = TRUE]
           ag == [agent[a] EXCEPT !.state = "stopping"]
<1>0. TypeOK
  BY NowParts
<1>1. workers[a] \in Gens /\ W(a) \in WorkerType
  BY <1>0, Values DEF BeginInterrupt, Reachable, HasWorker, TypeOK, Gens
<1>2. w.life = W(a).life /\ Mute(w) /\ worker' = [worker EXCEPT ![a][workers[a]] = w]
  BY <1>1 DEF BeginInterrupt, SetWorker, WorkerType, Mute
<1>3. SetAgent(a, ag) /\ ag.gen = agent[a].gen /\ ag.state = "stopping"
  BY <1>0 DEF BeginInterrupt, TypeOK, AgentType
<1>4. run' = CancelQueued(run, a) /\ run \in [Runs -> RunType]
  BY <1>0 DEF BeginInterrupt, TypeOK
<1> HIDE DEF w, ag
<1>5. Elsewhere(a)
  BY <1>0, <1>2, <1>3, WorkerElsewhere, AgentElsewhere DEF Elsewhere
<1>6. Visible(a)'
  BY <1>0, <1>1, <1>2, <1>3, AgentElsewhere, MuteVisible DEF Workless, Unready
<1>7. GoesOnAsking(run', NoRun)
  BY <1>4, AskingSame, AskingCancel
<1> QED
  BY <1>5, <1>6, <1>7, OthersVisible

\* Whoever is about to interrupt only names itself first.
LEMMA KindVisible ==
  ASSUME QuestionNow, StepOk, NEW a \in Agents, NEW k, BeginInterrupt(a, [op EXCEPT ![a].kind = k]), UNCHANGED workers
  PROVE  \A b \in Agents : Visible(b)'
<1>1. op'[a].pc = "stop" /\ \A b \in Agents \ {a} : op'[b] = op[b]
  BY NowParts DEF BeginInterrupt, TypeOK, OpType
<1> QED
  BY <1>1, InterruptVisible DEF HolderGoesOn

(* start_run begins without questions. *)
LEMMA StartVisible ==
  ASSUME QuestionNow, StepOk, NEW a \in Agents, workers[a] \in Gens, NEW r \in Runs, NEW ag, ag \in AgentType,
         ag.gen = agent[a].gen, NEW rs \in [Runs -> RunType], GoesOnAsking(rs, NoRun), rs[r].state \in Waiting,
         NEW w, w.life = W(a).life, NEW k, StartRun(a, r, ag, rs, w, k), UNCHANGED workers
  PROVE  \A b \in Agents : Visible(b)'
<1> DEFINE v == [NewWorker EXCEPT !.run = r, !.tainted = w.tainted, !.life = w.life]
           x == [ag EXCEPT !.state = "running", !.current = r]
           o == [Free EXCEPT !.kind = k, !.pc = "prompt", !.ans = IF Exited(a, workers[a]) THEN "gone" ELSE "none"]
<1>0. TypeOK
  BY NowParts
<1>1. v.life = W(a).life /\ Mute(v)
  BY DEF NewWorker, NoWorker, Mute
<1>2. x.gen = agent[a].gen /\ x.state = "running"
  BY DEF AgentType
<1>3. o.pc = "prompt"
  BY DEF Free
<1>4. /\ worker' = [worker EXCEPT ![a][workers[a]] = v] /\ SetAgent(a, x) /\ SetOp(a, o)
      /\ run' = [rs EXCEPT ![r].state = "running"]
  BY DEF StartRun, SetWorker
<1> HIDE DEF v, x, o
<1>5. Elsewhere(a)
  BY <1>0, <1>4, WorkerElsewhere, AgentElsewhere, OpElsewhere, ElsewhereSet
<1>6. Visible(a)'
  <2>1. op'[a].pc = "prompt" /\ agent'[a].gen = agent[a].gen /\ agent'[a].state = "running"
    BY <1>0, <1>2, <1>3, <1>4, OpElsewhere, AgentElsewhere
  <2> QED
    BY <1>1, <1>4, <2>1, MuteVisible DEF Workless, Unready
<1>7. GoesOnAsking(run', NoRun)
  BY <1>4, AskingStarts
<1> QED
  BY <1>5, <1>6, <1>7, OthersVisible

(* A worker that is given back to its lock's next holder, with nothing to ask. *)
LEMMA FreedVisible ==
  ASSUME QuestionNow, StepOk, NEW a \in Agents, workers[a] \in Gens, UNCHANGED workers,
         NEW w, w.life = W(a).life, Mute(w), SetWorker(a, w),
         NEW ag, SetAgent(a, ag), ag.gen = agent[a].gen, ag.state # "absent",
         GoesOnAsking(run', NoRun), NEW o, SetOp(a, o), o.pc \notin Workless \cup Unready
  PROVE  \A b \in Agents : Visible(b)'
<1>0. TypeOK
  BY NowParts
<1>1. worker' = [worker EXCEPT ![a][workers[a]] = w]
  BY DEF SetWorker
<1>2. Elsewhere(a)
  BY <1>0, <1>1, WorkerElsewhere, AgentElsewhere, OpElsewhere, ElsewhereSet
<1>3. Visible(a)'
  BY <1>0, <1>1, AgentElsewhere, OpElsewhere, MuteVisible
<1> QED
  BY <1>2, <1>3, OthersVisible

(* advance_queue starts the next run, or leaves the worker idle. *)
LEMMA AdvanceVisible ==
  ASSUME QuestionNow, StepOk, NEW a \in Agents, workers[a] \in Gens, NEW ag, ag \in AgentType,
         ag.gen = agent[a].gen, ag.state # "absent", NEW rs \in [Runs -> RunType], GoesOnAsking(rs, NoRun),
         NEW w, w.life = W(a).life, w.run = NoRun, AdvanceQueue(a, ag, rs, w), UNCHANGED workers
  PROVE  \A b \in Agents : Visible(b)'
<1>1. CASE ~closing /\ Queued(rs, a) # {} /\ ~Exited(a, workers[a])
  <2> DEFINE r == NextQueued(rs, a)
  <2>1. r \in Runs /\ rs[r].state \in Waiting
    BY <1>1, OldestExists DEF NextQueued, Queued, Waiting
  <2>2. StartRun(a, r, ag, rs, w, "settle")
    BY <1>1 DEF AdvanceQueue
  <2> HIDE DEF r
  <2> QED
    BY <2>1, <2>2, StartVisible
<1>2. CASE ~(~closing /\ Queued(rs, a) # {} /\ ~Exited(a, workers[a]))
  <2>1. SetAgent(a, ag) /\ run' = rs /\ SetWorker(a, w) /\ SetOp(a, Free)
    BY <1>2 DEF AdvanceQueue
  <2>2. Mute(w) /\ Free.pc \notin Workless \cup Unready
    BY DEF Mute, Free, Workless, Unready
  <2> QED
    BY <2>1, <2>2, FreedVisible
<1> QED
  BY <1>1, <1>2

(* Whatever an agent without an open worker is booted, refused or closed for. *)
LEMMA BareStep ==
  ASSUME QuestionNow, StepOk, NEW a \in Agents, ~ HasWorker(a), UNCHANGED <<workers, worker>>,
         \A b \in Agents \ {a} : agent'[b] = agent[b] /\ op'[b] = op[b],
         agent'[a].gen = agent[a].gen, op'[a].pc \notin Unready,
         op'[a].pc = "fork" => agent'[a].state # "absent", GoesOnAsking(run', NoRun)
  PROVE  \A b \in Agents : Visible(b)'
<1>1. Elsewhere(a) /\ Visible(a)'
  BY NowParts, ElsewhereSet, BareVisible
<1> QED
  BY <1>1, OthersVisible

(* A boot that raises has no worker yet. *)
LEMMA AbortVisible ==
  ASSUME QuestionNow, StepOk, NEW a \in Agents, op[a].pc \in Workless, AbortBoot(a), UNCHANGED <<workers, worker>>
  PROVE  \A b \in Agents : Visible(b)'
<1> DEFINE S == {r \in Runs : run[r] = [state |-> "starting", owner |-> a]}
<1>0. TypeOK /\ Fitting(a)
  BY NowParts
<1>1. ~ HasWorker(a)
  BY <1>0 DEF Fitting
<1>2. op'[a].pc = "free" /\ \A b \in Agents \ {a} : op'[b] = op[b]
  BY <1>0, OpElsewhere DEF AbortBoot, Free
<1>3. UNCHANGED agent \/ SetAgent(a, [agent[a] EXCEPT !.state = "crashed"])
  BY DEF AbortBoot
<1>4. agent'[a].gen = agent[a].gen /\ \A b \in Agents \ {a} : agent'[b] = agent[b]
  BY <1>0, <1>3, GenKept, GenSame, AgentElsewhere
<1>5. run' = run \/ run' = Finish(run, S, "failed")
  BY DEF AbortBoot
<1>6. GoesOnAsking(run', NoRun)
  BY <1>0, <1>5, AskingSame, AskingFinish DEF TypeOK, Terminal
<1> QED
  BY <1>1, <1>2, <1>4, <1>6, BareStep DEF Unready

(* Steps that only watch, flag or move locks on. *)
LEMMA FlagVisible ==
  ASSUME QuestionNow, StepOk, UNCHANGED <<workers, agent>>, GoesOnAsking(run', NoRun),
         \A b \in Agents : HolderGoesOn(b),
         \A b \in Agents, h \in Gens : Flagged(worker[b][h], worker'[b][h])
  PROVE  \A b \in Agents : Visible(b)'
<1>1. \A b \in Agents : Asking(b) => W(b).run # NoRun
  BY DEF Asking, Mute
<1> QED
  BY <1>1, FlaggedVisible

------------------------------------------------------------------------------
(* Every action leaves every open question visible. *)

(* The boot: nobody boots behind an open worker, and the new one asks nothing. *)
LEMMA BootVisible ==
  ASSUME QuestionNow, StepOk, NEW a \in Agents, Boot(a)
  PROVE  \A b \in Agents : Visible(b)'
<1>0. TypeOK /\ Located /\ LocatedAt(a) /\ Fitting(a) /\ op[a] \in OpType /\ agent[a] \in AgentType
  BY NowParts, Values DEF Located
<1>a. run \in [Runs -> RunType] /\ GoesOnAsking(run, NoRun)
  BY <1>0, AskingSame DEF TypeOK
<1>1. CASE Spawn(a)
  <2> DEFINE o == [Free EXCEPT !.kind = "spawn", !.pc = "admit"]
  <2>1. ~ HasWorker(a) /\ SetOp(a, o) /\ o.pc = "admit"
    BY <1>0, <1>1 DEF Spawn, Fitting, Free
  <2> HIDE DEF o
  <2>2. op'[a].pc = "admit" /\ \A b \in Agents \ {a} : op'[b] = op[b]
    BY <1>0, <2>1, OpElsewhere
  <2>3. UNCHANGED <<agent, run, workers, worker>>
    BY <1>1 DEF Spawn
  <2> QED
    BY <1>a, <2>1, <2>2, <2>3, BareStep DEF Unready
<1>2. CASE Admit(a)
  <2> DEFINE pc == IF op[a].kind = "spawn" THEN "writer" ELSE "capacity"
  <2>1. ~ HasWorker(a) /\ SetOp(a, [op[a] EXCEPT !.pc = pc])
    BY <1>0, <1>2 DEF Admit, Fitting, Workless
  <2>2. op'[a].pc = pc /\ \A b \in Agents \ {a} : op'[b] = op[b]
    BY <1>0, <2>1, OpElsewhere DEF OpType
  <2>3. UNCHANGED <<agent, run, workers, worker>>
    BY <1>2 DEF Admit
  <2> QED
    BY <1>a, <2>1, <2>2, <2>3, BareStep DEF Unready
<1>3. CASE LockVictim(a)
  <2> DEFINE b == op[a].victim
             o == [op EXCEPT ![a].pc = "victim", ![b].kind = "evict"]
  <2>1. b \in Agents /\ op[a].pc = "lock" /\ op[b].pc = "free"
    BY <1>0, <1>3 DEF LockVictim, LocatedAt
  <2>2. BeginInterrupt(b, o) /\ UNCHANGED workers
    BY <1>3 DEF LockVictim
  <2>3. b # a
    BY <2>1
  <2>4. op' = [o EXCEPT ![b].pc = "stop"]
    BY <2>2 DEF BeginInterrupt
  <2>5. op'[b].pc = "stop" /\ op'[a].pc = "victim" /\ \A c \in Agents \ {a, b} : op'[c] = op[c]
    BY <1>0, <2>1, <2>3, <2>4 DEF TypeOK, OpType
  <2> HIDE DEF o, b
  <2>6. \A c \in Agents \ {b} : HolderGoesOn(c)
    BY <2>1, <2>5 DEF HolderGoesOn, Workless, Unready
  <2> QED
    BY <2>1, <2>2, <2>5, <2>6, InterruptVisible
<1>4. CASE SkipVictim(a)
  <2>1. op[a].pc = "lock" /\ UNCHANGED <<workers, worker>>
    BY <1>4 DEF SkipVictim
  <2>2. op[a].pc \in Workless /\ ~ HasWorker(a)
    BY <1>0, <2>1 DEF Fitting, Workless
  <2>3. CASE op[a].back = "capacity"
    <3>1. SetOp(a, [op[a] EXCEPT !.pc = "capacity"]) /\ UNCHANGED <<agent, run>>
      BY <1>4, <2>3 DEF SkipVictim
    <3>2. op'[a].pc = "capacity" /\ \A b \in Agents \ {a} : op'[b] = op[b]
      BY <1>0, <3>1, OpElsewhere DEF OpType
    <3> QED
      BY <1>a, <2>1, <2>2, <3>1, <3>2, BareStep DEF Unready
  <2>4. CASE op[a].back # "capacity"
    <3>1. AbortBoot(a)
      BY <1>4, <2>4 DEF SkipVictim
    <3> QED
      BY <2>1, <2>2, <3>1, AbortVisible
  <2> QED
    BY <2>3, <2>4
<1>5. CASE BootRefused(a) \/ EvictionRefused(a)
  <2>1. op[a].pc \in Workless
    BY <1>5 DEF BootRefused, EvictionRefused, Workless
  <2>2. AbortBoot(a) /\ UNCHANGED <<workers, worker>>
    BY <1>5 DEF BootRefused, EvictionRefused
  <2> QED
    BY <2>1, <2>2, AbortVisible
<1>6. CASE AdmitWriter(a)
  <2>1. ~ HasWorker(a) /\ SetOp(a, [op[a] EXCEPT !.pc = "writer"])
    BY <1>0, <1>6 DEF AdmitWriter, Fitting, Workless
  <2>2. op'[a].pc = "writer" /\ \A b \in Agents \ {a} : op'[b] = op[b]
    BY <1>0, <2>1, OpElsewhere DEF OpType
  <2>3. UNCHANGED <<agent, run, workers, worker>>
    BY <1>6 DEF AdmitWriter
  <2> QED
    BY <1>a, <2>1, <2>2, <2>3, BareStep DEF Unready
<1>7. CASE BeforeSpawn(a)
  <2> DEFINE ag == [agent[a] EXCEPT !.state = "starting", !.gen = agent[a].gen + 1, !.cleanup = "pending"]
             o == [op[a] EXCEPT !.pc = "fork", !.tried = {}, !.victim = None, !.back = "free", !.vgen = 0]
  <2>1. ~ HasWorker(a) /\ SetAgent(a, ag) /\ SetOp(a, o)
    BY <1>0, <1>7 DEF BeforeSpawn, Fitting, Workless
  <2>2. o.pc = "fork" /\ ag.gen = agent[a].gen + 1 /\ ag.state = "starting"
    BY <1>0 DEF OpType, AgentType
  <2>3. UNCHANGED <<run, workers, worker>>
    BY <1>7 DEF BeforeSpawn
  <2> HIDE DEF ag, o
  <2>4. Elsewhere(a) /\ op'[a].pc = "fork" /\ agent'[a].gen = agent[a].gen + 1 /\ agent'[a].state = "starting"
    BY <1>0, <2>1, <2>2, <2>3, OpElsewhere, AgentElsewhere, ElsewhereSet
  <2>5. SpeaksAlone(a)'
    <3>1. ASSUME NEW g \in Gens, g = agent[a].gen + 1
          PROVE  worker[a][g].life = "none"
      <4>1. ~ (g <= agent[a].gen)
        BY <1>0, <3>1 DEF AgentType, Gens
      <4> QED
        BY <4>1 DEF QuestionNow, FailureInv, Numbered
    <3> QED
      BY <2>3, <2>4, <3>1 DEF SpeaksAlone, Accountable
  <2>6. ~ HasWorker(a)'
    BY <2>1, <2>3 DEF HasWorker, W
  <2>7. Visible(a)'
    BY <2>4, <2>5, <2>6 DEF Visible, Fitting, Shown, Asking, Mute, HasWorker, Unready
  <2>8. GoesOnAsking(run', NoRun)
    BY <1>a, <2>3
  <2> QED
    BY <2>4, <2>7, <2>8, OthersVisible
<1>8. CASE Fork(a)
  <2>1. UNCHANGED <<agent, run, workers, worker, op>>
    BY <1>8 DEF Fork, memory
  <2> QED
    BY <1>a, <2>1, FlaggedSame, FlagVisible DEF HolderGoesOn
<1>9. CASE ForkFails(a)
  <2>1. ~ HasWorker(a) /\ SetOp(a, Free) /\ UNCHANGED <<agent, run, workers, worker>>
    BY <1>0, <1>9 DEF ForkFails, Fitting, Workless
  <2>2. op'[a].pc = "free" /\ \A b \in Agents \ {a} : op'[b] = op[b]
    BY <1>0, <2>1, OpElsewhere DEF Free
  <2> QED
    BY <1>a, <2>1, <2>2, BareStep DEF Unready
<1>10. CASE Register(a)
  <2> DEFINE g == agent[a].gen
             ag == [agent[a] EXCEPT !.pid = agent[a].gen]
             o == [op[a] EXCEPT !.pc = "ready"]
  <2>1. /\ g \in Gens /\ SetAgent(a, ag) /\ SetOp(a, o) /\ workers' = [workers EXCEPT ![a] = g]
        /\ worker' = [worker EXCEPT ![a][g] = NewWorker] /\ run' = run /\ op[a].pc = "fork"
    BY <1>0, <1>10 DEF Register, LocatedAt
  <2>2. ag.gen = g /\ ag.state = agent[a].state /\ o.pc = "ready"
    BY <1>0 DEF AgentType, OpType
  <2>3. workers'[a] = g /\ \A b \in Agents \ {a} : workers'[b] = workers[b]
    BY <1>0, <2>1 DEF TypeOK
  <2> HIDE DEF g, ag, o
  <2>a. op'[a] = o /\ agent'[a] = ag /\ \A b \in Agents \ {a} : op'[b] = op[b] /\ agent'[b] = agent[b]
    BY <1>0, <2>1, OpElsewhere, AgentElsewhere
  <2>c. worker \in [Agents -> [Gens -> WorkerType]]
    BY <1>0 DEF TypeOK
  <2>b. worker'[a][g] = NewWorker /\ \A b \in Agents \ {a} : worker'[b] = worker[b]
    BY <2>1, <2>c
  <2>4. /\ Elsewhere(a) /\ op'[a].pc = "ready" /\ agent'[a].gen = g /\ agent'[a].state = agent[a].state
        /\ worker'[a][g] = NewWorker
    BY <1>0, <2>2, <2>3, <2>a, <2>b, ElsewhereSet
  <2>5. W(a)' = NewWorker
    BY <2>3, <2>4 DEF W
  <2>6. SpeaksAlone(a)'
    BY <2>3, <2>4 DEF SpeaksAlone, Accountable
  <2>7. Fitting(a)'
    BY <1>0, <2>1, <2>4, <2>5 DEF Fitting, Workless, NewWorker, NoWorker
  <2>8. ~ Asking(a)'
    BY <2>5 DEF Asking, Mute, NewWorker, NoWorker
  <2>9. Visible(a)'
    BY <2>6, <2>7, <2>8 DEF Visible, Shown
  <2>10. GoesOnAsking(run', NoRun)
    BY <1>a, <2>1
  <2> QED
    BY <2>4, <2>9, <2>10, OthersVisible
<1>11. CASE ReadyOk(a)
  <2> DEFINE ag == [agent[a] EXCEPT !.state = "idle", !.cleanup = "not_checked"]
  <2>0. /\ op[a].pc = "ready" /\ UNCHANGED workers
        /\ \/ \E r \in Runs : run[r].state = "starting" /\ StartRun(a, r, ag, run, W(a), op[a].kind)
           \/ Unused # {} /\ StartRun(a, Oldest(Unused), ag, AddRun(a, Oldest(Unused), "queued"), W(a), op[a].kind)
           \/ SetAgent(a, ag) /\ SetOp(a, Free) /\ UNCHANGED <<run, worker, proc>>
    BY <1>11 DEF ReadyOk
  <2>1. workers[a] \in Gens /\ W(a).run = NoRun
    BY <1>0, <2>0 DEF LocatedAt, Fitting, Unready
  <2>2. ag \in AgentType /\ ag.gen = agent[a].gen /\ ag.state = "idle"
    BY <1>0 DEF AgentType, AgentStates, Resident, Cleanups
  <2> HIDE DEF ag
  <2>3. CASE \E r \in Runs : run[r].state = "starting" /\ StartRun(a, r, ag, run, W(a), op[a].kind)
    BY <1>a, <2>0, <2>1, <2>2, <2>3, StartVisible DEF Waiting
  <2>4. CASE Unused # {} /\ StartRun(a, Oldest(Unused), ag, AddRun(a, Oldest(Unused), "queued"), W(a), op[a].kind)
    <3> DEFINE r == Oldest(Unused)
    <3>1. r \in Unused /\ r \in Runs
      BY <2>4, OldestExists DEF Unused
    <3>2. /\ AddRun(a, r, "queued") \in [Runs -> RunType] /\ GoesOnAsking(AddRun(a, r, "queued"), NoRun)
          /\ AddRun(a, r, "queued")[r].state \in Waiting
      BY <1>0, <3>1, AddRunType, AskingAdd DEF AddRun, TypeOK, Waiting, RunStates
    <3>3. StartRun(a, r, ag, AddRun(a, r, "queued"), W(a), op[a].kind)
      BY <2>4
    <3> HIDE DEF r
    <3> QED
      BY <2>0, <2>1, <2>2, <3>1, <3>2, <3>3, StartVisible
  <2>5. CASE SetAgent(a, ag) /\ SetOp(a, Free) /\ UNCHANGED <<run, worker, proc>>
    <3>1. /\ op'[a].pc = "free" /\ agent'[a].gen = agent[a].gen /\ agent'[a].state = "idle" /\ Elsewhere(a)
      BY <1>0, <2>0, <2>2, <2>5, OpElsewhere, AgentElsewhere, ElsewhereSet DEF Free
    <3>2. SpeaksAlone(a)'
      BY <2>0, <2>5, <3>1 DEF QuestionNow, QuestionInv, Visible, SpeaksAlone, Accountable
    <3>3. ~ Asking(a)'
      BY <2>0, <2>1, <2>5 DEF Asking, Mute, W
    <3>4. Visible(a)'
      BY <3>1, <3>2, <3>3 DEF Visible, Fitting, Shown, Workless, Unready
    <3> QED
      BY <1>a, <2>5, <3>1, <3>4, OthersVisible
  <2> QED
    BY <2>0, <2>3, <2>4, <2>5
<1>12. CASE ReadyFails(a)
  <2> DEFINE w == [W(a) EXCEPT !.stopping = TRUE]
             o == [op[a] EXCEPT !.pc = "unboot"]
  <2>1. op[a].pc = "ready" /\ UNCHANGED <<agent, run, workers>> /\ SetWorker(a, w) /\ SetOp(a, o)
    BY <1>12 DEF ReadyFails
  <2>2. workers[a] \in Gens /\ W(a).run = NoRun /\ W(a) \in WorkerType
    BY <1>0, <2>1, Values DEF LocatedAt, Fitting, Unready
  <2>3. w.run = NoRun /\ w.closed = W(a).closed /\ w.life = W(a).life /\ Mute(w) /\ o.pc = "unboot"
    BY <1>0, <2>2 DEF WorkerType, Mute, OpType
  <2>4. worker' = [worker EXCEPT ![a][workers[a]] = w]
    BY <2>1 DEF SetWorker
  <2> HIDE DEF w, o
  <2>5. Elsewhere(a) /\ op'[a].pc = "unboot"
    BY <1>0, <2>1, <2>3, <2>4, OpElsewhere, WorkerElsewhere, ElsewhereSet
  <2>c. worker \in [Agents -> [Gens -> WorkerType]]
    BY <1>0 DEF TypeOK
  <2>a. worker'[a][workers[a]] = w /\ \A h \in Gens : h # workers[a] => worker'[a][h] = worker[a][h]
    BY <2>2, <2>4, <2>c
  <2>6. W(a)' = w /\ \A h \in Gens : worker'[a][h].life = worker[a][h].life
    BY <2>1, <2>3, <2>a DEF W
  <2>7. SpeaksAlone(a)'
    BY <2>1, <2>6 DEF QuestionNow, QuestionInv, Visible, SpeaksAlone, Accountable
  <2>8. Fitting(a)'
    BY <1>0, <2>1, <2>3, <2>5, <2>6 DEF Fitting, HasWorker, Workless, Unready
  <2>9. Visible(a)'
    BY <2>3, <2>6, <2>7, <2>8 DEF Visible, Shown, Asking
  <2> QED
    BY <1>a, <2>1, <2>5, <2>9, OthersVisible
<1>13. ASSUME NEW r \in Runs, SpawnInsert(a, r)
       PROVE  \A b \in Agents : Visible(b)'
  <2> DEFINE o == [op[a] EXCEPT !.pc = "capacity", !.tried = {}]
  <2>1. /\ ~ HasWorker(a) /\ SetAgent(a, [agent[a] EXCEPT !.state = "starting"])
        /\ SetOp(a, o) /\ UNCHANGED <<workers, worker>>
        /\ r \in Unused /\ run' = AddRun(a, r, "starting")
    BY <1>0, <1>13 DEF SpawnInsert, Fitting, Workless
  <2>a. o.pc = "capacity"
    BY <1>0 DEF OpType
  <2> HIDE DEF o
  <2>2. op'[a].pc = "capacity" /\ \A b \in Agents \ {a} : op'[b] = op[b]
    BY <1>0, <2>1, <2>a, OpElsewhere
  <2>3. agent'[a].gen = agent[a].gen /\ \A b \in Agents \ {a} : agent'[b] = agent[b]
    BY <1>0, <2>1, AgentElsewhere DEF AgentType
  <2>4. GoesOnAsking(run', NoRun)
    BY <1>0, <2>1, AskingAdd
  <2> QED
    BY <2>1, <2>2, <2>3, <2>4, BareStep DEF Unready
<1>14. ASSUME NEW v \in Agents, PickVictim(a, v)
       PROVE  \A b \in Agents : Visible(b)'
  <2> DEFINE o == [op[a] EXCEPT !.pc = "lock", !.victim = v, !.vgen = workers[v],
                                !.back = op[a].pc, !.tried = op[a].tried \cup {v}]
  <2>1. ~ HasWorker(a) /\ UNCHANGED <<agent, run, workers, worker>> /\ SetOp(a, o)
    BY <1>0, <1>14 DEF PickVictim, Fitting, Workless
  <2>a. o.pc = "lock"
    BY <1>0 DEF OpType
  <2> HIDE DEF o
  <2>2. op'[a].pc = "lock" /\ \A b \in Agents \ {a} : op'[b] = op[b]
    BY <1>0, <2>1, <2>a, OpElsewhere
  <2> QED
    BY <1>a, <2>1, <2>2, BareStep DEF Unready
<1> QED
  BY <1>1, <1>2, <1>3, <1>4, <1>5, <1>6, <1>7, <1>8, <1>9, <1>10, <1>11, <1>12, <1>13, <1>14 DEF Boot

(* A termination that ends leaves no open worker that is not given up. *)
LEMMA StopVisible ==
  ASSUME QuestionNow, StepOk, NEW a \in Agents, Stop(a)
  PROVE  \A b \in Agents : Visible(b)'
<1>0. TypeOK /\ LocatedAt(a) /\ Fitting(a) /\ op[a] \in OpType /\ agent[a] \in AgentType
  BY NowParts, Values DEF Located
<1>a. run \in [Runs -> RunType] /\ GoesOnAsking(run, NoRun)
  BY <1>0, AskingSame DEF TypeOK
<1>1. PICK o \in [cleanup: {"verified", "unknown"}, attempted: BOOLEAN, st: ProcStates] :
        StopDone(a, o) \/ UnbootDone(a, o)
  BY DEF Stop
<1>2. CASE StopDone(a, o)
  <2> DEFINE k == op[a].kind
             u == IF EndsWith(a, k) = {} THEN W(a) ELSE Settled(W(a))
             w == [u EXCEPT !.closed = W(a).closed \/ o.attempted, !.stopping = TRUE]
             ag == [agent[a] EXCEPT !.state = StateAfterStop(k, o.cleanup), !.current = NoRun, !.cleanup = o.cleanup]
             s == IF k = "check_idle" THEN "timed_out" ELSE "interrupted"
  <2>1. /\ op[a].pc = "stop" /\ o \in StopOutcomes(a) /\ SetWorker(a, w) /\ SetAgent(a, ag)
        /\ run' = Finish(run, EndsWith(a, k), s) /\ UNCHANGED workers
    BY <1>2 DEF StopDone
  <2>2. ag.gen = agent[a].gen /\ ag.state # "absent"
    BY <1>0 DEF AgentType, StateAfterStop
  <2>3. s \in Terminal
    BY DEF Terminal
  <2>4. GoesOnAsking(run', NoRun)
    BY <1>a, <2>1, <2>3, AskingFinish
  <2>5. /\ op'[a].pc \in {"free", "admit"}
        /\ op'[a].pc = "admit" => o.cleanup = "verified"
    BY <1>2 DEF StopDone, Free
  <2>6. ASSUME NEW b \in Agents \ {a}
        PROVE  HolderGoesOn(b)
    <3>1. op[b] \in OpType /\ op[b].back \in {"free", "capacity", "writer"}
      BY <1>0 DEF TypeOK, OpType
    <3>2. \/ op'[b] = op[b]
          \/ op[b].pc = "victim" /\ op'[b] \in {[op[b] EXCEPT !.pc = "refused"], [op[b] EXCEPT !.pc = op[b].back]}
      BY <1>2 DEF StopDone
    <3>3. op'[b] = op[b] \/ (op[b].pc = "victim" /\ op'[b].pc \in {"refused", "free", "capacity", "writer"})
      BY <3>1, <3>2 DEF OpType
    <3> QED
      BY <3>3 DEF HolderGoesOn, Workless, Unready
  <2>7. o.cleanup = "verified" => o.attempted
    BY <2>1 DEF StopOutcomes
  <2>8. worker' = [worker EXCEPT ![a][workers[a]] = w]
    BY <2>1 DEF SetWorker
  <2>9. workers[a] \in Gens => w.life = W(a).life /\ w.stopping /\ (o.attempted => w.closed)
    <3> SUFFICES ASSUME workers[a] \in Gens
                 PROVE  w.life = W(a).life /\ w.stopping /\ (o.attempted => w.closed)
      OBVIOUS
    <3>1. W(a) \in WorkerType /\ Settled(W(a)) \in WorkerType /\ Settled(W(a)).life = W(a).life
      BY <1>0, Values, LifeValues
    <3>2. u \in WorkerType /\ u.life = W(a).life
      BY <3>1
    <3> HIDE DEF u
    <3> QED
      BY <3>2 DEF WorkerType
  <2> HIDE DEF w, ag
  <2>10. Elsewhere(a)
    BY <1>0, <2>1, <2>6, <2>8, WorkerElsewhere, AgentElsewhere DEF Elsewhere
  <2>11. agent'[a].gen = agent[a].gen /\ agent'[a].state # "absent"
    BY <1>0, <2>1, <2>2, AgentElsewhere
  <2>12. CASE workers[a] \in Gens
    <3>1. Visible(a)'
      BY <2>1, <2>5, <2>7, <2>8, <2>9, <2>11, <2>12, MuteVisible DEF Mute, Workless, Unready
    <3> QED
      BY <2>4, <2>10, <3>1, OthersVisible
  <2>13. CASE workers[a] \notin Gens
    <3>1. workers[a] = 0 /\ ~ HasWorker(a)
      BY <1>0, <2>13 DEF TypeOK, Gens, HasWorker
    <3>2. worker \in [Agents -> [Gens -> WorkerType]]
      BY <1>0 DEF TypeOK
    <3>3. worker'[a] = worker[a]
      BY <2>8, <2>13, <3>2
    <3>4. Visible(a)'
      BY <2>1, <2>5, <2>11, <3>1, <3>3, BareVisible DEF Unready
    <3> QED
      BY <2>4, <2>10, <3>4, OthersVisible
  <2> QED
    BY <2>12, <2>13
<1>3. CASE UnbootDone(a, o)
  <2> DEFINE S == {r \in Runs : run[r] = [state |-> "starting", owner |-> a]}
             w == [W(a) EXCEPT !.closed = W(a).closed \/ o.attempted]
             ag == [agent[a] EXCEPT !.cleanup = o.cleanup,
                      !.state = IF op[a].kind = "spawn" THEN "crashed" ELSE agent[a].state]
  <2>1. /\ op[a].pc = "unboot" /\ SetWorker(a, w) /\ SetAgent(a, ag) /\ SetOp(a, Free) /\ UNCHANGED workers
        /\ run' = run \/ run' = Finish(run, S, "failed")
    BY <1>3 DEF UnbootDone
  <2>2. workers[a] \in Gens /\ W(a).run = NoRun /\ W(a) \in WorkerType /\ agent[a].state # "absent"
    BY <1>0, <2>1, Values DEF LocatedAt, Fitting, Unready
  <2>3. w.life = W(a).life /\ w.run = NoRun
    BY <2>2 DEF WorkerType
  <2>4. ag.gen = agent[a].gen /\ ag.state # "absent"
    BY <1>0, <2>2 DEF AgentType
  <2>5. GoesOnAsking(run', NoRun)
    BY <1>a, <2>1, AskingFinish DEF Terminal
  <2>6. Mute(w) /\ Free.pc \notin Workless \cup Unready
    BY <2>3 DEF Mute, Free, Workless, Unready
  <2> HIDE DEF w, ag
  <2> QED
    BY <2>1, <2>2, <2>3, <2>4, <2>5, <2>6, FreedVisible
<1> QED
  BY <1>1, <1>2, <1>3

(* dismiss_ui: the row returns to running with the last question only. *)
LEMMA DismissVisible ==
  ASSUME QuestionNow, StepOk, NEW a \in Agents, NEW g \in Gens, g = workers[a], NEW d,
         Dismiss(a, d, agent[a], run, worker[a][g]), NEW v, worker' = [worker EXCEPT ![a][g] = v],
         v.ui = worker[a][g].ui \ {d}, v.run = worker[a][g].run, v.closed = worker[a][g].closed,
         v.stopping = worker[a][g].stopping, v.life = worker[a][g].life, UNCHANGED <<workers, op>>
  PROVE  \A b \in Agents : Visible(b)'
<1> DEFINE w == worker[a][g]
           resumes == d \in w.ui /\ w.ui \ {d} = {} /\ w.run # NoRun
<1>0. TypeOK /\ Fitting(a) /\ SpeaksAlone(a) /\ Shown(a) /\ agent[a] \in AgentType /\ W(a) = w /\ w \in WorkerType
  BY NowParts, Values DEF W
<1>1. agent' = [agent EXCEPT ![a] = IF resumes THEN [agent[a] EXCEPT !.state = "running"] ELSE agent[a]]
  BY DEF Dismiss
<1>2. run' = run \/ (resumes /\ run' = [run EXCEPT ![w.run].state = "running"])
  BY DEF Dismiss
<1>3. ~ resumes => run' = run
  BY DEF Dismiss
<1> HIDE DEF resumes
<1>4. /\ \A b \in Agents \ {a} : agent'[b] = agent[b]
      /\ agent'[a].gen = agent[a].gen
      /\ agent'[a] = agent[a] \/ (resumes /\ agent'[a].state = "running")
  BY <1>0, <1>1 DEF TypeOK, AgentType
<1>5. worker \in [Agents -> [Gens -> WorkerType]]
  BY <1>0 DEF TypeOK
<1>6. /\ worker'[a][g] = v /\ \A h \in Gens : h # g => worker'[a][h] = worker[a][h]
      /\ \A b \in Agents \ {a} : worker'[b] = worker[b]
  BY <1>5
<1>7. W(a)' = v
  BY <1>6 DEF W
<1>8. Elsewhere(a)
  BY <1>0, <1>4, <1>6, ElsewhereSet
<1>9. GoesOnAsking(run', w.run)
  <2>1. run \in [Runs -> RunType]
    BY <1>0 DEF TypeOK
  <2> QED
    BY <1>2, <2>1 DEF GoesOnAsking
<1>10. SpeaksAlone(a)'
  BY <1>0, <1>4, <1>6 DEF SpeaksAlone, Accountable
<1>11. Fitting(a)'
  BY <1>0, <1>4, <1>7 DEF Fitting, HasWorker
<1>12. Shown(a)'
  <2> SUFFICES ASSUME Asking(a)'
               PROVE  agent'[a].state = "needs_input" /\ run'[W(a)'.run].state = "needs_input"
    BY DEF Shown
  <2>1. Asking(a) /\ ~ resumes
    BY <1>0, <1>7 DEF Asking, Mute, resumes
  <2> QED
    BY <1>0, <1>3, <1>4, <1>7, <2>1 DEF Shown
<1>13. Visible(a)'
  BY <1>10, <1>11, <1>12 DEF Visible
<1> QED
  BY <1>8, <1>9, <1>13, OthersVisible

(* The client operations: an answer dismisses one question, anything else that touches an open
   worker begins a run or gives the worker up.                                              *)
LEMMA MutateVisible ==
  ASSUME QuestionNow, StepOk, NEW a \in Agents, Mutate(a)
  PROVE  \A b \in Agents : Visible(b)'
<1>0. TypeOK /\ LocatedAt(a) /\ Fitting(a) /\ op[a] \in OpType /\ agent[a] \in AgentType
  BY NowParts, Values DEF Located
<1>a. run \in [Runs -> RunType] /\ GoesOnAsking(run, NoRun)
  BY <1>0, AskingSame DEF TypeOK
<1>b. Reachable(a) => workers[a] \in Gens /\ W(a) \in WorkerType /\ agent[a].state # "absent"
  BY <1>0, Values DEF Reachable, HasWorker, TypeOK, Gens, Fitting
<1>1. ASSUME NEW name, Interrupt(a, name)
      PROVE  \A b \in Agents : Visible(b)'
  BY <1>1, KindVisible DEF Interrupt
<1>2. ASSUME NEW name, Respawn(a, name)
      PROVE  \A b \in Agents : Visible(b)'
  <2> DEFINE o == [Free EXCEPT !.kind = name, !.pc = "admit"]
  <2>1. ~ HasWorker(a) /\ SetOp(a, o) /\ UNCHANGED <<agent, run, workers, worker>> /\ o.pc = "admit"
    BY <1>2 DEF Respawn, Free
  <2> HIDE DEF o
  <2>2. op'[a].pc = "admit" /\ \A b \in Agents \ {a} : op'[b] = op[b]
    BY <1>0, <2>1, OpElsewhere
  <2> QED
    BY <1>a, <2>1, <2>2, BareStep DEF Unready
<1>3. CASE SendWake(a)
  <2> DEFINE o == [Free EXCEPT !.kind = "send", !.pc = "admit"]
  <2>1. ~ HasWorker(a) /\ SetOp(a, o) /\ UNCHANGED <<agent, run, workers, worker>> /\ o.pc = "admit"
    BY <1>3 DEF SendWake, Free
  <2> HIDE DEF o
  <2>2. op'[a].pc = "admit" /\ \A b \in Agents \ {a} : op'[b] = op[b]
    BY <1>0, <2>1, OpElsewhere
  <2> QED
    BY <1>a, <2>1, <2>2, BareStep DEF Unready
<1>4. ASSUME NEW v, CloseOrphan(a, v)
      PROVE  \A b \in Agents : Visible(b)'
  <2> DEFINE ag == [agent[a] EXCEPT !.state = "closed", !.current = NoRun, !.cleanup = "verified"]
             o == [Free EXCEPT !.kind = "close", !.pc = "reap"]
  <2>1. ~ HasWorker(a) /\ UNCHANGED <<run, workers, worker>>
    BY <1>4 DEF CloseOrphan
  <2>2. (SetAgent(a, ag) /\ UNCHANGED op) \/ (SetOp(a, o) /\ UNCHANGED agent)
    BY <1>4 DEF CloseOrphan
  <2>3. ag.gen = agent[a].gen /\ o.pc = "reap" /\ op[a].pc = "free"
    BY <1>0, <1>4 DEF AgentType, Free, CloseOrphan, Request, LockFree
  <2> HIDE DEF ag, o
  <2>4. /\ op'[a].pc \in {"free", "reap"} /\ agent'[a].gen = agent[a].gen
        /\ \A b \in Agents \ {a} : agent'[b] = agent[b] /\ op'[b] = op[b]
    BY <1>0, <2>2, <2>3, OpElsewhere, AgentElsewhere
  <2> QED
    BY <1>a, <2>1, <2>4, BareStep DEF Unready
<1>5. ASSUME NEW proved, ReapDone(a, proved)
      PROVE  \A b \in Agents : Visible(b)'
  <2> DEFINE ag == [agent[a] EXCEPT !.state = IF proved THEN "closed" ELSE "orphaned",
                      !.current = NoRun, !.cleanup = IF proved THEN "verified" ELSE "unknown"]
  <2>1. ~ HasWorker(a) /\ UNCHANGED <<run, workers, worker>>
    BY <1>0, <1>5 DEF ReapDone, Fitting, Workless
  <2>2. SetAgent(a, ag) /\ SetOp(a, Free)
    BY <1>5 DEF ReapDone
  <2>3. ag.gen = agent[a].gen /\ Free.pc = "free"
    BY <1>0 DEF AgentType, Free
  <2> HIDE DEF ag
  <2>4. /\ op'[a].pc = "free" /\ agent'[a].gen = agent[a].gen
        /\ \A b \in Agents \ {a} : agent'[b] = agent[b] /\ op'[b] = op[b]
    BY <1>0, <2>2, <2>3, OpElsewhere, AgentElsewhere
  <2> QED
    BY <1>a, <2>1, <2>4, BareStep DEF Unready
<1>6. CASE ConfirmCleanup(a)
  <2> DEFINE ag == [agent[a] EXCEPT !.state = "closed", !.current = NoRun, !.cleanup = "verified"]
  <2>1. ~ HasWorker(a) /\ UNCHANGED <<run, workers, worker, op>> /\ SetAgent(a, ag) /\ op[a].pc = "free"
    BY <1>6 DEF ConfirmCleanup, Request, LockFree
  <2>2. ag.gen = agent[a].gen
    BY <1>0 DEF AgentType
  <2> HIDE DEF ag
  <2>3. agent'[a].gen = agent[a].gen /\ \A b \in Agents \ {a} : agent'[b] = agent[b]
    BY <1>0, <2>1, <2>2, AgentElsewhere
  <2> QED
    BY <1>a, <2>1, <2>3, BareStep DEF Unready
<1>7. ASSUME NEW r \in Runs, SendIdle(a, r)
      PROVE  \A b \in Agents : Visible(b)'
  <2>1. Reachable(a) /\ r \in Unused /\ UNCHANGED workers
    BY <1>7 DEF SendIdle
  <2>2. /\ AddRun(a, r, "queued") \in [Runs -> RunType] /\ GoesOnAsking(AddRun(a, r, "queued"), NoRun)
        /\ AddRun(a, r, "queued")[r].state \in Waiting
    BY <1>0, <2>1, AddRunType, AskingAdd DEF AddRun, TypeOK, Waiting, RunStates
  <2>3. StartRun(a, r, agent[a], AddRun(a, r, "queued"), W(a), "send")
    BY <1>7 DEF SendIdle
  <2> QED
    BY <1>0, <1>b, <2>1, <2>2, <2>3, StartVisible
<1>8. ASSUME NEW r \in Runs, SendQueued(a, r)
      PROVE  \A b \in Agents : Visible(b)'
  <2>1. UNCHANGED <<agent, workers, worker, op>> /\ r \in Unused /\ run' = AddRun(a, r, "queued")
    BY <1>8 DEF SendQueued, memory
  <2>2. GoesOnAsking(run', NoRun)
    BY <1>0, <2>1, AskingAdd
  <2> QED
    BY <2>1, <2>2, FlaggedSame, FlagVisible DEF HolderGoesOn
<1>9. CASE SoftInterrupt(a)
  <2> DEFINE w == [W(a) EXCEPT !.stopping = TRUE, !.cancelled = TRUE]
             ag == [agent[a] EXCEPT !.state = "stopping"]
             o == [Free EXCEPT !.kind = "soft_interrupt", !.pc = "abort"]
  <2>1. Reachable(a) /\ SetWorker(a, w) /\ SetAgent(a, ag) /\ SetOp(a, o) /\ UNCHANGED workers /\ run' = CancelQueued(run, a)
    BY <1>9 DEF SoftInterrupt
  <2>2. w.life = W(a).life /\ w.stopping
    BY <1>b, <2>1 DEF WorkerType
  <2>3. ag.gen = agent[a].gen /\ ag.state # "absent" /\ o.pc \notin Workless \cup Unready
    BY <1>0 DEF AgentType, Free, Workless, Unready
  <2>4. GoesOnAsking(run', NoRun)
    BY <1>a, <2>1, AskingCancel
  <2>5. Mute(w)
    BY <2>2 DEF Mute
  <2> HIDE DEF w, ag, o
  <2> QED
    BY <1>b, <2>1, <2>2, <2>3, <2>4, <2>5, FreedVisible
<1>10. ASSUME NEW d \in Dialogs, Answer(a, d)
       PROVE  \A b \in Agents : Visible(b)'
  <2> DEFINE v == [W(a) EXCEPT !.ui = W(a).ui \ {d}, !.silent = FALSE]
  <2>1. Reachable(a) /\ Dismiss(a, d, agent[a], run, W(a)) /\ SetWorker(a, v) /\ UNCHANGED <<workers, op>>
    BY <1>10 DEF Answer
  <2>2. /\ v.ui = W(a).ui \ {d} /\ v.run = W(a).run /\ v.closed = W(a).closed
        /\ v.stopping = W(a).stopping /\ v.life = W(a).life
    BY <1>b, <2>1 DEF WorkerType
  <2> HIDE DEF v
  <2>3. worker' = [worker EXCEPT ![a][workers[a]] = v] /\ W(a) = worker[a][workers[a]]
    BY <2>1 DEF SetWorker, W
  <2> QED
    BY <1>b, <2>1, <2>2, <2>3, DismissVisible
<1> QED
  BY <1>1, <1>2, <1>3, <1>4, <1>5, <1>6, <1>7, <1>8, <1>9, <1>10 DEF Mutate

(* The replies awaited under the lock. *)
LEMMA AwaitVisible ==
  ASSUME QuestionNow, StepOk, NEW a \in Agents, Await(a)
  PROVE  \A b \in Agents : Visible(b)'
<1>0. TypeOK /\ LocatedAt(a) /\ op[a] \in OpType /\ agent[a] \in AgentType
  BY NowParts, Values DEF Located
<1>a. run \in [Runs -> RunType] /\ GoesOnAsking(run, NoRun)
  BY <1>0, AskingSame DEF TypeOK
<1>b. workers[a] \in Gens /\ W(a) \in WorkerType
  BY <1>0, Values DEF Await, PromptOk, PromptRejected, PromptUncertain, AbortConfirmed, AbortForced, LocatedAt
<1>c. /\ IdleAgent(agent[a]) \in AgentType /\ IdleAgent(agent[a]).gen = agent[a].gen
      /\ IdleAgent(agent[a]).state # "absent"
  BY <1>0, AgentValues DEF IdleAgent, AgentType
<1>d. IdleWorker(W(a)).life = W(a).life /\ IdleWorker(W(a)).run = NoRun
  BY <1>b, LifeValues DEF IdleWorker, Settled, WorkerType
<1>e. Mute(IdleWorker(W(a))) /\ Free.pc \notin Workless \cup Unready
  BY <1>d DEF Mute, Free, Workless, Unready
<1>1. CASE PromptOk(a) \/ PromptUncertain(a)
  <2>1. UNCHANGED <<agent, run, workers, worker>> /\ SetOp(a, Free)
    BY <1>1 DEF PromptOk, PromptUncertain, KeepUncertain
  <2>2. op'[a] = Free /\ \A b \in Agents \ {a} : op'[b] = op[b]
    BY <1>0, <2>1, OpElsewhere
  <2> QED
    BY <1>a, <1>e, <2>1, <2>2, FlaggedSame, FlagVisible DEF HolderGoesOn, Workless
<1>2. CASE PromptRejected(a)
  <2> DEFINE rs == Finish(run, {W(a).run}, "failed")
  <2>1. rs \in [Runs -> RunType] /\ GoesOnAsking(rs, NoRun)
    BY <1>a, FinishType, AskingFinish DEF RunStates, Terminal
  <2>2. UNCHANGED workers
    BY <1>2 DEF PromptRejected
  <2>3. CASE op[a].kind = "settle"
    <3>1. AdvanceQueue(a, IdleAgent(agent[a]), rs, IdleWorker(W(a)))
      BY <1>2, <2>3 DEF PromptRejected
    <3> HIDE DEF rs
    <3> QED
      BY <1>b, <1>c, <1>d, <2>1, <2>2, <3>1, AdvanceVisible
  <2>4. CASE op[a].kind # "settle"
    <3>1. SetAgent(a, IdleAgent(agent[a])) /\ run' = rs /\ SetWorker(a, IdleWorker(W(a))) /\ SetOp(a, Free)
      BY <1>2, <2>4 DEF PromptRejected
    <3> HIDE DEF rs
    <3> QED
      BY <1>b, <1>c, <1>d, <1>e, <2>1, <2>2, <3>1, FreedVisible
  <2> QED
    BY <2>3, <2>4
<1>3. CASE AbortConfirmed(a)
  <2>1. /\ SetAgent(a, IdleAgent(agent[a])) /\ run' = Finish(run, {W(a).run}, "interrupted")
        /\ SetWorker(a, IdleWorker(W(a))) /\ SetOp(a, Free) /\ UNCHANGED workers
    BY <1>3 DEF AbortConfirmed
  <2>2. GoesOnAsking(run', NoRun)
    BY <1>a, <2>1, AskingFinish DEF Terminal
  <2> QED
    BY <1>b, <1>c, <1>d, <1>e, <2>1, <2>2, FreedVisible
<1>4. CASE AbortForced(a)
  <2>1. BeginInterrupt(a, [op EXCEPT ![a].ans = "none"]) /\ UNCHANGED workers
    BY <1>4 DEF AbortForced
  <2>2. op'[a].pc = "stop" /\ \A b \in Agents \ {a} : op'[b] = op[b]
    BY <1>0, <2>1 DEF BeginInterrupt, TypeOK, OpType
  <2> QED
    BY <2>1, <2>2, InterruptVisible DEF HolderGoesOn
<1> QED
  BY <1>1, <1>2, <1>3, <1>4 DEF Await

(* An exit only speaks for the agent of whose generation it is, and takes the Worker with it. *)
LEMMA ExitVisible ==
  ASSUME QuestionNow, StepOk, NEW a \in Agents, NEW g \in Gens, NEW proved, WorkerExited(a, g, proved)
  PROVE  \A b \in Agents : Visible(b)'
<1> DEFINE w == worker[a][g]
           v == [NoWorker EXCEPT !.life = "done"]
           mine == agent[a].gen = g
<1>0. TypeOK /\ Fitting(a) /\ SpeaksAlone(a) /\ Shown(a) /\ agent[a] \in AgentType
  BY NowParts, Values
<1>1. /\ op[a].pc = "free" /\ UNCHANGED op /\ w.life = "exiting" /\ worker' = [worker EXCEPT ![a][g] = v]
      /\ workers' = IF workers[a] = g THEN [workers EXCEPT ![a] = 0] ELSE workers
  BY DEF WorkerExited, LockFree
<1>2. UNCHANGED agent \/ SetAgent(a, [agent[a] EXCEPT !.state = "crashed", !.current = NoRun,
                                        !.cleanup = IF proved THEN "verified" ELSE "unknown"])
  BY DEF WorkerExited
<1>3. ~ mine => UNCHANGED <<agent, run>>
  BY DEF WorkerExited
<1>4. mine => workers[a] = g
  BY <1>0, <1>1 DEF SpeaksAlone, Accountable
<1>5. agent'[a].gen = agent[a].gen /\ \A b \in Agents \ {a} : agent'[b] = agent[b]
  <2>1. [agent[a] EXCEPT !.state = "crashed", !.current = NoRun,
           !.cleanup = IF proved THEN "verified" ELSE "unknown"].gen = agent[a].gen
    BY <1>0 DEF AgentType
  <2> QED
    BY <1>0, <1>2, <2>1, AgentElsewhere
<1>6. GoesOnAsking(run', NoRun)
  <2> DEFINE s == IF w.stopping THEN "interrupted" ELSE "crashed"
  <2>1. run' = run \/ run' = CancelQueued(Finish(run, {w.run}, s), a)
    BY DEF WorkerExited
  <2>2. run \in [Runs -> RunType] /\ s \in Terminal \cap RunStates
    BY <1>0 DEF TypeOK, Terminal, RunStates
  <2> HIDE DEF s
  <2>3. Finish(run, {w.run}, s) \in [Runs -> RunType] /\ GoesOnAsking(Finish(run, {w.run}, s), NoRun)
    BY <2>2, FinishType, AskingSame, AskingFinish
  <2> QED
    BY <2>1, <2>3, AskingSame, AskingCancel
<1>7. worker \in [Agents -> [Gens -> WorkerType]] /\ workers \in [Agents -> 0..MaxGen]
  BY <1>0 DEF TypeOK
<1>8. v.life = "done"
  BY DEF NoWorker
<1> HIDE DEF v, mine
<1>9. /\ worker'[a][g] = v /\ \A h \in Gens : h # g => worker'[a][h] = worker[a][h]
      /\ \A b \in Agents \ {a} : worker'[b] = worker[b] /\ workers'[b] = workers[b]
      /\ workers'[a] = IF workers[a] = g THEN 0 ELSE workers[a]
  BY <1>1, <1>7
<1>10. Elsewhere(a)
  BY <1>0, <1>1, <1>5, <1>9, ElsewhereSet
<1>11. SpeaksAlone(a)'
  BY <1>0, <1>5, <1>8, <1>9 DEF SpeaksAlone, Accountable
<1>12. workers'[a] # 0 => workers[a] \in Gens /\ workers[a] # g /\ workers'[a] = workers[a] /\ W(a)' = W(a)
  BY <1>7, <1>9 DEF W, Gens
<1>13. workers'[a] # 0 => UNCHANGED <<agent, run>>
  BY <1>3, <1>4, <1>12
<1>14. Fitting(a)'
  BY <1>0, <1>1, <1>12, <1>13 DEF Fitting, HasWorker, Workless, Unready
<1>15. Shown(a)'
  BY <1>0, <1>12, <1>13 DEF Shown, Asking
<1>16. Visible(a)'
  BY <1>11, <1>14, <1>15 DEF Visible
<1> QED
  BY <1>6, <1>10, <1>16, OthersVisible

(* The coroutines the daemon spawned, and its watchdog. *)
LEMMA BackgroundVisible ==
  ASSUME QuestionNow, StepOk, NEW a \in Agents, Background(a)
  PROVE  \A b \in Agents : Visible(b)'
<1>0. TypeOK /\ Fitting(a) /\ op[a] \in OpType /\ agent[a] \in AgentType
  BY NowParts, Values
<1>a. run \in [Runs -> RunType] /\ GoesOnAsking(run, NoRun)
  BY <1>0, AskingSame DEF TypeOK
<1>b. worker \in [Agents -> [Gens -> WorkerType]] /\ op \in [Agents -> OpType]
  BY <1>0 DEF TypeOK
<1>1. ASSUME NEW g \in Gens, StopUnowned(a, g)
      PROVE  \A b \in Agents : Visible(b)'
  <2>1. CASE StopsUnowned(a, g)
    <3> DEFINE o == [Free EXCEPT !.kind = "stop_unowned", !.pc = "stop"]
    <3>1. /\ run' = CancelQueued(run, a) /\ worker' = [worker EXCEPT ![a][g].stopping = TRUE]
          /\ SetOp(a, o) /\ UNCHANGED <<agent, workers>> /\ o.pc = "stop"
      BY <1>1, <2>1 DEF StopUnowned, Free
    <3> HIDE DEF o
    <3>2. op'[a].pc = "stop" /\ \A b \in Agents \ {a} : op'[b] = op[b]
      BY <1>0, <3>1, OpElsewhere
    <3>3. \A b \in Agents, h \in Gens : Flagged(worker[b][h], worker'[b][h])
      BY <1>b, <3>1 DEF Flagged, WorkerType
    <3>4. GoesOnAsking(run', NoRun)
      BY <1>a, <3>1, AskingCancel
    <3> QED
      BY <3>1, <3>2, <3>3, <3>4, FlagVisible DEF HolderGoesOn, Workless, Unready
  <2>2. CASE ~ StopsUnowned(a, g)
    <3>1. UNCHANGED <<agent, run, workers, worker, op>>
      BY <1>1, <2>2 DEF StopUnowned
    <3> QED
      BY <1>a, <3>1, FlaggedSame, FlagVisible DEF HolderGoesOn
  <2> QED
    BY <2>1, <2>2
<1>2. ASSUME NEW g \in Gens, FailWorker(a, g)
      PROVE  \A b \in Agents : Visible(b)'
  <2>1. CASE FailsOwn(a, g)
    <3> DEFINE w == [Settled(W(a)) EXCEPT !.stopping = TRUE]
               o == [Free EXCEPT !.kind = "fail_worker", !.pc = "stop"]
    <3>1. /\ run' = Finish(CancelQueued(run, a), {W(a).run}, "failed") /\ SetWorker(a, w) /\ SetOp(a, o)
          /\ UNCHANGED <<agent, workers>>
      BY <1>2, <2>1 DEF FailWorker
    <3>2. workers[a] \in Gens /\ W(a) \in WorkerType /\ HasWorker(a)
      BY <1>0, <2>1, Values DEF FailsOwn, HasWorker, Gens
    <3>3. w.life = W(a).life /\ w.stopping
      BY <3>2, LifeValues DEF WorkerType
    <3>4. SetAgent(a, agent[a]) /\ agent[a].state # "absent"
      BY <1>0, <3>1, <3>2 DEF SetAgent, Fitting, TypeOK
    <3>5. GoesOnAsking(run', NoRun)
      BY <1>a, <3>1, CancelQueuedType, AskingCancel, AskingFinish DEF Terminal
    <3>6. Mute(w) /\ o.pc \notin Workless \cup Unready
      BY <3>3 DEF Mute, Free, Workless, Unready
    <3> HIDE DEF w, o
    <3> QED
      BY <3>1, <3>2, <3>3, <3>4, <3>5, <3>6, FreedVisible
  <2>2. CASE ~ FailsOwn(a, g)
    <3>1. UNCHANGED <<agent, run, workers, worker, op>>
      BY <1>2, <2>2 DEF FailWorker
    <3> QED
      BY <1>a, <3>1, FlaggedSame, FlagVisible DEF HolderGoesOn
  <2> QED
    BY <2>1, <2>2
<1>3. ASSUME NEW g \in Gens, Reaped(a, g)
      PROVE  \A b \in Agents : Visible(b)'
  <2>1. /\ worker[a][g].life \in {"reading", "failed"} /\ worker' = [worker EXCEPT ![a][g].life = "exiting"]
        /\ UNCHANGED <<agent, run, workers>> /\ (op' = op \/ op' = [op EXCEPT ![a].ans = "gone"])
    BY <1>3 DEF Reaped
  <2>2. \A b \in Agents : op'[b].pc = op[b].pc
    BY <1>b, <2>1 DEF OpType
  <2>3. \A b \in Agents, h \in Gens : Flagged(worker[b][h], worker'[b][h])
    BY <1>b, <2>1 DEF Flagged, WorkerType
  <2> QED
    BY <1>a, <2>1, <2>2, <2>3, FlagVisible DEF HolderGoesOn
<1>4. ASSUME NEW g \in Gens, NEW r \in Runs, Settle(a, g, r)
      PROVE  \A b \in Agents : Visible(b)'
  <2>1. CASE SettleValid(a, g, r)
    <3> DEFINE rs == Finish(run, {r}, Outcome(W(a)))
    <3>1. AdvanceQueue(a, IdleAgent(agent[a]), rs, IdleWorker(W(a))) /\ UNCHANGED workers
      BY <1>4, <2>1 DEF Settle
    <3>2. workers[a] \in Gens /\ W(a) \in WorkerType
      BY <1>0, <2>1, Values DEF SettleValid
    <3>3. /\ IdleAgent(agent[a]) \in AgentType /\ IdleAgent(agent[a]).gen = agent[a].gen
          /\ IdleAgent(agent[a]).state # "absent"
      BY <1>0, AgentValues DEF IdleAgent, AgentType
    <3>4. IdleWorker(W(a)).life = W(a).life /\ IdleWorker(W(a)).run = NoRun
      BY <3>2, LifeValues DEF IdleWorker, Settled, WorkerType
    <3>5. Outcome(W(a)) \in Terminal \cap RunStates
      BY DEF Outcome, Terminal, RunStates
    <3>6. rs \in [Runs -> RunType] /\ GoesOnAsking(rs, NoRun)
      BY <1>a, <3>5, FinishType, AskingFinish
    <3> HIDE DEF rs
    <3> QED
      BY <3>1, <3>2, <3>3, <3>4, <3>6, AdvanceVisible
  <2>2. CASE ~ SettleValid(a, g, r)
    <3>1. UNCHANGED <<agent, run, workers, worker, op>>
      BY <1>4, <2>2 DEF Settle
    <3> QED
      BY <1>a, <3>1, FlaggedSame, FlagVisible DEF HolderGoesOn
  <2> QED
    BY <2>1, <2>2
<1>5. ASSUME NEW g \in Gens, NEW r \in Runs, CheckIdle(a, g, r)
      PROVE  \A b \in Agents : Visible(b)'
  <2>1. CASE TimeoutValid(a, g, r) /\ Reachable(a)
    BY <1>5, <2>1, KindVisible DEF CheckIdle
  <2>2. CASE ~ (TimeoutValid(a, g, r) /\ Reachable(a))
    <3>1. UNCHANGED <<agent, run, workers, worker, op>>
      BY <1>5, <2>2 DEF CheckIdle
    <3> QED
      BY <1>a, <3>1, FlaggedSame, FlagVisible DEF HolderGoesOn
  <2> QED
    BY <2>1, <2>2
<1>6. CASE FallSilent(a)
  <2>1. /\ worker' = [worker EXCEPT ![a][workers[a]] = [W(a) EXCEPT !.silent = TRUE]]
        /\ UNCHANGED <<agent, run, workers, op>>
    BY <1>6 DEF FallSilent, SetWorker
  <2>2. \A b \in Agents, h \in Gens : Flagged(worker[b][h], worker'[b][h])
    BY <1>b, <2>1 DEF Flagged, WorkerType, W
  <2> QED
    BY <1>a, <2>1, <2>2, FlagVisible DEF HolderGoesOn
<1>7. CASE ObserveIdle(a)
  <2>1. UNCHANGED <<agent, run, workers, worker, op>>
    BY <1>7 DEF ObserveIdle
  <2> QED
    BY <1>a, <2>1, FlaggedSame, FlagVisible DEF HolderGoesOn
<1>8. CASE Park(a)
  BY <1>8, KindVisible DEF Park
<1> QED
  BY <1>1, <1>2, <1>3, <1>4, <1>5, <1>6, <1>7, <1>8, ExitVisible DEF Background

(* The frames: whoever heeds one is the registered Worker, and a question moves both rows. *)
LEMMA ReadVisible ==
  ASSUME QuestionNow, StepOk, NEW a \in Agents, Read(a)
  PROVE  \A b \in Agents : Visible(b)'
<1>0. TypeOK /\ ProjectionsActive /\ Fitting(a) /\ SpeaksAlone(a) /\ op[a] \in OpType /\ agent[a] \in AgentType
  BY NowParts, Values
<1>a. run \in [Runs -> RunType] /\ GoesOnAsking(run, NoRun)
  BY <1>0, AskingSame DEF TypeOK
<1>b. worker \in [Agents -> [Gens -> WorkerType]] /\ op \in [Agents -> OpType]
  BY <1>0 DEF TypeOK
<1>1. PICK g \in Gens : \/ ReadReply(a, g) \/ ReadDropped(a, g) \/ ReadAsk(a, g) \/ ReadClosed(a, g)
                        \/ ReadEnd(a, g) \/ ReadDelta(a, g) \/ ReadStart(a, g) \/ ReaderFails(a, g)
  BY DEF Read
<1> DEFINE w == worker[a][g]
           f == Head(proc[a][g].stdout)
<1>c. w.life = "reading" /\ agent[a].gen = g => workers[a] = g /\ W(a) = w
  BY <1>0 DEF SpeaksAlone, Accountable, W
<1>d. w \in WorkerType
  BY <1>b
<1>2. CASE ReadReply(a, g) \/ ReadDropped(a, g)
  <2>1. /\ UNCHANGED <<agent, run, workers, worker>>
        /\ op' = op \/ op' = [op EXCEPT ![a].ans = f.how]
    BY <1>2 DEF ReadReply, ReadDropped, memory
  <2>2. \A b \in Agents : op'[b].pc = op[b].pc
    BY <1>b, <2>1 DEF OpType
  <2> QED
    BY <1>a, <2>1, <2>2, FlaggedSame, FlagVisible DEF HolderGoesOn
<1>3. CASE ReadAsk(a, g)
  <2> DEFINE v == [w EXCEPT !.ui = w.ui \cup {f.dialog}]
             ag == [agent[a] EXCEPT !.state = "needs_input"]
  <2>1. /\ w.life = "reading" /\ agent[a].gen = g /\ f.id = w.run /\ w.run # NoRun
        /\ worker' = [worker EXCEPT ![a][g].ui = w.ui \cup {f.dialog}]
        /\ SetAgent(a, ag) /\ run' = [run EXCEPT ![w.run].state = "needs_input"] /\ UNCHANGED <<workers, op>>
    BY <1>3 DEF ReadAsk, Heads, Heeded
  <2>2. workers[a] = g /\ W(a) = w /\ w.run \in Runs
    BY <1>0, <1>c, <2>1, ProjectedRun
  <2>3. v.run = w.run /\ v.closed = w.closed /\ v.life = w.life
    BY <1>d DEF WorkerType
  <2>4. worker' = [worker EXCEPT ![a][g] = v]
    BY <2>1
  <2>5. ag.gen = g /\ ag.state = "needs_input"
    BY <1>0, <2>1 DEF AgentType
  <2> HIDE DEF v, ag, w
  <2>6. /\ worker'[a][g] = v /\ \A h \in Gens : h # g => worker'[a][h] = worker[a][h]
        /\ \A b \in Agents \ {a} : worker'[b] = worker[b]
    BY <1>b, <2>4
  <2>7. Elsewhere(a) /\ agent'[a].gen = g /\ agent'[a].state = "needs_input"
    BY <1>0, <2>1, <2>5, <2>6, AgentElsewhere, ElsewhereSet
  <2>8. W(a)' = v
    BY <2>1, <2>2, <2>6 DEF W
  <2>9. SpeaksAlone(a)'
    BY <2>1, <2>2, <2>7 DEF SpeaksAlone, Accountable
  <2>10. Fitting(a)'
    BY <1>0, <2>1, <2>2, <2>3, <2>7, <2>8 DEF Fitting, HasWorker
  <2>11. run'[w.run].state = "needs_input" /\ GoesOnAsking(run', NoRun)
    BY <1>a, <2>1, <2>2 DEF GoesOnAsking, RunType
  <2>12. Visible(a)'
    BY <2>3, <2>7, <2>8, <2>9, <2>10, <2>11 DEF Visible, Shown
  <2> QED
    BY <2>7, <2>11, <2>12, OthersVisible
<1>4. CASE ReadClosed(a, g)
  <2> DEFINE d == f.dialog
             v == [worker[a][g] EXCEPT !.ui = worker[a][g].ui \ {d},
                                       !.silent = worker[a][g].silent /\ d \notin worker[a][g].ui]
  <2>1. /\ w.life = "reading" /\ agent[a].gen = g /\ Dismiss(a, d, agent[a], run, worker[a][g])
        /\ worker' = [worker EXCEPT ![a][g].ui = w.ui \ {d},
                                    ![a][g].silent = w.silent /\ d \notin w.ui]
        /\ UNCHANGED <<workers, op>>
    BY <1>4 DEF ReadClosed, Heads, Heeded
  <2>2. g = workers[a]
    BY <1>c, <2>1
  <2>3. worker' = [worker EXCEPT ![a][g] = v]
    BY <1>b, <2>1
  <2>4. /\ v.ui = worker[a][g].ui \ {d} /\ v.run = worker[a][g].run
        /\ v.closed = worker[a][g].closed /\ v.stopping = worker[a][g].stopping
        /\ v.life = worker[a][g].life
    BY <1>d DEF WorkerType
  <2>5. Dismiss(a, d, agent[a], run, worker[a][g]) /\ UNCHANGED <<workers, op>>
    BY <2>1
  <2> HIDE DEF v, d, f, w
  <2> QED
    BY <2>2, <2>3, <2>4, <2>5, DismissVisible
<1>5. CASE ReadEnd(a, g)
  <2> DEFINE v == [w EXCEPT !.cancelled = w.cancelled \/ f.how = "cancelled",
                            !.failed = w.failed \/ f.how = "error"]
  <2>1. /\ worker' = [worker EXCEPT ![a][g].cancelled = w.cancelled \/ f.how = "cancelled",
                                    ![a][g].failed = w.failed \/ f.how = "error"]
        /\ run' = run \/ run' = CancelQueued(run, a)
        /\ UNCHANGED <<agent, workers, op>>
    BY <1>5 DEF ReadEnd
  <2>2. worker' = [worker EXCEPT ![a][g] = v]
    BY <1>b, <2>1
  <2>3. Flagged(w, v)
    BY <1>d DEF Flagged, WorkerType
  <2>4. GoesOnAsking(run', NoRun)
    BY <1>a, <2>1, AskingCancel
  <2> HIDE DEF v, f
  <2>5. \A b \in Agents, h \in Gens : Flagged(worker[b][h], worker'[b][h])
    <3>1. TAKE b \in Agents, h \in Gens
    <3>2. CASE b = a /\ h = g
      BY <1>b, <2>2, <2>3, <3>2
    <3>3. CASE ~ (b = a /\ h = g)
      <4>1. worker'[b][h] = worker[b][h]
        BY <1>b, <2>2, <3>3
      <4> QED
        BY <4>1 DEF Flagged
    <3> QED
      BY <3>2, <3>3
  <2> QED
    BY <2>1, <2>4, <2>5, FlagVisible DEF HolderGoesOn
<1>6. CASE ReadDelta(a, g)
  <2>1. worker' = [worker EXCEPT ![a][g].silent = FALSE] /\ UNCHANGED <<agent, run, workers, op>>
    BY <1>6 DEF ReadDelta
  <2>2. \A b \in Agents, h \in Gens : Flagged(worker[b][h], worker'[b][h])
    BY <1>b, <2>1 DEF Flagged, WorkerType
  <2> QED
    BY <1>a, <2>1, <2>2, FlagVisible DEF HolderGoesOn
<1>7. CASE ReadStart(a, g)
  <2>1. CASE UNCHANGED <<worker, agent>>
    <3>1. UNCHANGED <<agent, run, workers, worker, op>>
      BY <1>7, <2>1 DEF ReadStart
    <3> QED
      BY <1>a, <3>1, FlaggedSame, FlagVisible DEF HolderGoesOn
  <2>2. CASE ~ UNCHANGED <<worker, agent>>
    <3> DEFINE v == [w EXCEPT !.tainted = TRUE]
               ag == [agent[a] EXCEPT !.state = "dormant", !.current = NoRun]
    <3>1. /\ w.life = "reading" /\ agent[a].gen = g /\ w.run = NoRun
          /\ worker' = [worker EXCEPT ![a][g].tainted = TRUE] /\ SetAgent(a, ag) /\ UNCHANGED <<run, workers, op>>
      BY <1>7, <2>2 DEF ReadStart, Heads
    <3>2. workers[a] = g /\ W(a) = w
      BY <1>c, <3>1
    <3>3. v.life = w.life /\ v.run = NoRun /\ v.closed = w.closed
      BY <1>d, <3>1 DEF WorkerType
    <3>4. worker' = [worker EXCEPT ![a][g] = v]
      BY <3>1
    <3>5. ag.gen = g /\ ag.state = "dormant"
      BY <1>0, <3>1 DEF AgentType
    <3>6. op[a].pc \in Workless => w.closed
      BY <1>0, <3>2 DEF Fitting, HasWorker, Gens
    <3> HIDE DEF v, ag, w
    <3>7. /\ agent'[a].gen = agent[a].gen /\ agent'[a].state # "absent"
          /\ \A b \in Agents \ {a} : agent'[b] = agent[b]
      BY <1>0, <3>1, <3>5, AgentElsewhere
    <3>8. \A b \in Agents \ {a} : worker'[b] = worker[b]
      BY <1>b, <3>4
    <3>9. Elsewhere(a)
      BY <1>0, <3>1, <3>7, <3>8, ElsewhereSet
    <3>10. Mute(v)
      BY <3>3 DEF Mute
    <3>11. Visible(a)'
      BY <3>1, <3>2, <3>3, <3>4, <3>6, <3>7, <3>10, MuteVisible
    <3> QED
      BY <1>a, <3>1, <3>9, <3>11, OthersVisible
  <2> QED
    BY <2>1, <2>2
<1>8. CASE ReaderFails(a, g)
  <2>1. /\ w.life = "reading" /\ worker' = [worker EXCEPT ![a][g].life = "failed"]
        /\ UNCHANGED <<agent, run, workers, op>>
    BY <1>8 DEF ReaderFails
  <2>2. \A b \in Agents, h \in Gens : Flagged(worker[b][h], worker'[b][h])
    BY <1>b, <2>1 DEF Flagged, WorkerType
  <2> QED
    BY <1>a, <2>1, <2>2, FlagVisible DEF HolderGoesOn
<1> QED
  BY <1>1, <1>2, <1>3, <1>4, <1>5, <1>6, <1>7, <1>8

(* The daemon's own end, restart and shutdown. *)
LEMMA DaemonVisible ==
  ASSUME QuestionNow, StepOk, Daemon \/ \E a \in Agents : ShutdownAgent(a)
  PROVE  \A b \in Agents : Visible(b)'
<1>0. TypeOK
  BY NowParts
<1>a. run \in [Runs -> RunType] /\ GoesOnAsking(run, NoRun)
  BY <1>0, AskingSame DEF TypeOK
<1>1. CASE Crash \/ ShutdownExit
  <2>1. LoseMemory
    BY <1>1 DEF Crash, ShutdownExit
  <2>2. \A b \in Agents : workers'[b] = 0 /\ op'[b] = Free /\ \A g \in Gens : worker'[b][g].life = "none"
    BY <2>1 DEF LoseMemory, NoWorker
  <2>3. Free.pc \notin Workless \cup Unready
    BY DEF Free, Workless, Unready
  <2> QED
    BY <2>2, <2>3 DEF Visible, SpeaksAlone, Accountable, Fitting, HasWorker, Shown, Asking, Workless
<1>2. CASE BeginShutdown
  <2>1. UNCHANGED <<agent, run, workers, worker, op>>
    BY <1>2 DEF BeginShutdown
  <2> QED
    BY <1>a, <2>1, FlaggedSame, FlagVisible DEF HolderGoesOn
<1>3. ASSUME NEW v \in [Agents -> {"gone", "live", "unknown"}], Restart(v), NEW b \in Agents
      PROVE  Visible(b)'
  <2>1. workers[b] = 0 /\ UNCHANGED <<workers, worker, op>>
    BY <1>3 DEF Restart, memory, QuestionNow, QuestionInv, DownRegisters
  <2>2. agent'[b].gen = agent[b].gen /\ (agent[b].state # "absent" => agent'[b].state # "absent")
    <3>1. agent[b] \in AgentType
      BY <1>0, Values
    <3>2. agent'[b] = IF agent[b].state \in Resident
            THEN [agent[b] EXCEPT !.state = IF v[b] = "gone" THEN "dormant" ELSE "orphaned",
                                  !.cleanup = IF v[b] = "gone" THEN "verified" ELSE "unknown",
                                  !.current = NoRun]
            ELSE [agent[b] EXCEPT !.current = NoRun]
      BY <1>3 DEF Restart
    <3> QED
      BY <3>1, <3>2 DEF AgentType
  <2>3. Visible(b)
    BY DEF QuestionNow, QuestionInv
  <2>4. workers'[b] = 0 /\ W(b)' = W(b)
    BY <2>1 DEF W
  <2>5. SpeaksAlone(b)'
    BY <2>1, <2>2, <2>3 DEF Visible, SpeaksAlone, Accountable
  <2>6. Fitting(b)'
    BY <2>1, <2>2, <2>3, <2>4 DEF Visible, Fitting, HasWorker
  <2>7. Shown(b)'
    BY <2>4 DEF Shown, Asking
  <2> QED
    BY <2>5, <2>6, <2>7 DEF Visible
<1>4. ASSUME NEW a \in Agents, ShutdownAgent(a)
      PROVE  \A b \in Agents : Visible(b)'
  <2>1. CASE BeginInterrupt(a, [op EXCEPT ![a].kind = "shutdown"])
    BY <1>4, <2>1, KindVisible DEF ShutdownAgent
  <2>2. CASE ~ BeginInterrupt(a, [op EXCEPT ![a].kind = "shutdown"])
    <3> DEFINE w == [W(a) EXCEPT !.stopping = TRUE]
               o == [Free EXCEPT !.kind = "shutdown", !.pc = "stop"]
    <3>1. HasWorker(a) /\ SetWorker(a, w) /\ SetOp(a, o) /\ UNCHANGED <<agent, run, workers>>
      BY <1>4, <2>2 DEF ShutdownAgent
    <3>2. workers[a] \in Gens /\ W(a) \in WorkerType /\ agent[a].state # "absent"
      BY <1>0, <3>1, NowParts, Values DEF HasWorker, Fitting, TypeOK, Gens
    <3>3. w.life = W(a).life /\ Mute(w) /\ o.pc \notin Workless \cup Unready
      BY <3>2 DEF WorkerType, Mute, Free, Workless, Unready
    <3>4. SetAgent(a, agent[a])
      BY <1>0, <3>1 DEF SetAgent, TypeOK
    <3> HIDE DEF w, o
    <3> QED
      BY <1>a, <3>1, <3>2, <3>3, <3>4, FreedVisible
  <2> QED
    BY <2>1, <2>2
<1> QED
  BY <1>1, <1>2, <1>3, <1>4 DEF Daemon

(* Every step keeps the questions visible: its actions, one group after the other. *)
LEMMA QuestionStep ==
  ASSUME QuestionNow, [Next]_vars
  PROVE  QuestionInv'
<1>1. StepOk /\ GoesOnAsking(run, NoRun)
  BY NextStep, AskingSame DEF QuestionNow
<1>2. ASSUME NEW a \in Agents, \/ Boot(a) \/ Stop(a) \/ Mutate(a) \/ Await(a) \/ Background(a)
                               \/ Read(a)
      PROVE  QuestionInv'
  <2>1. up' = TRUE
    BY <1>2, UpSteps
  <2>2. \A b \in Agents : Visible(b)'
    BY <1>1, <1>2, BootVisible, StopVisible, MutateVisible, AwaitVisible, BackgroundVisible, ReadVisible
  <2> QED
    BY <2>1, <2>2 DEF QuestionInv, DownRegisters
<1>3. CASE (\E a \in Agents : Process(a)) \/ UNCHANGED vars
  <2>1. UNCHANGED <<up, agent, run, workers, worker, op>>
    BY <1>3, ProcessKeeps DEF vars, memory
  <2>2. \A b \in Agents : Visible(b)'
    BY <1>1, <2>1, FlaggedSame, FlagVisible DEF HolderGoesOn
  <2> QED
    BY <2>1, <2>2 DEF QuestionNow, QuestionInv, DownRegisters
<1>4. CASE Daemon \/ \E a \in Agents : ShutdownAgent(a)
  <2>1. \A b \in Agents : Visible(b)'
    BY <1>1, <1>4, DaemonVisible
  <2>2. CASE \E a \in Agents : ShutdownAgent(a)
    BY <2>1, <2>2, UpSteps DEF QuestionInv, DownRegisters
  <2>3. CASE Crash \/ ShutdownExit
    BY <2>1, <2>3 DEF Crash, ShutdownExit, LoseMemory, QuestionInv, DownRegisters
  <2>4. CASE BeginShutdown
    BY <2>1, <2>4 DEF BeginShutdown, QuestionInv, DownRegisters
  <2>5. ASSUME NEW v \in [Agents -> {"gone", "live", "unknown"}], Restart(v)
        PROVE  QuestionInv'
    <3>1. up' = TRUE
      BY <2>5 DEF Restart
    <3> QED
      BY <2>1, <3>1 DEF QuestionInv, DownRegisters
  <2> QED
    BY <1>4, <2>2, <2>3, <2>4, <2>5 DEF Daemon
<1> QED
  BY <1>2, <1>3, <1>4 DEF Next

(* No Worker is registered yet, so nothing is asked. *)
LEMMA QuestionInit == Init => QuestionNow
<1> SUFFICES ASSUME Init
             PROVE  QuestionNow
  OBVIOUS
<1>1. FailureInv
  BY DEF Init, FailureInv, FailuresKnown, Numbered, NoWorker
<1>2. \A a \in Agents : workers[a] = 0 /\ op[a].pc = "free" /\ \A g \in Gens : worker[a][g].life = "none"
  BY DEF Init, NoWorker, Free
<1>3. \A a \in Agents : Visible(a)
  BY <1>2 DEF Visible, SpeaksAlone, Accountable, Fitting, HasWorker, Shown, Asking, Workless, Unready
<1> QED
  BY <1>1, <1>2, <1>3, OutcomeInit DEF QuestionNow, QuestionInv, DownRegisters

(* While a worker holds an unanswered question for its run, the ledger says needs_input for
   both the agent and the run, whatever closes, answers, refuses, reads or restarts beside it
   and whatever faults occur (runtime.py on_event, dismiss_ui, answer_agent). *)
THEOREM QuestionsAreVisible == Spec => []QuestionVisible
<1>1. QuestionNow /\ [Next]_vars => QuestionNow'
  BY OutcomeStep, FailureStep, QuestionStep DEF QuestionNow, OutcomeInv
<1>2. QuestionNow => QuestionVisible
  BY DEF QuestionNow, QuestionInv, Visible, Shown, Asking, Mute, QuestionVisible, HasWorker
<1> QED
  BY <1>1, <1>2, QuestionInit, PTL DEF Spec
==============================================================================
