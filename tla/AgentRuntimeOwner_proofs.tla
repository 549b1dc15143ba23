--------------------- MODULE AgentRuntimeOwner_proofs ---------------------
(* Every active run is somebody's to settle, and an agent has at most one, for any agents,
   generations, runs, requests and schedules, through crashes, restarts and shutdown.  Two
   faults are excluded because they do break it: a child that starts work outside the managed
   queue, whose closed worker can be replaced while it projects a run, and a fork that raises
   OSError, which leaves the run of its spawn starting.  The runs table then implements
   RunLedger.                                                                                *)
EXTENDS AgentRuntime_proofs

\* The awaits of a boot: before the fork nothing of the new generation exists.
BeforeFork == {"admit", "capacity", "writer", "lock", "victim", "refused", "fork"}
Booting == BeforeFork \cup {"ready", "unboot"}
\* The awaits of whoever works on the registered generation.
OnWorker == {"ready", "unboot", "prompt", "abort", "stop"}

(* Nobody starts work outside the managed queue. *)
QueueFrames == {f \in Frames : f.type # "start"}
StartFree(p) == p.stdout \in Seq(QueueFrames)
NoStarts == \A a \in Agents, g \in Gens : StartFree(proc[a][g])
Managed ==
  /\ \A a \in Agents, g \in Gens : ~ worker[a][g].tainted /\ StartFree(proc[a][g])
  /\ \A t \in tasks : t.kind # "stop_unowned"
  /\ \A a \in Agents : op[a].kind # "stop_unowned"

(* An agent that was never inserted has no generation, no worker and no run. *)
AbsentOwnsNothing(a) ==
  agent[a].state = "absent" =>
    agent[a].gen = 0 /\ workers[a] = 0 /\ \A r \in Runs : run[r].state # "absent" => run[r].owner # a
(* A registered worker is still accounted for, and is the last generation unless it is closed. *)
Registered(a) ==
  workers[a] # 0 => W(a).life \notin {"none", "done"} /\ (~ W(a).closed => workers[a] = agent[a].gen)
(* The holder of the lock is at an await that fits: a boot has no open worker, everyone else has
   the last generation, and what a termination ends with is known. *)
HolderFits(a) ==
  /\ op[a].pc \in BeforeFork => workers[a] = 0 \/ W(a).closed
  /\ op[a].pc \in BeforeFork /\ agent[a].state = "absent" => op[a].kind = "spawn"
  /\ op[a].pc \in OnWorker => workers[a] = agent[a].gen
  /\ op[a].pc = "stop" => op[a].kind \in InterruptKinds \cup {"fail_worker"}
  /\ op[a].pc = "abort" => op[a].kind = "soft_interrupt"
  /\ op[a].pc = "stop" /\ op[a].kind = "fail_worker" => W(a).run = NoRun
  /\ op[a].pc \in {"lock", "victim"} => op[a].back \in {"capacity", "writer"}
(* A run is projected only by the open worker of its agent's last generation, and never during a boot. *)
ProjectedByLast(a) ==
  \A g \in Gens : worker[a][g].run # NoRun =>
    /\ workers[a] = g /\ agent[a].gen = g /\ ~ worker[a][g].closed
    /\ run[worker[a][g].run].owner = a /\ op[a].pc \notin Booting
AgentOwns(a) == AbsentOwnsNothing(a) /\ Registered(a) /\ HolderFits(a) /\ ProjectedByLast(a)

(* Somebody will settle run r. *)
Owned(r) ==
  LET a == run[r].owner
  IN  /\ a \in Agents
      /\ \/ run[r].state = "starting" /\ op[a].kind = "spawn" /\ op[a].pc \in Booting
         \/ run[r].state # "starting" /\ agent[a].gen \in Gens /\ worker[a][agent[a].gen].run = r
ActiveOwned == up => \A r \in Runs : run[r].state \in Active => Owned(r)

DownHasNoWorker == ~up => \A a \in Agents : workers[a] = 0 /\ op[a] = Free

OwnerInv == Managed /\ DownHasNoWorker /\ OneActiveRun /\ ActiveOwned /\ \A a \in Agents : AgentOwns(a)

\* The daemon without the two faults that leave a run behind.
NoRunLeftBehind == "unowned" \notin Faults /\ "exec" \notin Faults

------------------------------------------------------------------------------
(* Work is only started through the managed queue: no frame announces anything else. *)

LEMMA QueueFramesAreFrames ==
  /\ QueueFrames \subseteq Frames
  /\ \A s \in Seq(QueueFrames) : s # << >> => Head(s) \in QueueFrames /\ Tail(s) \in Seq(QueueFrames)
  /\ \A s \in Seq(QueueFrames), f \in QueueFrames : Append(s, f) \in Seq(QueueFrames)
  /\ << >> \in Seq(QueueFrames)
<1>1. \A s \in Seq(QueueFrames) : s # << >> => Head(s) \in QueueFrames /\ Tail(s) \in Seq(QueueFrames)
  BY HeadTailProperties
<1>2. \A s \in Seq(QueueFrames), f \in QueueFrames : Append(s, f) \in Seq(QueueFrames)
  BY AppendProperties
<1>3. << >> \in Seq(QueueFrames)
  BY EmptySeq
<1> QED
  BY <1>1, <1>2, <1>3 DEF QueueFrames

LEMMA StaleQueueFrames ==
  ASSUME NEW s \in Seq(QueueFrames)
  PROVE  [i \in 1..Len(s) |-> [s[i] EXCEPT !.live = FALSE]] \in Seq(QueueFrames)
<1>1. ASSUME NEW i \in 1..Len(s)
      PROVE  [s[i] EXCEPT !.live = FALSE] \in QueueFrames
  <2>1. s[i] \in QueueFrames
    BY ElementOfSeq
  <2> QED
    BY <2>1 DEF QueueFrames, Frames
<1>2. Len(s) \in Nat
  BY LenProperties
<1>3. [i \in 1..Len(s) |-> [s[i] EXCEPT !.live = FALSE]] \in [1..Len(s) -> QueueFrames]
  BY <1>1
<1>4. [1..Len(s) -> QueueFrames] \subseteq Seq(QueueFrames)
  <2>1. [1..Len(s) -> QueueFrames] \in {[1..n -> QueueFrames] : n \in Nat}
    BY <1>2, Zenon
  <2>2. Seq(QueueFrames) = UNION {[1..n -> QueueFrames] : n \in Nat}
    BY SeqDef
  <2> QED
    BY <2>1, <2>2, Zenon
<1> QED
  BY <1>3, <1>4, Zenon

(* What is written to a process, lost or left by its end announces nothing new. *)
LEMMA StartFreeKept ==
  ASSUME NEW p \in ProcType, StartFree(p)
  PROVE  /\ \A c : StartFree(Written(p, c))
         /\ StartFree(Abandoned(p)) /\ \A st : StartFree(Stopped(p, st))
<1>1. ASSUME NEW c
      PROVE  StartFree(Written(p, c))
  BY DEF Written, ProcType, StartFree
<1>2. StartFree(Abandoned(p))
  <2> DEFINE in == [i \in 1..Len(p.stdin) |-> [p.stdin[i] EXCEPT !.live = FALSE]]
             out == [i \in 1..Len(p.stdout) |-> [p.stdout[i] EXCEPT !.live = FALSE]]
  <2>1. out \in Seq(QueueFrames)
    BY StaleQueueFrames DEF StartFree
  <2> HIDE DEF in, out
  <2>2. [p EXCEPT !.abort = IF p.abort = "live" THEN "stale" ELSE p.abort,
                  !.stdin = in, !.stdout = out].stdout = out
    BY DEF ProcType
  <2> QED
    BY <2>1, <2>2 DEF Abandoned, StartFree, in, out
<1>3. ASSUME NEW st
      PROVE  StartFree(Stopped(p, st))
  BY DEF Stopped, ProcType, StartFree
<1> QED
  BY <1>1, <1>2, <1>3

------------------------------------------------------------------------------
(* What most steps do, said of one agent, one Worker, one lock or one run at a time. *)

\* The agent's row keeps its generation, and the registration of its worker stays.
RowKept(b) ==
  /\ agent'[b].gen = agent[b].gen /\ workers'[b] = workers[b]
  /\ agent'[b].state = "absent" => agent[b].state = "absent"

\* A Worker w becomes v: it loses its run only when that is over, closes only without one.
WorkerFits(w, v) ==
  /\ ~ v.tainted
  /\ v.life \in {"none", "done"} => w.life \in {"none", "done"}
  /\ w.closed => v.closed
  /\ v.closed /\ ~ w.closed => v.run = NoRun
  /\ v.run \in {w.run, NoRun}
  /\ v.run # w.run => run'[w.run].state \notin Active

\* A holder stays at its await, or moves to one that fits; a spawn that ends leaves no run starting.
HolderKept(b) == op'[b].pc = op[b].pc /\ op'[b].kind = op[b].kind /\ op'[b].back = op[b].back
HolderMoved(b) ==
  /\ HolderFits(b)' /\ op'[b].kind # "stop_unowned"
  /\ op'[b].pc \in Booting => \A h \in Gens : worker[b][h].run = NoRun \/ worker'[b][h].run = NoRun
  /\ op[b].kind = "spawn" /\ op[b].pc \in Booting =>
       \/ op'[b].kind = "spawn" /\ op'[b].pc \in Booting
       \/ \A r \in Runs : run'[r].state = "starting" => run'[r].owner # b

\* Run r keeps its owner and is active only if it goes on.
RunOwned(r) == run[r].state # "absent" => run'[r].owner = run[r].owner
RunGoesOn(r) ==
  run'[r].state \in Active => run[r].state \in Active /\ (run'[r].state = "starting" <=> run[r].state = "starting")

RowsKept == \A b \in Agents : RowKept(b)
WorkersKept == \A b \in Agents, h \in Gens : WorkerFits(worker[b][h], worker'[b][h])
HoldersKept == \A b \in Agents : HolderKept(b) \/ HolderMoved(b)
RunsOwnedNext == \A r \in Runs : RunOwned(r)
RunsKept == RunsOwnedNext /\ \A r \in Runs : RunGoesOn(r)
RunsInserted ==
  \A r \in Runs : run[r].state = "absent" /\ run'[r].state # "absent" => agent'[run'[r].owner].state # "absent"
StartFreeNext == \A a \in Agents, g \in Gens : StartFree(proc'[a][g])
TasksNext == \A t \in tasks' : t.kind # "stop_unowned"
UpKept == up' = up /\ (up \/ op' = op)
StepFits ==
  RowsKept /\ WorkersKept /\ HoldersKept /\ RunsKept /\ RunsInserted /\ StartFreeNext /\ TasksNext /\ UpKept

\* What the proof starts from, in the terms of the earlier theorems.
OwnerNow == TypeOK /\ Located /\ ProjectionsActive /\ OwnerInv

(* Every agent still owns what it has. *)
LEMMA AgentKept ==
  ASSUME OwnerNow, TypeOK', RowsKept, WorkersKept, HoldersKept, RunsOwnedNext, RunsInserted, NEW b \in Agents
  PROVE  AgentOwns(b)'
<1>1. AgentOwns(b) /\ LocatedAt(b)
  BY DEF OwnerNow, OwnerInv, Located
<1>2. agent'[b].gen = agent[b].gen /\ workers'[b] = workers[b] /\ workers[b] \in 0..MaxGen
  BY DEF RowsKept, RowKept, OwnerNow, TypeOK
<1>3. \A h \in Gens : WorkerFits(worker[b][h], worker'[b][h])
  BY DEF WorkersKept
<1>4. HolderKept(b) \/ HolderMoved(b)
  BY DEF HoldersKept
<1>5. AbsentOwnsNothing(b)'
  <2> SUFFICES ASSUME agent'[b].state = "absent"
               PROVE  /\ agent'[b].gen = 0 /\ workers'[b] = 0
                      /\ \A r \in Runs : run'[r].state # "absent" => run'[r].owner # b
    BY DEF AbsentOwnsNothing
  <2>1. agent[b].state = "absent"
    BY DEF RowsKept, RowKept
  <2>2. agent[b].gen = 0 /\ workers[b] = 0 /\ \A r \in Runs : run[r].state # "absent" => run[r].owner # b
    BY <1>1, <2>1 DEF AgentOwns, AbsentOwnsNothing
  <2>3. ASSUME NEW r \in Runs, run'[r].state # "absent"
        PROVE  run'[r].owner # b
    <3>1. CASE run[r].state # "absent"
      BY <2>2, <3>1 DEF RunsOwnedNext, RunOwned
    <3>2. CASE run[r].state = "absent"
      BY <2>3, <3>2 DEF RunsInserted
    <3> QED
      BY <3>1, <3>2
  <2> QED
    BY <1>2, <2>2, <2>3
<1>6. workers[b] # 0 => WorkerFits(W(b), W(b)')
  <2>1. W(b)' = worker'[b][workers[b]]
    BY <1>2 DEF W
  <2>2. workers[b] # 0 => workers[b] \in Gens
    BY <1>2 DEF Gens
  <2> QED
    BY <1>3, <2>1, <2>2 DEF W
<1>7. Registered(b)'
  <2> SUFFICES ASSUME workers'[b] # 0
               PROVE  W(b)'.life \notin {"none", "done"} /\ (~ W(b)'.closed => workers'[b] = agent'[b].gen)
    BY DEF Registered
  <2>1. W(b).life \notin {"none", "done"} /\ (~ W(b).closed => workers[b] = agent[b].gen)
    BY <1>1, <1>2 DEF AgentOwns, Registered
  <2> QED
    BY <1>2, <1>6, <2>1 DEF WorkerFits
<1>8. HolderFits(b)'
  <2>1. CASE HolderMoved(b)
    BY <2>1 DEF HolderMoved
  <2>2. CASE HolderKept(b)
    <3>1. HolderFits(b)
      BY <1>1 DEF AgentOwns
    <3>2. op[b].pc \in BeforeFork => workers'[b] = 0 \/ W(b)'.closed
      BY <1>2, <1>6, <3>1 DEF HolderFits, WorkerFits
    <3>3. op[b].pc = "stop" /\ op[b].kind = "fail_worker" => W(b)'.run = NoRun
      <4>1. op[b].pc = "stop" /\ op[b].kind = "fail_worker" => workers[b] # 0
        BY <1>1 DEF LocatedAt, Gens
      <4> QED
        BY <1>6, <3>1, <4>1 DEF HolderFits, WorkerFits
    <3> QED
      BY <1>2, <2>2, <3>1, <3>2, <3>3 DEF HolderFits, HolderKept, RowsKept, RowKept
  <2> QED
    BY <1>4, <2>1, <2>2
<1>9. ProjectedByLast(b)'
  <2> SUFFICES ASSUME NEW h \in Gens, worker'[b][h].run # NoRun
               PROVE  /\ workers'[b] = h /\ agent'[b].gen = h /\ ~ worker'[b][h].closed
                      /\ run'[worker'[b][h].run].owner = b /\ op'[b].pc \notin Booting
    BY DEF ProjectedByLast
  <2>1. worker'[b][h].run = worker[b][h].run /\ worker[b][h].run # NoRun
    BY <1>3 DEF WorkerFits
  <2>2. /\ workers[b] = h /\ agent[b].gen = h /\ ~ worker[b][h].closed
        /\ run[worker[b][h].run].owner = b /\ op[b].pc \notin Booting
    BY <1>1, <2>1 DEF AgentOwns, ProjectedByLast
  <2>3. ~ worker'[b][h].closed
    BY <1>3, <2>2 DEF WorkerFits
  <2>4. run'[worker[b][h].run].owner = b
    <3>1. worker[b][h].run \in Runs /\ run[worker[b][h].run].state # "absent"
      BY <2>1, ProjectedRun DEF OwnerNow, ProjectionsActive
    <3> QED
      BY <2>2, <3>1 DEF RunsOwnedNext, RunOwned
  <2>5. op'[b].pc \notin Booting
    BY <1>4, <2>1, <2>2 DEF HolderKept, HolderMoved
  <2> QED
    BY <1>2, <2>1, <2>2, <2>3, <2>4, <2>5
<1> QED
  BY <1>5, <1>7, <1>8, <1>9 DEF AgentOwns

(* Nobody loses an active run, and none becomes active. *)
LEMMA ActiveKept ==
  ASSUME OwnerNow, RowsKept, WorkersKept, HoldersKept, RunsKept, up' = up
  PROVE  ActiveOwned' /\ OneActiveRun'
<1>1. ASSUME NEW r \in Runs, run'[r].state \in Active
      PROVE  /\ run[r].state \in Active /\ run'[r].owner = run[r].owner
             /\ run'[r].state = "starting" <=> run[r].state = "starting"
  BY <1>1 DEF RunsKept, RunsOwnedNext, RunOwned, RunGoesOn, Active
<1>2. OneActiveRun'
  BY <1>1 DEF OneActiveRun, OwnerNow, OwnerInv
<1>3. ASSUME up', NEW r \in Runs, run'[r].state \in Active
      PROVE  Owned(r)'
  <2> DEFINE a == run[r].owner
  <2>1. /\ run[r].state \in Active /\ run'[r].owner = a
        /\ run'[r].state = "starting" <=> run[r].state = "starting"
    BY <1>1, <1>3
  <2>2. Owned(r)
    BY <1>3, <2>1 DEF OwnerNow, OwnerInv, ActiveOwned
  <2>3. a \in Agents
    BY <2>2 DEF Owned
  <2> HIDE DEF a
  <2>4. CASE run[r].state = "starting"
    <3>1. op[a].kind = "spawn" /\ op[a].pc \in Booting
      BY <2>2, <2>4 DEF Owned, a
    <3>2. op'[a].kind = "spawn" /\ op'[a].pc \in Booting
      BY <2>1, <2>3, <2>4, <3>1 DEF HoldersKept, HolderKept, HolderMoved
    <3> QED
      BY <2>1, <2>3, <2>4, <3>2 DEF Owned
  <2>5. CASE run[r].state # "starting"
    <3>1. agent[a].gen \in Gens /\ worker[a][agent[a].gen].run = r
      BY <2>2, <2>5 DEF Owned, a
    <3>2. agent'[a].gen = agent[a].gen
      BY <2>3 DEF RowsKept, RowKept
    <3>3. worker'[a][agent[a].gen].run = r
      BY <1>3, <2>3, <3>1 DEF WorkersKept, WorkerFits
    <3> QED
      BY <2>1, <2>3, <2>5, <3>1, <3>2, <3>3 DEF Owned
  <2> QED
    BY <2>4, <2>5
<1>4. ActiveOwned'
  BY <1>3 DEF ActiveOwned
<1> QED
  BY <1>2, <1>4

(* Nobody starts work outside the queue. *)
LEMMA ManagedKept ==
  ASSUME Managed, WorkersKept, HoldersKept, StartFreeNext, TasksNext
  PROVE  Managed'
<1>1. \A a \in Agents, g \in Gens : ~ worker'[a][g].tainted
  BY DEF WorkersKept, WorkerFits
<1>2. \A a \in Agents : op'[a].kind # "stop_unowned"
  BY DEF Managed, HoldersKept, HolderKept, HolderMoved
<1> QED
  BY <1>1, <1>2 DEF Managed, StartFreeNext, TasksNext, StartFree

(* A step that fits preserves the invariant. *)
LEMMA StepFitsKeeps ==
  ASSUME OwnerNow, TypeOK', StepFits
  PROVE  OwnerInv'
<1>1. \A b \in Agents : AgentOwns(b)'
  BY AgentKept DEF StepFits, RunsKept
<1>2. ActiveOwned' /\ OneActiveRun'
  BY ActiveKept DEF StepFits, UpKept
<1>3. Managed'
  BY ManagedKept DEF StepFits, OwnerNow, OwnerInv
<1>4. DownHasNoWorker'
  BY DEF StepFits, UpKept, RowsKept, RowKept, OwnerNow, OwnerInv, DownHasNoWorker
<1> QED
  BY <1>1, <1>2, <1>3, <1>4 DEF OwnerInv

------------------------------------------------------------------------------
(* The pieces of StepFits, for the updates the actions make. *)

LEMMA RowsSame ==
  ASSUME UNCHANGED <<agent, workers>>
  PROVE  RowsKept
BY DEF RowsKept, RowKept

LEMMA RowsSet ==
  ASSUME TypeOK, NEW a \in Agents, NEW ag, SetAgent(a, ag), UNCHANGED workers,
         ag.gen = agent[a].gen, ag.state = "absent" => agent[a].state = "absent"
  PROVE  RowsKept
BY DEF RowsKept, RowKept, SetAgent, TypeOK

LEMMA WorkersSame ==
  ASSUME TypeOK, Managed, UNCHANGED worker
  PROVE  WorkersKept
BY DEF Managed, WorkersKept, WorkerFits

LEMMA WorkersSet ==
  ASSUME TypeOK, Managed, NEW a \in Agents, NEW g, NEW w, worker' = [worker EXCEPT ![a][g] = w],
         g \in Gens => WorkerFits(worker[a][g], w)
  PROVE  WorkersKept
<1> SUFFICES ASSUME NEW b \in Agents, NEW h \in Gens
             PROVE  WorkerFits(worker[b][h], worker'[b][h])
  BY DEF WorkersKept
<1>1. worker \in [Agents -> [Gens -> WorkerType]]
  BY DEF TypeOK
<1>2. CASE b = a /\ h = g
  <2>1. worker'[b][h] = w
    BY <1>1, <1>2
  <2> QED
    BY <1>2, <2>1
<1>3. CASE ~(b = a /\ h = g)
  <2>1. worker'[b][h] = worker[b][h]
    BY <1>1, <1>3
  <2> QED
    BY <2>1 DEF WorkerFits, Managed
<1> QED
  BY <1>2, <1>3

\* A Worker of which only flags, dialogs or the life of its tasks change.
LEMMA FlagsFit ==
  ASSUME NEW w, NEW v, ~ w.tainted, v.tainted = w.tainted, v.closed = w.closed, v.run = w.run,
         v.life = w.life \/ v.life \notin {"none", "done"}
  PROVE  WorkerFits(w, v)
BY DEF WorkerFits

\* A Worker whose run is over, or that has none.
LEMMA SettledFits ==
  ASSUME NEW w, NEW v, ~ w.tainted, v.tainted = w.tainted, w.closed => v.closed, v.run = NoRun, v.life = w.life,
         w.run # NoRun => run'[w.run].state \notin Active
  PROVE  WorkerFits(w, v)
BY DEF WorkerFits

LEMMA HoldersSame ==
  ASSUME UNCHANGED op
  PROVE  HoldersKept
BY DEF HoldersKept, HolderKept

LEMMA HoldersSet ==
  ASSUME TypeOK, NEW a \in Agents, NEW o, SetOp(a, o), HolderKept(a) \/ HolderMoved(a)
  PROVE  HoldersKept
BY DEF HoldersKept, HolderKept, SetOp, TypeOK

\* A holder that is no boot moves on with the last generation registered, or leaves.
LEMMA MovesOn ==
  ASSUME NEW a \in Agents, op'[a].pc \notin BeforeFork \cup {"ready", "unboot", "abort", "stop"},
         op'[a].kind # "stop_unowned", op'[a].pc = "prompt" => workers'[a] = agent'[a].gen,
         \/ op[a].kind # "spawn" \/ op[a].pc \notin Booting
         \/ \A r \in Runs : run'[r].state = "starting" => run'[r].owner # a
  PROVE  HolderMoved(a)
BY DEF HolderMoved, HolderFits, Booting, OnWorker, BeforeFork

\* A boot that moves to another await before its fork.
LEMMA BootMoves ==
  ASSUME OwnerNow, NEW a \in Agents, RowKept(a), \A h \in Gens : WorkerFits(worker[a][h], worker'[a][h]),
         op[a].pc \in BeforeFork, op'[a].pc \in BeforeFork, op'[a].kind = op[a].kind,
         op'[a].pc \in {"lock", "victim"} => op'[a].back \in {"capacity", "writer"}
  PROVE  HolderMoved(a)
<1>1. AgentOwns(a) /\ workers[a] \in 0..MaxGen /\ op[a].kind # "stop_unowned"
  BY DEF OwnerNow, OwnerInv, TypeOK, Managed
<1>2. workers[a] = 0 \/ W(a).closed
  BY <1>1 DEF AgentOwns, HolderFits
<1>3. workers'[a] = 0 \/ W(a)'.closed
  <2>1. W(a)' = worker'[a][workers[a]] /\ workers'[a] = workers[a]
    BY DEF W, RowKept
  <2> QED
    BY <1>1, <1>2, <2>1 DEF WorkerFits, W, Gens
<1>4. HolderFits(a)'
  BY <1>1, <1>3 DEF HolderFits, BeforeFork, OnWorker, RowKept, AgentOwns
<1>5. \A h \in Gens : worker[a][h].run = NoRun
  BY <1>1 DEF AgentOwns, ProjectedByLast, Booting
<1> QED
  BY <1>1, <1>4, <1>5 DEF HolderMoved, Booting

\* The ledger rs is the one of this state, but for runs that are over now.
Fades(rs) ==
  \A r \in Runs : /\ rs[r].owner = run[r].owner
                  /\ rs[r].state = run[r].state \/ (run[r].state # "absent" /\ rs[r].state \in Terminal)

LEMMA FinishFades ==
  ASSUME NEW rs \in [Runs -> RunType], Fades(rs), NEW S, NEW s \in Terminal
  PROVE  Fades(Finish(rs, S, s))
<1> SUFFICES ASSUME NEW r \in Runs
             PROVE  /\ Finish(rs, S, s)[r].owner = run[r].owner
                    /\ \/ Finish(rs, S, s)[r].state = run[r].state
                       \/ (run[r].state # "absent" /\ Finish(rs, S, s)[r].state \in Terminal)
  BY DEF Fades
<1>1. /\ rs[r].owner = run[r].owner /\ rs[r] \in RunType
      /\ rs[r].state = run[r].state \/ (run[r].state # "absent" /\ rs[r].state \in Terminal)
  BY DEF Fades
<1>2. Finish(rs, S, s)[r] = rs[r] \/ (Finish(rs, S, s)[r] = [rs[r] EXCEPT !.state = s] /\ rs[r].state \in Active \cup {"queued"})
  BY DEF Finish
<1> QED
  BY <1>1, <1>2 DEF RunType, Active, Terminal

LEMMA CancelFades ==
  ASSUME NEW rs \in [Runs -> RunType], Fades(rs), NEW a
  PROVE  Fades(CancelQueued(rs, a))
BY FinishFades DEF CancelQueued, Terminal

LEMMA SameFades == Fades(run)
BY DEF Fades

LEMMA RunsFade ==
  ASSUME Fades(run')
  PROVE  RunsKept /\ RunsInserted
BY DEF Fades, RunsKept, RunsOwnedNext, RunOwned, RunGoesOn, RunsInserted, Active, Terminal

LEMMA FinishEnds ==
  ASSUME NEW rs \in [Runs -> RunType], NEW S, NEW s \in Terminal, NEW r \in S \cap Runs
  PROVE  Finish(rs, S, s)[r].state \notin Active
BY DEF Finish, Terminal, Active, RunType

\* A projected run asks its parent, or stops asking.
LEMMA RunsAsk ==
  ASSUME TypeOK, NEW q, q \in Runs => run[q].state \in Projected, NEW s \in Projected,
         run' = run \/ run' = [run EXCEPT ![q].state = s]
  PROVE  RunsKept /\ RunsInserted
<1>1. ASSUME NEW r \in Runs
      PROVE  /\ run'[r].owner = run[r].owner
             /\ run'[r].state = run[r].state \/ (run[r].state \in Projected /\ run'[r].state \in Projected)
  BY SMTT(30) DEF TypeOK, RunType
<1> QED
  BY <1>1 DEF RunsKept, RunsOwnedNext, RunOwned, RunGoesOn, RunsInserted, Projected, Active

LEMMA StartFreeSame ==
  ASSUME Managed, UNCHANGED proc
  PROVE  StartFreeNext
BY DEF Managed, StartFreeNext

LEMMA StartFreePut ==
  ASSUME TypeOK, NoStarts, NEW a \in Agents, NEW g, NEW p, proc' = [proc EXCEPT ![a][g] = p],
         g \in Gens => StartFree(p)
  PROVE  StartFreeNext
<1> SUFFICES ASSUME NEW b \in Agents, NEW h \in Gens
             PROVE  StartFree(proc'[b][h])
  BY DEF StartFreeNext
<1>1. proc \in [Agents -> [Gens -> ProcType]] /\ StartFree(proc[b][h])
  BY DEF TypeOK, NoStarts
<1> HIDE DEF StartFree
<1>2. CASE b = a /\ h = g
  <2>1. proc'[b][h] = p
    BY <1>1, <1>2
  <2> QED
    BY <1>2, <2>1
<1>3. CASE ~(b = a /\ h = g)
  <2>1. proc'[b][h] = proc[b][h]
    BY <1>1, <1>3
  <2> QED
    BY <1>1, <2>1
<1> QED
  BY <1>2, <1>3

LEMMA StartFreeSet ==
  ASSUME TypeOK, Managed, NEW a \in Agents, NEW g, NEW p, proc' = [proc EXCEPT ![a][g] = p],
         g \in Gens => StartFree(p)
  PROVE  StartFreeNext
BY StartFreePut DEF Managed, NoStarts

LEMMA TasksSame ==
  ASSUME Managed, tasks' \subseteq tasks
  PROVE  TasksNext
BY DEF Managed, TasksNext

------------------------------------------------------------------------------
(* start_run: the worker of the last generation projects the one active run of its agent. *)

\* An active run that no boot holds is projected by its agent's last generation.
LEMMA ActiveIsProjected ==
  ASSUME OwnerNow, up, NEW a \in Agents, op[a].kind # "spawn" \/ op[a].pc \notin Booting,
         NEW q \in Runs, run[q].state \in Active, run[q].owner = a
  PROVE  run[q].state # "starting" /\ agent[a].gen \in Gens /\ worker[a][agent[a].gen].run = q
BY DEF OwnerNow, OwnerInv, ActiveOwned, Owned

LEMMA StartOwns ==
  ASSUME OwnerNow, up, up' = up, NEW a \in Agents, workers[a] \in Gens, workers[a] = agent[a].gen,
         UNCHANGED workers, NEW r \in Runs, NEW rs \in [Runs -> RunType], NEW ag \in AgentType, NEW w, NEW k,
         k # "stop_unowned", ag.gen = agent[a].gen, ~ w.tainted, w.life = W(a).life,
         rs[r].owner = a, run[r].state \in Waiting,
         \A q \in Runs \ {r} :
           /\ rs[q].owner = run[q].owner
           /\ rs[q].state = run[q].state \/ (run[q].state # "absent" /\ rs[q].state \in Terminal),
         \A q \in Runs \ {r} : rs[q].state \in Active => rs[q].owner # a,
         StartRun(a, r, ag, rs, w, k), StartFreeNext, TasksNext
  PROVE  OwnerInv'
<1> DEFINE g == workers[a]
           v == [NewWorker EXCEPT !.run = r, !.tainted = w.tainted, !.life = w.life]
           o == [Free EXCEPT !.kind = k, !.pc = "prompt", !.ans = IF Exited(a, workers[a]) THEN "gone" ELSE "none"]
           n == [ag EXCEPT !.state = "running", !.current = r]
<1>1. v.run = r /\ v.tainted = w.tainted /\ v.life = w.life /\ v.closed = FALSE
  BY DEF NewWorker, NoWorker
<1>2. o.kind = k /\ o.pc = "prompt"
  BY DEF Free
<1>3. n.gen = agent[a].gen /\ n.state = "running"
  BY DEF AgentType
<1>4. /\ agent' = [agent EXCEPT ![a] = n] /\ worker' = [worker EXCEPT ![a][g] = v]
      /\ op' = [op EXCEPT ![a] = o] /\ run' = [rs EXCEPT ![r].state = "running"]
  BY DEF StartRun, SetAgent, SetWorker, SetOp
<1>0. /\ agent \in [Agents -> AgentType] /\ worker \in [Agents -> [Gens -> WorkerType]]
      /\ op \in [Agents -> OpType] /\ run \in [Runs -> RunType]
  BY DEF OwnerNow, TypeOK
<1> HIDE DEF v, o, n
<1>5. agent'[a] = n /\ \A b \in Agents \ {a} : agent'[b] = agent[b]
  BY <1>0, <1>4
<1>6. worker'[a][g] = v /\ \A b \in Agents, h \in Gens : ~(b = a /\ h = g) => worker'[b][h] = worker[b][h]
  BY <1>0, <1>4
<1>7. op'[a] = o /\ \A b \in Agents \ {a} : op'[b] = op[b]
  BY <1>0, <1>4
<1>8. run'[r].state = "running" /\ run'[r].owner = a /\ \A q \in Runs \ {r} : run'[q] = rs[q]
  BY <1>4 DEF RunType
<1> HIDE DEF g
<1>9. ASSUME NEW b \in Agents, NEW h \in Gens, ~(b = a /\ h = g), worker'[b][h].run # NoRun
      PROVE  /\ b # a /\ worker[b][h].run \in Runs \ {r}
             /\ run[worker[b][h].run].state \in Projected /\ run'[worker[b][h].run].owner = run[worker[b][h].run].owner
  <2>1. worker[b][h].run # NoRun
    BY <1>6, <1>9
  <2>2. workers[b] = h
    BY <2>1 DEF OwnerNow, OwnerInv, AgentOwns, ProjectedByLast
  <2>3. worker[b][h].run \in Runs /\ run[worker[b][h].run].state \in Projected
    BY <2>1, ProjectedRun DEF OwnerNow, ProjectionsActive, Projected
  <2> QED
    BY <1>8, <1>9, <2>2, <2>3, States DEF g
<1>10. ASSUME NEW b \in Agents \ {a}
       PROVE  AgentOwns(b)'
  <2>1. AgentOwns(b) /\ workers[b] \in 0..MaxGen
    BY DEF OwnerNow, OwnerInv, TypeOK
  <2>2. W(b)' = worker'[b][workers[b]] /\ (workers[b] # 0 => W(b)' = W(b))
    BY <1>6, <2>1 DEF W, Gens
  <2>3. AbsentOwnsNothing(b)'
    <3> SUFFICES ASSUME agent[b].state = "absent", NEW q \in Runs, run'[q].state # "absent"
                 PROVE  run'[q].owner # b
      BY <1>5, <2>1 DEF AgentOwns, AbsentOwnsNothing
    <3>1. CASE q = r
      BY <1>8, <3>1
    <3>2. CASE q # r
      BY <1>8, <2>1, <3>2 DEF AgentOwns, AbsentOwnsNothing
    <3> QED
      BY <3>1, <3>2
  <2>4. Registered(b)'
    BY <1>5, <2>1, <2>2 DEF AgentOwns, Registered
  <2>5. HolderFits(b)'
    <3>1. HolderFits(b) /\ LocatedAt(b)
      BY <2>1 DEF AgentOwns, OwnerNow, Located
    <3>2. op[b].pc = "stop" /\ op[b].kind = "fail_worker" => workers[b] # 0
      BY <3>1 DEF LocatedAt, Gens
    <3> QED
      BY <1>5, <1>7, <2>2, <3>1, <3>2 DEF HolderFits
  <2>6. ProjectedByLast(b)'
    BY <1>5, <1>6, <1>7, <1>9, <2>1 DEF AgentOwns, ProjectedByLast
  <2> QED
    BY <2>3, <2>4, <2>5, <2>6 DEF AgentOwns
<1>11. AgentOwns(a)'
  <2>0. W(a)' = v /\ g = workers'[a] /\ g = agent'[a].gen /\ g \in Gens /\ W(a) = worker[a][g]
    BY <1>3, <1>5, <1>6 DEF W, g
  <2>1. AbsentOwnsNothing(a)'
    BY <1>3, <1>5 DEF AbsentOwnsNothing
  <2>2. Registered(a)'
    <3>1. W(a).life \notin {"none", "done"}
      BY <2>0 DEF OwnerNow, OwnerInv, AgentOwns, Registered, Gens, g
    <3> QED
      BY <1>1, <2>0, <3>1 DEF Registered
  <2>3. HolderFits(a)'
    BY <1>2, <1>7, <2>0 DEF HolderFits, BeforeFork, OnWorker
  <2>4. ProjectedByLast(a)'
    <3> SUFFICES ASSUME NEW h \in Gens, worker'[a][h].run # NoRun
                 PROVE  /\ workers'[a] = h /\ agent'[a].gen = h /\ ~ worker'[a][h].closed
                        /\ run'[worker'[a][h].run].owner = a /\ op'[a].pc \notin Booting
      BY DEF ProjectedByLast
    <3>1. h = g
      BY <1>9
    <3> QED
      BY <1>1, <1>2, <1>6, <1>7, <1>8, <2>0, <3>1 DEF Booting, BeforeFork
  <2> QED
    BY <2>1, <2>2, <2>3, <2>4 DEF AgentOwns
<1>12. ASSUME NEW q \in Runs \ {r}, run'[q].state \in Active
       PROVE  /\ run'[q].state = run[q].state /\ run'[q].owner = run[q].owner /\ run[q].owner # a
  BY <1>8, <1>12 DEF Active, Terminal
<1>13. OneActiveRun'
  <2> SUFFICES ASSUME NEW p \in Runs, NEW q \in Runs, run'[p].state \in Active, run'[q].state \in Active,
                      run'[p].owner = run'[q].owner
               PROVE  p = q
    BY DEF OneActiveRun
  <2>1. p # r /\ q # r => p = q
    BY <1>12 DEF OwnerNow, OwnerInv, OneActiveRun
  <2>2. p = r => q = r
    BY <1>8, <1>12
  <2>3. q = r => p = r
    BY <1>8, <1>12
  <2> QED
    BY <2>1, <2>2, <2>3
<1>14. ActiveOwned'
  <2> SUFFICES ASSUME NEW q \in Runs, run'[q].state \in Active
               PROVE  Owned(q)'
    BY DEF ActiveOwned
  <2>1. CASE q = r
    <3>1. agent'[a].gen = g /\ g \in Gens
      BY <1>3, <1>5 DEF g
    <3> QED
      BY <1>1, <1>6, <1>8, <2>1, <3>1 DEF Owned
  <2>2. CASE q # r
    <3>1. /\ run'[q].state = run[q].state /\ run'[q].owner = run[q].owner /\ run[q].owner # a
          /\ run[q].state \in Active /\ Owned(q)
      BY <1>12, <2>2 DEF OwnerNow, OwnerInv, ActiveOwned
    <3> QED
      BY <1>5, <1>6, <1>7, <3>1 DEF Owned
  <2> QED
    BY <2>1, <2>2
<1>15. Managed'
  <2>1. \A b \in Agents, h \in Gens : ~ worker'[b][h].tainted
    BY <1>1, <1>6 DEF OwnerNow, OwnerInv, Managed
  <2>2. \A b \in Agents : op'[b].kind # "stop_unowned"
    BY <1>2, <1>7 DEF OwnerNow, OwnerInv, Managed
  <2> QED
    BY <2>1, <2>2 DEF Managed, StartFreeNext, TasksNext, StartFree
<1> QED
  BY <1>10, <1>11, <1>13, <1>14, <1>15 DEF OwnerInv, DownHasNoWorker

------------------------------------------------------------------------------
(* Boots. *)

\* start_run writes a prompt, which announces nothing by itself.
LEMMA PromptStartFree ==
  ASSUME TypeOK, NoStarts, NEW a \in Agents, NEW r, NEW ag, NEW rs, NEW w, NEW k, StartRun(a, r, ag, rs, w, k)
  PROVE  StartFreeNext
<1> DEFINE p == Written(proc[a][workers[a]], [cmd |-> "prompt", id |-> r, dialog |-> None, live |-> TRUE])
<1>1. workers[a] \in Gens => StartFree(p)
  BY StartFreeKept, Values DEF NoStarts
<1>2. proc' = [proc EXCEPT ![a][workers[a]] = p]
  BY DEF StartRun, SetProc
<1> HIDE DEF p
<1> QED
  BY <1>1, <1>2, StartFreePut

LEMMA StartRunFree ==
  ASSUME TypeOK, Managed, NEW a \in Agents, NEW r, NEW ag, NEW rs, NEW w, NEW k, StartRun(a, r, ag, rs, w, k)
  PROVE  StartFreeNext
BY PromptStartFree DEF Managed, NoStarts

\* A step that only moves one lock's holder.
LEMMA HolderStep ==
  ASSUME OwnerNow, up, NEW a \in Agents, NEW o, SetOp(a, o), HolderMoved(a) \/ HolderKept(a),
         UNCHANGED <<up, agent, run, workers, worker, tasks, proc>>
  PROVE  StepFits
<1>1. RowsKept /\ WorkersKept /\ HoldersKept
  BY RowsSame, WorkersSame, HoldersSet DEF OwnerNow, OwnerInv
<1>2. RunsKept /\ RunsInserted
  BY SameFades, RunsFade
<1>3. StartFreeNext /\ TasksNext
  BY StartFreeSame, TasksSame DEF OwnerNow, OwnerInv
<1> QED
  BY <1>1, <1>2, <1>3 DEF StepFits, UpKept

\* Without an open worker nothing is projected.
LEMMA NoneProjected ==
  ASSUME OwnerNow, NEW a \in Agents, workers[a] = 0 \/ W(a).closed \/ op[a].pc \in Booting
  PROVE  \A h \in Gens : worker[a][h].run = NoRun
BY DEF OwnerNow, OwnerInv, AgentOwns, ProjectedByLast, W, Gens

\* Whoever takes the lock to boot finds no open worker.
LEMMA BootTaken ==
  ASSUME OwnerNow, up, NEW a \in Agents, NEW k \in Kinds, k # "stop_unowned", op[a].pc = "free",
         workers[a] = 0 \/ W(a).closed, agent[a].state = "absent" => k = "spawn",
         SetOp(a, [Free EXCEPT !.kind = k, !.pc = "admit"]),
         UNCHANGED <<up, agent, run, workers, worker, tasks, proc>>
  PROVE  StepFits
<1> DEFINE o == [Free EXCEPT !.kind = k, !.pc = "admit"]
<1>1. o.kind = k /\ o.pc = "admit"
  BY DEF Free
<1>2. op'[a] = o
  BY DEF SetOp, OwnerNow, TypeOK
<1> HIDE DEF o
<1>3. \A h \in Gens : worker[a][h].run = NoRun
  BY NoneProjected
<1>4. W(a)' = W(a)
  BY DEF W
<1>5. HolderFits(a)'
  BY <1>1, <1>2, <1>4 DEF HolderFits, OnWorker
<1>6. HolderMoved(a)
  BY <1>1, <1>2, <1>3, <1>5 DEF HolderMoved, Booting, BeforeFork
<1> QED
  BY <1>6, HolderStep DEF o

\* A boot before its fork that goes on.
LEMMA BootGoesOn ==
  ASSUME OwnerNow, up, NEW a \in Agents, NEW o, SetOp(a, o), op[a].pc \in BeforeFork,
         o.pc \in BeforeFork, o.kind = op[a].kind, o.pc \in {"lock", "victim"} => o.back \in {"capacity", "writer"},
         UNCHANGED <<up, agent, run, workers, worker, tasks, proc>>
  PROVE  StepFits
<1>1. op'[a] = o
  BY DEF SetOp, OwnerNow, TypeOK
<1>2. RowsKept /\ WorkersKept
  BY RowsSame, WorkersSame DEF OwnerNow, OwnerInv
<1>3. HolderMoved(a)
  BY <1>1, <1>2, BootMoves DEF RowsKept, WorkersKept
<1> QED
  BY <1>3, HolderStep

\* What is left of a boot's own run once it raised.
LEMMA StartingFails ==
  ASSUME TypeOK, NEW a
  PROVE  LET S == {r \in Runs : run[r] = [state |-> "starting", owner |-> a]}
             rs == Finish(run, S, "failed")
         IN  Fades(rs) /\ \A r \in Runs : rs[r].state = "starting" => rs[r].owner # a
<1> DEFINE S == {r \in Runs : run[r] = [state |-> "starting", owner |-> a]}
           rs == Finish(run, S, "failed")
<1>1. Fades(rs)
  BY SameFades, FinishFades DEF TypeOK, Terminal
<1>2. ASSUME NEW r \in Runs, rs[r].state = "starting"
      PROVE  rs[r].owner # a
  <2>1. run[r] \in RunType
    BY DEF TypeOK
  <2>2. CASE r \in S
    BY <1>2, <2>1, <2>2, FinishEnds DEF TypeOK, Terminal, Active
  <2>3. CASE r \notin S
    <3>1. rs[r] = run[r]
      BY <2>3 DEF Finish
    <3> QED
      BY <1>2, <2>1, <2>3, <3>1 DEF RunType
  <2> QED
    BY <2>2, <2>3
<1> QED
  BY <1>1, <1>2

\* A boot that raises before its fork takes its run with it.
LEMMA AbortFits ==
  ASSUME OwnerNow, up, NEW a \in Agents, op[a].pc \in BeforeFork, AbortBoot(a),
         UNCHANGED <<up, workers, worker, tasks, proc>>
  PROVE  StepFits
<1> DEFINE S == {r \in Runs : run[r] = [state |-> "starting", owner |-> a]}
           ag == [agent[a] EXCEPT !.state = "crashed"]
<1>1. ag.gen = agent[a].gen /\ ag.state = "crashed"
  BY DEF OwnerNow, TypeOK, AgentType
<1>2. /\ RowsKept /\ Fades(run')
      /\ op[a].kind # "spawn" \/ \A r \in Runs : run'[r].state = "starting" => run'[r].owner # a
  <2>1. CASE op[a].kind = "spawn" /\ agent[a].state # "absent"
    <3>1. SetAgent(a, ag) /\ run' = Finish(run, S, "failed")
      BY <2>1 DEF AbortBoot
    <3> HIDE DEF ag
    <3>2. RowsKept
      BY <1>1, <3>1, RowsSet DEF OwnerNow
    <3> QED
      BY <3>1, <3>2, StartingFails DEF OwnerNow
  <2>2. CASE ~(op[a].kind = "spawn" /\ agent[a].state # "absent")
    <3>1. UNCHANGED <<agent, run>>
      BY <2>2 DEF AbortBoot
    <3>2. op[a].kind # "spawn" \/ \A r \in Runs : run'[r].state = "starting" => run'[r].owner # a
      BY <2>2, <3>1 DEF OwnerNow, OwnerInv, AgentOwns, AbsentOwnsNothing
    <3> QED
      BY <3>1, <3>2, RowsSame, SameFades
  <2> QED
    BY <2>1, <2>2
<1>3. op'[a] = Free /\ SetOp(a, Free)
  BY DEF AbortBoot, SetOp, OwnerNow, TypeOK
<1>4. HoldersKept
  <2>1. HolderMoved(a)
    BY <1>2, <1>3, MovesOn DEF Free, BeforeFork
  <2> QED
    BY <1>3, <2>1, HoldersSet DEF OwnerNow
<1> QED
  BY <1>2, <1>4, WorkersSame, RunsFade, StartFreeSame, TasksSame DEF StepFits, UpKept, OwnerNow, OwnerInv

\* interrupt, up to its await, by whoever has the lock of a reachable worker.
LEMMA InterruptRows ==
  ASSUME OwnerNow, NEW a \in Agents, NEW o, BeginInterrupt(a, o), UNCHANGED workers
  PROVE  /\ RowsKept /\ WorkersKept /\ RunsKept /\ RunsInserted
         /\ workers'[a] = agent'[a].gen /\ workers[a] \in Gens
<1> DEFINE ag == [agent[a] EXCEPT !.state = "stopping"]
           v == [W(a) EXCEPT !.stopping = TRUE]
<1>1. workers[a] \in Gens /\ ~ W(a).closed
  BY DEF BeginInterrupt, Reachable, HasWorker, OwnerNow, TypeOK, Gens
<1>2. SetAgent(a, ag) /\ ag.gen = agent[a].gen /\ ag.state = "stopping"
  BY Values DEF BeginInterrupt, AgentType, OwnerNow
<1>3. worker' = [worker EXCEPT ![a][workers[a]] = v] /\ run' = CancelQueued(run, a)
  BY DEF BeginInterrupt, SetWorker
<1>4. WorkerFits(worker[a][workers[a]], v)
  <2>1. W(a) = worker[a][workers[a]] /\ W(a) \in WorkerType /\ ~ W(a).tainted
    BY <1>1, Values DEF W, OwnerNow, OwnerInv, Managed
  <2>2. v.tainted = W(a).tainted /\ v.closed = W(a).closed /\ v.run = W(a).run /\ v.life = W(a).life
    BY <2>1 DEF WorkerType
  <2> QED
    BY <2>1, <2>2, FlagsFit
<1> HIDE DEF ag, v
<1>5. RowsKept
  BY <1>2, RowsSet DEF OwnerNow
<1>6. WorkersKept
  BY <1>3, <1>4, WorkersSet DEF OwnerNow, OwnerInv
<1>7. RunsKept /\ RunsInserted
  BY <1>3, SameFades, CancelFades, RunsFade DEF OwnerNow, TypeOK
<1>8. workers[a] = agent[a].gen
  BY <1>1 DEF OwnerNow, OwnerInv, AgentOwns, Registered, Gens
<1> QED
  BY <1>1, <1>5, <1>6, <1>7, <1>8 DEF RowsKept, RowKept

\* The holder that waits for the end of a process.
LEMMA InterruptHolder ==
  ASSUME OwnerNow, NEW a \in Agents, workers'[a] = agent'[a].gen, op'[a].pc = "stop",
         op'[a].kind \in InterruptKinds, op[a].kind # "spawn" \/ op[a].pc \notin Booting
  PROVE  HolderMoved(a)
BY DEF HolderMoved, HolderFits, OnWorker, BeforeFork, Booting, InterruptKinds

\* A client, the watchdog, the shutdown or a soft interrupt begins to interrupt.
LEMMA InterruptFits ==
  ASSUME OwnerNow, up, NEW a \in Agents, NEW o \in [Agents -> OpType], BeginInterrupt(a, o),
         \A b \in Agents \ {a} : o[b] = op[b], o[a].kind \in InterruptKinds,
         op[a].kind # "spawn" \/ op[a].pc \notin Booting,
         UNCHANGED <<up, workers>>, StartFreeNext, TasksNext
  PROVE  StepFits
<1>1. op'[a].pc = "stop" /\ op'[a].kind = o[a].kind /\ \A b \in Agents \ {a} : op'[b] = op[b]
  BY DEF BeginInterrupt, OpType
<1>2. HolderMoved(a)
  BY <1>1, InterruptRows, InterruptHolder
<1>3. HoldersKept
  BY <1>1, <1>2 DEF HoldersKept, HolderKept
<1> QED
  BY <1>3, InterruptRows DEF StepFits, UpKept

\* A boot evicts: its own await moves, and so does the lock it takes.
LEMMA LockVictimFits ==
  ASSUME OwnerNow, NEW a \in Agents, LockVictim(a)
  PROVE  StepFits
<1> DEFINE b == op[a].victim
           o == [op EXCEPT ![a].pc = "victim", ![b].kind = "evict"]
<1>1. b \in Agents /\ b # a /\ op[a].pc = "lock" /\ op[b].pc = "free" /\ up
  BY DEF LockVictim, OwnerNow, Located, LocatedAt
<1>2. BeginInterrupt(b, o) /\ UNCHANGED <<up, workers, tasks, proc>>
  BY DEF LockVictim
<1>3. /\ o[a].pc = "victim" /\ o[a].kind = op[a].kind /\ o[a].back = op[a].back
      /\ o[b].kind = "evict" /\ \A c \in Agents \ {a, b} : o[c] = op[c]
      /\ \A c \in Agents : o[c] \in OpType
  <2>1. op \in [Agents -> OpType]
    BY DEF OwnerNow, TypeOK
  <2> QED
    BY <1>1, <2>1 DEF OpType, Kinds, Steps
<1>3a. DOMAIN o = Agents
  BY DEF OwnerNow, TypeOK
<1> HIDE DEF o, b
<1>4. op' = [o EXCEPT ![b].pc = "stop"]
  BY <1>2 DEF BeginInterrupt
<1>5. /\ op'[b].pc = "stop" /\ op'[b].kind = "evict" /\ op'[a] = o[a]
      /\ \A c \in Agents \ {a, b} : op'[c] = op[c]
  BY <1>1, <1>3, <1>3a, <1>4 DEF OpType
<1>6. RowsKept /\ WorkersKept /\ RunsKept /\ RunsInserted /\ workers'[b] = agent'[b].gen
  BY <1>1, <1>2, InterruptRows
<1>7. HolderMoved(b)
  BY <1>1, <1>5, <1>6, InterruptHolder DEF InterruptKinds, Booting, BeforeFork
<1>8. HolderMoved(a)
  <2>1. op[a].back \in {"capacity", "writer"}
    BY <1>1 DEF OwnerNow, OwnerInv, AgentOwns, HolderFits
  <2> QED
    BY <1>1, <1>3, <1>5, <1>6, <2>1, BootMoves DEF BeforeFork, RowsKept, WorkersKept
<1>9. HoldersKept
  BY <1>5, <1>7, <1>8 DEF HoldersKept, HolderKept
<1> QED
  BY <1>1, <1>2, <1>6, <1>9, StartFreeSame, TasksSame DEF StepFits, UpKept, OwnerNow, OwnerInv

\* add_agent and add_run: the run of a spawn has its boot to settle it.
LEMMA InsertOwns ==
  ASSUME OwnerNow, TypeOK', NEW a \in Agents, NEW r \in Runs, SpawnInsert(a, r)
  PROVE  OwnerInv'
<1> DEFINE ag == [agent[a] EXCEPT !.state = "starting"]
           o == [op[a] EXCEPT !.pc = "capacity", !.tried = {}]
<1>1. /\ up /\ up' /\ op[a].pc = "writer" /\ agent[a].state = "absent" /\ run[r].state = "absent"
      /\ SetAgent(a, ag) /\ SetOp(a, o) /\ run' = AddRun(a, r, "starting")
      /\ UNCHANGED <<workers, worker, tasks, proc>>
  BY DEF SpawnInsert, Unused
<1>2. ag.gen = agent[a].gen /\ ag.state = "starting" /\ o.pc = "capacity" /\ o.kind = op[a].kind
  BY Values DEF AgentType, OpType, OwnerNow
<1>3. op[a].kind = "spawn"
  BY <1>1 DEF OwnerNow, OwnerInv, AgentOwns, HolderFits, BeforeFork
<1> HIDE DEF ag, o
<1>4. /\ op'[a] = o /\ agent'[a] = ag
      /\ \A b \in Agents \ {a} : op'[b] = op[b] /\ agent'[b] = agent[b]
  BY <1>1 DEF SetOp, SetAgent, OwnerNow, TypeOK
<1>5. /\ run'[r].state = "starting" /\ run'[r].owner = a
      /\ \A q \in Runs \ {r} : run'[q] = run[q]
  BY <1>1 DEF AddRun, OwnerNow, TypeOK
<1>6. RowsKept /\ WorkersKept
  BY <1>1, <1>2, RowsSet, WorkersSame DEF OwnerNow, OwnerInv
<1>7. HoldersKept
  <2>1. HolderMoved(a)
    BY <1>1, <1>2, <1>4, <1>6, BootMoves DEF RowsKept, WorkersKept, BeforeFork
  <2> QED
    BY <1>4, <2>1 DEF HoldersKept, HolderKept
<1>8. RunsOwnedNext /\ RunsInserted
  BY <1>1, <1>2, <1>4, <1>5 DEF RunsOwnedNext, RunOwned, RunsInserted
<1>9. \A b \in Agents : AgentOwns(b)'
  BY <1>6, <1>7, <1>8, AgentKept
<1>10. \A q \in Runs : run[q].state # "absent" => run[q].owner # a
  BY <1>1 DEF OwnerNow, OwnerInv, AgentOwns, AbsentOwnsNothing
<1>11. OneActiveRun'
  BY <1>5, <1>10 DEF OwnerNow, OwnerInv, OneActiveRun, Active
<1>12. ActiveOwned'
  <2> SUFFICES ASSUME NEW q \in Runs, run'[q].state \in Active
               PROVE  Owned(q)'
    BY DEF ActiveOwned
  <2>1. CASE q = r
    BY <1>2, <1>3, <1>4, <1>5, <2>1 DEF Owned, Booting, BeforeFork
  <2>2. CASE q # r
    <3>1. run'[q] = run[q] /\ run[q].state \in Active /\ run[q].owner # a /\ Owned(q)
      BY <1>1, <1>5, <1>10, <2>2 DEF OwnerNow, OwnerInv, ActiveOwned, Active
    <3> QED
      BY <1>1, <1>4, <3>1 DEF Owned
  <2> QED
    BY <2>1, <2>2
<1>13. Managed'
  BY <1>1, <1>6, <1>7, ManagedKept, StartFreeSame, TasksSame DEF OwnerNow, OwnerInv
<1> QED
  BY <1>1, <1>9, <1>11, <1>12, <1>13 DEF OwnerInv, DownHasNoWorker

\* The ledger names the next generation before its fork, when nothing of the agent is active.
LEMMA BeforeSpawnOwns ==
  ASSUME OwnerNow, TypeOK', NEW a \in Agents, BeforeSpawn(a)
  PROVE  OwnerInv'
<1> DEFINE ag == [agent[a] EXCEPT !.state = "starting", !.gen = agent[a].gen + 1, !.cleanup = "pending"]
           o == [op[a] EXCEPT !.pc = "fork", !.tried = {}, !.victim = None, !.back = "free", !.vgen = 0]
<1>1. /\ up /\ up' /\ op[a].pc \in BeforeFork
      /\ SetAgent(a, ag) /\ SetOp(a, o) /\ UNCHANGED <<run, workers, worker, tasks, proc>>
  BY DEF BeforeSpawn, BeforeFork
<1>2. ag.state = "starting" /\ o.pc = "fork" /\ o.kind = op[a].kind
  BY Values DEF AgentType, OpType, OwnerNow
<1> HIDE DEF ag, o
<1>3. /\ op'[a] = o /\ agent'[a] = ag
      /\ \A b \in Agents \ {a} : op'[b] = op[b] /\ agent'[b] = agent[b]
  BY <1>1 DEF SetOp, SetAgent, OwnerNow, TypeOK
<1>4. \A h \in Gens : worker[a][h].run = NoRun
  BY <1>1, NoneProjected DEF Booting
<1>5. \A b \in Agents : AgentOwns(b) /\ workers[b] \in 0..MaxGen
  BY DEF OwnerNow, OwnerInv, TypeOK
<1>6. \A b \in Agents : W(b)' = W(b)
  BY <1>1 DEF W
<1>7. AgentOwns(a)'
  <2>1. workers[a] = 0 \/ W(a).closed
    BY <1>1, <1>5 DEF AgentOwns, HolderFits
  <2>2. AbsentOwnsNothing(a)'
    BY <1>2, <1>3 DEF AbsentOwnsNothing
  <2>3. Registered(a)'
    BY <1>1, <1>5, <1>6, <2>1 DEF AgentOwns, Registered
  <2>4. HolderFits(a)'
    BY <1>1, <1>2, <1>3, <1>6, <2>1 DEF HolderFits, OnWorker
  <2>5. ProjectedByLast(a)'
    BY <1>1, <1>4 DEF ProjectedByLast
  <2> QED
    BY <2>2, <2>3, <2>4, <2>5 DEF AgentOwns
<1>8. ASSUME NEW b \in Agents \ {a}
      PROVE  AgentOwns(b)'
  BY <1>1, <1>3, <1>5, <1>6 DEF AgentOwns, AbsentOwnsNothing, Registered, HolderFits, ProjectedByLast
<1>9. ASSUME NEW q \in Runs, run[q].state \in Active
      PROVE  Owned(q)'
  <2>1. Owned(q)
    BY <1>1, <1>9 DEF OwnerNow, OwnerInv, ActiveOwned
  <2>2. CASE run[q].owner = a
    <3>1. run[q].state = "starting" /\ op[a].kind = "spawn"
      BY <1>4, <1>9, <2>1, <2>2, BoundsAssumption DEF Owned, Runs, NoRun
    <3> QED
      BY <1>1, <1>2, <1>3, <2>2, <3>1 DEF Owned, Booting, BeforeFork
  <2>3. CASE run[q].owner # a
    BY <1>1, <1>3, <2>1, <2>3 DEF Owned
  <2> QED
    BY <2>2, <2>3
<1>10. ActiveOwned' /\ OneActiveRun'
  BY <1>1, <1>9 DEF ActiveOwned, OneActiveRun, OwnerNow, OwnerInv
<1>11. Managed'
  BY <1>1, <1>2, <1>3 DEF Managed, OwnerNow, OwnerInv
<1> QED
  BY <1>1, <1>7, <1>8, <1>10, <1>11 DEF OwnerInv, DownHasNoWorker

\* _start_worker registers the forked generation.
LEMMA RegisterOwns ==
  ASSUME OwnerNow, TypeOK', NEW a \in Agents, Register(a)
  PROVE  OwnerInv'
<1> DEFINE g == agent[a].gen
           ag == [agent[a] EXCEPT !.pid = agent[a].gen]
           o == [op[a] EXCEPT !.pc = "ready"]
<1>1. /\ up /\ up' /\ op[a].pc = "fork" /\ SetAgent(a, ag) /\ SetOp(a, o)
      /\ workers' = [workers EXCEPT ![a] = g] /\ worker' = [worker EXCEPT ![a][g] = NewWorker]
      /\ UNCHANGED <<run, tasks, proc>>
  BY DEF Register
<1>2. /\ ag.gen = g /\ ag.state = agent[a].state /\ o.pc = "ready" /\ o.kind = op[a].kind
  BY Values DEF AgentType, OpType, OwnerNow
<1>0. g \in Gens /\ g # 0
  BY <1>1 DEF OwnerNow, Located, LocatedAt, Gens
<1>2a. agent[a].state # "absent"
  BY <1>0 DEF OwnerNow, OwnerInv, AgentOwns, AbsentOwnsNothing
<1> HIDE DEF ag, o, g
<1>3. /\ op'[a] = o /\ agent'[a] = ag /\ workers'[a] = g
      /\ \A b \in Agents \ {a} : op'[b] = op[b] /\ agent'[b] = agent[b] /\ workers'[b] = workers[b]
  BY <1>1 DEF SetOp, SetAgent, OwnerNow, TypeOK
<1>4. /\ worker'[a][g] = NewWorker
      /\ \A b \in Agents, h \in Gens : ~(b = a /\ h = g) => worker'[b][h] = worker[b][h]
  BY <1>0, <1>1 DEF OwnerNow, TypeOK
<1>5. NewWorker.life = "reading" /\ ~ NewWorker.closed /\ ~ NewWorker.tainted /\ NewWorker.run = NoRun
  BY DEF NewWorker, NoWorker
<1>6. \A h \in Gens : worker[a][h].run = NoRun /\ worker'[a][h].run = NoRun
  BY <1>1, <1>4, <1>5, NoneProjected DEF Booting, BeforeFork
<1>7. \A b \in Agents : AgentOwns(b) /\ workers[b] \in 0..MaxGen
  BY DEF OwnerNow, OwnerInv, TypeOK
<1>8. AgentOwns(a)'
  <2>1. W(a)' = NewWorker
    BY <1>3, <1>4 DEF W
  <2>2. AbsentOwnsNothing(a)'
    BY <1>2, <1>2a, <1>3 DEF AbsentOwnsNothing
  <2>3. Registered(a)'
    BY <1>2, <1>3, <1>5, <2>1 DEF Registered
  <2>4. HolderFits(a)'
    BY <1>2, <1>3 DEF HolderFits, BeforeFork
  <2>5. ProjectedByLast(a)'
    BY <1>6 DEF ProjectedByLast
  <2> QED
    BY <2>2, <2>3, <2>4, <2>5 DEF AgentOwns
<1>9. ASSUME NEW b \in Agents \ {a}
      PROVE  AgentOwns(b)'
  <2>1. W(b)' = worker'[b][workers[b]] /\ (workers[b] # 0 => W(b)' = W(b))
    BY <1>3, <1>4, <1>7 DEF W, Gens
  <2>2. AbsentOwnsNothing(b)' /\ Registered(b)' /\ ProjectedByLast(b)'
    BY <1>1, <1>3, <1>4, <1>7, <2>1 DEF AgentOwns, AbsentOwnsNothing, Registered, ProjectedByLast
  <2>3. HolderFits(b)'
    <3>1. HolderFits(b) /\ LocatedAt(b)
      BY <1>7 DEF AgentOwns, OwnerNow, Located
    <3>2. op[b].pc = "stop" /\ op[b].kind = "fail_worker" => workers[b] # 0
      BY <3>1 DEF LocatedAt, Gens
    <3> QED
      BY <1>3, <2>1, <3>1, <3>2 DEF HolderFits
  <2> QED
    BY <2>2, <2>3 DEF AgentOwns
<1>10. ASSUME NEW q \in Runs, run[q].state \in Active
       PROVE  Owned(q)'
  <2>1. Owned(q)
    BY <1>1, <1>10 DEF OwnerNow, OwnerInv, ActiveOwned
  <2>2. CASE run[q].owner = a
    <3>1. run[q].state = "starting" /\ op[a].kind = "spawn"
      BY <1>6, <1>10, <2>1, <2>2, BoundsAssumption DEF Owned, Runs, NoRun
    <3> QED
      BY <1>1, <1>2, <1>3, <2>2, <3>1 DEF Owned, Booting
  <2>3. CASE run[q].owner # a
    BY <1>1, <1>3, <1>4, <2>1, <2>3 DEF Owned
  <2> QED
    BY <2>2, <2>3
<1>11. ActiveOwned' /\ OneActiveRun'
  BY <1>1, <1>10 DEF ActiveOwned, OneActiveRun, OwnerNow, OwnerInv
<1>12. Managed'
  BY <1>1, <1>2, <1>3, <1>4, <1>5 DEF Managed, OwnerNow, OwnerInv
<1> QED
  BY <1>1, <1>8, <1>9, <1>11, <1>12 DEF OwnerInv, DownHasNoWorker

\* _ready_worker succeeds: the boot's run or the message's starts, or the agent is idle.
LEMMA ReadyOkOwns ==
  ASSUME OwnerNow, TypeOK', NEW a \in Agents, ReadyOk(a)
  PROVE  OwnerInv'
<1> DEFINE ag == [agent[a] EXCEPT !.state = "idle", !.cleanup = "not_checked"]
<1>1. /\ up /\ up' /\ up' = up /\ op[a].pc = "ready" /\ UNCHANGED <<workers, tasks>>
  BY DEF ReadyOk
<1>2. ag.gen = agent[a].gen /\ ag.state = "idle" /\ ag \in AgentType
  BY Values DEF AgentType, OwnerNow, AgentStates, Resident, Cleanups
<1>3. workers[a] \in Gens /\ workers[a] = agent[a].gen
  BY <1>1 DEF OwnerNow, Located, LocatedAt, OwnerInv, AgentOwns, HolderFits, OnWorker
<1>4. ~ W(a).tainted /\ (\A h \in Gens : worker[a][h].run = NoRun)
  BY <1>1, <1>3, NoneProjected DEF OwnerNow, OwnerInv, Managed, W, Booting
<1>5. op[a].kind # "stop_unowned" /\ run \in [Runs -> RunType]
  BY DEF OwnerNow, OwnerInv, Managed, TypeOK
<1>6. ASSUME NEW q \in Runs, run[q].state \in Active, run[q].owner = a
      PROVE  run[q].state = "starting" /\ op[a].kind = "spawn"
  BY <1>1, <1>4, <1>6, BoundsAssumption DEF OwnerNow, OwnerInv, ActiveOwned, Owned, Runs, NoRun
<1> HIDE DEF ag
<1>7. ASSUME NEW r \in Runs, run[r] = [state |-> "starting", owner |-> a],
             StartRun(a, r, ag, run, W(a), op[a].kind)
      PROVE  OwnerInv'
  <2>1. run[r].state = "starting" /\ run[r].owner = a
    BY <1>7
  <2>2. \A q \in Runs \ {r} : run[q].state \in Active => run[q].owner # a
    BY <2>1 DEF OwnerNow, OwnerInv, OneActiveRun, Active
  <2>3. StartFreeNext /\ TasksNext
    BY <1>1, <1>7, StartRunFree, TasksSame DEF OwnerNow, OwnerInv
  <2>4. run[r].state \in Waiting
    BY <2>1 DEF Waiting
  <2> QED
    BY <1>1, <1>2, <1>3, <1>4, <1>5, <1>7, <2>1, <2>2, <2>3, <2>4, StartOwns
<1>8. ASSUME op[a].kind # "spawn", Unused # {},
             StartRun(a, Oldest(Unused), ag, AddRun(a, Oldest(Unused), "queued"), W(a), op[a].kind)
      PROVE  OwnerInv'
  <2> DEFINE r == Oldest(Unused)
             rs == AddRun(a, r, "queued")
  <2>1. r \in Unused /\ r \in Runs /\ run[r].state = "absent"
    BY <1>8, OldestExists DEF Unused
  <2>2. rs \in [Runs -> RunType]
    BY AddRunType DEF RunStates, OwnerNow
  <2>3. rs[r].owner = a /\ \A q \in Runs \ {r} : rs[q] = run[q]
    BY <1>5, <2>1 DEF AddRun
  <2>4. StartRun(a, r, ag, rs, W(a), op[a].kind)
    BY <1>8
  <2> HIDE DEF r, rs
  <2>5. \A q \in Runs \ {r} : rs[q].state \in Active => rs[q].owner # a
    BY <1>6, <1>8, <2>3
  <2>6. StartFreeNext /\ TasksNext
    BY <1>1, <2>4, StartRunFree, TasksSame DEF OwnerNow, OwnerInv
  <2>7. run[r].state \in Waiting
    BY <2>1 DEF Waiting
  <2>8. \A q \in Runs \ {r} : rs[q].owner = run[q].owner /\ rs[q].state = run[q].state
    BY <2>3
  <2> QED
    BY <1>1, <1>2, <1>3, <1>4, <1>5, <2>1, <2>2, <2>3, <2>4, <2>5, <2>6, <2>7, <2>8, StartOwns
<1>9. ASSUME op[a].kind # "spawn", SetAgent(a, ag), SetOp(a, Free), UNCHANGED <<run, worker, proc>>
      PROVE  OwnerInv'
  <2>1. RowsKept /\ WorkersKept /\ RunsKept /\ RunsInserted
    BY <1>1, <1>2, <1>9, RowsSet, WorkersSame, SameFades, RunsFade DEF OwnerNow, OwnerInv
  <2>2. op'[a] = Free
    BY <1>9 DEF SetOp, OwnerNow, TypeOK
  <2>3. HolderMoved(a)
    BY <1>9, <2>2, MovesOn DEF Free, BeforeFork
  <2>4. HoldersKept
    BY <1>9, <2>3, HoldersSet DEF OwnerNow
  <2>5. StepFits
    BY <1>1, <1>9, <2>1, <2>4, StartFreeSame, TasksSame DEF StepFits, UpKept, OwnerNow, OwnerInv
  <2> QED
    BY <2>5, StepFitsKeeps
<1>10. \/ op[a].kind = "spawn" /\ \E r \in Runs : /\ run[r] = [state |-> "starting", owner |-> a]
                                                  /\ StartRun(a, r, ag, run, W(a), op[a].kind)
       \/ /\ op[a].kind \in {"send", "send_interrupt", "respawn_message"} /\ Unused # {}
          /\ StartRun(a, Oldest(Unused), ag, AddRun(a, Oldest(Unused), "queued"), W(a), op[a].kind)
       \/ /\ op[a].kind = "respawn" \/ (op[a].kind # "spawn" /\ Unused = {})
          /\ SetAgent(a, ag) /\ SetOp(a, Free) /\ UNCHANGED <<run, worker, proc>>
  BY DEF ReadyOk, ag
<1>11. CASE op[a].kind = "spawn" /\ \E r \in Runs : /\ run[r] = [state |-> "starting", owner |-> a]
                                                    /\ StartRun(a, r, ag, run, W(a), op[a].kind)
  BY <1>7, <1>11
<1>12. CASE /\ op[a].kind \in {"send", "send_interrupt", "respawn_message"} /\ Unused # {}
            /\ StartRun(a, Oldest(Unused), ag, AddRun(a, Oldest(Unused), "queued"), W(a), op[a].kind)
  BY <1>8, <1>12
<1>13. CASE /\ op[a].kind = "respawn" \/ (op[a].kind # "spawn" /\ Unused = {})
            /\ SetAgent(a, ag) /\ SetOp(a, Free) /\ UNCHANGED <<run, worker, proc>>
  <2>1. op[a].kind # "spawn"
    BY <1>13
  <2> QED
    BY <1>9, <1>13, <2>1
<1> QED
  BY <1>10, <1>11, <1>12, <1>13

\* _ready_worker fails: the boot goes on to terminate what it forked.
LEMMA ReadyFailsFits ==
  ASSUME OwnerNow, NEW a \in Agents, ReadyFails(a)
  PROVE  StepFits
<1> DEFINE v == [W(a) EXCEPT !.stopping = TRUE]
           o == [op[a] EXCEPT !.pc = "unboot"]
<1>1. /\ up /\ up' = up /\ op[a].pc = "ready" /\ SetOp(a, o)
      /\ worker' = [worker EXCEPT ![a][workers[a]] = v] /\ UNCHANGED <<agent, run, workers, tasks, proc>>
  BY DEF ReadyFails, SetWorker
<1>2. o.pc = "unboot" /\ o.kind = op[a].kind
  BY Values DEF OpType, OwnerNow
<1>3. workers[a] \in Gens /\ workers[a] = agent[a].gen
  BY <1>1 DEF OwnerNow, Located, LocatedAt, OwnerInv, AgentOwns, HolderFits, OnWorker
<1>4. WorkerFits(worker[a][workers[a]], v)
  <2>1. W(a) = worker[a][workers[a]] /\ W(a) \in WorkerType /\ ~ W(a).tainted
    BY <1>3, Values DEF W, OwnerNow, OwnerInv, Managed
  <2>2. v.tainted = W(a).tainted /\ v.closed = W(a).closed /\ v.run = W(a).run /\ v.life = W(a).life
    BY <2>1 DEF WorkerType
  <2> QED
    BY <2>1, <2>2, FlagsFit
<1> HIDE DEF v, o
<1>5. op'[a] = o
  BY <1>1 DEF SetOp, OwnerNow, TypeOK
<1>6. HolderMoved(a)
  <2>1. \A h \in Gens : worker[a][h].run = NoRun
    BY <1>1, NoneProjected DEF Booting
  <2>2. op[a].kind # "stop_unowned"
    BY DEF OwnerNow, OwnerInv, Managed
  <2> QED
    BY <1>1, <1>2, <1>3, <1>5, <2>1, <2>2 DEF HolderMoved, HolderFits, Booting, BeforeFork
<1>7. HoldersKept
  BY <1>1, <1>6, HoldersSet DEF OwnerNow
<1>8. RowsKept /\ WorkersKept /\ RunsKept /\ RunsInserted
  BY <1>1, <1>4, RowsSame, WorkersSet, SameFades, RunsFade DEF OwnerNow, OwnerInv
<1> QED
  BY <1>1, <1>7, <1>8, StartFreeSame, TasksSame DEF StepFits, UpKept, OwnerNow, OwnerInv

LEMMA BootOwns ==
  ASSUME OwnerNow, TypeOK', NoRunLeftBehind, NEW a \in Agents, Boot(a)
  PROVE  OwnerInv'
<1>0. op[a] \in OpType /\ op \in [Agents -> OpType]
  BY DEF OwnerNow, TypeOK
<1>1. CASE Spawn(a)
  <2>1. agent[a].state = "absent" /\ op[a].pc = "free" /\ up
    BY <1>1 DEF Spawn, LockFree
  <2>2. workers[a] = 0
    BY <2>1 DEF OwnerNow, OwnerInv, AgentOwns, AbsentOwnsNothing
  <2>3. "spawn" \in Kinds
    BY DEF Kinds, AllRequests
  <2>4. StepFits
    BY <1>1, <2>1, <2>2, <2>3, BootTaken DEF Spawn
  <2> QED
    BY <2>4, StepFitsKeeps
<1>2. CASE Admit(a)
  <2> DEFINE o == [op[a] EXCEPT !.pc = IF op[a].kind = "spawn" THEN "writer" ELSE "capacity"]
  <2>1. o.kind = op[a].kind /\ o.pc \in {"writer", "capacity"}
    BY <1>0 DEF OpType
  <2>2. SetOp(a, o) /\ up /\ op[a].pc = "admit" /\ UNCHANGED <<up, agent, run, workers, worker, tasks, proc>>
    BY <1>2 DEF Admit
  <2> HIDE DEF o
  <2>3. StepFits
    BY <2>1, <2>2, BootGoesOn DEF BeforeFork
  <2> QED
    BY <2>3, StepFitsKeeps
<1>3. CASE LockVictim(a)
  BY <1>3, LockVictimFits, StepFitsKeeps
<1>4. CASE SkipVictim(a)
  <2>1. up /\ op[a].pc = "lock" /\ UNCHANGED <<up, workers, worker, tasks, proc>>
    BY <1>4 DEF SkipVictim
  <2>2. CASE op[a].back = "capacity"
    <3> DEFINE o == [op[a] EXCEPT !.pc = "capacity"]
    <3>1. o.kind = op[a].kind /\ o.pc = "capacity"
      BY <1>0 DEF OpType
    <3>2. SetOp(a, o) /\ UNCHANGED <<agent, run>>
      BY <1>4, <2>2 DEF SkipVictim
    <3> HIDE DEF o
    <3>3. StepFits
      BY <2>1, <3>1, <3>2, BootGoesOn DEF BeforeFork
    <3> QED
      BY <3>3, StepFitsKeeps
  <2>3. CASE op[a].back # "capacity"
    <3>1. AbortBoot(a)
      BY <1>4, <2>3 DEF SkipVictim
    <3>2. StepFits
      BY <2>1, <3>1, AbortFits DEF BeforeFork
    <3> QED
      BY <3>2, StepFitsKeeps
  <2> QED
    BY <2>2, <2>3
<1>5. CASE BootRefused(a) \/ EvictionRefused(a)
  <2>1. up /\ AbortBoot(a) /\ op[a].pc \in BeforeFork /\ UNCHANGED <<up, workers, worker, tasks, proc>>
    BY <1>5 DEF BootRefused, EvictionRefused, BeforeFork
  <2>2. StepFits
    BY <2>1, AbortFits
  <2> QED
    BY <2>2, StepFitsKeeps
<1>6. CASE AdmitWriter(a)
  <2> DEFINE o == [op[a] EXCEPT !.pc = "writer"]
  <2>1. o.kind = op[a].kind /\ o.pc = "writer"
    BY <1>0 DEF OpType
  <2>2. SetOp(a, o) /\ up /\ op[a].pc = "capacity" /\ UNCHANGED <<up, agent, run, workers, worker, tasks, proc>>
    BY <1>6 DEF AdmitWriter
  <2> HIDE DEF o
  <2>3. StepFits
    BY <2>1, <2>2, BootGoesOn DEF BeforeFork
  <2> QED
    BY <2>3, StepFitsKeeps
<1>7. CASE BeforeSpawn(a)
  BY <1>7, BeforeSpawnOwns
<1>8. CASE Fork(a)
  <2> DEFINE p == [NoProc EXCEPT !.st = "forked"]
  <2>1. StartFree(p)
    BY EmptySeq DEF StartFree, NoProc
  <2>2. /\ up /\ UNCHANGED <<up, agent, run, workers, worker, op, tasks>>
        /\ proc' = [proc EXCEPT ![a][agent[a].gen] = p]
    BY <1>8 DEF Fork, memory, SetProc
  <2> HIDE DEF p
  <2>3. StartFreeNext
    BY <2>1, <2>2, StartFreeSet DEF OwnerNow, OwnerInv
  <2>4. StepFits
    BY <2>2, <2>3, RowsSame, WorkersSame, HoldersSame, SameFades, RunsFade, TasksSame
       DEF StepFits, UpKept, OwnerNow, OwnerInv
  <2> QED
    BY <2>4, StepFitsKeeps
<1>9. CASE ForkFails(a)
  BY <1>9 DEF ForkFails, NoRunLeftBehind
<1>10. CASE Register(a)
  BY <1>10, RegisterOwns
<1>11. CASE ReadyOk(a)
  BY <1>11, ReadyOkOwns
<1>12. CASE ReadyFails(a)
  BY <1>12, ReadyFailsFits, StepFitsKeeps
<1>13. ASSUME NEW r \in Runs, SpawnInsert(a, r)
       PROVE  OwnerInv'
  BY <1>13, InsertOwns
<1>14. ASSUME NEW b \in Agents, PickVictim(a, b)
       PROVE  OwnerInv'
  <2> DEFINE o == [op[a] EXCEPT !.pc = "lock", !.victim = b, !.vgen = workers[b],
                                !.back = op[a].pc, !.tried = op[a].tried \cup {b}]
  <2>1. o.kind = op[a].kind /\ o.pc = "lock" /\ o.back = op[a].pc
    BY <1>0 DEF OpType
  <2>2. /\ SetOp(a, o) /\ up /\ op[a].pc \in {"capacity", "writer"}
        /\ UNCHANGED <<up, agent, run, workers, worker, tasks, proc>>
    BY <1>14 DEF PickVictim
  <2> HIDE DEF o
  <2>3. StepFits
    BY <2>1, <2>2, BootGoesOn DEF BeforeFork
  <2> QED
    BY <2>3, StepFitsKeeps
<1> QED
  BY <1>1, <1>2, <1>3, <1>4, <1>5, <1>6, <1>7, <1>8, <1>9, <1>10, <1>11, <1>12, <1>13, <1>14 DEF Boot

------------------------------------------------------------------------------
(* Terminations. *)

\* The row that the end of a termination leaves is still a row.
LEMMA StopRow ==
  ASSUME TypeOK, NEW a \in Agents, NEW k, NEW c
  PROVE  LET ag == [agent[a] EXCEPT !.state = StateAfterStop(k, c), !.current = NoRun, !.cleanup = c]
         IN  ag.gen = agent[a].gen /\ ag.state # "absent"
<1>1. StateAfterStop(k, c) # "absent"
  BY DEF StateAfterStop
<1> QED
  BY <1>1, Values DEF AgentType

\* Only an attempted stop proves anything.
LEMMA VerifiedIsAttempted ==
  ASSUME NEW a, NEW o \in StopOutcomes(a), o.cleanup = "verified"
  PROVE  o.attempted
BY DEF StopOutcomes

LEMMA StopDoneFits ==
  ASSUME OwnerNow, NEW a \in Agents, NEW o \in [cleanup: {"verified", "unknown"}, attempted: BOOLEAN, st: ProcStates],
         StopDone(a, o)
  PROVE  StepFits
<1> DEFINE k == op[a].kind
           own == EndsWith(a, k)
           w == worker[a][workers[a]]
           v == [(IF own = {} THEN W(a) ELSE Settled(W(a)))
                   EXCEPT !.closed = W(a).closed \/ o.attempted, !.stopping = TRUE]
           s == IF k = "check_idle" THEN "timed_out" ELSE "interrupted"
           ag == [agent[a] EXCEPT !.state = StateAfterStop(k, o.cleanup), !.current = NoRun, !.cleanup = o.cleanup]
           p == Stopped(proc[a][workers[a]], o.st)
           q == [Free EXCEPT !.kind = k, !.pc = "admit"]
<1>1. /\ up /\ up' = up /\ op[a].pc = "stop" /\ o \in StopOutcomes(a)
      /\ proc' = [proc EXCEPT ![a][workers[a]] = p] /\ run' = Finish(run, own, s)
      /\ worker' = [worker EXCEPT ![a][workers[a]] = v] /\ SetAgent(a, ag) /\ UNCHANGED <<workers, tasks>>
  BY DEF StopDone, SetProc, SetWorker
<1>2. AgentOwns(a) /\ k # "stop_unowned" /\ k \in InterruptKinds \cup {"fail_worker"}
  BY <1>1 DEF OwnerNow, OwnerInv, Managed, AgentOwns, HolderFits
<1>3. /\ workers[a] \in Gens /\ workers[a] = agent[a].gen /\ W(a) = w
      /\ w \in WorkerType /\ ~ w.tainted
  BY <1>1, <1>2 DEF OwnerNow, OwnerInv, Managed, Located, LocatedAt, AgentOwns, HolderFits, OnWorker, W, TypeOK
<1>4. (k \in InterruptKinds /\ own = {w.run}) \/ (k = "fail_worker" /\ own = {} /\ w.run = NoRun)
  BY <1>1, <1>2, <1>3 DEF EndsWith, AgentOwns, HolderFits, InterruptKinds
<1>5. /\ v.run = NoRun /\ v.tainted = w.tainted /\ v.life = w.life
      /\ v.closed = (w.closed \/ o.attempted)
  BY <1>3, <1>4 DEF Settled, WorkerType
<1>6. s \in Terminal /\ run \in [Runs -> RunType] /\ (w.run # NoRun => w.run \in Runs)
  BY <1>3, ProjectedRun DEF Terminal, OwnerNow, TypeOK
<1>7. ag.gen = agent[a].gen /\ ag.state # "absent"
  BY StopRow DEF OwnerNow
<1>8. StartFree(p)
  BY <1>3, StartFreeKept, Values DEF OwnerNow, OwnerInv, Managed
<1>9. q.kind = k /\ q.pc = "admit"
  BY DEF Free
<1> HIDE DEF v, s, ag, p, own, k, q
<1>10. w.run # NoRun => run'[w.run].state \notin Active
  <2>1. w.run # NoRun => w.run \in own \cap Runs
    BY <1>4, <1>6
  <2> QED
    BY <1>1, <1>6, <2>1, FinishEnds
<1>11. WorkerFits(w, v)
  BY <1>3, <1>5, <1>10, SettledFits
<1>12. RowsKept /\ WorkersKept
  <2>1. WorkersKept
    BY <1>1, <1>11, WorkersSet DEF OwnerNow, OwnerInv
  <2> QED
    BY <1>1, <1>7, <2>1, RowsSet DEF OwnerNow
<1>13. RunsKept /\ RunsInserted
  BY <1>1, <1>6, SameFades, FinishFades, RunsFade
<1>14. StartFreeNext /\ TasksNext
  BY <1>1, <1>8, StartFreeSet, TasksSame DEF OwnerNow, OwnerInv
<1>15. HolderMoved(a)
  <2>1. op'[a] = IF k = "send_interrupt" /\ o.cleanup = "verified" THEN q ELSE Free
    BY DEF StopDone, k, q
  <2>2. CASE k = "send_interrupt" /\ o.cleanup = "verified"
    <3>1. o.attempted
      BY <1>1, <2>2, VerifiedIsAttempted
    <3>2. worker'[a][workers[a]] = v
      BY <1>1, <1>3 DEF OwnerNow, TypeOK
    <3>3. W(a)' = v /\ v.closed
      BY <1>1, <1>5, <3>1, <3>2 DEF W
    <3>4. agent'[a].state # "absent"
      BY <1>1, <1>7 DEF SetAgent, OwnerNow, TypeOK
    <3>5. \A h \in Gens : worker[a][h].run = NoRun \/ worker'[a][h].run = NoRun
      <4>1. \A h \in Gens : worker[a][h].run # NoRun => h = workers[a]
        BY <1>2 DEF AgentOwns, ProjectedByLast
      <4> QED
        BY <1>5, <3>2, <4>1
    <3>6. HolderFits(a)'
      BY <1>9, <2>1, <2>2, <3>3, <3>4 DEF HolderFits, OnWorker
    <3> QED
      BY <1>1, <1>2, <1>9, <2>1, <2>2, <3>5, <3>6 DEF HolderMoved, Booting, BeforeFork, k
  <2>3. CASE ~(k = "send_interrupt" /\ o.cleanup = "verified")
    BY <1>1, <2>1, <2>3, MovesOn DEF Free, BeforeFork, Booting
  <2> QED
    BY <2>2, <2>3
<1>16. ASSUME NEW b \in Agents \ {a}
       PROVE  HolderKept(b) \/ HolderMoved(b)
  <2>1. op'[b] = IF k = "evict" /\ op[b].pc = "victim" /\ op[b].victim = a
                 THEN IF op[b].back = "writer" /\ o.cleanup # "verified"
                      THEN [op[b] EXCEPT !.pc = "refused"] ELSE [op[b] EXCEPT !.pc = op[b].back]
                 ELSE op[b]
    BY DEF StopDone, k
  <2>2. op[b] \in OpType
    BY DEF OwnerNow, TypeOK
  <2>3. CASE op[b].pc = "victim" /\ op'[b] # op[b]
    <3>1. op[b].back \in {"capacity", "writer"}
      BY <2>3 DEF OwnerNow, OwnerInv, AgentOwns, HolderFits
    <3>2. op'[b].kind = op[b].kind /\ op'[b].pc \in {"refused", "capacity", "writer"}
      BY <2>1, <2>2, <2>3, <3>1 DEF OpType
    <3> QED
      BY <1>12, <2>3, <3>2, BootMoves DEF RowsKept, WorkersKept, BeforeFork
  <2>4. CASE op'[b] = op[b]
    BY <2>4 DEF HolderKept
  <2> QED
    BY <2>1, <2>3, <2>4
<1>17. HoldersKept
  BY <1>15, <1>16 DEF HoldersKept
<1> QED
  BY <1>1, <1>12, <1>13, <1>14, <1>17 DEF StepFits, UpKept

LEMMA UnbootDoneFits ==
  ASSUME OwnerNow, NEW a \in Agents, NEW o \in [cleanup: {"verified", "unknown"}, attempted: BOOLEAN, st: ProcStates],
         UnbootDone(a, o)
  PROVE  StepFits
<1> DEFINE w == worker[a][workers[a]]
           v == [W(a) EXCEPT !.closed = W(a).closed \/ o.attempted]
           ag == [agent[a] EXCEPT !.cleanup = o.cleanup,
                    !.state = IF op[a].kind = "spawn" THEN "crashed" ELSE agent[a].state]
           p == Stopped(proc[a][workers[a]], o.st)
           S == {r \in Runs : run[r] = [state |-> "starting", owner |-> a]}
<1>1. /\ up /\ up' = up /\ op[a].pc = "unboot" /\ SetOp(a, Free)
      /\ proc' = [proc EXCEPT ![a][workers[a]] = p]
      /\ run' = IF op[a].kind = "spawn" THEN Finish(run, S, "failed") ELSE run
      /\ worker' = [worker EXCEPT ![a][workers[a]] = v] /\ SetAgent(a, ag) /\ UNCHANGED <<workers, tasks>>
  BY DEF UnbootDone, SetProc, SetWorker
<1>2. /\ workers[a] \in Gens /\ W(a) = w /\ w \in WorkerType /\ ~ w.tainted
  BY <1>1 DEF OwnerNow, OwnerInv, Managed, Located, LocatedAt, W, TypeOK
<1>3. w.run = NoRun
  BY <1>1, <1>2, NoneProjected DEF Booting
<1>4. v.run = w.run /\ v.tainted = w.tainted /\ v.life = w.life /\ (w.closed => v.closed)
  BY <1>2 DEF WorkerType
<1>5. ag.gen = agent[a].gen /\ (ag.state = "absent" => agent[a].state = "absent")
  BY Values DEF OwnerNow, AgentType
<1>6. StartFree(p)
  BY <1>2, StartFreeKept, Values DEF OwnerNow, OwnerInv, Managed
<1>7. op[a].kind = "spawn" => Fades(run') /\ \A r \in Runs : run'[r].state = "starting" => run'[r].owner # a
  BY <1>1, StartingFails DEF OwnerNow
<1> HIDE DEF v, ag, p, S
<1>8. WorkerFits(w, v)
  BY <1>2, <1>3, <1>4, SettledFits
<1>9. WorkersKept
  BY <1>1, <1>8, WorkersSet DEF OwnerNow, OwnerInv
<1>10. RowsKept
  BY <1>1, <1>5, RowsSet DEF OwnerNow
<1>11. RunsKept /\ RunsInserted
  BY <1>1, <1>7, SameFades, RunsFade
<1>12. op'[a] = Free
  BY <1>1 DEF SetOp, OwnerNow, TypeOK
<1>13. HolderMoved(a)
  BY <1>7, <1>12, MovesOn DEF Free, BeforeFork
<1>14. HoldersKept
  BY <1>1, <1>13, HoldersSet DEF OwnerNow
<1>15. StartFreeNext /\ TasksNext
  BY <1>1, <1>6, StartFreeSet, TasksSame DEF OwnerNow, OwnerInv
<1> QED
  BY <1>1, <1>9, <1>10, <1>11, <1>14, <1>15 DEF StepFits, UpKept

LEMMA StopOwns ==
  ASSUME OwnerNow, TypeOK', NEW a \in Agents, Stop(a)
  PROVE  OwnerInv'
<1>1. StepFits
  BY StopDoneFits, UnbootDoneFits DEF Stop
<1> QED
  BY <1>1, StepFitsKeeps

------------------------------------------------------------------------------
(* The client's mutations. *)

\* The facts of a worker that somebody may still reach.
LEMMA OpenWorker ==
  ASSUME OwnerNow, NEW a \in Agents, HasWorker(a)
  PROVE  /\ workers[a] \in Gens /\ workers[a] = agent[a].gen /\ agent[a].state # "absent"
         /\ W(a) = worker[a][workers[a]] /\ W(a) \in WorkerType /\ ~ W(a).tainted
<1>1. workers[a] \in Gens /\ ~ W(a).closed
  BY DEF HasWorker, OwnerNow, TypeOK, Gens
<1>2. workers[a] = agent[a].gen /\ agent[a].state # "absent"
  BY <1>1 DEF OwnerNow, OwnerInv, AgentOwns, Registered, AbsentOwnsNothing, Gens
<1> QED
  BY <1>1, <1>2, Values DEF W, OwnerNow, OwnerInv, Managed

\* Only flags, dialogs or the life of the registered worker change.
LEMMA FlagsSet ==
  ASSUME OwnerNow, NEW a \in Agents, workers[a] \in Gens, NEW v, SetWorker(a, v),
         v.tainted = W(a).tainted, v.closed = W(a).closed, v.run = W(a).run, v.life = W(a).life
  PROVE  WorkersKept
<1>1. W(a) = worker[a][workers[a]] /\ ~ W(a).tainted
  BY DEF W, OwnerNow, OwnerInv, Managed
<1>2. WorkerFits(worker[a][workers[a]], v)
  BY <1>1, FlagsFit
<1> QED
  BY <1>2, WorkersSet DEF SetWorker, OwnerNow, OwnerInv

\* A command written to the registered worker.
LEMMA WrittenFree ==
  ASSUME OwnerNow, NEW a \in Agents, workers[a] \in Gens, NEW c, SetProc(a, workers[a], Written(proc[a][workers[a]], c))
  PROVE  StartFreeNext
<1>1. StartFree(Written(proc[a][workers[a]], c))
  BY StartFreeKept, Values DEF OwnerNow, OwnerInv, Managed
<1> QED
  BY <1>1, StartFreeSet DEF SetProc, OwnerNow, OwnerInv

\* A holder that is no boot frees the lock.
LEMMA HolderFrees ==
  ASSUME OwnerNow, NEW a \in Agents, SetOp(a, Free), op[a].kind # "spawn" \/ op[a].pc \notin Booting
  PROVE  HoldersKept
<1>1. op'[a] = Free
  BY DEF SetOp, OwnerNow, TypeOK
<1>2. HolderMoved(a)
  BY <1>1, MovesOn DEF Free, BeforeFork
<1> QED
  BY <1>2, HoldersSet DEF OwnerNow

LEMMA SoftInterruptFits ==
  ASSUME OwnerNow, NEW a \in Agents, SoftInterrupt(a)
  PROVE  StepFits
<1> DEFINE v == [W(a) EXCEPT !.stopping = TRUE, !.cancelled = TRUE]
           ag == [agent[a] EXCEPT !.state = "stopping"]
           o == [Free EXCEPT !.kind = "soft_interrupt", !.pc = "abort"]
<1>1. /\ up /\ up' = up /\ op[a].pc = "free" /\ HasWorker(a) /\ run' = CancelQueued(run, a)
      /\ SetWorker(a, v) /\ SetAgent(a, ag) /\ SetOp(a, o) /\ UNCHANGED <<workers, tasks>>
      /\ SetProc(a, workers[a], Written(proc[a][workers[a]],
           [cmd |-> "abort", id |-> W(a).run, dialog |-> None, live |-> TRUE]))
  BY DEF SoftInterrupt, Request, LockFree, Reachable
<1>2. v.tainted = W(a).tainted /\ v.closed = W(a).closed /\ v.run = W(a).run /\ v.life = W(a).life
  BY <1>1, OpenWorker DEF WorkerType
<1>3. ag.gen = agent[a].gen /\ ag.state = "stopping"
  BY Values DEF AgentType, OwnerNow
<1>4. o.kind = "soft_interrupt" /\ o.pc = "abort"
  BY DEF Free
<1>5. workers[a] \in Gens /\ workers[a] = agent[a].gen
  BY <1>1, OpenWorker
<1> HIDE DEF v, ag, o
<1>6. RowsKept /\ WorkersKept /\ StartFreeNext
  BY <1>1, <1>2, <1>3, <1>5, RowsSet, FlagsSet, WrittenFree DEF OwnerNow
<1>7. op'[a] = o
  BY <1>1 DEF SetOp, OwnerNow, TypeOK
<1>8. HolderMoved(a)
  BY <1>1, <1>4, <1>5, <1>6, <1>7 DEF HolderMoved, HolderFits, Booting, BeforeFork, RowsKept, RowKept
<1>9. HoldersKept
  BY <1>1, <1>8, HoldersSet DEF OwnerNow
<1>10. RunsKept /\ RunsInserted
  BY <1>1, SameFades, CancelFades, RunsFade DEF OwnerNow, TypeOK
<1> QED
  BY <1>1, <1>6, <1>9, <1>10, TasksSame DEF StepFits, UpKept, OwnerNow, OwnerInv

LEMMA SendIdleOwns ==
  ASSUME OwnerNow, TypeOK', NEW a \in Agents, NEW r \in Runs, SendIdle(a, r)
  PROVE  OwnerInv'
<1> DEFINE rs == AddRun(a, r, "queued")
<1>1. /\ up /\ up' = up /\ op[a].pc = "free" /\ HasWorker(a) /\ W(a).run = NoRun /\ r \in Unused
      /\ StartRun(a, r, agent[a], rs, W(a), "send") /\ UNCHANGED <<workers, tasks>>
  BY DEF SendIdle, Request, LockFree, Reachable, Occupied
<1>2. /\ workers[a] \in Gens /\ workers[a] = agent[a].gen /\ W(a) = worker[a][workers[a]] /\ ~ W(a).tainted
  BY <1>1, OpenWorker
<1>3. rs \in [Runs -> RunType] /\ run \in [Runs -> RunType] /\ agent[a] \in AgentType
  BY AddRunType DEF RunStates, OwnerNow, TypeOK
<1>4. rs[r].owner = a /\ \A q \in Runs \ {r} : rs[q] = run[q]
  BY <1>3 DEF AddRun
<1>5. run[r].state \in Waiting
  BY <1>1 DEF Unused, Waiting
<1> HIDE DEF rs
<1>6. \A q \in Runs \ {r} : rs[q].state \in Active => rs[q].owner # a
  <2> SUFFICES ASSUME NEW q \in Runs \ {r}, run[q].state \in Active, run[q].owner = a
               PROVE  FALSE
    BY <1>4
  <2>1. worker[a][agent[a].gen].run = q
    BY <1>1, ActiveIsProjected DEF Booting, BeforeFork
  <2> QED
    BY <1>1, <1>2, <2>1, BoundsAssumption DEF Runs, NoRun
<1>7. StartFreeNext /\ TasksNext
  BY <1>1, StartRunFree, TasksSame DEF OwnerNow, OwnerInv
<1>8. \A q \in Runs \ {r} : rs[q].owner = run[q].owner /\ rs[q].state = run[q].state
  BY <1>4
<1> QED
  BY <1>1, <1>2, <1>3, <1>4, <1>5, <1>6, <1>7, <1>8, StartOwns

\* dismiss_ui returns a run to running, if anything.
LEMMA DismissKeeps ==
  ASSUME OwnerNow, NEW a \in Agents, NEW g \in Gens, NEW d,
         Dismiss(a, d, agent[a], run, worker[a][g]), UNCHANGED workers
  PROVE  RowsKept /\ RunsKept /\ RunsInserted
<1> DEFINE w == worker[a][g]
           ag == [agent[a] EXCEPT !.state = "running"]
<1>1. ag.gen = agent[a].gen /\ ag.state = "running"
  BY Values DEF AgentType, OwnerNow
<1>2. SetAgent(a, ag) \/ SetAgent(a, agent[a])
  BY DEF Dismiss, SetAgent
<1>3. run' = run \/ (w.run # NoRun /\ run' = [run EXCEPT ![w.run].state = "running"])
  BY DEF Dismiss
<1>4. w.run # NoRun => run[w.run].state \in Projected
  BY DEF OwnerNow, ProjectionsActive, Projected
<1> HIDE DEF ag, w
<1>5. RowsKept
  BY <1>1, <1>2, RowsSet DEF OwnerNow
<1>6. RunsKept /\ RunsInserted
  <2>1. CASE run' = run
    BY <2>1, SameFades, RunsFade
  <2>2. CASE w.run # NoRun /\ run' = [run EXCEPT ![w.run].state = "running"]
    BY <1>4, <2>2, RunsAsk DEF OwnerNow, Projected
  <2> QED
    BY <1>3, <2>1, <2>2
<1> QED
  BY <1>5, <1>6

LEMMA MutateOwns ==
  ASSUME OwnerNow, TypeOK', NEW a \in Agents, Mutate(a)
  PROVE  OwnerInv'
<1>0. /\ op[a] \in OpType /\ op \in [Agents -> OpType] /\ Managed /\ TypeOK
  BY DEF OwnerNow, TypeOK, OwnerInv
<1>1. ASSUME NEW name \in Requests, Interrupt(a, name)
      PROVE  OwnerInv'
  <2> DEFINE o == [op EXCEPT ![a].kind = name]
  <2>1. /\ up /\ op[a].pc = "free" /\ BeginInterrupt(a, o) /\ name \in {"interrupt", "send_interrupt", "close"}
        /\ UNCHANGED <<up, workers, tasks, proc>>
    BY <1>1 DEF Interrupt, Request, LockFree
  <2>2. /\ o \in [Agents -> OpType] /\ o[a].kind = name /\ \A b \in Agents \ {a} : o[b] = op[b]
    BY <1>0, <2>1 DEF OpType, Kinds, AllRequests
  <2> HIDE DEF o
  <2>3. StepFits
    BY <1>0, <2>1, <2>2, InterruptFits, StartFreeSame, TasksSame DEF InterruptKinds, Booting, BeforeFork
  <2> QED
    BY <2>3, StepFitsKeeps
<1>2. ASSUME NEW name \in Requests, Respawn(a, name)
      PROVE  OwnerInv'
  <2>1. /\ up /\ op[a].pc = "free" /\ agent[a].state # "absent" /\ (workers[a] = 0 \/ W(a).closed)
    BY <1>2 DEF Respawn, Request, LockFree, HasWorker
  <2>2. name \in Kinds /\ name # "stop_unowned"
    BY <1>2 DEF Respawn, Kinds, AllRequests
  <2>3. StepFits
    BY <1>2, <2>1, <2>2, BootTaken DEF Respawn, Request, LockFree, HasWorker
  <2> QED
    BY <2>3, StepFitsKeeps
<1>3. ASSUME NEW v \in {"gone", "live"}, CloseOrphan(a, v)
      PROVE  OwnerInv'
  <2>1. /\ up /\ op[a].pc = "free" /\ UNCHANGED <<up, run, workers, worker, tasks, proc>>
    BY <1>3 DEF CloseOrphan, Request, LockFree
  <2>2. RowsKept /\ HoldersKept
    <3>1. CASE v = "gone"
      <4> DEFINE ag == [agent[a] EXCEPT !.state = "closed", !.current = NoRun, !.cleanup = "verified"]
      <4>1. ag.gen = agent[a].gen /\ ag.state = "closed"
        BY Values, <1>0 DEF AgentType
      <4>2. SetAgent(a, ag) /\ UNCHANGED op
        BY <1>3, <3>1 DEF CloseOrphan
      <4> HIDE DEF ag
      <4> QED
        BY <1>0, <2>1, <4>1, <4>2, RowsSet, HoldersSame
    <3>2. CASE v # "gone"
      <4> DEFINE o == [Free EXCEPT !.kind = "close", !.pc = "reap"]
      <4>1. o.kind = "close" /\ o.pc = "reap"
        BY DEF Free
      <4>2. SetOp(a, o) /\ UNCHANGED agent
        BY <1>3, <3>2 DEF CloseOrphan
      <4> HIDE DEF o
      <4>3. op'[a] = o
        BY <1>0, <4>2 DEF SetOp
      <4>4. HolderMoved(a)
        BY <2>1, <4>1, <4>3, MovesOn DEF BeforeFork, Booting
      <4> QED
        BY <1>0, <2>1, <4>2, <4>4, RowsSame, HoldersSet
    <3> QED
      BY <3>1, <3>2
  <2>3. StepFits
    BY <1>0, <2>1, <2>2, WorkersSame, SameFades, RunsFade, StartFreeSame, TasksSame DEF StepFits, UpKept
  <2> QED
    BY <2>3, StepFitsKeeps
<1>4. ASSUME NEW proved \in BOOLEAN, ReapDone(a, proved)
      PROVE  OwnerInv'
  <2> DEFINE g == owner[a]
             p == IF proved THEN Stopped(proc[a][g], "gone") ELSE proc[a][g]
             ag == [agent[a] EXCEPT !.state = IF proved THEN "closed" ELSE "orphaned", !.current = NoRun,
                                    !.cleanup = IF proved THEN "verified" ELSE "unknown"]
  <2>1. /\ up /\ op[a].pc = "reap" /\ proc' = [proc EXCEPT ![a][g] = p] /\ SetAgent(a, ag) /\ SetOp(a, Free)
        /\ UNCHANGED <<up, run, workers, worker, tasks>>
    BY <1>4 DEF ReapDone, SetProc
  <2>2. ag.gen = agent[a].gen /\ ag.state # "absent"
    BY Values, <1>0 DEF AgentType
  <2>3. g \in Gens => StartFree(p)
    BY <1>0, StartFreeKept, Values DEF Managed
  <2> HIDE DEF p, ag, g
  <2>4. HoldersKept
    BY <2>1, HolderFrees DEF Booting, BeforeFork
  <2>5. StepFits
    BY <1>0, <2>1, <2>2, <2>3, <2>4, RowsSet, WorkersSame, SameFades, RunsFade, StartFreeSet, TasksSame
       DEF StepFits, UpKept
  <2> QED
    BY <2>5, StepFitsKeeps
<1>5. CASE ConfirmCleanup(a)
  <2> DEFINE g == owner[a]
             p == Stopped(proc[a][g], "gone")
             ag == [agent[a] EXCEPT !.state = "closed", !.current = NoRun, !.cleanup = "verified"]
  <2>1. /\ up /\ proc' = [proc EXCEPT ![a][g] = p] /\ SetAgent(a, ag)
        /\ UNCHANGED <<up, run, workers, worker, op, tasks>>
    BY <1>5 DEF ConfirmCleanup, SetProc, Request, LockFree
  <2>2. ag.gen = agent[a].gen /\ ag.state # "absent"
    BY Values, <1>0 DEF AgentType
  <2>3. g \in Gens => StartFree(p)
    BY <1>0, StartFreeKept, Values DEF Managed
  <2> HIDE DEF p, ag, g
  <2>4. StepFits
    BY <1>0, <2>1, <2>2, <2>3, RowsSet, WorkersSame, HoldersSame, SameFades, RunsFade, StartFreeSet, TasksSame
       DEF StepFits, UpKept
  <2> QED
    BY <2>4, StepFitsKeeps
<1>6. CASE SendWake(a)
  <2>1. "send" \in Kinds
    BY DEF Kinds, AllRequests
  <2>2. StepFits
    BY <1>6, <2>1, BootTaken DEF SendWake, Request, LockFree, HasWorker
  <2> QED
    BY <2>2, StepFitsKeeps
<1>7. CASE SoftInterrupt(a)
  BY <1>7, SoftInterruptFits, StepFitsKeeps
<1>8. ASSUME NEW r \in Runs, SendIdle(a, r)
      PROVE  OwnerInv'
  BY <1>8, SendIdleOwns
<1>9. ASSUME NEW r \in Runs, SendQueued(a, r)
      PROVE  OwnerInv'
  <2>1. /\ up /\ HasWorker(a) /\ run' = AddRun(a, r, "queued") /\ r \in Unused
        /\ UNCHANGED <<up, agent, proc, workers, worker, op, tasks>>
    BY <1>9 DEF SendQueued, Request, LockFree, Reachable, memory
  <2>2. /\ run'[r].state = "queued" /\ run'[r].owner = a /\ run[r].state = "absent"
        /\ \A q \in Runs \ {r} : run'[q] = run[q]
    BY <1>0, <2>1 DEF AddRun, TypeOK, Unused
  <2>3. agent[a].state # "absent"
    BY <2>1, OpenWorker
  <2>4. RunsKept /\ RunsInserted
    BY <2>1, <2>2, <2>3 DEF RunsKept, RunsOwnedNext, RunOwned, RunGoesOn, RunsInserted, Active
  <2>5. StepFits
    BY <1>0, <2>1, <2>4, RowsSame, WorkersSame, HoldersSame, StartFreeSame, TasksSame DEF StepFits, UpKept
  <2> QED
    BY <2>5, StepFitsKeeps
<1>10. ASSUME NEW d \in Dialogs, Answer(a, d)
       PROVE  OwnerInv'
  <2> DEFINE v == [W(a) EXCEPT !.ui = W(a).ui \ {d}, !.silent = FALSE]
  <2>1. /\ up /\ HasWorker(a) /\ SetWorker(a, v) /\ Dismiss(a, d, agent[a], run, W(a))
        /\ UNCHANGED <<up, workers, op, tasks>>
        /\ SetProc(a, workers[a], Written(proc[a][workers[a]],
             [cmd |-> "answer", id |-> NoRun, dialog |-> d, live |-> FALSE]))
    BY <1>10 DEF Answer, Request, LockFree, Reachable
  <2>2. v.tainted = W(a).tainted /\ v.closed = W(a).closed /\ v.run = W(a).run /\ v.life = W(a).life
    BY <2>1, OpenWorker DEF WorkerType
  <2>3. workers[a] \in Gens
    BY <2>1, OpenWorker
  <2> HIDE DEF v
  <2>4. RowsKept /\ RunsKept /\ RunsInserted
    BY <2>1, <2>3, DismissKeeps DEF OwnerNow, W
  <2>5. WorkersKept /\ StartFreeNext
    BY <2>1, <2>2, <2>3, FlagsSet, WrittenFree
  <2>6. StepFits
    BY <1>0, <2>1, <2>4, <2>5, HoldersSame, TasksSame DEF StepFits, UpKept
  <2> QED
    BY <2>6, StepFitsKeeps
<1> QED
  BY <1>1, <1>2, <1>3, <1>4, <1>5, <1>6, <1>7, <1>8, <1>9, <1>10 DEF Mutate

------------------------------------------------------------------------------
(* The replies that are awaited, and the coroutines the daemon spawns. *)

\* The registered worker loses a run that is over.
LEMMA IdleFits ==
  ASSUME OwnerNow, NEW a \in Agents, workers[a] \in Gens, SetWorker(a, IdleWorker(W(a))),
         NEW s \in Terminal, run' = Finish(run, {W(a).run}, s)
  PROVE  WorkersKept /\ RunsKept /\ RunsInserted
<1> DEFINE w == worker[a][workers[a]]
           v == IdleWorker(W(a))
<1>1. W(a) = w /\ w \in WorkerType /\ ~ w.tainted /\ run \in [Runs -> RunType]
  BY Values DEF W, OwnerNow, OwnerInv, Managed, TypeOK
<1>2. v.run = NoRun /\ v.tainted = w.tainted /\ v.life = w.life /\ v.closed = w.closed
  BY <1>1 DEF IdleWorker, Settled, WorkerType
<1>3. w.run # NoRun => run'[w.run].state \notin Active
  <2>1. w.run # NoRun => w.run \in {W(a).run} \cap Runs
    BY <1>1, ProjectedRun DEF OwnerNow
  <2> QED
    BY <1>1, <2>1, FinishEnds
<1>4. worker' = [worker EXCEPT ![a][workers[a]] = v]
  BY DEF SetWorker
<1> HIDE DEF v
<1>5. WorkerFits(w, v)
  BY <1>1, <1>2, <1>3, SettledFits
<1>6. RunsKept /\ RunsInserted
  BY <1>1, SameFades, FinishFades, RunsFade
<1> QED
  BY <1>4, <1>5, <1>6, WorkersSet DEF OwnerNow, OwnerInv

\* advance_queue, after the run of the worker has ended.
LEMMA AdvanceOwns ==
  ASSUME OwnerNow, TypeOK', up, up' = up, NEW a \in Agents, workers[a] \in Gens, workers[a] = agent[a].gen,
         UNCHANGED workers, op[a].pc \notin Booting, NEW s \in Terminal,
         AdvanceQueue(a, IdleAgent(agent[a]), Finish(run, {W(a).run}, s), IdleWorker(W(a))), TasksNext
  PROVE  OwnerInv'
<1> DEFINE ag == IdleAgent(agent[a])
           rs == Finish(run, {W(a).run}, s)
           w == IdleWorker(W(a))
           r == NextQueued(rs, a)
<1>1. /\ W(a) = worker[a][workers[a]] /\ W(a) \in WorkerType /\ ~ W(a).tainted
      /\ run \in [Runs -> RunType] /\ agent[a] \in AgentType
  BY Values DEF W, OwnerNow, OwnerInv, Managed, TypeOK
<1>2. ag \in AgentType /\ ag.gen = agent[a].gen /\ ag.state = "idle"
  BY <1>1, AgentValues DEF IdleAgent, AgentType
<1>3. w.tainted = W(a).tainted /\ w.life = W(a).life
  BY <1>1 DEF IdleWorker, Settled, WorkerType
<1>4. rs \in [Runs -> RunType] /\ Fades(rs)
  BY <1>1, FinishType, SameFades, FinishFades DEF RunStates
<1>5. W(a).run \in Runs => rs[W(a).run].state \notin Active
  BY <1>1, FinishEnds
<1>6. CASE ~closing /\ Queued(rs, a) # {} /\ ~Exited(a, workers[a])
  <2>1. StartRun(a, r, ag, rs, w, "settle")
    BY <1>6 DEF AdvanceQueue
  <2>2. r \in Runs /\ rs[r].state = "queued" /\ rs[r].owner = a
    BY <1>6, OldestExists DEF NextQueued, Queued
  <2> HIDE DEF r, rs, ag, w
  <2>3. \A q \in Runs : /\ rs[q].owner = run[q].owner
                        /\ rs[q].state = run[q].state \/ (run[q].state # "absent" /\ rs[q].state \in Terminal)
    BY <1>4 DEF Fades
  <2>4. run[r].state \in Waiting
    BY <2>2, <2>3 DEF Waiting, Terminal
  <2>5. \A q \in Runs \ {r} : rs[q].state \in Active => rs[q].owner # a
    <3> SUFFICES ASSUME NEW q \in Runs, rs[q].state \in Active, rs[q].owner = a
                 PROVE  FALSE
      OBVIOUS
    <3>1. run[q].state \in Active /\ run[q].owner = a
      BY <2>3 DEF Active, Terminal
    <3>2. W(a).run = q
      BY <1>1, <3>1, ActiveIsProjected
    <3> QED
      BY <1>5, <3>2
  <2>6. StartFreeNext
    BY <2>1, StartRunFree DEF OwnerNow, OwnerInv
  <2>7. "settle" # "stop_unowned" /\ ~ w.tainted
    BY <1>1, <1>3
  <2> QED
    BY <1>2, <1>3, <1>4, <2>1, <2>2, <2>3, <2>4, <2>5, <2>6, <2>7, StartOwns
<1>7. CASE ~(~closing /\ Queued(rs, a) # {} /\ ~Exited(a, workers[a]))
  <2>1. /\ SetAgent(a, ag) /\ run' = rs /\ SetWorker(a, w) /\ SetOp(a, Free) /\ UNCHANGED proc
    BY <1>7 DEF AdvanceQueue
  <2>2. WorkersKept /\ RunsKept /\ RunsInserted
    BY <2>1, IdleFits
  <2> HIDE DEF ag, rs, w
  <2>3. RowsKept
    BY <1>2, <2>1, RowsSet DEF OwnerNow
  <2>4. HoldersKept
    BY <2>1, HolderFrees
  <2>5. StepFits
    BY <2>1, <2>2, <2>3, <2>4, StartFreeSame DEF StepFits, UpKept, OwnerNow, OwnerInv
  <2> QED
    BY <2>5, StepFitsKeeps
<1> QED
  BY <1>6, <1>7

\* finish_idle_run without a queue behind it.
LEMMA IdleOwns ==
  ASSUME OwnerNow, TypeOK', up, UNCHANGED <<up, workers, tasks, proc>>, NEW a \in Agents, workers[a] \in Gens,
         op[a].pc \notin Booting, NEW s \in Terminal, run' = Finish(run, {W(a).run}, s),
         SetWorker(a, IdleWorker(W(a))), SetAgent(a, IdleAgent(agent[a])), SetOp(a, Free)
  PROVE  OwnerInv'
<1> DEFINE ag == IdleAgent(agent[a])
<1>1. ag.gen = agent[a].gen /\ ag.state = "idle"
  BY Values DEF IdleAgent, AgentType, OwnerNow
<1> HIDE DEF ag
<1>2. RowsKept
  BY <1>1, RowsSet DEF OwnerNow, ag
<1>3. WorkersKept /\ RunsKept /\ RunsInserted
  BY IdleFits
<1>4. StepFits
  BY <1>2, <1>3, HolderFrees, StartFreeSame, TasksSame DEF StepFits, UpKept, OwnerNow, OwnerInv
<1> QED
  BY <1>4, StepFitsKeeps

\* Replies nobody waits for any more.
LEMMA AbandonedFree ==
  ASSUME OwnerNow, NEW a \in Agents, workers[a] \in Gens, SetProc(a, workers[a], Abandoned(proc[a][workers[a]]))
  PROVE  StartFreeNext
<1>1. StartFree(Abandoned(proc[a][workers[a]]))
  BY StartFreeKept, Values DEF OwnerNow, OwnerInv, Managed
<1> QED
  BY <1>1, StartFreeSet DEF SetProc, OwnerNow, OwnerInv

LEMMA AwaitOwns ==
  ASSUME OwnerNow, TypeOK', NEW a \in Agents, Await(a)
  PROVE  OwnerInv'
<1>0. Managed /\ TypeOK /\ op \in [Agents -> OpType]
  BY DEF OwnerNow, OwnerInv, TypeOK
<1>1. op[a].pc \in {"prompt", "abort"} /\ up /\ op[a].pc \notin Booting
  BY DEF Await, PromptOk, PromptRejected, PromptUncertain, AbortConfirmed, AbortForced, Booting, BeforeFork
<1>2. workers[a] \in Gens /\ workers[a] = agent[a].gen
  BY <1>1 DEF OwnerNow, Located, LocatedAt, OwnerInv, AgentOwns, HolderFits, OnWorker
<1>3. {"failed", "interrupted"} \subseteq Terminal
  BY DEF Terminal
<1>4. CASE PromptOk(a)
  <2>1. SetOp(a, Free) /\ UNCHANGED <<up, agent, run, workers, worker, tasks, proc>>
    BY <1>4 DEF PromptOk
  <2>2. StepFits
    BY <1>0, <1>1, <2>1, HolderFrees, RowsSame, WorkersSame, SameFades, RunsFade, StartFreeSame, TasksSame
       DEF StepFits, UpKept
  <2> QED
    BY <2>2, StepFitsKeeps
<1>5. CASE PromptUncertain(a)
  <2>1. /\ SetOp(a, Free) /\ SetProc(a, workers[a], Abandoned(proc[a][workers[a]]))
        /\ UNCHANGED <<up, agent, run, workers, worker, tasks>>
    BY <1>5 DEF PromptUncertain, KeepUncertain
  <2>2. StepFits
    BY <1>0, <1>1, <1>2, <2>1, HolderFrees, RowsSame, WorkersSame, SameFades, RunsFade, AbandonedFree, TasksSame
       DEF StepFits, UpKept
  <2> QED
    BY <2>2, StepFitsKeeps
<1>6. CASE PromptRejected(a)
  <2>1. UNCHANGED <<up, workers, tasks>>
    BY <1>6 DEF PromptRejected
  <2>2. CASE op[a].kind = "settle"
    <3>1. AdvanceQueue(a, IdleAgent(agent[a]), Finish(run, {W(a).run}, "failed"), IdleWorker(W(a)))
      BY <1>6, <2>2 DEF PromptRejected
    <3> QED
      BY <1>0, <1>1, <1>2, <1>3, <2>1, <3>1, AdvanceOwns, TasksSame
  <2>3. CASE op[a].kind # "settle"
    <3>1. /\ SetAgent(a, IdleAgent(agent[a])) /\ run' = Finish(run, {W(a).run}, "failed")
          /\ SetWorker(a, IdleWorker(W(a))) /\ SetOp(a, Free) /\ UNCHANGED proc
      BY <1>6, <2>3 DEF PromptRejected
    <3> QED
      BY <1>1, <1>2, <1>3, <2>1, <3>1, IdleOwns
  <2> QED
    BY <2>2, <2>3
<1>7. CASE AbortConfirmed(a)
  <2>1. /\ SetAgent(a, IdleAgent(agent[a])) /\ run' = Finish(run, {W(a).run}, "interrupted")
        /\ SetWorker(a, IdleWorker(W(a))) /\ SetOp(a, Free) /\ UNCHANGED <<up, workers, tasks, proc>>
    BY <1>7 DEF AbortConfirmed
  <2> QED
    BY <1>1, <1>2, <1>3, <2>1, IdleOwns
<1>8. CASE AbortForced(a)
  <2> DEFINE o == [op EXCEPT ![a].ans = "none"]
  <2>1. /\ BeginInterrupt(a, o) /\ SetProc(a, workers[a], Abandoned(proc[a][workers[a]]))
        /\ op[a].pc = "abort" /\ UNCHANGED <<up, workers, tasks>>
    BY <1>8 DEF AbortForced
  <2>2. op[a].kind = "soft_interrupt"
    BY <2>1 DEF OwnerNow, OwnerInv, AgentOwns, HolderFits
  <2>3. o \in [Agents -> OpType] /\ o[a].kind = op[a].kind /\ \A b \in Agents \ {a} : o[b] = op[b]
    BY <1>0 DEF OpType
  <2> HIDE DEF o
  <2>4. StepFits
    BY <1>0, <1>1, <1>2, <2>1, <2>2, <2>3, InterruptFits, AbandonedFree, TasksSame DEF InterruptKinds
  <2> QED
    BY <2>4, StepFitsKeeps
<1> QED
  BY <1>4, <1>5, <1>6, <1>7, <1>8 DEF Await

\* The exit of a generation is accounted for: its Worker is done, and no longer registered.
LEMMA ExitedOwns ==
  ASSUME OwnerNow, TypeOK', NEW a \in Agents, NEW g \in Gens, NEW proved \in BOOLEAN, WorkerExited(a, g, proved)
  PROVE  OwnerInv'
<1> DEFINE w == worker[a][g]
           v == [NoWorker EXCEPT !.life = "done"]
           s == IF w.stopping THEN "interrupted" ELSE "crashed"
           ag == [agent[a] EXCEPT !.state = "crashed", !.current = NoRun,
                                  !.cleanup = IF proved THEN "verified" ELSE "unknown"]
<1>1. /\ up /\ up' = up /\ op[a].pc = "free" /\ w.life = "exiting"
      /\ worker' = [worker EXCEPT ![a][g] = v]
      /\ workers' = IF workers[a] = g THEN [workers EXCEPT ![a] = 0] ELSE workers
      /\ UNCHANGED <<op, tasks, proc>>
  BY DEF WorkerExited, LockFree
<1>2. SetAgent(a, ag) \/ UNCHANGED agent
  BY DEF WorkerExited
<1>3. IF agent[a].gen = g THEN run' = CancelQueued(Finish(run, {w.run}, s), a) ELSE run' = run
  BY DEF WorkerExited
<1>4. v.run = NoRun /\ v.closed /\ ~ v.tainted
  BY DEF NoWorker
<1>5. ag.gen = agent[a].gen /\ ag.state = "crashed"
  BY Values DEF AgentType, OwnerNow
<1>6. s \in Terminal /\ run \in [Runs -> RunType]
  BY DEF Terminal, OwnerNow, TypeOK
<1> HIDE DEF v, s, ag
<1>7. \A b \in Agents : /\ agent'[b].gen = agent[b].gen
                        /\ agent'[b].state = "absent" => agent[b].state = "absent"
  BY <1>2, <1>5 DEF SetAgent, OwnerNow, TypeOK
<1>8. worker'[a][g] = v /\ \A b \in Agents, h \in Gens : ~(b = a /\ h = g) => worker'[b][h] = worker[b][h]
  BY <1>1 DEF OwnerNow, TypeOK
<1>9. /\ workers'[a] \in {0, workers[a]} /\ workers'[a] # g
      /\ \A b \in Agents \ {a} : workers'[b] = workers[b]
  BY <1>1 DEF OwnerNow, TypeOK, Gens
<1>10. \A b \in Agents : AgentOwns(b) /\ workers[b] \in 0..MaxGen
  BY DEF OwnerNow, OwnerInv, TypeOK
<1>11. w.run # NoRun => agent[a].gen = g /\ w.run \in Runs
  BY <1>10, ProjectedRun DEF AgentOwns, ProjectedByLast, OwnerNow
<1>12. Fades(run') /\ (w.run # NoRun => run'[w.run].state \notin Active)
  <2> DEFINE rs == Finish(run, {w.run}, s)
  <2>1. rs \in [Runs -> RunType] /\ Fades(rs)
    BY <1>6, FinishType, SameFades, FinishFades DEF RunStates
  <2>2. w.run # NoRun => rs[w.run].state \notin Active
    BY <1>6, <1>11, FinishEnds
  <2> HIDE DEF rs
  <2>3. CASE agent[a].gen = g
    <3>1. run' = CancelQueued(rs, a)
      BY <1>3, <2>3 DEF rs
    <3>2. Fades(run')
      BY <2>1, <3>1, CancelFades
    <3>3. \A q \in Runs : run'[q].state \in Active => rs[q].state \in Active
      BY <2>1, <3>1 DEF CancelQueued, Finish, RunType, Active
    <3> QED
      BY <1>11, <2>2, <3>2, <3>3
  <2>4. CASE agent[a].gen # g
    BY <1>3, <1>11, <2>4, SameFades
  <2> QED
    BY <2>3, <2>4
<1>13. \A q \in Runs : /\ run'[q].owner = run[q].owner
                       /\ run'[q].state \in Active => run'[q].state = run[q].state
                       /\ run'[q].state # "absent" => run[q].state # "absent"
  BY <1>12 DEF Fades, Active, Terminal
<1>14. ASSUME NEW b \in Agents
       PROVE  AgentOwns(b)'
  <2>1. workers'[b] # 0 => workers'[b] = workers[b] /\ W(b)' = W(b)
    BY <1>8, <1>9, <1>10 DEF W, Gens
  <2>2. \A h \in Gens : worker'[b][h].run # NoRun => worker'[b][h] = worker[b][h] /\ ~(b = a /\ h = g)
    BY <1>4, <1>8
  <2>3. AbsentOwnsNothing(b)'
    BY <1>7, <1>9, <1>10, <1>13 DEF AgentOwns, AbsentOwnsNothing
  <2>4. Registered(b)'
    BY <1>7, <1>10, <2>1 DEF AgentOwns, Registered
  <2>5. HolderFits(b)'
    <3>1. CASE b = a
      BY <1>1, <3>1 DEF HolderFits, BeforeFork, OnWorker
    <3>2. CASE b # a
      <4>1. workers'[b] = workers[b] /\ HolderFits(b) /\ LocatedAt(b)
        BY <1>9, <1>10, <3>2 DEF AgentOwns, OwnerNow, Located
      <4>2. op[b].pc = "stop" /\ op[b].kind = "fail_worker" => workers[b] # 0
        BY <4>1 DEF LocatedAt, Gens
      <4> QED
        BY <1>1, <1>7, <2>1, <4>1, <4>2 DEF HolderFits
    <3> QED
      BY <3>1, <3>2
  <2>6. ProjectedByLast(b)'
    <3> SUFFICES ASSUME NEW h \in Gens, worker'[b][h].run # NoRun
                 PROVE  /\ workers'[b] = h /\ agent'[b].gen = h /\ ~ worker'[b][h].closed
                        /\ run'[worker'[b][h].run].owner = b /\ op'[b].pc \notin Booting
      BY DEF ProjectedByLast
    <3>1. worker'[b][h] = worker[b][h] /\ ~(b = a /\ h = g)
      BY <2>2
    <3>2. /\ workers[b] = h /\ agent[b].gen = h /\ ~ worker[b][h].closed
          /\ run[worker[b][h].run].owner = b /\ op[b].pc \notin Booting
      BY <1>10, <3>1 DEF AgentOwns, ProjectedByLast
    <3>3. worker[b][h].run \in Runs
      BY <3>1, ProjectedRun DEF OwnerNow
    <3>4. workers'[b] = h
      BY <1>1, <1>9, <3>1, <3>2 DEF OwnerNow, TypeOK
    <3> QED
      BY <1>1, <1>7, <1>13, <3>1, <3>2, <3>3, <3>4
  <2> QED
    BY <2>3, <2>4, <2>5, <2>6 DEF AgentOwns
<1>15. OneActiveRun'
  BY <1>13 DEF OneActiveRun, OwnerNow, OwnerInv
<1>16. ASSUME NEW q \in Runs, run'[q].state \in Active
       PROVE  Owned(q)'
  <2>1. run'[q].state = run[q].state /\ run'[q].owner = run[q].owner /\ Owned(q)
    BY <1>1, <1>13, <1>16 DEF OwnerNow, OwnerInv, ActiveOwned
  <2>2. w.run # q
    BY <1>12, <1>16, BoundsAssumption DEF Runs, NoRun
  <2> QED
    BY <1>1, <1>7, <1>8, <2>1, <2>2 DEF Owned
<1>17. ActiveOwned'
  BY <1>16 DEF ActiveOwned
<1>18. Managed'
  BY <1>1, <1>4, <1>8 DEF Managed, OwnerNow, OwnerInv
<1> QED
  BY <1>1, <1>14, <1>15, <1>17, <1>18 DEF OwnerInv, DownHasNoWorker

LEMMA TasksAdd ==
  ASSUME Managed, NEW t, t.kind # "stop_unowned", tasks' = tasks \cup {t}
  PROVE  TasksNext
BY DEF Managed, TasksNext

\* An exclusive coroutine of the daemon's own begins to interrupt.
LEMMA TakesAndInterrupts ==
  ASSUME OwnerNow, up, NEW a \in Agents, op[a].pc = "free", NEW k \in InterruptKinds,
         BeginInterrupt(a, [op EXCEPT ![a].kind = k]), UNCHANGED <<up, workers, proc>>, TasksNext
  PROVE  StepFits
<1> DEFINE o == [op EXCEPT ![a].kind = k]
<1>1. op \in [Agents -> OpType] /\ k \in Kinds
  BY DEF OwnerNow, TypeOK, InterruptKinds, Kinds, AllRequests
<1>2. o \in [Agents -> OpType] /\ o[a].kind = k /\ \A b \in Agents \ {a} : o[b] = op[b]
  BY <1>1 DEF OpType
<1>3. BeginInterrupt(a, o)
  OBVIOUS
<1> HIDE DEF o
<1> QED
  BY <1>2, <1>3, InterruptFits, StartFreeSame DEF Booting, BeforeFork, OwnerNow, OwnerInv

\* fail_worker ends the run of the worker whose pipe failed before it awaits the termination.
LEMMA FailWorkerFits ==
  ASSUME OwnerNow, NEW a \in Agents, NEW g \in Gens, FailWorker(a, g)
  PROVE  StepFits
<1>0. TypeOK /\ Managed
  BY DEF OwnerNow, OwnerInv
<1>1. /\ up /\ op[a].pc = "free" /\ tasks' \subseteq tasks /\ UNCHANGED <<up, agent, workers, proc>>
  BY DEF FailWorker, LockFree, Done
<1>2. RowsKept /\ StartFreeNext /\ TasksNext
  BY <1>0, <1>1, RowsSame, StartFreeSame, TasksSame
<1>3. CASE ~FailsOwn(a, g)
  <2>1. UNCHANGED <<run, worker, op>>
    BY <1>3 DEF FailWorker
  <2> QED
    BY <1>0, <1>1, <1>2, <2>1, WorkersSame, HoldersSame, SameFades, RunsFade DEF StepFits, UpKept
<1>4. CASE FailsOwn(a, g)
  <2> DEFINE w == worker[a][workers[a]]
             v == [Settled(W(a)) EXCEPT !.stopping = TRUE]
             o == [Free EXCEPT !.kind = "fail_worker", !.pc = "stop"]
             rs == CancelQueued(run, a)
  <2>1. /\ run' = Finish(rs, {W(a).run}, "failed") /\ SetWorker(a, v) /\ SetOp(a, o)
        /\ workers[a] = g /\ agent[a].gen = g
    BY <1>4 DEF FailWorker, FailsOwn
  <2>2. W(a) = w /\ w \in WorkerType /\ ~ w.tainted /\ run \in [Runs -> RunType]
    BY <1>0, <2>1, Values DEF W, Managed, TypeOK
  <2>3. v.run = NoRun /\ v.tainted = w.tainted /\ v.life = w.life /\ v.closed = w.closed
    BY <2>2 DEF Settled, WorkerType
  <2>4. o.kind = "fail_worker" /\ o.pc = "stop"
    BY DEF Free
  <2>5. rs \in [Runs -> RunType] /\ Fades(rs)
    BY <2>2, CancelQueuedType, SameFades, CancelFades
  <2>6. "failed" \in Terminal
    BY DEF Terminal
  <2> HIDE DEF rs, v, o
  <2>7. w.run # NoRun => run'[w.run].state \notin Active
    <3>1. w.run # NoRun => w.run \in {W(a).run} \cap Runs
      BY <2>1, <2>2, ProjectedRun DEF OwnerNow
    <3> QED
      BY <2>1, <2>5, <2>6, <3>1, FinishEnds
  <2>8. WorkersKept
    <3>1. WorkerFits(w, v)
      BY <2>2, <2>3, <2>7, SettledFits
    <3> QED
      BY <1>0, <2>1, <3>1, WorkersSet DEF SetWorker
  <2>9. RunsKept /\ RunsInserted
    BY <2>1, <2>5, <2>6, FinishFades, RunsFade
  <2>10. HoldersKept
    <3>1. op'[a] = o
      BY <1>0, <2>1 DEF SetOp, TypeOK
    <3>2. worker'[a][workers[a]] = v /\ W(a)' = v
      BY <1>0, <1>1, <2>1 DEF SetWorker, TypeOK, W
    <3>3. HolderFits(a)'
      BY <1>1, <2>1, <2>3, <2>4, <3>1, <3>2 DEF HolderFits, BeforeFork
    <3>4. HolderMoved(a)
      BY <1>1, <2>4, <3>1, <3>3 DEF HolderMoved, Booting, BeforeFork
    <3> QED
      BY <1>0, <2>1, <3>4, HoldersSet
  <2> QED
    BY <1>1, <1>2, <2>8, <2>9, <2>10 DEF StepFits, UpKept
<1> QED
  BY <1>3, <1>4

\* watch_exit: nothing is left to read, and nobody waits for a reply any longer.
LEMMA ReapedFits ==
  ASSUME OwnerNow, NEW a \in Agents, NEW g \in Gens, Reaped(a, g)
  PROVE  StepFits
<1>0. TypeOK /\ Managed /\ worker[a][g] \in WorkerType /\ proc[a][g] \in ProcType /\ op \in [Agents -> OpType]
  BY Values DEF OwnerNow, OwnerInv, TypeOK
<1> DEFINE v == [worker[a][g] EXCEPT !.life = "exiting"]
           p == [proc[a][g] EXCEPT !.stdout = << >>]
<1>1. /\ up /\ UNCHANGED <<up, agent, run, workers, tasks>>
      /\ worker' = [worker EXCEPT ![a][g] = v] /\ proc' = [proc EXCEPT ![a][g] = p]
  BY <1>0 DEF Reaped, TypeOK
<1>2. v.tainted = worker[a][g].tainted /\ v.closed = worker[a][g].closed /\ v.run = worker[a][g].run /\ v.life = "exiting"
  BY <1>0 DEF WorkerType
<1>3. StartFree(p)
  BY <1>0, QueueFramesAreFrames DEF StartFree, ProcType
<1> HIDE DEF v, p
<1>4. WorkersKept
  <2>1. WorkerFits(worker[a][g], v)
    BY <1>0, <1>2, FlagsFit DEF Managed
  <2> QED
    BY <1>0, <1>1, <2>1, WorkersSet
<1>5. HoldersKept
  <2>1. op' = op \/ op' = [op EXCEPT ![a].ans = "gone"]
    BY DEF Reaped
  <2>2. \A b \in Agents : HolderKept(b)
    BY <1>0, <2>1 DEF HolderKept, OpType
  <2> QED
    BY <2>2 DEF HoldersKept
<1> QED
  BY <1>0, <1>1, <1>3, <1>4, <1>5, RowsSame, SameFades, RunsFade, StartFreeSet, TasksSame DEF StepFits, UpKept

\* settle: the run ends as its child said, and the queue moves on.
LEMMA SettleOwns ==
  ASSUME OwnerNow, TypeOK', NEW a \in Agents, NEW g \in Gens, NEW r \in Runs, Settle(a, g, r)
  PROVE  OwnerInv'
<1>0. TypeOK /\ Managed
  BY DEF OwnerNow, OwnerInv
<1>1. /\ up /\ up' = up /\ op[a].pc = "free" /\ tasks' \subseteq tasks /\ UNCHANGED workers
  BY DEF Settle, LockFree, Done
<1>2. TasksNext
  BY <1>0, <1>1, TasksSame
<1>3. CASE SettleValid(a, g, r)
  <2>1. AdvanceQueue(a, IdleAgent(agent[a]), Finish(run, {W(a).run}, Outcome(W(a))), IdleWorker(W(a)))
    BY <1>3 DEF Settle, SettleValid
  <2>2. Outcome(W(a)) \in Terminal /\ workers[a] \in Gens /\ workers[a] = agent[a].gen
    BY <1>3 DEF Outcome, Terminal, SettleValid
  <2> QED
    BY <1>1, <1>2, <2>1, <2>2, AdvanceOwns DEF Booting, BeforeFork
<1>4. CASE ~SettleValid(a, g, r)
  <2>1. UNCHANGED <<agent, run, worker, op, proc>>
    BY <1>4 DEF Settle
  <2>2. StepFits
    BY <1>0, <1>1, <1>2, <2>1, RowsSame, WorkersSame, HoldersSame, SameFades, RunsFade, StartFreeSame
       DEF StepFits, UpKept
  <2> QED
    BY <2>2, StepFitsKeeps
<1> QED
  BY <1>3, <1>4

LEMMA BackgroundOwns ==
  ASSUME OwnerNow, TypeOK', NEW a \in Agents, Background(a)
  PROVE  OwnerInv'
<1>0. TypeOK /\ Managed
  BY DEF OwnerNow, OwnerInv
<1>1. ASSUME NEW g \in Gens, StopUnowned(a, g)
      PROVE  FALSE
  BY <1>0, <1>1 DEF StopUnowned, Managed, Task
<1>2. ASSUME NEW g \in Gens, FailWorker(a, g)
      PROVE  OwnerInv'
  BY <1>2, FailWorkerFits, StepFitsKeeps
<1>3. ASSUME NEW g \in Gens, Reaped(a, g)
      PROVE  OwnerInv'
  BY <1>3, ReapedFits, StepFitsKeeps
<1>4. ASSUME NEW g \in Gens, NEW proved \in BOOLEAN, WorkerExited(a, g, proved)
      PROVE  OwnerInv'
  BY <1>4, ExitedOwns
<1>5. ASSUME NEW g \in Gens, NEW r \in Runs, Settle(a, g, r)
      PROVE  OwnerInv'
  BY <1>5, SettleOwns
<1>6. ASSUME NEW g \in Gens, NEW r \in Runs, CheckIdle(a, g, r)
      PROVE  OwnerInv'
  <2>1. /\ up /\ op[a].pc = "free" /\ tasks' \subseteq tasks /\ UNCHANGED <<up, workers, proc>>
    BY <1>6 DEF CheckIdle, LockFree, Done
  <2>2. TasksNext
    BY <1>0, <2>1, TasksSame
  <2>3. CASE BeginInterrupt(a, [op EXCEPT ![a].kind = "check_idle"])
    BY <2>1, <2>2, <2>3, TakesAndInterrupts, StepFitsKeeps DEF InterruptKinds
  <2>4. CASE UNCHANGED <<agent, run, worker, op>>
    <3>1. StepFits
      BY <1>0, <2>1, <2>2, <2>4, RowsSame, WorkersSame, HoldersSame, SameFades, RunsFade, StartFreeSame
         DEF StepFits, UpKept
    <3> QED
      BY <3>1, StepFitsKeeps
  <2> QED
    BY <1>6, <2>3, <2>4 DEF CheckIdle
<1>7. CASE FallSilent(a)
  <2> DEFINE v == [W(a) EXCEPT !.silent = TRUE]
  <2>1. /\ up /\ HasWorker(a) /\ SetWorker(a, v) /\ UNCHANGED <<up, agent, run, workers, op, tasks, proc>>
    BY <1>7 DEF FallSilent
  <2>2. v.tainted = W(a).tainted /\ v.closed = W(a).closed /\ v.run = W(a).run /\ v.life = W(a).life
    BY <2>1, OpenWorker DEF WorkerType
  <2> HIDE DEF v
  <2>3. WorkersKept
    BY <2>1, <2>2, OpenWorker, FlagsSet
  <2>4. StepFits
    BY <1>0, <2>1, <2>3, RowsSame, HoldersSame, SameFades, RunsFade, StartFreeSame, TasksSame DEF StepFits, UpKept
  <2> QED
    BY <2>4, StepFitsKeeps
<1>8. CASE ObserveIdle(a)
  <2> DEFINE t == Task("check_idle", a, workers[a], W(a).run)
  <2>1. up /\ tasks' = tasks \cup {t} /\ UNCHANGED <<up, agent, run, workers, worker, op, proc>>
    BY <1>8 DEF ObserveIdle
  <2>2. t.kind # "stop_unowned"
    BY DEF Task
  <2> HIDE DEF t
  <2>3. StepFits
    BY <1>0, <2>1, <2>2, RowsSame, WorkersSame, HoldersSame, SameFades, RunsFade, StartFreeSame, TasksAdd
       DEF StepFits, UpKept
  <2> QED
    BY <2>3, StepFitsKeeps
<1>9. CASE Park(a)
  <2>1. /\ up /\ op[a].pc = "free" /\ UNCHANGED <<up, workers, tasks, proc>>
        /\ BeginInterrupt(a, [op EXCEPT ![a].kind = "park"])
    BY <1>9 DEF Park, LockFree
  <2> QED
    BY <1>0, <2>1, TasksSame, TakesAndInterrupts, StepFitsKeeps DEF InterruptKinds
<1> QED
  BY <1>1, <1>2, <1>3, <1>4, <1>5, <1>6, <1>7, <1>8, <1>9 DEF Background

------------------------------------------------------------------------------
(* The frames that are read, and what the processes do by themselves. *)

\* A frame is taken off a pipe.
LEMMA TakenStartFree ==
  ASSUME TypeOK, NoStarts, NEW a \in Agents, NEW g \in Gens, NEW type, Heads(a, g, type), Consume(a, g)
  PROVE  StartFreeNext /\ up /\ type # "start" /\ Head(proc[a][g].stdout) \in Frames
<1> DEFINE p == [proc[a][g] EXCEPT !.stdout = Tail(proc[a][g].stdout)]
<1>1. proc[a][g].stdout \in Seq(QueueFrames) /\ proc[a][g].stdout # << >> /\ proc[a][g] \in ProcType
  BY Values DEF Heads, NoStarts, StartFree
<1>2. Head(proc[a][g].stdout) \in QueueFrames /\ Tail(proc[a][g].stdout) \in Seq(QueueFrames)
  BY <1>1, QueueFramesAreFrames
<1>3. StartFree(p)
  BY <1>1, <1>2 DEF StartFree, ProcType
<1>4. proc' = [proc EXCEPT ![a][g] = p]
  BY DEF Consume, TypeOK
<1> HIDE DEF p
<1> QED
  BY <1>2, <1>3, <1>4, StartFreePut DEF Heads, QueueFrames

LEMMA ConsumeFree ==
  ASSUME OwnerNow, NEW a \in Agents, NEW g \in Gens, NEW type, Heads(a, g, type), Consume(a, g)
  PROVE  StartFreeNext /\ up /\ type # "start" /\ Head(proc[a][g].stdout) \in Frames
BY TakenStartFree DEF OwnerNow, OwnerInv, Managed, NoStarts

\* Only flags, dialogs or the life of one Worker change.
LEMMA FlagsKept ==
  ASSUME OwnerNow, NEW a \in Agents, NEW g \in Gens, NEW v, worker' = [worker EXCEPT ![a][g] = v],
         v.tainted = worker[a][g].tainted, v.closed = worker[a][g].closed, v.run = worker[a][g].run,
         v.life = worker[a][g].life \/ v.life = "failed"
  PROVE  WorkersKept
<1>1. WorkerFits(worker[a][g], v)
  BY FlagsFit DEF OwnerNow, OwnerInv, Managed
<1> QED
  BY <1>1, WorkersSet DEF OwnerNow, OwnerInv

LEMMA ReadFits ==
  ASSUME OwnerNow, NEW a \in Agents, Read(a)
  PROVE  StepFits
<1>1. PICK g \in Gens :
        \/ ReadReply(a, g) \/ ReadDropped(a, g) \/ ReadAsk(a, g) \/ ReadClosed(a, g)
        \/ ReadEnd(a, g) \/ ReadDelta(a, g) \/ ReadStart(a, g) \/ ReaderFails(a, g)
  BY DEF Read
<1> DEFINE w == worker[a][g]
           f == Head(proc[a][g].stdout)
<1>0. TypeOK /\ Managed /\ w \in WorkerType /\ agent[a] \in AgentType /\ op \in [Agents -> OpType]
  BY Values DEF OwnerNow, OwnerInv, TypeOK
<1>2. CASE ReadReply(a, g)
  <2>1. up /\ StartFreeNext /\ UNCHANGED <<up, agent, run, workers, worker, tasks>>
    BY <1>2, ConsumeFree DEF ReadReply
  <2>2. HoldersKept
    <3>1. op' = op \/ op' = [op EXCEPT ![a].ans = f.how]
      BY <1>2 DEF ReadReply
    <3>2. \A b \in Agents : HolderKept(b)
      BY <1>0, <3>1 DEF HolderKept, OpType
    <3> QED
      BY <3>2 DEF HoldersKept
  <2> QED
    BY <1>0, <2>1, <2>2, RowsSame, WorkersSame, SameFades, RunsFade, TasksSame DEF StepFits, UpKept
<1>3. CASE ReadDropped(a, g)
  <2>1. StartFreeNext /\ up /\ UNCHANGED <<up, agent, run, workers, worker, op, tasks>>
    BY <1>3, ConsumeFree DEF ReadDropped, memory
  <2> QED
    BY <1>0, <2>1, RowsSame, WorkersSame, HoldersSame, SameFades, RunsFade, TasksSame DEF StepFits, UpKept
<1>4. CASE ReadAsk(a, g)
  <2> DEFINE v == [w EXCEPT !.ui = w.ui \cup {f.dialog}]
             ag == [agent[a] EXCEPT !.state = "needs_input"]
  <2>1. StartFreeNext /\ up /\ f \in Frames
    BY <1>4, ConsumeFree DEF ReadAsk
  <2>2. /\ worker' = [worker EXCEPT ![a][g] = v] /\ SetAgent(a, ag) /\ run' = [run EXCEPT ![f.id].state = "needs_input"]
        /\ UNCHANGED <<up, workers, op, tasks>> /\ f.id = w.run /\ w.run # NoRun
    BY <1>0, <1>4 DEF ReadAsk, Heeded, TypeOK
  <2>3. v.tainted = w.tainted /\ v.closed = w.closed /\ v.run = w.run /\ v.life = w.life
    BY <1>0 DEF WorkerType
  <2>4. ag.gen = agent[a].gen /\ ag.state = "needs_input"
    BY <1>0 DEF AgentType
  <2>5. run[f.id].state \in Projected /\ "needs_input" \in Projected
    BY <2>2 DEF OwnerNow, ProjectionsActive, Projected
  <2> HIDE DEF v, ag, f
  <2>6. RowsKept /\ WorkersKept /\ RunsKept /\ RunsInserted
    BY <1>0, <2>2, <2>3, <2>4, <2>5, RowsSet, FlagsKept, RunsAsk
  <2> QED
    BY <1>0, <2>1, <2>2, <2>6, HoldersSame, TasksSame DEF StepFits, UpKept
<1>5. CASE ReadClosed(a, g)
  <2> DEFINE v == [w EXCEPT !.ui = w.ui \ {f.dialog}, !.silent = w.silent /\ f.dialog \notin w.ui]
  <2>1. StartFreeNext /\ up
    BY <1>5, ConsumeFree DEF ReadClosed
  <2>2. /\ worker' = [worker EXCEPT ![a][g] = v] /\ Dismiss(a, f.dialog, agent[a], run, w)
        /\ UNCHANGED <<up, workers, op, tasks>>
    BY <1>5 DEF ReadClosed
  <2>3. v.tainted = w.tainted /\ v.closed = w.closed /\ v.run = w.run /\ v.life = w.life
    BY <1>0 DEF WorkerType
  <2> HIDE DEF v
  <2>4. RowsKept /\ WorkersKept /\ RunsKept /\ RunsInserted
    BY <2>2, <2>3, DismissKeeps, FlagsKept
  <2> QED
    BY <1>0, <2>1, <2>2, <2>4, HoldersSame, TasksSame DEF StepFits, UpKept
<1>6. CASE ReadEnd(a, g)
  <2> DEFINE v == [w EXCEPT !.cancelled = w.cancelled \/ f.how = "cancelled", !.failed = w.failed \/ f.how = "error"]
             t == Task("settle", a, g, f.id)
  <2>1. StartFreeNext /\ up
    BY <1>6, ConsumeFree DEF ReadEnd
  <2>2. /\ worker' = [worker EXCEPT ![a][g] = v] /\ run' \in {run, CancelQueued(run, a)}
        /\ tasks' = tasks \cup {t} /\ UNCHANGED <<up, agent, workers, op>>
    BY <1>6 DEF ReadEnd
  <2>3. v.tainted = w.tainted /\ v.closed = w.closed /\ v.run = w.run /\ v.life = w.life
    BY <1>0 DEF WorkerType
  <2>4. t.kind # "stop_unowned"
    BY DEF Task
  <2> HIDE DEF v, t
  <2>5. Fades(run')
    BY <1>0, <2>2, SameFades, CancelFades DEF TypeOK
  <2> QED
    BY <1>0, <2>1, <2>2, <2>3, <2>4, <2>5, RowsSame, FlagsKept, HoldersSame, RunsFade, TasksAdd DEF StepFits, UpKept
<1>7. CASE ReadDelta(a, g)
  <2> DEFINE v == [w EXCEPT !.silent = FALSE]
  <2>1. StartFreeNext /\ up
    BY <1>7, ConsumeFree DEF ReadDelta
  <2>2. worker' = [worker EXCEPT ![a][g] = v] /\ UNCHANGED <<up, agent, run, workers, op, tasks>>
    BY <1>0, <1>7 DEF ReadDelta, TypeOK
  <2>3. v.tainted = w.tainted /\ v.closed = w.closed /\ v.run = w.run /\ v.life = w.life
    BY <1>0 DEF WorkerType
  <2> HIDE DEF v
  <2> QED
    BY <1>0, <2>1, <2>2, <2>3, RowsSame, FlagsKept, HoldersSame, SameFades, RunsFade, TasksSame DEF StepFits, UpKept
<1>8. CASE ReadStart(a, g)
  BY <1>8, ConsumeFree DEF ReadStart
<1>9. CASE ReaderFails(a, g)
  <2> DEFINE v == [w EXCEPT !.life = "failed"]
             t == Task("fail_worker", a, g, NoRun)
  <2>1. /\ up /\ worker' = [worker EXCEPT ![a][g] = v] /\ tasks' = tasks \cup {t}
        /\ UNCHANGED <<up, agent, run, workers, op, proc>>
    BY <1>0, <1>9 DEF ReaderFails, TypeOK
  <2>2. v.tainted = w.tainted /\ v.closed = w.closed /\ v.run = w.run /\ v.life = "failed"
    BY <1>0 DEF WorkerType
  <2>3. t.kind # "stop_unowned"
    BY DEF Task
  <2> HIDE DEF v, t
  <2> QED
    BY <1>0, <2>1, <2>2, <2>3, RowsSame, FlagsKept, HoldersSame, SameFades, RunsFade, StartFreeSame, TasksAdd
       DEF StepFits, UpKept
<1> QED
  BY <1>1, <1>2, <1>3, <1>4, <1>5, <1>6, <1>7, <1>8, <1>9

\* A child sends only frames of its managed task.
LEMMA SentFree ==
  ASSUME NEW p \in ProcType, StartFree(p), NEW f \in QueueFrames
  PROVE  StartFree(Sent(p, f)) /\ Sent(p, f) \in ProcType
<1>1. Append(p.stdout, f) \in Seq(QueueFrames)
  BY QueueFramesAreFrames DEF StartFree
<1>2. Sent(p, f).stdout = Append(p.stdout, f)
  BY DEF Sent, ProcType
<1>3. Sent(p, f) \in ProcType
  BY SentType, QueueFramesAreFrames
<1> QED
  BY <1>1, <1>2, <1>3 DEF StartFree

LEMMA ProcessStartFree ==
  ASSUME TypeOK, NoStarts, "unowned" \notin Faults, NEW a \in Agents, Process(a)
  PROVE  StartFreeNext
<1>1. PICK g \in Gens :
        \/ GuardRecord(a, g) \/ \E st \in ProcStates : ProcExit(a, g, st)
        \/ ChildPrompt(a, g) \/ ChildAbort(a, g) \/ ChildAnswer(a, g)
        \/ \E d \in Dialogs : ChildAsk(a, g, d) \/ ChildClose(a, g, d)
        \/ \E how \in {"ok", "error", "cancelled"} : ChildEnd(a, g, how)
        \/ ChildDelta(a, g) \/ ChildStart(a, g)
  BY DEF Process
<1> DEFINE p == proc[a][g]
           c == Head(p.stdin)
           q == [p EXCEPT !.stdin = Tail(p.stdin)]
<1>0. p \in ProcType /\ StartFree(p) /\ p.task \in 0..MaxRuns /\ NoRun \in 0..MaxRuns
  BY Values, BoundsAssumption DEF NoStarts, NoRun, ProcType
<1>c. p.stdin # << >> =>
        c \in Commands /\ c.id \in 0..MaxRuns /\ c.live \in BOOLEAN /\ q \in ProcType /\ StartFree(q)
  <2>1. p.stdin # << >> => c \in Commands /\ q \in ProcType
    BY CommandType
  <2>2. q.stdout = p.stdout
    BY <1>0 DEF ProcType
  <2> QED
    BY <1>0, <2>1, <2>2 DEF Commands, StartFree
<1> HIDE DEF p, c, q
<1>2. ASSUME NEW n, Child(a, g, n), StartFree(n)
      PROVE  StartFreeNext
  BY <1>0, <1>2, StartFreePut DEF Child, SetProc
<1>3. ASSUME NEW type \in {"reply", "ask", "closed", "end", "delta"}, NEW id \in 0..MaxRuns,
             NEW d \in Dialogs \cup {None}, NEW how \in {"ok", "no", "error", "cancelled"}, NEW live \in BOOLEAN,
             type = "reply" => how \in {"ok", "no"}, type = "ask" => d \in Dialogs
      PROVE  Frame(type, id, d, how, live) \in QueueFrames
  BY <1>3 DEF Frame, Frames, QueueFrames
<1>4. CASE GuardRecord(a, g)
  <2> DEFINE x == [p EXCEPT !.st = "alive"]
             y == [p EXCEPT !.st = "refused"]
  <2>1. x.stdout = p.stdout /\ y.stdout = p.stdout
    BY <1>0 DEF ProcType
  <2>2. proc' = [proc EXCEPT ![a][g] = x] \/ proc' = [proc EXCEPT ![a][g] = y]
    BY <1>0, <1>4 DEF GuardRecord, p, TypeOK
  <2> HIDE DEF x, y
  <2>3. StartFree(x) /\ StartFree(y)
    BY <1>0, <2>1 DEF StartFree
  <2> QED
    BY <1>0, <2>2, <2>3, StartFreePut
<1>5. ASSUME NEW st \in ProcStates, ProcExit(a, g, st)
      PROVE  StartFreeNext
  BY <1>0, <1>2, <1>5, StartFreeKept DEF ProcExit, p
<1>6. CASE ChildPrompt(a, g)
  <2> DEFINE n == [q EXCEPT !.task = c.id]
             ok == Frame("reply", NoRun, None, "ok", c.live)
             no == Frame("reply", NoRun, None, "no", c.live)
  <2>1. p.stdin # << >> /\ (Child(a, g, Sent(n, ok)) \/ Child(a, g, Sent(q, no)))
    BY <1>6 DEF ChildPrompt, p, c, q
  <2>2. n \in ProcType /\ n.stdout = q.stdout
    BY <1>c, <2>1 DEF ProcType
  <2>3. ok \in QueueFrames /\ no \in QueueFrames
    BY <1>0, <1>3, <1>c, <2>1
  <2> HIDE DEF n, ok, no
  <2>4. StartFree(Sent(n, ok)) /\ StartFree(Sent(q, no))
    BY <1>c, <2>1, <2>2, <2>3, SentFree DEF StartFree
  <2> QED
    BY <1>2, <2>1, <2>4
<1>7. CASE ChildAbort(a, g)
  <2> DEFINE n == [q EXCEPT !.abort = IF c.live THEN "live" ELSE "stale"]
             no == Frame("reply", NoRun, None, "no", c.live)
  <2>1. p.stdin # << >> /\ (Child(a, g, n) \/ Child(a, g, Sent(q, no)))
    BY <1>7 DEF ChildAbort, p, c, q
  <2>2. n.stdout = q.stdout
    BY <1>c, <2>1 DEF ProcType
  <2>3. no \in QueueFrames
    BY <1>0, <1>3, <1>c, <2>1
  <2> HIDE DEF n, no
  <2>4. StartFree(n) /\ StartFree(Sent(q, no))
    BY <1>c, <2>1, <2>2, <2>3, SentFree DEF StartFree
  <2> QED
    BY <1>2, <2>1, <2>4
<1>8. CASE ChildAnswer(a, g)
  <2> DEFINE n == [p EXCEPT !.stdin = Tail(p.stdin), !.dialogs = p.dialogs \ {c.dialog}]
             f == Frame("closed", p.task, c.dialog, "ok", FALSE)
  <2>1. p.stdin # << >> /\ Child(a, g, IF c.dialog \in p.dialogs THEN Sent(n, f) ELSE n)
    BY <1>8 DEF ChildAnswer, p, c, q
  <2>2. n \in ProcType /\ n.stdout = p.stdout
    <3>1. Tail(p.stdin) \in Seq(Commands)
      BY <1>0, <2>1, HeadTailProperties DEF ProcType
    <3> QED
      BY <1>0, <3>1 DEF ProcType
  <2>3. c.dialog \in p.dialogs => f \in QueueFrames
    <3>1. c.dialog \in p.dialogs => c.dialog \in Dialogs \cup {None}
      BY <1>0 DEF ProcType
    <3> QED
      BY <1>0, <1>3, <3>1
  <2> HIDE DEF n, f
  <2>4. StartFree(n) /\ (c.dialog \in p.dialogs => StartFree(Sent(n, f)))
    BY <1>0, <2>2, <2>3, SentFree DEF StartFree
  <2> QED
    BY <1>2, <2>1, <2>4
<1>9. ASSUME NEW d \in Dialogs, ChildAsk(a, g, d) \/ ChildClose(a, g, d)
      PROVE  StartFreeNext
  <2> DEFINE m == [p EXCEPT !.dialogs = p.dialogs \cup {d}]
             n == [p EXCEPT !.dialogs = p.dialogs \ {d}]
             ask == Frame("ask", p.task, d, "ok", FALSE)
             end == Frame("closed", p.task, d, "ok", FALSE)
  <2>1. Child(a, g, Sent(m, ask)) \/ Child(a, g, Sent(n, end))
    BY <1>9 DEF ChildAsk, ChildClose, p
  <2>2. m \in ProcType /\ m.stdout = p.stdout /\ n \in ProcType /\ n.stdout = p.stdout
    BY <1>0 DEF ProcType
  <2>3. ask \in QueueFrames /\ end \in QueueFrames
    BY <1>0, <1>3
  <2> HIDE DEF m, n, ask, end
  <2>4. StartFree(Sent(m, ask)) /\ StartFree(Sent(n, end))
    BY <1>0, <2>2, <2>3, SentFree DEF StartFree
  <2> QED
    BY <1>2, <2>1, <2>4
<1>10. ASSUME NEW how \in {"ok", "error", "cancelled"}, ChildEnd(a, g, how)
       PROVE  StartFreeNext
  <2> DEFINE n == [p EXCEPT !.task = NoRun, !.dialogs = {}, !.abort = "no"]
             end == Frame("end", p.task, None, how, FALSE)
             ok == Frame("reply", NoRun, None, "ok", p.abort = "live")
             e == Sent(n, end)
  <2>1. Child(a, g, e) \/ Child(a, g, Sent(e, ok))
    BY <1>10 DEF ChildEnd, p
  <2>2. n \in ProcType /\ n.stdout = p.stdout
    BY <1>0 DEF ProcType
  <2>3. end \in QueueFrames /\ ok \in QueueFrames
    BY <1>0, <1>3
  <2> HIDE DEF n, end, ok
  <2>4. StartFree(e) /\ StartFree(Sent(e, ok))
    BY <1>0, <2>2, <2>3, SentFree DEF StartFree
  <2> QED
    BY <1>2, <2>1, <2>4
<1>11. CASE ChildDelta(a, g)
  <2> DEFINE f == Frame("delta", p.task, None, "ok", FALSE)
  <2>1. f \in QueueFrames /\ Child(a, g, Sent(p, f))
    BY <1>0, <1>3, <1>11 DEF ChildDelta, p
  <2> QED
    BY <1>0, <1>2, <2>1, SentFree
<1>12. ~ ChildStart(a, g)
  BY DEF ChildStart
<1> QED
  BY <1>1, <1>4, <1>5, <1>6, <1>7, <1>8, <1>9, <1>10, <1>11, <1>12

LEMMA ProcessFree ==
  ASSUME OwnerNow, NoRunLeftBehind, NEW a \in Agents, Process(a)
  PROVE  StartFreeNext
BY ProcessStartFree DEF OwnerNow, OwnerInv, Managed, NoStarts, NoRunLeftBehind

LEMMA ProcessFits ==
  ASSUME OwnerNow, NoRunLeftBehind, NEW a \in Agents, Process(a)
  PROVE  StepFits
<1>1. UNCHANGED <<up, agent, run, workers, worker, op, tasks>>
  BY ProcessKeeps DEF memory
<1> QED
  BY <1>1, ProcessFree, RowsSame, WorkersSame, HoldersSame, SameFades, RunsFade, TasksSame
     DEF StepFits, UpKept, OwnerNow, OwnerInv

------------------------------------------------------------------------------
(* Shutdown, the end of a daemon and the start of the next one. *)

LEMMA ShutdownFits ==
  ASSUME OwnerNow, NEW a \in Agents, ShutdownAgent(a)
  PROVE  StepFits
<1>1. up /\ op[a].pc = "free" /\ HasWorker(a) /\ UNCHANGED <<up, workers, tasks, proc>>
  BY DEF ShutdownAgent, LockFree
<1>2. Reachable(a)
  BY <1>1, OpenWorker DEF Reachable
<1>3. BeginInterrupt(a, [op EXCEPT ![a].kind = "shutdown"])
  BY <1>2 DEF ShutdownAgent
<1>4. TasksNext
  BY <1>1, TasksSame DEF OwnerNow, OwnerInv
<1> QED
  BY <1>1, <1>3, <1>4, TakesAndInterrupts DEF InterruptKinds

LEMMA LoseMemoryOwns ==
  ASSUME OwnerNow, LoseMemory, UNCHANGED <<agent, run, proc>>
  PROVE  OwnerInv'
<1>1. /\ ~ up' /\ tasks' = {}
      /\ \A a \in Agents : workers'[a] = 0 /\ op'[a] = Free
      /\ \A a \in Agents, g \in Gens : worker'[a][g] = NoWorker
  BY DEF LoseMemory
<1>2. Managed'
  BY <1>1 DEF Managed, OwnerNow, OwnerInv, NoWorker, Free, StartFree
<1>3. DownHasNoWorker' /\ ActiveOwned'
  BY <1>1 DEF DownHasNoWorker, ActiveOwned
<1>4. OneActiveRun'
  BY DEF OneActiveRun, OwnerNow, OwnerInv
<1>5. ASSUME NEW a \in Agents
      PROVE  AgentOwns(a)'
  <2>1. AbsentOwnsNothing(a)'
    BY <1>1 DEF AbsentOwnsNothing, AgentOwns, OwnerNow, OwnerInv
  <2>2. Registered(a)'
    BY <1>1 DEF Registered
  <2>3. HolderFits(a)'
    BY <1>1 DEF HolderFits, Free, BeforeFork, OnWorker
  <2>4. ProjectedByLast(a)'
    BY <1>1 DEF ProjectedByLast, NoWorker
  <2> QED
    BY <2>1, <2>2, <2>3, <2>4 DEF AgentOwns
<1> QED
  BY <1>2, <1>3, <1>4, <1>5 DEF OwnerInv

\* _reconcile leaves no run that anybody would have to settle.
LEMMA ReconciledOver ==
  ASSUME TypeOK
  PROVE  Fades(Reconciled) /\ \A r \in Runs : Reconciled[r].state \notin Active
<1> DEFINE S == {r \in Runs : run[r].state \in Active}
           Q == {r \in Runs : run[r].state = "queued"}
           rs == Finish(run, S, "crashed")
<1>1. run \in [Runs -> RunType] /\ {"crashed", "cancelled"} \subseteq Terminal
  BY DEF TypeOK, Terminal
<1>2. rs \in [Runs -> RunType] /\ Fades(rs)
  BY <1>1, FinishType, SameFades, FinishFades DEF RunStates
<1>3. ASSUME NEW r \in Runs
      PROVE  rs[r].state \notin Active
  <2>1. CASE r \in S
    BY <1>1, <2>1, FinishEnds
  <2>2. CASE r \notin S
    BY <2>2 DEF Finish
  <2> QED
    BY <2>1, <2>2
<1> HIDE DEF rs, S, Q
<1>4. Reconciled = Finish(rs, Q, "cancelled")
  BY DEF Reconciled, rs, S, Q
<1>5. Fades(Reconciled)
  BY <1>1, <1>2, <1>4, FinishFades
<1>6. ASSUME NEW r \in Runs
      PROVE  Reconciled[r].state \notin Active
  <2>1. Reconciled[r] = rs[r] \/ Reconciled[r] = [rs[r] EXCEPT !.state = "cancelled"]
    BY <1>4 DEF Finish
  <2> QED
    BY <1>2, <1>3, <2>1 DEF RunType, Active
<1> QED
  BY <1>5, <1>6

LEMMA RestartOwns ==
  ASSUME OwnerNow, NEW v \in [Agents -> {"gone", "live", "unknown"}], Restart(v)
  PROVE  OwnerInv'
<1>1. /\ ~ up /\ run' = Reconciled /\ UNCHANGED <<workers, worker, op, tasks, proc>>
      /\ \A a \in Agents : workers[a] = 0 /\ op[a] = Free
  BY DEF Restart, memory, OwnerNow, OwnerInv, DownHasNoWorker
<1>2. Fades(run') /\ \A r \in Runs : run'[r].state \notin Active
  BY <1>1, ReconciledOver DEF OwnerNow
<1>3. \A a \in Agents : /\ agent'[a].gen = agent[a].gen
                        /\ agent'[a].state = "absent" => agent[a].state = "absent"
  <2> SUFFICES ASSUME NEW a \in Agents
               PROVE  /\ agent'[a].gen = agent[a].gen
                      /\ agent'[a].state = "absent" => agent[a].state = "absent"
    OBVIOUS
  <2>1. agent[a] \in AgentType
    BY Values DEF OwnerNow
  <2>2. \/ agent'[a] = [agent[a] EXCEPT !.state = IF v[a] = "gone" THEN "dormant" ELSE "orphaned",
                                        !.cleanup = IF v[a] = "gone" THEN "verified" ELSE "unknown",
                                        !.current = NoRun]
        \/ agent'[a] = [agent[a] EXCEPT !.current = NoRun]
    BY DEF Restart
  <2> QED
    BY <2>1, <2>2 DEF AgentType
<1>4. Managed' /\ DownHasNoWorker'
  BY <1>1 DEF Managed, DownHasNoWorker, OwnerNow, OwnerInv
<1>5. OneActiveRun' /\ ActiveOwned'
  BY <1>2 DEF OneActiveRun, ActiveOwned
<1>6. ASSUME NEW a \in Agents
      PROVE  AgentOwns(a)'
  <2>1. AgentOwns(a)
    BY DEF OwnerNow, OwnerInv
  <2>2. AbsentOwnsNothing(a)'
    BY <1>1, <1>2, <1>3, <2>1 DEF AbsentOwnsNothing, AgentOwns, Fades
  <2>3. Registered(a)'
    BY <1>1 DEF Registered
  <2>4. HolderFits(a)'
    BY <1>1 DEF HolderFits, Free, BeforeFork, OnWorker
  <2>5. ProjectedByLast(a)'
    BY <1>1, <2>1 DEF ProjectedByLast, AgentOwns, Gens
  <2> QED
    BY <2>2, <2>3, <2>4, <2>5 DEF AgentOwns
<1> QED
  BY <1>4, <1>5, <1>6 DEF OwnerInv

LEMMA DaemonOwns ==
  ASSUME OwnerNow, TypeOK', Daemon
  PROVE  OwnerInv'
<1>1. CASE Crash \/ ShutdownExit
  BY <1>1, LoseMemoryOwns DEF Crash, ShutdownExit
<1>2. CASE BeginShutdown
  <2>1. up /\ UNCHANGED <<up, agent, run, workers, worker, op, tasks, proc>>
    BY <1>2 DEF BeginShutdown
  <2>2. StepFits
    BY <2>1, RowsSame, WorkersSame, HoldersSame, SameFades, RunsFade, StartFreeSame, TasksSame
       DEF StepFits, UpKept, OwnerNow, OwnerInv
  <2> QED
    BY <2>2, StepFitsKeeps
<1>3. ASSUME NEW v \in [Agents -> {"gone", "live", "unknown"}], Restart(v)
      PROVE  OwnerInv'
  BY <1>3, RestartOwns
<1> QED
  BY <1>1, <1>2, <1>3 DEF Daemon

------------------------------------------------------------------------------
(* The theorem. *)

LEMMA OwnerInit == Init => OwnerInv
<1> SUFFICES ASSUME Init
             PROVE  OwnerInv
  OBVIOUS
<1>1. Managed
  BY QueueFramesAreFrames DEF Init, Managed, NoWorker, NoProc, Free, StartFree
<1>2. OneActiveRun /\ ActiveOwned /\ DownHasNoWorker
  BY DEF Init, OneActiveRun, ActiveOwned, DownHasNoWorker, Active
<1>3. ASSUME NEW a \in Agents
      PROVE  AgentOwns(a)
  BY DEF Init, AgentOwns, AbsentOwnsNothing, Registered, HolderFits, ProjectedByLast, Free, NoWorker,
         BeforeFork, OnWorker
<1> QED
  BY <1>1, <1>2, <1>3 DEF OwnerInv

(* OwnerInv is inductive with the types and the projections of the earlier theorems. *)
LEMMA OwnerStep == NoRunLeftBehind /\ OutcomeInv /\ OwnerInv /\ [Next]_vars => OwnerInv'
<1> SUFFICES ASSUME NoRunLeftBehind, OutcomeInv, OwnerInv, [Next]_vars
             PROVE  OwnerInv'
  OBVIOUS
<1>1. OwnerNow /\ TypeOK'
  BY TypeStep DEF OutcomeInv, OwnerNow
<1>2. ASSUME NEW a \in Agents, Boot(a) \/ Stop(a) \/ Mutate(a) \/ Await(a) \/ Background(a)
      PROVE  OwnerInv'
  BY <1>1, <1>2, BootOwns, StopOwns, MutateOwns, AwaitOwns, BackgroundOwns
<1>3. ASSUME NEW a \in Agents, Read(a) \/ Process(a) \/ ShutdownAgent(a)
      PROVE  OwnerInv'
  BY <1>1, <1>3, ReadFits, ProcessFits, ShutdownFits, StepFitsKeeps
<1>4. CASE Daemon
  BY <1>1, <1>4, DaemonOwns
<1>5. CASE UNCHANGED vars
  <2>1. UNCHANGED <<up, agent, run, workers, worker, op, tasks, proc>>
    BY <1>5 DEF vars, memory
  <2>2. StepFits
    BY <1>1, <2>1, RowsSame, WorkersSame, HoldersSame, SameFades, RunsFade, StartFreeSame, TasksSame
       DEF StepFits, UpKept, OwnerNow, OwnerInv
  <2> QED
    BY <1>1, <2>2, StepFitsKeeps
<1> QED
  BY <1>2, <1>3, <1>4, <1>5 DEF Next

\* Who owns an active run settles it: a boot, or a worker whose exit is still to be accounted for.
LEMMA OwnersSettle ==
  ASSUME OwnerInv
  PROVE  OneActiveRun /\ RunHasOwner
<1> SUFFICES ASSUME up, NEW r \in Runs, run[r].state \in Active
             PROVE  LET a == run[r].owner
                    IN  \/ run[r].state = "starting" /\ op[a].kind = "spawn"
                        \/ \E g \in Gens : Accountable(a, g) /\ worker[a][g].run = r
  BY DEF OwnerInv, RunHasOwner
<1> DEFINE a == run[r].owner
           g == agent[a].gen
<1>1. Owned(r)
  BY DEF OwnerInv, ActiveOwned
<1>2. CASE run[r].state = "starting"
  BY <1>1, <1>2 DEF Owned
<1>3. CASE run[r].state # "starting"
  <2>1. a \in Agents /\ g \in Gens /\ worker[a][g].run = r
    BY <1>1, <1>3 DEF Owned
  <2>2. workers[a] = g /\ AgentOwns(a)
    BY <2>1, BoundsAssumption DEF OwnerInv, AgentOwns, ProjectedByLast, Runs, NoRun
  <2>3. worker[a][g].life \notin {"none", "done"}
    BY <2>1, <2>2 DEF AgentOwns, Registered, W, Gens
  <2> QED
    BY <2>1, <2>3 DEF Accountable
<1> QED
  BY <1>2, <1>3

(* Unless a child can start work outside the managed queue or a fork can raise OSError, an
   agent never has two active runs and every active run has a boot or a worker that will
   settle it, whatever starts, rejections, interrupts, evictions, timeouts, exits, crashes,
   restarts and shutdowns do in whatever order (start_run, settle, worker_exited, _reconcile). *)
THEOREM RunsAreOwned ==
  ASSUME NoRunLeftBehind
  PROVE  Spec => [](OneActiveRun /\ RunHasOwner)
<1>1. OutcomeInv /\ OwnerInv /\ [Next]_vars => OwnerInv'
  BY OwnerStep
<1>2. OwnerInv => OneActiveRun /\ RunHasOwner
  BY OwnersSettle
<1> QED
  BY <1>1, <1>2, OwnerInit, OutcomeInvariant, PTL DEF Spec

------------------------------------------------------------------------------
(* The runs table is a RunLedger: legal moves, one active run per agent and queued runs
   started in the order they were added.  Every step makes only moves of the ledger, whatever
   the invariant; that the earlier runs of the agent are over comes from OneActiveRun.        *)

\* The moves of one run, but for a queued one that starts.
EndMove(s, t) ==
  s = t \/ (s \in Active /\ t \in Terminal \ {"cancelled"}) \/ (s = "queued" /\ t = "cancelled")
QuietMove(s, t) ==
  EndMove(s, t) \/ (s = "starting" /\ t = "running") \/ (s \in Projected /\ t \in Projected)
Added(x, y) == x.state = "absent" /\ y.state \in {"starting", "queued", "running"} /\ y.owner \in Agents
Begun(x, y) == Added(x, y) /\ y.state # "queued"

\* The ledger rs is the one of this state but for runs that ended, or for quiet moves and runs that
\* begin.  Either way no queue grows.
Ends(rs) == \A r \in Runs : rs[r].owner = run[r].owner /\ EndMove(run[r].state, rs[r].state)
Quiet(rs) ==
  \A r \in Runs : \/ rs[r].owner = run[r].owner /\ QuietMove(run[r].state, rs[r].state)
                  \/ Begun(run[r], rs[r])
Thins(rs) == \A r \in Runs : rs[r].state = "queued" => run[r].state = "queued" /\ rs[r].owner = run[r].owner

\* A step of the ledger: some queued run may start, the oldest of its agent.
Starts(r) == run[r].state = "queued" /\ run'[r].state = "running"
Moved ==
  \A r \in Runs : \/ /\ run'[r].owner = run[r].owner
                     /\ QuietMove(run[r].state, run'[r].state) \/ Starts(r)
                  \/ Added(run[r], run'[r])
Ordered ==
  \A r, q \in Runs : Starts(r) /\ q < r /\ run'[q].owner = run'[r].owner => run'[q].state # "queued"
LedgerFits == Moved /\ Ordered
DrainFits == LedgerFits /\ Thins(run')

\* Only a run that was added has an owner.
OwnerGiven == \A r \in Runs : run[r].state = "absent" <=> run[r].owner = None

------------------------------------------------------------------------------
(* What the ledger's operators do. *)

LEMMA QuietThins ==
  ASSUME NEW rs, Quiet(rs)
  PROVE  Thins(rs)
BY DEF Quiet, Thins, QuietMove, EndMove, Begun, Terminal, Projected

LEMMA QuietFits ==
  ASSUME TypeOK, Quiet(run')
  PROVE  DrainFits
<1>1. Moved
  BY DEF Quiet, Moved, Begun
<1>2. ASSUME NEW r \in Runs, Starts(r)
      PROVE  FALSE
  BY <1>2 DEF Quiet, Starts, QuietMove, EndMove, Begun, Added, Active, Projected
<1> QED
  BY <1>1, <1>2, QuietThins DEF DrainFits, LedgerFits, Ordered

LEMMA EndsQuiet ==
  ASSUME NEW rs, Ends(rs)
  PROVE  Quiet(rs)
BY DEF Ends, Quiet, QuietMove

LEMMA SameEnds == Ends(run)
BY DEF Ends, EndMove

LEMMA SameQuiet == run' = run => Quiet(run')
BY SameEnds, EndsQuiet DEF Ends, Quiet, QuietMove, EndMove

\* Finishing runs that are not queued ends them.
LEMMA FinishMoves ==
  ASSUME NEW rs \in [Runs -> RunType], Ends(rs), NEW S, \A r \in S \cap Runs : run[r].state # "queued",
         NEW s \in Terminal \ {"cancelled"}
  PROVE  Ends(Finish(rs, S, s))
<1> SUFFICES ASSUME NEW r \in Runs
             PROVE  /\ Finish(rs, S, s)[r].owner = run[r].owner
                    /\ EndMove(run[r].state, Finish(rs, S, s)[r].state)
  BY DEF Ends
<1>1. rs[r].owner = run[r].owner /\ EndMove(run[r].state, rs[r].state) /\ rs[r] \in RunType
  BY DEF Ends
<1>2. \/ Finish(rs, S, s)[r] = rs[r]
      \/ /\ Finish(rs, S, s)[r] = [rs[r] EXCEPT !.state = s]
         /\ r \in S /\ rs[r].state \in Active \cup {"queued"}
  BY DEF Finish
<1> QED
  BY <1>1, <1>2 DEF RunType, EndMove, Active, Terminal

\* Cancelling a queue ends queued runs only.
LEMMA CancelMoves ==
  ASSUME NEW rs \in [Runs -> RunType], Ends(rs), NEW a
  PROVE  Ends(CancelQueued(rs, a))
<1> SUFFICES ASSUME NEW r \in Runs
             PROVE  /\ CancelQueued(rs, a)[r].owner = run[r].owner
                    /\ EndMove(run[r].state, CancelQueued(rs, a)[r].state)
  BY DEF Ends
<1>1. rs[r].owner = run[r].owner /\ EndMove(run[r].state, rs[r].state) /\ rs[r] \in RunType
  BY DEF Ends
<1>2. \/ CancelQueued(rs, a)[r] = rs[r]
      \/ CancelQueued(rs, a)[r] = [rs[r] EXCEPT !.state = "cancelled"] /\ rs[r].state = "queued"
  BY DEF CancelQueued, Queued, Finish
<1> QED
  BY <1>1, <1>2 DEF RunType, EndMove, Active, Terminal

\* A projected run is not queued.
LEMMA ProjectedNotQueued ==
  ASSUME TypeOK, ProjectionsActive, NEW a \in Agents, NEW g \in Gens, NEW r \in Runs, worker[a][g].run = r
  PROVE  run[r].state \in Projected
BY BoundsAssumption DEF ProjectionsActive, Projected, Runs, NoRun

LEMMA ProjectedEnds ==
  ASSUME TypeOK, ProjectionsActive, NEW a \in Agents, workers[a] \in Gens,
         NEW rs \in [Runs -> RunType], Ends(rs), NEW s \in Terminal \ {"cancelled"}
  PROVE  Ends(Finish(rs, {W(a).run}, s))
<1>1. \A r \in {W(a).run} \cap Runs : run[r].state # "queued"
  BY ProjectedNotQueued DEF W, Projected
<1> QED
  BY <1>1, FinishMoves

LEMMA StartingEnds ==
  ASSUME TypeOK, NEW a
  PROVE  Ends(Finish(run, {r \in Runs : run[r] = [state |-> "starting", owner |-> a]}, "failed"))
<1> DEFINE S == {r \in Runs : run[r] = [state |-> "starting", owner |-> a]}
<1>1. \A r \in S \cap Runs : run[r].state # "queued"
  OBVIOUS
<1>2. "failed" \in Terminal \ {"cancelled"} /\ run \in [Runs -> RunType]
  BY DEF TypeOK, Terminal
<1> HIDE DEF S
<1>3. Ends(Finish(run, S, "failed"))
  BY <1>1, <1>2, SameEnds, FinishMoves
<1> QED
  BY <1>3 DEF S

\* add_run of a fresh run, which may start at once.
LEMMA AddQuiet ==
  ASSUME TypeOK, NEW a \in Agents, NEW r \in Unused, NEW s \in {"starting", "queued"}
  PROVE  /\ s = "starting" => Quiet(AddRun(a, r, s))
         /\ Quiet([AddRun(a, r, s) EXCEPT ![r].state = "running"])
<1>1. r \in Runs /\ run[r].state = "absent" /\ run \in [Runs -> RunType]
  BY DEF Unused, TypeOK
<1>2. AddRun(a, r, s)[r] = [state |-> s, owner |-> a]
  BY <1>1 DEF AddRun
<1>3. /\ [AddRun(a, r, s) EXCEPT ![r].state = "running"][r].state = "running"
      /\ [AddRun(a, r, s) EXCEPT ![r].state = "running"][r].owner = a
  BY <1>1 DEF AddRun
<1>4. ASSUME NEW q \in Runs \ {r}
      PROVE  AddRun(a, r, s)[q] = run[q] /\ [AddRun(a, r, s) EXCEPT ![r].state = "running"][q] = run[q]
  BY <1>1 DEF AddRun
<1> QED
  BY <1>1, <1>2, <1>3, <1>4 DEF Quiet, QuietMove, EndMove, Begun, Added

\* A follow-up joins its agent's queue and changes nothing else.
LEMMA FollowUpJoins ==
  ASSUME TypeOK, NEW a \in Agents, NEW r \in Runs, SendQueued(a, r)
  PROVE  /\ LedgerFits /\ run'[r].state = "queued" /\ run'[r].owner = a
         /\ \A q \in Runs \ {r} : run'[q] = run[q]
<1>1. r \in Runs /\ run[r].state = "absent" /\ run \in [Runs -> RunType]
  BY DEF SendQueued, Unused, TypeOK
<1>2. run'[r] = [state |-> "queued", owner |-> a] /\ \A q \in Runs \ {r} : run'[q] = run[q]
  BY <1>1 DEF SendQueued, AddRun
<1>3. Moved
  BY <1>1, <1>2 DEF Moved, QuietMove, EndMove, Added
<1>4. \A q \in Runs : ~ Starts(q)
  BY <1>1, <1>2 DEF Starts
<1> QED
  BY <1>2, <1>3, <1>4 DEF LedgerFits, Ordered

\* A starting run that begins, a projected one that asks or stops asking.
LEMMA StateQuiet ==
  ASSUME TypeOK, NEW q, NEW s, q \in Runs => QuietMove(run[q].state, s)
  PROVE  Quiet([run EXCEPT ![q].state = s])
<1>1. \A r \in Runs : /\ [run EXCEPT ![q].state = s][r].owner = run[r].owner
                      /\ \/ [run EXCEPT ![q].state = s][r].state = run[r].state
                         \/ r = q /\ [run EXCEPT ![q].state = s][r].state = s
  BY DEF TypeOK, RunType
<1> QED
  BY <1>1 DEF Quiet, QuietMove, EndMove

------------------------------------------------------------------------------
(* A run starts. *)

\* advance_queue starts the oldest of the queue, or nobody.
LEMMA AdvanceFits ==
  ASSUME TypeOK, NEW a, NEW ag, NEW w, NEW rs \in [Runs -> RunType], Ends(rs), AdvanceQueue(a, ag, rs, w)
  PROVE  DrainFits
<1> DEFINE n == NextQueued(rs, a)
<1>1. CASE ~closing /\ Queued(rs, a) # {} /\ ~Exited(a, workers[a])
  <2>1. run' = [rs EXCEPT ![n].state = "running"]
    BY <1>1 DEF AdvanceQueue, StartRun
  <2>2. n \in Queued(rs, a) /\ \A q \in Queued(rs, a) : n <= q
    BY <1>1, OldestExists DEF NextQueued, Queued
  <2> HIDE DEF n
  <2>3. /\ n \in Runs /\ rs[n].state = "queued" /\ rs[n].owner = a
        /\ run'[n].state = "running" /\ run'[n].owner = a
        /\ \A q \in Runs \ {n} : run'[q] = rs[q]
    BY <2>1, <2>2 DEF Queued, RunType
  <2>4. \A r \in Runs : rs[r].owner = run[r].owner /\ EndMove(run[r].state, rs[r].state)
    BY DEF Ends
  <2>5. run[n].state = "queued" /\ run[n].owner = a
    BY <2>3, <2>4 DEF EndMove, Terminal
  <2>6. Moved
    BY <2>3, <2>4, <2>5 DEF Moved, QuietMove, Starts
  <2>7. ASSUME NEW r \in Runs, Starts(r)
        PROVE  r = n
    BY <2>3, <2>4, <2>7 DEF Starts, EndMove, Terminal, Active
  <2>8. ASSUME NEW q \in Runs, q < n, run'[q].owner = run'[n].owner
        PROVE  run'[q].state # "queued"
    <3>1. q # n /\ run'[q] = rs[q]
      BY <2>3, <2>8 DEF Runs
    <3>2. ~ (n <= q)
      BY <2>3, <2>8, BoundsAssumption DEF Runs
    <3> QED
      BY <2>2, <2>3, <2>8, <3>1, <3>2 DEF Queued
  <2>9. Thins(run')
    BY <2>3, <2>4 DEF Thins, EndMove, Terminal
  <2> QED
    BY <2>6, <2>7, <2>8, <2>9 DEF DrainFits, LedgerFits, Ordered
<1>2. CASE ~(~closing /\ Queued(rs, a) # {} /\ ~Exited(a, workers[a]))
  <2>1. run' = rs
    BY <1>2 DEF AdvanceQueue
  <2> QED
    BY <2>1, EndsQuiet, QuietFits
<1> QED
  BY <1>1, <1>2

\* A fresh run that starts at once passes no queue of the ledger: it was never in it.
LEMMA FreshQuiet ==
  ASSUME TypeOK, NEW a \in Agents, NEW r \in Unused, NEW ag, NEW w, NEW k,
         StartRun(a, r, ag, AddRun(a, r, "queued"), w, k)
  PROVE  Quiet(run')
<1>1. run' = [AddRun(a, r, "queued") EXCEPT ![r].state = "running"]
  BY DEF StartRun
<1> QED
  BY <1>1, AddQuiet

------------------------------------------------------------------------------
(* Every action. *)

LEMMA InterruptQuiet ==
  ASSUME TypeOK, NEW a \in Agents, NEW o, BeginInterrupt(a, o)
  PROVE  Quiet(run')
BY SameEnds, CancelMoves, EndsQuiet DEF BeginInterrupt, TypeOK

LEMMA AbortQuiet ==
  ASSUME TypeOK, NEW a \in Agents, AbortBoot(a)
  PROVE  Quiet(run')
<1>1. run' = run \/ run' = Finish(run, {r \in Runs : run[r] = [state |-> "starting", owner |-> a]}, "failed")
  BY DEF AbortBoot
<1> QED
  BY <1>1, SameQuiet, StartingEnds, EndsQuiet

LEMMA BootQuiet ==
  ASSUME TypeOK, Located, NEW a \in Agents, Boot(a)
  PROVE  Quiet(run')
<1>1. CASE \/ Spawn(a) \/ Admit(a) \/ AdmitWriter(a) \/ BeforeSpawn(a) \/ Fork(a) \/ ForkFails(a)
           \/ Register(a) \/ ReadyFails(a) \/ \E b \in Agents : PickVictim(a, b)
  BY <1>1, SameQuiet DEF Spawn, Admit, AdmitWriter, BeforeSpawn, Fork, ForkFails, Register, ReadyFails, PickVictim
<1>2. CASE LockVictim(a)
  <2>1. op[a].victim \in Agents /\ \E o : BeginInterrupt(op[a].victim, o)
    BY <1>2 DEF LockVictim, Located, LocatedAt
  <2> QED
    BY <2>1, InterruptQuiet
<1>3. CASE SkipVictim(a) \/ BootRefused(a) \/ EvictionRefused(a)
  BY <1>3, AbortQuiet, SameQuiet DEF SkipVictim, BootRefused, EvictionRefused
<1>4. CASE ReadyOk(a)
  <2> DEFINE ag == [agent[a] EXCEPT !.state = "idle", !.cleanup = "not_checked"]
  <2>1. \/ \E r \in Runs : \E k : run[r].state = "starting" /\ StartRun(a, r, ag, run, W(a), k)
        \/ \E k : Unused # {} /\ StartRun(a, Oldest(Unused), ag, AddRun(a, Oldest(Unused), "queued"), W(a), k)
        \/ run' = run
    BY <1>4 DEF ReadyOk
  <2>2. ASSUME NEW r \in Runs, NEW k, run[r].state = "starting", StartRun(a, r, ag, run, W(a), k)
        PROVE  Quiet(run')
    <3>1. run' = [run EXCEPT ![r].state = "running"]
      BY <2>2 DEF StartRun
    <3> QED
      BY <2>2, <3>1, StateQuiet DEF QuietMove
  <2>3. ASSUME NEW k, Unused # {},
               StartRun(a, Oldest(Unused), ag, AddRun(a, Oldest(Unused), "queued"), W(a), k)
        PROVE  Quiet(run')
    <3>1. Oldest(Unused) \in Unused
      BY <2>3, OldestExists DEF Unused
    <3> QED
      BY <2>3, <3>1, FreshQuiet
  <2> QED
    BY <2>1, <2>2, <2>3, SameQuiet
<1>5. ASSUME NEW r \in Runs, SpawnInsert(a, r)
      PROVE  Quiet(run')
  BY <1>5, AddQuiet DEF SpawnInsert
<1> QED
  BY <1>1, <1>2, <1>3, <1>4, <1>5 DEF Boot

LEMMA StopQuiet ==
  ASSUME TypeOK, Located, ProjectionsActive, NEW a \in Agents, Stop(a)
  PROVE  Quiet(run')
<1>1. PICK o : StopDone(a, o) \/ UnbootDone(a, o)
  BY DEF Stop
<1>2. CASE StopDone(a, o)
  <2> DEFINE own == EndsWith(a, op[a].kind)
             s == IF op[a].kind = "check_idle" THEN "timed_out" ELSE "interrupted"
  <2>1. run' = Finish(run, own, s) /\ op[a].pc = "stop"
    BY <1>2 DEF StopDone
  <2>2. s \in Terminal \ {"cancelled"} /\ run \in [Runs -> RunType]
    BY DEF Terminal, TypeOK
  <2>3. \A r \in own \cap Runs : run[r].state # "queued"
    <3>1. own = {} \/ (own = {W(a).run} /\ op[a].kind # "stop_unowned")
      BY DEF EndsWith, InterruptKinds
    <3>2. op[a].kind # "stop_unowned" => workers[a] \in Gens
      BY <2>1 DEF Located, LocatedAt
    <3> QED
      BY <3>1, <3>2, ProjectedNotQueued DEF W, Projected
  <2> HIDE DEF own, s
  <2> QED
    BY <2>1, <2>2, <2>3, SameEnds, FinishMoves, EndsQuiet
<1>3. CASE UnbootDone(a, o)
  <2>1. run' = run \/ run' = Finish(run, {r \in Runs : run[r] = [state |-> "starting", owner |-> a]}, "failed")
    BY <1>3 DEF UnbootDone
  <2> QED
    BY <2>1, SameQuiet, StartingEnds, EndsQuiet
<1> QED
  BY <1>1, <1>2, <1>3

LEMMA DismissQuiet ==
  ASSUME TypeOK, NEW a, NEW d, NEW ag, NEW w, Dismiss(a, d, ag, run, w), w.run # NoRun => w.run \in Runs
  PROVE  Quiet(run')
<1>1. run' = run \/ (w.run \in Runs /\ run[w.run].state = "needs_input" /\ run' = [run EXCEPT ![w.run].state = "running"])
  BY DEF Dismiss
<1> QED
  BY <1>1, SameQuiet, StateQuiet DEF QuietMove, Projected

LEMMA MutateQuiet ==
  ASSUME TypeOK, Located, NEW a \in Agents, Mutate(a), \A r \in Runs : ~ SendQueued(a, r)
  PROVE  Quiet(run')
<1>1. ASSUME NEW name, Interrupt(a, name)
      PROVE  Quiet(run')
  BY <1>1, InterruptQuiet DEF Interrupt
<1>2. ASSUME \/ \E name \in Requests : Respawn(a, name)
             \/ \E v \in {"gone", "live"} : CloseOrphan(a, v)
             \/ \E proved \in BOOLEAN : ReapDone(a, proved)
             \/ ConfirmCleanup(a) \/ SendWake(a)
      PROVE  Quiet(run')
  BY <1>2, SameQuiet DEF Respawn, CloseOrphan, ReapDone, ConfirmCleanup, SendWake
<1>3. CASE SoftInterrupt(a)
  BY <1>3, SameEnds, CancelMoves, EndsQuiet DEF SoftInterrupt, TypeOK
<1>4. ASSUME NEW r \in Runs, SendIdle(a, r)
      PROVE  Quiet(run')
  BY <1>4, FreshQuiet DEF SendIdle
<1>5. ASSUME NEW d \in Dialogs, Answer(a, d)
      PROVE  Quiet(run')
  <2>1. workers[a] \in Gens /\ Dismiss(a, d, agent[a], run, W(a))
    BY <1>5 DEF Answer, Reachable, HasWorker, TypeOK, Gens
  <2>2. W(a).run # NoRun => W(a).run \in Runs
    BY <2>1, ProjectedRun DEF W
  <2> QED
    BY <2>1, <2>2, DismissQuiet
<1> QED
  BY <1>1, <1>2, <1>3, <1>4, <1>5 DEF Mutate

LEMMA AwaitLedger ==
  ASSUME TypeOK, Located, ProjectionsActive, NEW a \in Agents, Await(a)
  PROVE  DrainFits
<1>1. op[a].pc \in {"prompt", "abort"} /\ workers[a] \in Gens /\ run \in [Runs -> RunType]
  BY DEF Await, PromptOk, PromptRejected, PromptUncertain, AbortConfirmed, AbortForced, Located, LocatedAt, TypeOK
<1>2. ASSUME NEW s \in {"failed", "interrupted"}
      PROVE  Finish(run, {W(a).run}, s) \in [Runs -> RunType] /\ Ends(Finish(run, {W(a).run}, s))
  BY <1>1, SameEnds, ProjectedEnds, FinishType DEF Terminal, RunStates
<1>3. CASE PromptRejected(a)
  <2>1. \/ AdvanceQueue(a, IdleAgent(agent[a]), Finish(run, {W(a).run}, "failed"), IdleWorker(W(a)))
        \/ run' = Finish(run, {W(a).run}, "failed")
    BY <1>3 DEF PromptRejected
  <2> QED
    BY <1>2, <2>1, AdvanceFits, EndsQuiet, QuietFits
<1>4. CASE PromptOk(a) \/ PromptUncertain(a) \/ AbortConfirmed(a)
  <2>1. run' = run \/ run' = Finish(run, {W(a).run}, "interrupted")
    BY <1>4 DEF PromptOk, PromptUncertain, KeepUncertain, AbortConfirmed
  <2> QED
    BY <1>2, <2>1, SameQuiet, EndsQuiet, QuietFits
<1>5. CASE AbortForced(a)
  BY <1>5, InterruptQuiet, QuietFits DEF AbortForced
<1> QED
  BY <1>3, <1>4, <1>5 DEF Await

LEMMA BackgroundLedger ==
  ASSUME TypeOK, Located, ProjectionsActive, NEW a \in Agents, Background(a)
  PROVE  DrainFits
<1>0. run \in [Runs -> RunType] /\ Terminal \subseteq RunStates
  BY DEF TypeOK, RunStates
<1>1. ASSUME NEW g \in Gens, StopUnowned(a, g)
      PROVE  DrainFits
  <2>1. run' = run \/ run' = CancelQueued(run, a)
    BY <1>1 DEF StopUnowned
  <2> QED
    BY <1>0, <2>1, SameEnds, CancelMoves, EndsQuiet, QuietFits
<1>2. ASSUME NEW g \in Gens, FailWorker(a, g)
      PROVE  DrainFits
  <2>1. CASE FailsOwn(a, g)
    <3> DEFINE rs == CancelQueued(run, a)
    <3>1. workers[a] \in Gens /\ run' = Finish(rs, {W(a).run}, "failed")
      BY <1>2, <2>1 DEF FailWorker, FailsOwn
    <3>2. rs \in [Runs -> RunType] /\ Ends(rs)
      BY <1>0, CancelQueuedType, SameEnds, CancelMoves
    <3>3. Ends(run')
      BY <3>1, <3>2, ProjectedEnds DEF Terminal
    <3> QED
      BY <3>3, EndsQuiet, QuietFits
  <2>2. CASE ~FailsOwn(a, g)
    BY <1>2, <2>2, SameQuiet, QuietFits DEF FailWorker
  <2> QED
    BY <2>1, <2>2
<1>3. ASSUME NEW g \in Gens, NEW proved \in BOOLEAN, WorkerExited(a, g, proved)
      PROVE  DrainFits
  <2> DEFINE s == IF worker[a][g].stopping THEN "interrupted" ELSE "crashed"
             rs == Finish(run, {worker[a][g].run}, s)
  <2>1. run' = run \/ run' = CancelQueued(rs, a)
    BY <1>3 DEF WorkerExited
  <2>2. s \in Terminal \ {"cancelled"}
    BY DEF Terminal
  <2>3. \A r \in {worker[a][g].run} \cap Runs : run[r].state # "queued"
    BY ProjectedNotQueued DEF Projected
  <2> HIDE DEF s
  <2>4. rs \in [Runs -> RunType] /\ Ends(rs)
    BY <1>0, <2>2, <2>3, SameEnds, FinishType, FinishMoves
  <2> HIDE DEF rs
  <2>5. run' = run \/ Ends(run')
    BY <2>1, <2>4, CancelMoves
  <2> QED
    BY <2>5, SameQuiet, EndsQuiet, QuietFits
<1>4. ASSUME NEW g \in Gens, NEW r \in Runs, Settle(a, g, r)
      PROVE  DrainFits
  <2>1. CASE SettleValid(a, g, r)
    <3> DEFINE s == Outcome(W(a))
               rs == Finish(run, {W(a).run}, s)
    <3>1. /\ workers[a] \in Gens
          /\ AdvanceQueue(a, IdleAgent(agent[a]), rs, IdleWorker(W(a)))
      BY <1>4, <2>1 DEF Settle, SettleValid
    <3>2. s \in Terminal \ {"cancelled"}
      BY DEF Outcome, Terminal
    <3> HIDE DEF s
    <3>3. rs \in [Runs -> RunType] /\ Ends(rs)
      BY <1>0, <3>1, <3>2, SameEnds, FinishType, ProjectedEnds
    <3> HIDE DEF rs
    <3> QED
      BY <3>1, <3>3, AdvanceFits
  <2>2. CASE ~SettleValid(a, g, r)
    BY <1>4, <2>2, SameQuiet, QuietFits DEF Settle
  <2> QED
    BY <2>1, <2>2
<1>5. ASSUME NEW g \in Gens, NEW r \in Runs, CheckIdle(a, g, r)
      PROVE  DrainFits
  BY <1>5, InterruptQuiet, SameQuiet, QuietFits DEF CheckIdle
<1>6. ASSUME FallSilent(a) \/ ObserveIdle(a) \/ \E g \in Gens : Reaped(a, g)
      PROVE  DrainFits
  BY <1>6, SameQuiet, QuietFits DEF FallSilent, ObserveIdle, Reaped
<1>7. CASE Park(a)
  BY <1>7, InterruptQuiet, QuietFits DEF Park
<1> QED
  BY <1>1, <1>2, <1>3, <1>4, <1>5, <1>6, <1>7 DEF Background

LEMMA ReadQuiet ==
  ASSUME TypeOK, ProjectionsActive, NEW a \in Agents, Read(a)
  PROVE  Quiet(run')
<1>1. PICK g \in Gens : \/ ReadReply(a, g) \/ ReadDropped(a, g) \/ ReadAsk(a, g) \/ ReadClosed(a, g)
                        \/ ReadEnd(a, g) \/ ReadDelta(a, g) \/ ReadStart(a, g) \/ ReaderFails(a, g)
  BY DEF Read
<1>2. worker[a][g].run # NoRun => worker[a][g].run \in Runs /\ run[worker[a][g].run].state \in Projected
  BY ProjectedRun DEF ProjectionsActive, Projected
<1>3. CASE ReadReply(a, g) \/ ReadDropped(a, g) \/ ReadDelta(a, g) \/ ReadStart(a, g) \/ ReaderFails(a, g)
  BY <1>3, SameQuiet DEF ReadReply, ReadDropped, ReadDelta, ReadStart, ReaderFails
<1>4. CASE ReadAsk(a, g)
  <2>1. /\ run' = [run EXCEPT ![worker[a][g].run].state = "needs_input"]
        /\ worker[a][g].run # NoRun
    BY <1>4 DEF ReadAsk, Heeded
  <2> QED
    BY <1>2, <2>1, StateQuiet DEF QuietMove, Projected
<1>5. CASE ReadClosed(a, g)
  BY <1>2, <1>5, DismissQuiet DEF ReadClosed
<1>6. CASE ReadEnd(a, g)
  <2>1. run' = run \/ run' = CancelQueued(run, a)
    BY <1>6 DEF ReadEnd
  <2> QED
    BY <2>1, SameEnds, CancelMoves, EndsQuiet DEF TypeOK
<1> QED
  BY <1>1, <1>3, <1>4, <1>5, <1>6

\* The child reaches no ledger.
LEMMA ProcessQuiet ==
  ASSUME TypeOK, NEW a \in Agents, Process(a)
  PROVE  Quiet(run')
BY SameQuiet DEF Process, GuardRecord, ProcExit, ChildPrompt, ChildAbort, ChildAnswer, ChildAsk, ChildClose,
                 ChildEnd, ChildDelta, ChildStart, Child

LEMMA DaemonQuiet ==
  ASSUME TypeOK, Daemon \/ \E a \in Agents : ShutdownAgent(a)
  PROVE  Quiet(run')
<1>1. CASE Crash \/ BeginShutdown \/ ShutdownExit
  BY <1>1, SameQuiet DEF Crash, BeginShutdown, ShutdownExit
<1>2. ASSUME NEW v, Restart(v)
      PROVE  Quiet(run')
  <2> DEFINE S == {r \in Runs : run[r].state \in Active}
             rs == Finish(run, S, "crashed")
  <2>1. run' = Finish(rs, {r \in Runs : run[r].state = "queued"}, "cancelled")
    BY <1>2 DEF Restart, Reconciled
  <2>2. \A r \in Runs : \/ run'[r] = run[r]
                        \/ run[r].state \in Active /\ run'[r] = [run[r] EXCEPT !.state = "crashed"]
                        \/ run[r].state = "queued" /\ run'[r] = [run[r] EXCEPT !.state = "cancelled"]
    BY <2>1 DEF Finish, Active
  <2>3. ASSUME NEW r \in Runs
        PROVE  run'[r].owner = run[r].owner /\ EndMove(run[r].state, run'[r].state)
    <3>1. run[r] \in RunType
      BY DEF TypeOK
    <3> QED
      BY <2>2, <3>1 DEF EndMove, Terminal, RunType
  <2> QED
    BY <2>3, EndsQuiet DEF Ends
<1>3. ASSUME NEW a \in Agents, ShutdownAgent(a)
      PROVE  Quiet(run')
  <2>1. run' = run \/ \E o : BeginInterrupt(a, o)
    BY <1>3 DEF ShutdownAgent
  <2> QED
    BY <2>1, SameQuiet, InterruptQuiet
<1> QED
  BY <1>1, <1>2, <1>3 DEF Daemon

LEMMA StepLedger ==
  ASSUME OutcomeInv, [Next]_vars
  PROVE  LedgerFits /\ (Thins(run') \/ \E a \in Agents : \E r \in Runs : SendQueued(a, r))
<1> USE DEF OutcomeInv
<1>1. ASSUME NEW a \in Agents, Boot(a) \/ Stop(a) \/ Read(a) \/ Process(a)
      PROVE  DrainFits
  BY <1>1, BootQuiet, StopQuiet, ReadQuiet, ProcessQuiet, QuietFits
<1>2. ASSUME NEW a \in Agents, Await(a) \/ Background(a)
      PROVE  DrainFits
  BY <1>2, AwaitLedger, BackgroundLedger
<1>3. CASE Daemon \/ \E a \in Agents : ShutdownAgent(a)
  BY <1>3, DaemonQuiet, QuietFits DEF DrainFits
<1>4. CASE UNCHANGED vars
  BY <1>4, SameQuiet, QuietFits DEF vars, DrainFits
<1>5. ASSUME NEW a \in Agents, Mutate(a), \A r \in Runs : ~ SendQueued(a, r)
      PROVE  DrainFits
  BY <1>5, MutateQuiet, QuietFits
<1> QED
  BY <1>1, <1>2, <1>3, <1>4, <1>5, FollowUpJoins DEF Next, DrainFits

------------------------------------------------------------------------------
(* The refinement. *)

LEMMA OwnerGivenStep ==
  ASSUME TypeOK, OwnerGiven, LedgerFits
  PROVE  OwnerGiven'
<1> SUFFICES ASSUME NEW r \in Runs
             PROVE  run'[r].state = "absent" <=> run'[r].owner = None
  BY DEF OwnerGiven
<1>1. run[r].state = "absent" <=> run[r].owner = None
  BY DEF OwnerGiven
<1>2. CASE run'[r].owner = run[r].owner /\ (QuietMove(run[r].state, run'[r].state) \/ Starts(r))
  BY <1>1, <1>2 DEF QuietMove, EndMove, Starts, Active, Terminal, Projected
<1>3. CASE Added(run[r], run'[r])
  BY <1>3, SetsAssumption DEF Added
<1> QED
  BY <1>2, <1>3 DEF LedgerFits, Moved

LEMMA LedgerStep ==
  ASSUME TypeOK, TypeOK', OwnerGiven, OwnerGiven', OneActiveRun', LedgerFits
  PROVE  Ledger!Next
<1> USE DEF Ledger!Runs, Runs, Ledger!Active, Active, Ledger!Terminal, Terminal
<1>1. Ledger!LegalMoves
  <2> SUFFICES ASSUME NEW r \in Runs, run'[r].state # run[r].state
               PROVE  <<run[r].state, run'[r].state>> \in Ledger!Moves
    BY DEF Ledger!LegalMoves
  <2>1. CASE QuietMove(run[r].state, run'[r].state) \/ Starts(r)
    BY <2>1 DEF QuietMove, EndMove, Starts, Projected, Ledger!Moves
  <2>2. CASE Added(run[r], run'[r])
    BY <2>2 DEF Added, Ledger!Moves
  <2> QED
    BY <2>1, <2>2 DEF LedgerFits, Moved
<1>2. Ledger!OwnersStay
  BY DEF Ledger!OwnersStay, LedgerFits, Moved, Added, OwnerGiven
<1>3. Ledger!OneActive(run')
  BY DEF Ledger!OneActive, OneActiveRun
<1>4. Ledger!InOrder
  <2> SUFFICES ASSUME NEW r \in Runs, NEW q \in Runs, run[r].state = "queued", run'[r].state = "running",
                      q < r, run'[q].owner = run'[r].owner
               PROVE  run'[q].state \in Terminal
    BY DEF Ledger!InOrder
  <2>1. run'[q].state # "queued"
    BY DEF LedgerFits, Ordered, Starts
  <2>2. run'[q].state # "absent"
    BY DEF OwnerGiven
  <2>3. run'[q].state \notin Active
    BY DEF OneActiveRun
  <2>4. run'[q].state \in RunStates
    BY DEF TypeOK, RunType
  <2> QED
    BY <2>1, <2>2, <2>3, <2>4 DEF RunStates
<1> QED
  BY <1>1, <1>2, <1>3, <1>4 DEF Ledger!Next

(* Unless a child can start work outside the managed queue or a fork can raise OSError, the
   ledger of runs implements RunLedger: a run moves only along its legal life, keeps its agent,
   is the only active one of it, and leaves the queue only when everything its agent was given
   before is over, through every settle, interrupt, eviction, exit, crash and restart
   (store.py, advance_queue, start_run, cancel_queued, _reconcile). *)
THEOREM LedgerImplemented ==
  ASSUME NoRunLeftBehind
  PROVE  Spec => ImplementsLedger
<1>1. Init => Ledger!Init /\ OwnerGiven
  BY DEF Init, Ledger!Init, Ledger!Runs, Runs, OwnerGiven
<1>2. OutcomeInv /\ OwnerInv /\ [Next]_vars => OutcomeInv' /\ OwnerInv'
  BY OutcomeStep, OwnerStep
<1>3. OutcomeInv /\ OwnerGiven /\ [Next]_vars => OwnerGiven'
  BY StepLedger, OwnerGivenStep DEF OutcomeInv
<1>4. OutcomeInv /\ OwnerInv /\ OwnerGiven /\ [Next]_vars => Ledger!Next
  BY <1>2, <1>3, StepLedger, LedgerStep DEF OutcomeInv, OwnerInv
<1>5. OutcomeInv /\ OwnerInv /\ OwnerGiven /\ [Next]_vars => [Ledger!Next]_run
  BY <1>4
<1>6. Init => OutcomeInv /\ OwnerInv /\ OwnerGiven
  BY <1>1, OutcomeInit, OwnerInit
<1> QED
  BY <1>1, <1>2, <1>3, <1>5, <1>6, PTL DEF Spec, ImplementsLedger, Ledger!Spec

------------------------------------------------------------------------------
(* No queued run waits behind nothing, and an orderly shutdown leaves none.  What minds a queue is
   an open worker that nobody stops, at rest or at the start of a run: it has a run ahead of the
   queue, or its process is dead and the exit accounting will cancel the queue, or, once the daemon
   closes, shutdown will.                                                                        *)

Waits(a) == Queued(run, a) # {}
Minded(a) ==
  /\ HasWorker(a) /\ ~ W(a).stopping /\ op[a].pc \in {"free", "prompt"}
  /\ \/ closing \/ Exited(a, workers[a])
     \/ W(a).run # NoRun /\ (op[a].pc = "prompt" => op[a].kind = "settle")
\* A worker that is stopped with its run still open is stopped by the holder of its lock.
Halted(a) == workers[a] # 0 /\ W(a).stopping /\ W(a).run # NoRun => op[a].pc \in {"stop", "abort"}
QueueMinded == up => \A a \in Agents : (Waits(a) => Minded(a)) /\ Halted(a)

\* What the proof starts from, and what every step does for one agent.
QueueNow == OwnerNow /\ up /\ QueueMinded
Serves(b) == (Waits(b)' => Minded(b)') /\ Halted(b)'

\* Nothing that minds the queue of agent b changes, or a step of a changes only what is a's.
Rests(b) ==
  /\ op'[b].pc = op[b].pc /\ op'[b].kind = op[b].kind /\ workers'[b] = workers[b]
  /\ \A h \in Gens : /\ worker'[b][h].run = worker[b][h].run /\ worker'[b][h].closed = worker[b][h].closed
                     /\ worker'[b][h].stopping = worker[b][h].stopping
                     /\ Exited(b, h) => Exited(b, h)'
Apart(b) == op'[b] = op[b] /\ workers'[b] = workers[b] /\ worker'[b] = worker[b] /\ proc'[b] = proc[b]
Only(a) == \A b \in Agents \ {a} : Apart(b)

LEMMA ApartRests ==
  ASSUME NEW b, Apart(b)
  PROVE  Rests(b)
BY DEF Apart, Rests, Exited

LEMMA MindedRests ==
  ASSUME TypeOK, closing => closing', NEW b \in Agents, Rests(b), Minded(b)
  PROVE  Minded(b)'
<1>1. workers[b] \in Gens /\ workers'[b] = workers[b] /\ W(b) = worker[b][workers[b]] /\ ~ W(b).closed
  BY DEF Minded, HasWorker, W, TypeOK, Gens, Rests
<1>2. W(b)' = worker'[b][workers[b]]
  BY <1>1 DEF W
<1>3. /\ W(b)'.run = W(b).run /\ W(b)'.closed = W(b).closed /\ W(b)'.stopping = W(b).stopping
      /\ Exited(b, workers[b]) => Exited(b, workers[b])'
  BY <1>1, <1>2 DEF Rests
<1>4. HasWorker(b)'
  BY <1>1, <1>3 DEF HasWorker, Gens
<1> HIDE DEF HasWorker, Exited, W
<1> QED
  BY <1>1, <1>3, <1>4 DEF Minded, Rests

LEMMA HaltedRests ==
  ASSUME TypeOK, NEW b \in Agents, Rests(b), Halted(b)
  PROVE  Halted(b)'
<1>1. workers[b] # 0 => workers[b] \in Gens
  BY DEF TypeOK, Gens
<1> QED
  BY <1>1 DEF Halted, Rests, W

LEMMA HaltedStays ==
  ASSUME NEW b \in Agents, Halted(b), worker'[b] = worker[b], workers'[b] = workers[b],
         op[b].pc \notin {"stop", "abort"} \/ op'[b].pc \in {"stop", "abort"}
  PROVE  Halted(b)'
BY DEF Halted, W

LEMMA HaltedSet ==
  ASSUME TypeOK, NEW b \in Agents, workers[b] \in Gens, UNCHANGED workers, NEW v, SetWorker(b, v),
         v.run = NoRun \/ ~ v.stopping
  PROVE  Halted(b)'
<1>1. worker'[b][workers[b]] = v
  BY DEF SetWorker, TypeOK
<1> QED
  BY <1>1 DEF Halted, W

LEMMA WaitedBefore ==
  ASSUME Thins(run'), NEW b, Waits(b)'
  PROVE  Waits(b)
BY DEF Thins, Waits, Queued

LEMMA RestServed ==
  ASSUME QueueNow, Thins(run'), closing => closing', NEW b \in Agents, Rests(b)
  PROVE  Serves(b)
BY WaitedBefore, MindedRests, HaltedRests DEF QueueNow, QueueMinded, OwnerNow, Serves

\* Who boots, stops or has no worker has no queue.
LEMMA IdleServed ==
  ASSUME QueueNow, Thins(run'), NEW b \in Agents, ~ HasWorker(b) \/ op[b].pc \notin {"free", "prompt"},
         Halted(b)'
  PROVE  Serves(b)
BY WaitedBefore DEF QueueNow, QueueMinded, Serves, Minded

\* A queue that is cancelled is empty, whatever else ends.
LEMMA CancelServed ==
  ASSUME NEW b, NEW rs \in [Runs -> RunType], NEW S, NEW s \in Terminal,
         run' \in {CancelQueued(rs, b), Finish(CancelQueued(rs, b), S, s)}, Halted(b)'
  PROVE  Serves(b)
<1> DEFINE cs == CancelQueued(rs, b)
<1>1. ASSUME NEW r \in Runs, cs[r].state = "queued"
      PROVE  cs[r].owner # b
  BY <1>1 DEF CancelQueued, Queued, Finish, RunType
<1>2. cs \in [Runs -> RunType]
  BY CancelQueuedType
<1> HIDE DEF cs
<1>3. ASSUME NEW r \in Runs, Finish(cs, S, s)[r].state = "queued"
      PROVE  Finish(cs, S, s)[r].owner # b
  <2>1. Finish(cs, S, s)[r] = cs[r]
    BY <1>2, <1>3 DEF Finish, RunType, Terminal
  <2> QED
    BY <1>1, <1>3, <2>1
<1>4. run' = cs \/ run' = Finish(cs, S, s)
  BY DEF cs
<1> QED
  BY <1>1, <1>3, <1>4 DEF Serves, Waits, Queued

LEMMA OthersServed ==
  ASSUME QueueNow, Thins(run'), closing => closing', NEW a \in Agents, Only(a), Serves(a)
  PROVE  \A b \in Agents : Serves(b)
BY ApartRests, RestServed DEF Only

\* A run that starts behind the settlement of the last one, or on a process that is dead, minds the queue.
LEMMA StartMinds ==
  ASSUME TypeOK, NEW a \in Agents, workers[a] \in Gens, UNCHANGED workers, NEW r \in Runs, NEW ag, NEW rs, NEW w,
         NEW k, StartRun(a, r, ag, rs, w, k)
  PROVE  Halted(a)' /\ (k = "settle" \/ Exited(a, workers[a]) \/ closing' => Minded(a)')
<1> DEFINE g == workers[a]
           v == [NewWorker EXCEPT !.run = r, !.tainted = w.tainted, !.life = w.life]
           p == Written(proc[a][g], [cmd |-> "prompt", id |-> r, dialog |-> None, live |-> TRUE])
           o == [Free EXCEPT !.kind = k, !.pc = "prompt", !.ans = IF Exited(a, workers[a]) THEN "gone" ELSE "none"]
<1>1. v.run = r /\ v.closed = FALSE /\ v.stopping = FALSE /\ o.kind = k /\ o.pc = "prompt" /\ r # NoRun
  BY BoundsAssumption DEF NewWorker, NoWorker, Free, Runs, NoRun
<1>2. p.st = proc[a][g].st
  BY Values DEF Written, ProcType
<1>3. SetWorker(a, v) /\ SetOp(a, o) /\ SetProc(a, g, p)
  BY DEF StartRun
<1> HIDE DEF g, v, p, o
<1>4. worker'[a][g] = v /\ op'[a] = o /\ proc'[a][g] = p
  BY <1>3 DEF SetWorker, SetOp, SetProc, TypeOK, g
<1>5. workers'[a] = g /\ g \in Gens
  BY DEF g
<1>6. W(a)' = v
  BY <1>4, <1>5 DEF W
<1>9. Halted(a)'
  BY <1>1, <1>6 DEF Halted
<1>7. HasWorker(a)'
  BY <1>1, <1>5, <1>6 DEF HasWorker, Gens
<1>8. Exited(a, workers[a]) => Exited(a, workers[a])'
  BY <1>2, <1>4 DEF Exited, g
<1> HIDE DEF HasWorker, Exited, W
<1> QED
  BY <1>1, <1>4, <1>5, <1>6, <1>7, <1>8, <1>9 DEF Minded, g

\* advance_queue goes on with the queue, unless the process is dead.
LEMMA AdvanceServes ==
  ASSUME QueueNow, Thins(run'), closing => closing', NEW a \in Agents, workers[a] \in Gens, UNCHANGED workers, NEW ag,
         NEW rs \in [Runs -> RunType], NEW w, w.closed = W(a).closed, w.stopping = FALSE, AdvanceQueue(a, ag, rs, w)
  PROVE  Serves(a)
<1> DEFINE n == NextQueued(rs, a)
<1>1. Waits(a)' => Minded(a)
  BY WaitedBefore DEF QueueNow, QueueMinded
<1>2. CASE ~ closing /\ Queued(rs, a) # {} /\ ~ Exited(a, workers[a])
  <2>1. n \in Runs
    BY <1>2, OldestExists DEF NextQueued, Queued
  <2>2. StartRun(a, n, ag, rs, w, "settle")
    BY <1>2 DEF AdvanceQueue, QueueNow
  <2> HIDE DEF n
  <2> QED
    BY <2>1, <2>2, StartMinds DEF QueueNow, OwnerNow, Serves
<1>3. CASE Queued(rs, a) = {} /\ ~ Exited(a, workers[a])
  <2>1. run' = rs /\ SetWorker(a, w)
    BY <1>3 DEF AdvanceQueue
  <2>2. Halted(a)'
    BY <2>1, HaltedSet DEF QueueNow, OwnerNow
  <2> QED
    BY <1>3, <2>1, <2>2 DEF Serves, Waits, Queued
<1>4. CASE closing \/ Exited(a, workers[a])
  <2>1. SetWorker(a, w) /\ SetOp(a, Free) /\ UNCHANGED proc
    BY <1>4 DEF AdvanceQueue
  <2>2. worker'[a][workers[a]] = w /\ op'[a] = Free
    BY <2>1 DEF SetWorker, SetOp, QueueNow, OwnerNow, TypeOK
  <2>3. Waits(a)' => HasWorker(a)'
    BY <1>1, <2>2 DEF Minded, HasWorker, W
  <2>4. Halted(a)'
    BY <2>1, HaltedSet DEF QueueNow, OwnerNow
  <2> QED
    BY <1>4, <2>1, <2>2, <2>3, <2>4 DEF Serves, Minded, Exited, Free, W
<1> QED
  BY <1>2, <1>3, <1>4

LEMMA InterruptServes ==
  ASSUME TypeOK, NEW a \in Agents, NEW o, BeginInterrupt(a, o), op'[a].pc = "stop"
  PROVE  Serves(a)
<1>1. run' = CancelQueued(run, a) /\ run \in [Runs -> RunType]
  BY DEF BeginInterrupt, TypeOK
<1> QED
  BY <1>1, CancelServed DEF Terminal, Halted

------------------------------------------------------------------------------
(* Every action. *)

LEMMA BootServes ==
  ASSUME QueueNow, Thins(run'), UNCHANGED closing, NEW a \in Agents, Boot(a)
  PROVE  \A b \in Agents : Serves(b)
<1>1. ~ HasWorker(a) \/ op[a].pc \notin {"free", "prompt"}
  <2>1. CASE Spawn(a)
    BY <2>1 DEF Spawn, HasWorker, QueueNow, OwnerNow, OwnerInv, AgentOwns, AbsentOwnsNothing
  <2>2. CASE ~ Spawn(a)
    BY <2>2 DEF Boot, Admit, LockVictim, SkipVictim, BootRefused, AdmitWriter, BeforeSpawn, Fork, ForkFails,
                Register, ReadyOk, ReadyFails, EvictionRefused, SpawnInsert, PickVictim
  <2> QED
    BY <2>1, <2>2
<1>3. TypeOK /\ Halted(a)
  BY DEF QueueNow, OwnerNow, QueueMinded
<1>4. CASE LockVictim(a)
  <2> DEFINE v == op[a].victim
             o == [op EXCEPT ![a].pc = "victim", ![v].kind = "evict"]
  <2>1. BeginInterrupt(v, o) /\ UNCHANGED <<workers, proc>> /\ op[a].pc = "lock"
    BY <1>4 DEF LockVictim
  <2>2. v \in Agents
    BY <2>1 DEF QueueNow, OwnerNow, Located, LocatedAt
  <2> HIDE DEF v
  <2>3. (\A b \in Agents \ {a, v} : o[b] = op[b]) /\ op' = [o EXCEPT ![v].pc = "stop"]
    BY <1>3, <2>1 DEF TypeOK, BeginInterrupt
  <2>6. op'[v].pc = "stop" /\ v # a
    BY <1>3, <1>4, <2>2, <2>3 DEF TypeOK, OpType, LockVictim, v
  <2>7. worker'[a] = worker[a] /\ workers'[a] = workers[a]
    BY <1>3, <2>1, <2>6 DEF BeginInterrupt, SetWorker, TypeOK
  <2>8. Serves(a)
    BY <1>1, <1>3, <2>1, <2>7, HaltedStays, IdleServed
  <2> HIDE DEF o
  <2>4. \A b \in Agents \ {a, v} : Apart(b)
    BY <1>3, <2>1, <2>3 DEF BeginInterrupt, SetWorker, TypeOK, Apart
  <2>5. Serves(v)
    BY <1>3, <2>1, <2>2, <2>6, InterruptServes
  <2> QED
    BY <2>4, <2>5, <2>8, ApartRests, RestServed
<1>5. CASE Spawn(a) \/ Admit(a) \/ SkipVictim(a) \/ BootRefused(a) \/ AdmitWriter(a) \/ BeforeSpawn(a)
           \/ ForkFails(a) \/ ReadyFails(a) \/ EvictionRefused(a) \/ Fork(a) \/ Register(a)
           \/ (\E r \in Runs : SpawnInsert(a, r)) \/ (\E b \in Agents : PickVictim(a, b))
  <2>1. Only(a)
    BY <1>3, <1>5 DEF Spawn, Admit, SkipVictim, BootRefused, AdmitWriter, BeforeSpawn, ForkFails, ReadyFails,
       EvictionRefused, Fork, Register, SpawnInsert, PickVictim, AbortBoot, SetOp, SetWorker, SetProc, memory,
       TypeOK, Only, Apart
  <2>2. Halted(a)'
    <3>1. CASE Register(a)
      <4>1. worker'[a][workers'[a]] = NewWorker
        BY <1>3, <3>1 DEF Register, QueueNow, OwnerNow, Located, LocatedAt, TypeOK
      <4> QED
        BY <4>1 DEF Halted, W, NewWorker, NoWorker
    <3>2. CASE ReadyFails(a)
      <4>1. \A h \in Gens : worker[a][h].run = NoRun
        BY <3>2, NoneProjected DEF ReadyFails, Booting, QueueNow
      <4>2. workers[a] \in Gens /\ W(a).run = NoRun /\ W(a) \in WorkerType
        BY <3>2, <4>1, Values DEF ReadyFails, QueueNow, OwnerNow, Located, LocatedAt, W
      <4>3. [W(a) EXCEPT !.stopping = TRUE].run = NoRun
        BY <4>2 DEF WorkerType
      <4> QED
        BY <1>3, <3>2, <4>2, <4>3, HaltedSet DEF ReadyFails
    <3>3. CASE ~ Register(a) /\ ~ ReadyFails(a)
      <4>1. worker' = worker /\ workers' = workers /\ op[a].pc \notin {"stop", "abort"}
        BY <1>5, <3>3 DEF Spawn, LockFree, Admit, SkipVictim, BootRefused, AdmitWriter, BeforeSpawn, ForkFails,
           EvictionRefused, Fork, SpawnInsert, PickVictim, memory
      <4> QED
        BY <1>3, <4>1, HaltedStays
    <3> QED
      BY <3>1, <3>2, <3>3
  <2>3. Serves(a)
    BY <1>1, <2>2, IdleServed
  <2> QED
    BY <2>1, <2>3, OthersServed
<1>6. CASE ReadyOk(a)
  <2>1. /\ UNCHANGED workers
        /\ UNCHANGED <<worker, proc>> \/ \E w, p : SetWorker(a, w) /\ SetProc(a, workers[a], p)
        /\ \E o : SetOp(a, o)
    BY <1>6 DEF ReadyOk, StartRun
  <2>2. Only(a)
    BY <1>3, <2>1 DEF SetOp, SetWorker, SetProc, TypeOK, Only, Apart
  <2>3. workers[a] \in Gens /\ op[a].pc = "ready"
    BY <1>6 DEF ReadyOk, QueueNow, OwnerNow, Located, LocatedAt
  <2>4. \/ UNCHANGED worker
        \/ \E r \in Runs : \E ag, rs, w, k : StartRun(a, r, ag, rs, w, k)
    <3>1. Unused # {} => Oldest(Unused) \in Runs
      BY OldestExists DEF Unused
    <3> QED
      BY <1>6, <3>1 DEF ReadyOk
  <2>5. Halted(a)'
    BY <1>3, <2>1, <2>3, <2>4, HaltedStays, StartMinds
  <2>6. Serves(a)
    BY <1>1, <2>5, IdleServed
  <2> QED
    BY <2>2, <2>6, OthersServed
<1> QED
  BY <1>4, <1>5, <1>6 DEF Boot

LEMMA StopServes ==
  ASSUME QueueNow, Thins(run'), UNCHANGED closing, NEW a \in Agents, Stop(a)
  PROVE  \A b \in Agents : Serves(b)
<1>1. PICK o : StopDone(a, o) \/ UnbootDone(a, o)
  BY DEF Stop
<1>2. op[a].pc \in {"stop", "unboot"} /\ TypeOK
  BY <1>1 DEF StopDone, UnbootDone, QueueNow, OwnerNow
<1>7. workers[a] \in Gens /\ W(a) = worker[a][workers[a]] /\ W(a) \in WorkerType /\ ~ W(a).tainted
  BY <1>1, <1>2, Values DEF QueueNow, OwnerNow, OwnerInv, Managed, Located, LocatedAt, W
<1>6. Halted(a)'
  <2>1. CASE StopDone(a, o)
    <3> DEFINE own == EndsWith(a, op[a].kind)
               v == [(IF own = {} THEN W(a) ELSE Settled(W(a)))
                       EXCEPT !.closed = W(a).closed \/ o.attempted, !.stopping = TRUE]
    <3>1. own # {} \/ W(a).run = NoRun
      BY <1>7, <2>1 DEF StopDone, EndsWith, QueueNow, OwnerNow, OwnerInv, AgentOwns, HolderFits
    <3>2. v.run = NoRun
      BY <1>7, <3>1 DEF Settled, WorkerType
    <3>3. SetWorker(a, v) /\ UNCHANGED workers
      BY <2>1 DEF StopDone
    <3> HIDE DEF v
    <3> QED
      BY <1>2, <1>7, <3>2, <3>3, HaltedSet
  <2>2. CASE UnbootDone(a, o)
    <3> DEFINE v == [W(a) EXCEPT !.closed = W(a).closed \/ o.attempted]
    <3>1. v.run = NoRun
      BY <1>7, <2>2, NoneProjected DEF UnbootDone, Booting, QueueNow, WorkerType
    <3>2. SetWorker(a, v) /\ UNCHANGED workers
      BY <2>2 DEF UnbootDone
    <3> HIDE DEF v
    <3> QED
      BY <1>2, <1>7, <3>1, <3>2, HaltedSet
  <2> QED
    BY <1>1, <2>1, <2>2
<1>3. Serves(a)
  BY <1>2, <1>6, IdleServed
<1>4. /\ UNCHANGED workers /\ \A b \in Agents \ {a} : op'[b] = op[b] \/ op[b].pc = "victim"
      /\ \E w, p : SetWorker(a, w) /\ SetProc(a, workers[a], p)
  <2>1. CASE StopDone(a, o)
    BY <2>1 DEF StopDone
  <2>2. CASE UnbootDone(a, o)
    BY <1>2, <2>2 DEF UnbootDone, SetOp, TypeOK
  <2> QED
    BY <1>1, <2>1, <2>2
<1>5. \A b \in Agents \ {a} : Apart(b) \/ op[b].pc = "victim"
  BY <1>2, <1>4 DEF SetWorker, SetProc, TypeOK, Apart
<1>8. ASSUME NEW b \in Agents \ {a}, op[b].pc = "victim"
      PROVE  Serves(b)
  <2>1. worker'[b] = worker[b] /\ workers'[b] = workers[b] /\ Halted(b)
    BY <1>2, <1>4 DEF SetWorker, TypeOK, QueueNow, QueueMinded
  <2> QED
    BY <1>8, <2>1, HaltedStays, IdleServed
<1> QED
  BY <1>3, <1>5, <1>8, ApartRests, RestServed

LEMMA MutateServes ==
  ASSUME QueueNow, Thins(run'), UNCHANGED closing, NEW a \in Agents, Mutate(a), \A r \in Runs : ~ SendQueued(a, r)
  PROVE  \A b \in Agents : Serves(b)
<1>0. TypeOK /\ Halted(a)
  BY DEF QueueNow, OwnerNow, QueueMinded
<1>1. ASSUME NEW name, Interrupt(a, name)
      PROVE  Serves(a) /\ Only(a)
  <2>1. BeginInterrupt(a, [op EXCEPT ![a].kind = name]) /\ UNCHANGED <<workers, proc>>
    BY <1>1 DEF Interrupt
  <2>2. Serves(a)
    <3>1. op'[a].pc = "stop"
      BY <1>0, <2>1 DEF BeginInterrupt, TypeOK, OpType
    <3> QED
      BY <1>0, <2>1, <3>1, InterruptServes
  <2>3. Only(a)
    BY <1>0, <2>1 DEF BeginInterrupt, SetWorker, TypeOK, Only, Apart
  <2> QED
    BY <2>2, <2>3
<1>2. ASSUME \/ \E name \in Requests : Respawn(a, name)
             \/ \E v \in {"gone", "live"} : CloseOrphan(a, v)
             \/ \E proved \in BOOLEAN : ReapDone(a, proved)
             \/ ConfirmCleanup(a) \/ SendWake(a)
      PROVE  Serves(a) /\ Only(a)
  <2>1. ~ HasWorker(a) \/ op[a].pc \notin {"free", "prompt"}
    BY <1>2 DEF Respawn, CloseOrphan, ReapDone, ConfirmCleanup, SendWake
  <2>2. Only(a)
    BY <1>0, <1>2 DEF Respawn, CloseOrphan, ReapDone, ConfirmCleanup, SendWake, SetOp, SetProc, TypeOK, Only, Apart
  <2>3. UNCHANGED <<worker, workers>> /\ op[a].pc \notin {"stop", "abort"}
    BY <1>2 DEF Respawn, CloseOrphan, ReapDone, ConfirmCleanup, SendWake, Request, LockFree
  <2> QED
    BY <1>0, <2>1, <2>2, <2>3, HaltedStays, IdleServed
<1>3. CASE SoftInterrupt(a)
  <2>1. Serves(a)
    <3>1. op'[a].pc = "abort"
      BY <1>0, <1>3 DEF SoftInterrupt, SetOp, Free, TypeOK
    <3> QED
      BY <1>0, <1>3, <3>1, CancelServed DEF SoftInterrupt, TypeOK, Terminal, Halted
  <2>2. UNCHANGED workers /\ \E w, p, o : SetWorker(a, w) /\ SetProc(a, workers[a], p) /\ SetOp(a, o)
    BY <1>3 DEF SoftInterrupt
  <2>3. Only(a)
    BY <1>0, <2>2 DEF SetWorker, SetProc, SetOp, TypeOK, Only, Apart
  <2> QED
    BY <2>1, <2>3, OthersServed
<1>4. ASSUME NEW r \in Runs, SendIdle(a, r)
      PROVE  Serves(a) /\ Only(a)
  <2>1. /\ op[a].pc = "free" /\ HasWorker(a) /\ W(a).run = NoRun /\ UNCHANGED workers
        /\ StartRun(a, r, agent[a], AddRun(a, r, "queued"), W(a), "send")
    BY <1>4 DEF SendIdle, Request, LockFree, Reachable, Occupied
  <2>2. workers[a] \in Gens
    BY <2>1, OpenWorker DEF QueueNow
  <2>3. Waits(a) => Exited(a, workers[a]) \/ closing
    BY <2>1 DEF QueueNow, QueueMinded, Minded
  <2>4. Serves(a)
    BY <1>0, <2>1, <2>2, <2>3, WaitedBefore, StartMinds DEF Serves
  <2>5. \E w, p, o : SetWorker(a, w) /\ SetProc(a, workers[a], p) /\ SetOp(a, o)
    BY <2>1 DEF StartRun
  <2>6. Only(a)
    BY <1>0, <2>1, <2>5 DEF SetWorker, SetProc, SetOp, TypeOK, Only, Apart
  <2> QED
    BY <2>4, <2>6
<1>5. ASSUME NEW d \in Dialogs, Answer(a, d)
      PROVE  Serves(a) /\ Only(a)
  <2> DEFINE g == workers[a]
             p == Written(proc[a][g], [cmd |-> "answer", id |-> NoRun, dialog |-> d, live |-> FALSE])
             v == [W(a) EXCEPT !.ui = W(a).ui \ {d}, !.silent = FALSE]
  <2>1. HasWorker(a) /\ SetProc(a, g, p) /\ SetWorker(a, v) /\ UNCHANGED <<op, workers>>
    BY <1>5 DEF Answer, Reachable
  <2>2. g \in Gens /\ W(a) = worker[a][g] /\ W(a) \in WorkerType
    BY <2>1, OpenWorker DEF QueueNow
  <2>3. v.run = W(a).run /\ v.closed = W(a).closed /\ v.stopping = W(a).stopping
    BY <2>2 DEF WorkerType
  <2>4. p.st = proc[a][g].st
    BY <1>0, <2>2, Values DEF Written, ProcType
  <2> HIDE DEF g, p, v
  <2>5. /\ proc'[a][g] = p /\ worker'[a][g] = v
        /\ \A h \in Gens \ {g} : proc'[a][h] = proc[a][h] /\ worker'[a][h] = worker[a][h]
    BY <1>0, <2>1, <2>2 DEF SetProc, SetWorker, TypeOK, g
  <2>6. Rests(a)
    BY <2>1, <2>2, <2>3, <2>4, <2>5 DEF Rests, Exited
  <2>7. Only(a)
    BY <1>0, <2>1 DEF SetWorker, SetProc, TypeOK, Only, Apart
  <2> QED
    BY <2>6, <2>7, RestServed
<1> QED
  BY <1>1, <1>2, <1>3, <1>4, <1>5, OthersServed DEF Mutate

LEMMA AwaitServes ==
  ASSUME QueueNow, Thins(run'), UNCHANGED closing, NEW a \in Agents, Await(a)
  PROVE  \A b \in Agents : Serves(b)
<1>0. TypeOK /\ op[a].pc \in {"prompt", "abort"} /\ Halted(a)
  BY DEF Await, PromptOk, PromptRejected, PromptUncertain, AbortConfirmed, AbortForced, QueueNow, OwnerNow, QueueMinded
<1>1. workers[a] \in Gens /\ W(a) = worker[a][workers[a]] /\ W(a) \in WorkerType /\ proc[a][workers[a]] \in ProcType
  BY <1>0, Values DEF QueueNow, OwnerNow, Located, LocatedAt, W
<1>2. CASE PromptOk(a) \/ PromptUncertain(a)
  <2>1. op[a].pc = "prompt" /\ SetOp(a, Free) /\ UNCHANGED <<workers, worker>>
    BY <1>2 DEF PromptOk, PromptUncertain
  <2>2. proc' = proc \/ SetProc(a, workers[a], Abandoned(proc[a][workers[a]]))
    BY <1>2 DEF PromptOk, PromptUncertain
  <2>3. Only(a)
    BY <1>0, <2>1, <2>2 DEF SetOp, SetProc, TypeOK, Only, Apart
  <2>4. Exited(a, workers[a]) => Exited(a, workers[a])'
    <3>1. Abandoned(proc[a][workers[a]]).st = proc[a][workers[a]].st
      BY <1>1 DEF Abandoned, ProcType
    <3> HIDE DEF Abandoned
    <3>2. proc'[a][workers[a]].st = proc[a][workers[a]].st
      BY <1>0, <1>1, <2>2, <3>1 DEF SetProc, TypeOK
    <3> QED
      BY <2>1, <3>2 DEF Exited
  <2>5. op'[a].pc = "free" /\ W(a)' = W(a) /\ (HasWorker(a) => HasWorker(a)')
    BY <1>0, <2>1 DEF SetOp, TypeOK, Free, W, HasWorker
  <2>6. Serves(a)
    <3>1. Halted(a)'
      BY <1>0, <2>1, HaltedStays
    <3> HIDE DEF HasWorker, Exited, W, Halted
    <3> QED
      BY <2>1, <2>4, <2>5, <3>1, WaitedBefore DEF Serves, Minded, QueueNow, QueueMinded
  <2> QED
    BY <2>3, <2>6, OthersServed
<1>3. CASE PromptRejected(a)
  <2> DEFINE rs == Finish(run, {W(a).run}, "failed")
             v == IdleWorker(W(a))
             ag == IdleAgent(agent[a])
  <2>1. v.closed = W(a).closed /\ v.stopping = FALSE
    BY <1>1 DEF IdleWorker, Settled, WorkerType
  <2>2. rs \in [Runs -> RunType]
    BY <1>0, FinishType DEF TypeOK, RunStates, Terminal
  <2>3. /\ op[a].pc = "prompt" /\ UNCHANGED workers
        /\ \/ op[a].kind = "settle" /\ AdvanceQueue(a, ag, rs, v)
           \/ op[a].kind # "settle" /\ SetWorker(a, v) /\ SetOp(a, Free) /\ UNCHANGED proc
    BY <1>3 DEF PromptRejected
  <2> HIDE DEF rs, v, ag
  <2>4. Only(a)
    <3>1. /\ \E w, o : SetWorker(a, w) /\ SetOp(a, o)
          /\ proc' = proc \/ \E p : SetProc(a, workers[a], p)
      BY <2>3 DEF AdvanceQueue, StartRun
    <3> QED
      BY <1>0, <2>3, <3>1 DEF SetWorker, SetOp, SetProc, TypeOK, Only, Apart
  <2>5. CASE op[a].kind = "settle"
    <3>1. Serves(a)
      BY <1>1, <2>1, <2>2, <2>3, <2>5, AdvanceServes
    <3> QED
      BY <2>4, <3>1, OthersServed
  <2>6. CASE op[a].kind # "settle"
    <3>1. Waits(a) => HasWorker(a) /\ (closing \/ Exited(a, workers[a]))
      BY <2>3, <2>6 DEF QueueNow, QueueMinded, Minded
    <3>2. worker'[a][workers[a]] = v /\ op'[a] = Free
      BY <1>0, <1>1, <2>3, <2>6 DEF SetWorker, SetOp, TypeOK
    <3>3. (HasWorker(a) => HasWorker(a)') /\ W(a)'.stopping = FALSE
      BY <2>1, <2>3, <3>2 DEF HasWorker, W
    <3>4. Exited(a, workers[a]) => Exited(a, workers[a])'
      BY <2>3, <2>6 DEF Exited
    <3>6. Halted(a)'
      BY <1>0, <1>1, <2>1, <2>3, <2>6, HaltedSet
    <3> HIDE DEF HasWorker, Exited, W, Halted
    <3>5. Serves(a)
      BY <2>3, <3>1, <3>2, <3>3, <3>4, <3>6, WaitedBefore DEF Serves, Minded, Free
    <3> QED
      BY <2>4, <3>5, OthersServed
  <2> QED
    BY <2>5, <2>6
<1>4. CASE AbortConfirmed(a) \/ AbortForced(a)
  <2>1. op[a].pc = "abort" /\ UNCHANGED workers /\ \E w : SetWorker(a, w)
    BY <1>4 DEF AbortConfirmed, AbortForced, BeginInterrupt
  <2>2. proc' = proc \/ \E p : SetProc(a, workers[a], p)
    BY <1>4 DEF AbortConfirmed, AbortForced
  <2>3. \A b \in Agents \ {a} : op'[b] = op[b]
    BY <1>0, <1>4 DEF AbortConfirmed, AbortForced, BeginInterrupt, SetOp, TypeOK
  <2>4. Only(a)
    BY <1>0, <2>1, <2>2, <2>3 DEF SetWorker, SetProc, TypeOK, Only, Apart
  <2>5. Halted(a)'
    <3>1. CASE AbortConfirmed(a)
      <4>1. IdleWorker(W(a)).run = NoRun
        BY <1>1 DEF IdleWorker, Settled, WorkerType
      <4> QED
        BY <1>0, <1>1, <3>1, <4>1, HaltedSet DEF AbortConfirmed
    <3>2. CASE AbortForced(a)
      <4>1. op'[a].pc = "stop"
        BY <1>0, <3>2 DEF AbortForced, BeginInterrupt, TypeOK, OpType
      <4> QED
        BY <4>1 DEF Halted
    <3> QED
      BY <1>4, <3>1, <3>2
  <2> QED
    BY <2>1, <2>4, <2>5, IdleServed, OthersServed
<1> QED
  BY <1>2, <1>3, <1>4 DEF Await

\* The exit accounting of the last generation cancels the queue, and that of an earlier one leaves it alone.
LEMMA ExitServes ==
  ASSUME QueueNow, Thins(run'), UNCHANGED closing, NEW a \in Agents, NEW g \in Gens, NEW proved, WorkerExited(a, g, proved)
  PROVE  Serves(a)
<1> DEFINE w == worker[a][g]
           s == IF w.stopping THEN "interrupted" ELSE "crashed"
           rs == Finish(run, {w.run}, s)
<1>3. Halted(a)'
  <2>1. /\ workers' = IF workers[a] = g THEN [workers EXCEPT ![a] = 0] ELSE workers
        /\ worker' = [worker EXCEPT ![a][g] = [NoWorker EXCEPT !.life = "done"]] /\ UNCHANGED op
    BY DEF WorkerExited
  <2>2. CASE workers[a] = g
    BY <2>1, <2>2 DEF Halted, QueueNow, OwnerNow, TypeOK
  <2>3. CASE workers[a] # g
    <3>1. workers'[a] = workers[a] /\ (workers[a] # 0 => worker'[a][workers[a]] = worker[a][workers[a]])
      BY <2>1, <2>3 DEF QueueNow, OwnerNow, TypeOK, Gens
    <3> QED
      BY <2>1, <3>1 DEF Halted, W, QueueNow, QueueMinded
  <2> QED
    BY <2>2, <2>3
<1>1. CASE agent[a].gen = g
  <2>1. run' = CancelQueued(rs, a)
    BY <1>1 DEF WorkerExited
  <2>2. s \in Terminal /\ Terminal \subseteq RunStates
    BY DEF Terminal, RunStates
  <2> HIDE DEF s, w
  <2>3. rs \in [Runs -> RunType]
    BY <2>2, FinishType DEF QueueNow, OwnerNow, TypeOK
  <2> HIDE DEF rs
  <2> QED
    BY <1>3, <2>1, <2>3, CancelServed DEF Terminal
<1>2. CASE agent[a].gen # g
  <2> SUFFICES ASSUME Waits(a)'
               PROVE  Minded(a)'
    BY <1>3 DEF Serves
  <2>1. Minded(a) /\ HasWorker(a)
    BY WaitedBefore DEF QueueNow, QueueMinded, Minded
  <2>2. workers[a] \in Gens /\ workers[a] = agent[a].gen
    BY <2>1, OpenWorker DEF QueueNow
  <2>3. /\ UNCHANGED <<op, proc>> /\ workers'[a] = workers[a]
        /\ worker'[a][workers[a]] = worker[a][workers[a]]
    BY <1>2, <2>2 DEF WorkerExited, QueueNow, OwnerNow, TypeOK
  <2> QED
    BY <2>1, <2>2, <2>3 DEF Minded, HasWorker, W, Exited
<1> QED
  BY <1>1, <1>2

LEMMA BackgroundServes ==
  ASSUME QueueNow, Thins(run'), UNCHANGED closing, NEW a \in Agents, Background(a)
  PROVE  \A b \in Agents : Serves(b)
<1>0. TypeOK /\ run \in [Runs -> RunType] /\ "failed" \in Terminal
  BY DEF QueueNow, OwnerNow, TypeOK, Terminal
<1>1. ASSUME NEW g \in Gens, StopUnowned(a, g)
      PROVE  FALSE
  BY <1>1 DEF StopUnowned, Task, QueueNow, OwnerNow, OwnerInv, Managed
<1>2. ASSUME NEW g \in Gens, FailWorker(a, g)
      PROVE  Serves(a) /\ Only(a)
  <2>1. Only(a)
    <3>1. \/ UNCHANGED <<worker, workers, op, proc>>
          \/ UNCHANGED <<workers, proc>> /\ \E w, o : SetWorker(a, w) /\ SetOp(a, o)
      BY <1>2 DEF FailWorker
    <3> QED
      BY <1>0, <3>1 DEF SetWorker, SetOp, TypeOK, Only, Apart
  <2>2. \/ run' = Finish(CancelQueued(run, a), {W(a).run}, "failed") /\ op'[a].pc = "stop"
        \/ UNCHANGED <<worker, workers, op, proc>>
    BY ZenonT(40), <1>0, <1>2 DEF FailWorker, SetOp, Free, TypeOK
  <2>3. UNCHANGED <<worker, workers, op, proc>> => Rests(a)
    BY DEF Rests, Exited
  <2> QED
    BY <1>0, <2>1, <2>2, <2>3, CancelServed, RestServed DEF Halted
<1>3. ASSUME NEW g \in Gens, NEW proved \in BOOLEAN, WorkerExited(a, g, proved)
      PROVE  Serves(a) /\ Only(a)
  <2>1. Only(a)
    BY <1>0, <1>3 DEF WorkerExited, TypeOK, Only, Apart
  <2> QED
    BY <1>3, <2>1, ExitServes
<1>4. ASSUME NEW g \in Gens, NEW r \in Runs, Settle(a, g, r)
      PROVE  Serves(a) /\ Only(a)
  <2>1. CASE SettleValid(a, g, r)
    <3> DEFINE s == Outcome(W(a))
               rs == Finish(run, {r}, s)
               v == IdleWorker(W(a))
               ag == IdleAgent(agent[a])
    <3>1. workers[a] \in Gens /\ UNCHANGED workers /\ AdvanceQueue(a, ag, rs, v)
      BY <1>4, <2>1 DEF Settle, SettleValid
    <3>2. s \in RunStates
      BY DEF Outcome, RunStates, Terminal
    <3> HIDE DEF s
    <3>3. rs \in [Runs -> RunType]
      BY <1>0, <3>2, FinishType
    <3>4. W(a) \in WorkerType
      BY <1>0, <3>1, Values DEF W
    <3>5. v.closed = W(a).closed /\ v.stopping = FALSE
      BY <3>4 DEF IdleWorker, Settled, WorkerType
    <3> HIDE DEF rs, v, ag
    <3>6. Serves(a)
      BY <3>1, <3>3, <3>5, AdvanceServes
    <3>7. (\E w, o : SetWorker(a, w) /\ SetOp(a, o)) /\ (proc' = proc \/ \E p : SetProc(a, workers[a], p))
      BY <3>1 DEF AdvanceQueue, StartRun
    <3>8. Only(a)
      BY <1>0, <3>1, <3>7 DEF SetWorker, SetOp, SetProc, TypeOK, Only, Apart
    <3> QED
      BY <3>6, <3>8
  <2>2. CASE ~ SettleValid(a, g, r)
    <3>1. UNCHANGED <<worker, workers, op, proc>>
      BY <1>4, <2>2 DEF Settle
    <3>2. Rests(a) /\ Only(a)
      BY <3>1 DEF Rests, Exited, Only, Apart
    <3> QED
      BY <3>2, RestServed
  <2> QED
    BY <2>1, <2>2
<1>5. ASSUME \/ \E g \in Gens, r \in Runs : CheckIdle(a, g, r)
             \/ Park(a)
      PROVE  Serves(a) /\ Only(a)
  <2>1. \/ UNCHANGED <<worker, workers, op, proc>>
        \/ UNCHANGED <<workers, proc>> /\ \E k : BeginInterrupt(a, [op EXCEPT ![a].kind = k])
    BY <1>5 DEF CheckIdle, Park
  <2>2. CASE UNCHANGED <<worker, workers, op, proc>>
    <3>1. Rests(a) /\ Only(a)
      BY <2>2 DEF Rests, Exited, Only, Apart
    <3> QED
      BY <3>1, RestServed
  <2>3. ASSUME NEW k, BeginInterrupt(a, [op EXCEPT ![a].kind = k]), UNCHANGED <<workers, proc>>
        PROVE  Serves(a) /\ Only(a)
    <3>1. Serves(a)
      <4>1. op'[a].pc = "stop"
        BY <1>0, <2>3 DEF BeginInterrupt, TypeOK, OpType
      <4> QED
        BY <1>0, <2>3, <4>1, InterruptServes
    <3>2. Only(a)
      BY <1>0, <2>3 DEF BeginInterrupt, SetWorker, TypeOK, Only, Apart
    <3> QED
      BY <3>1, <3>2
  <2> QED
    BY <2>1, <2>2, <2>3
<1>6. ASSUME NEW g \in Gens, Reaped(a, g)
      PROVE  Serves(a) /\ Only(a)
  <2>1. Only(a)
    BY <1>0, <1>6 DEF Reaped, TypeOK, Only, Apart
  <2>2. Rests(a)
    <3>1. workers' = workers /\ op'[a].pc = op[a].pc /\ op'[a].kind = op[a].kind
      BY <1>0, <1>6 DEF Reaped, TypeOK, OpType
    <3>2. \A h \in Gens : /\ worker'[a][h].run = worker[a][h].run /\ worker'[a][h].closed = worker[a][h].closed
                          /\ worker'[a][h].stopping = worker[a][h].stopping
      BY <1>0, <1>6 DEF Reaped, TypeOK, WorkerType
    <3>3. \A h \in Gens : proc'[a][h].st = proc[a][h].st
      BY <1>0, <1>6 DEF Reaped, TypeOK, ProcType
    <3> QED
      BY <3>1, <3>2, <3>3 DEF Rests, Exited
  <2> QED
    BY <2>1, <2>2, RestServed
<1>7. CASE FallSilent(a) \/ ObserveIdle(a)
  <2> DEFINE v == [W(a) EXCEPT !.silent = TRUE]
  <2>1. UNCHANGED <<workers, op, proc>> /\ (worker' = worker \/ (HasWorker(a) /\ SetWorker(a, v)))
    BY <1>7 DEF FallSilent, ObserveIdle
  <2>2. HasWorker(a) => /\ workers[a] \in Gens /\ W(a) = worker[a][workers[a]]
                        /\ v.run = W(a).run /\ v.closed = W(a).closed /\ v.stopping = W(a).stopping
    BY OpenWorker DEF QueueNow, WorkerType
  <2> HIDE DEF v
  <2>3. \A h \in Gens : /\ worker'[a][h].run = worker[a][h].run /\ worker'[a][h].closed = worker[a][h].closed
                        /\ worker'[a][h].stopping = worker[a][h].stopping
    BY <1>0, <2>1, <2>2 DEF SetWorker, TypeOK
  <2>4. Rests(a) /\ Only(a)
    BY <1>0, <2>1, <2>3 DEF Rests, Exited, Only, Apart, SetWorker, TypeOK
  <2> QED
    BY <2>4, RestServed, OthersServed
<1> QED
  BY <1>1, <1>2, <1>3, <1>4, <1>5, <1>6, <1>7, OthersServed DEF Background

LEMMA ReadServes ==
  ASSUME QueueNow, Thins(run'), UNCHANGED closing, NEW a \in Agents, Read(a)
  PROVE  \A b \in Agents : Serves(b)
<1>0. TypeOK
  BY DEF QueueNow, OwnerNow
<1>1. PICK g \in Gens : \/ ReadReply(a, g) \/ ReadDropped(a, g) \/ ReadAsk(a, g) \/ ReadClosed(a, g)
                        \/ ReadEnd(a, g) \/ ReadDelta(a, g) \/ ReadStart(a, g) \/ ReaderFails(a, g)
  BY DEF Read
<1>2. UNCHANGED workers /\ (proc' = proc \/ Consume(a, g))
  BY <1>1 DEF ReadReply, ReadDropped, ReadAsk, ReadClosed, ReadEnd, ReadDelta, ReadStart, ReaderFails, memory
<1>3. op' = op \/ \E x : op' = [op EXCEPT ![a].ans = x]
  BY <1>1 DEF ReadReply, ReadDropped, ReadAsk, ReadClosed, ReadEnd, ReadDelta, ReadStart, ReaderFails, memory
<1>4. /\ \A b \in Agents \ {a} : worker'[b] = worker[b]
      /\ \A h \in Gens : /\ worker'[a][h].run = worker[a][h].run /\ worker'[a][h].closed = worker[a][h].closed
                         /\ worker'[a][h].stopping = worker[a][h].stopping
  <2>1. CASE ReadAsk(a, g) \/ ReadClosed(a, g)
    <3>1. \E u, x : worker' = [worker EXCEPT ![a][g].ui = u, ![a][g].silent = x]
      <4>1. CASE ReadClosed(a, g)
        BY <4>1 DEF ReadClosed
      <4>2. CASE ReadAsk(a, g)
        <5>1. worker' = [worker EXCEPT ![a][g].ui = worker'[a][g].ui, ![a][g].silent = worker[a][g].silent]
          BY <1>0, <4>2 DEF ReadAsk, TypeOK, WorkerType
        <5> QED
          BY <5>1
      <4> QED
        BY <2>1, <4>1, <4>2
    <3> QED
      BY <1>0, <3>1 DEF TypeOK, WorkerType
  <2>2. CASE ReadEnd(a, g)
    <3>1. \E x, y : worker' = [worker EXCEPT ![a][g].cancelled = x, ![a][g].failed = y]
      BY <2>2 DEF ReadEnd
    <3> QED
      BY <1>0, <3>1 DEF TypeOK, WorkerType
  <2>3. CASE ReadDelta(a, g) \/ ReadStart(a, g) \/ ReaderFails(a, g)
    <3>1. CASE ReadDelta(a, g)
      BY <1>0, <3>1 DEF ReadDelta, TypeOK, WorkerType
    <3>2. CASE ReadStart(a, g)
      BY <3>2, QueueFramesAreFrames DEF ReadStart, Heads, QueueFrames, StartFree, QueueNow, OwnerNow, OwnerInv, Managed
    <3>3. CASE ReaderFails(a, g)
      BY <1>0, <3>3 DEF ReaderFails, TypeOK, WorkerType
    <3> QED
      BY <2>3, <3>1, <3>2, <3>3
  <2>4. CASE ReadReply(a, g) \/ ReadDropped(a, g)
    BY <2>4 DEF ReadReply, ReadDropped, memory
  <2> QED
    BY <1>1, <2>1, <2>2, <2>3, <2>4
<1>5. /\ \A b \in Agents \ {a} : proc'[b] = proc[b]
      /\ \A h \in Gens : proc'[a][h].st = proc[a][h].st
  <2>1. proc' = proc \/ \E x : proc' = [proc EXCEPT ![a][g].stdout = x]
    BY <1>2 DEF Consume
  <2>2. ASSUME NEW x, proc' = [proc EXCEPT ![a][g].stdout = x], NEW h \in Gens
        PROVE  proc'[a][h].st = proc[a][h].st
    <3>1. proc[a][g] \in ProcType /\ proc'[a][h] = IF h = g THEN [proc[a][g] EXCEPT !.stdout = x] ELSE proc[a][h]
      BY <1>0, <2>2 DEF TypeOK
    <3> QED
      BY <3>1 DEF ProcType
  <2> QED
    BY <1>0, <2>1, <2>2 DEF TypeOK
<1>6. op'[a].pc = op[a].pc /\ op'[a].kind = op[a].kind /\ \A b \in Agents \ {a} : op'[b] = op[b]
  BY <1>0, <1>3 DEF TypeOK, OpType
<1>7. Rests(a) /\ Only(a)
  BY <1>2, <1>4, <1>5, <1>6 DEF Rests, Exited, Only, Apart
<1> QED
  BY <1>7, RestServed, OthersServed

\* A process that is over stays so.
LEMMA ProcessServes ==
  ASSUME QueueNow, Thins(run'), UNCHANGED closing, NEW a \in Agents, Process(a)
  PROVE  \A b \in Agents : Serves(b)
<1>0. TypeOK
  BY DEF QueueNow, OwnerNow
<1>1. /\ UNCHANGED <<workers, worker, op>>
      /\ \E g \in Gens : ~ Exited(a, g) /\ \E p : SetProc(a, g, p)
  <2>1. PICK g \in Gens :
          \/ GuardRecord(a, g) \/ (\E st \in ProcStates : ProcExit(a, g, st))
          \/ ChildPrompt(a, g) \/ ChildAbort(a, g) \/ ChildAnswer(a, g)
          \/ (\E d \in Dialogs : ChildAsk(a, g, d) \/ ChildClose(a, g, d))
          \/ (\E how \in {"ok", "error", "cancelled"} : ChildEnd(a, g, how))
          \/ ChildDelta(a, g) \/ ChildStart(a, g)
    BY DEF Process
  <2>2. CASE GuardRecord(a, g)
    <3>1. ~ Exited(a, g) /\ UNCHANGED <<workers, worker, op>>
      BY <2>2 DEF GuardRecord, Exited, memory
    <3>2. \E s : proc' = [proc EXCEPT ![a][g].st = s]
      BY <2>2 DEF GuardRecord
    <3>3. \E p : SetProc(a, g, p)
      BY <1>0, <3>2 DEF SetProc, TypeOK
    <3> QED
      BY <3>1, <3>3
  <2>3. CASE ~ GuardRecord(a, g)
    <3>1. \E p : Child(a, g, p)
      BY <2>1, <2>3 DEF ProcExit, ChildPrompt, ChildAbort, ChildAnswer, ChildAsk, ChildClose, ChildEnd, ChildDelta,
         ChildStart
    <3>2. ~ Exited(a, g)
      BY <2>1, <2>3 DEF ProcExit, ChildPrompt, ChildAbort, ChildAnswer, ChildAsk, ChildClose, ChildEnd, ChildDelta,
         ChildStart, Running, Exited
    <3> QED
      BY <3>1, <3>2 DEF Child, memory
  <2> QED
    BY <2>2, <2>3
<1>2. Rests(a) /\ Only(a)
  BY <1>0, <1>1 DEF SetProc, TypeOK, Rests, Exited, Only, Apart
<1> QED
  BY <1>2, RestServed, OthersServed

\* A follow-up joins a queue behind the run of the worker it was sent to.
LEMMA FollowUpServes ==
  ASSUME QueueNow, UNCHANGED closing, NEW a \in Agents, NEW r \in Runs, SendQueued(a, r)
  PROVE  \A b \in Agents : Serves(b)
<1>1. /\ op[a].pc = "free" /\ HasWorker(a) /\ W(a).run # NoRun /\ ~ W(a).stopping
      /\ UNCHANGED <<workers, worker, op, proc>>
  BY DEF SendQueued, Request, LockFree, Reachable, Occupied, memory
<1>2. run'[r].owner = a /\ \A q \in Runs \ {r} : run'[q] = run[q]
  BY FollowUpJoins DEF QueueNow, OwnerNow
<1>3. \A b \in Agents : Minded(b) => Minded(b)'
  BY <1>1 DEF Minded, HasWorker, W, Exited
<1>4. Minded(a)
  BY <1>1 DEF Minded
<1>5. \A b \in Agents \ {a} : Waits(b)' => Waits(b)
  BY <1>2 DEF Waits, Queued
<1>6. \A b \in Agents : Halted(b) => Halted(b)'
  BY <1>1 DEF Halted, W
<1> QED
  BY <1>3, <1>4, <1>5, <1>6 DEF Serves, QueueNow, QueueMinded

\* Shutdown cancels the queue of the worker it stops: managed work leaves none it may not interrupt.
LEMMA ShutdownServes ==
  ASSUME QueueNow, Thins(run'), UNCHANGED closing, NEW a \in Agents, ShutdownAgent(a)
  PROVE  \A b \in Agents : Serves(b)
<1>1. HasWorker(a) /\ UNCHANGED <<workers, proc>>
  BY DEF ShutdownAgent
<1>2. BeginInterrupt(a, [op EXCEPT ![a].kind = "shutdown"])
  BY <1>1, OpenWorker DEF ShutdownAgent, Reachable, QueueNow
<1>3. Serves(a)
  <2>1. op'[a].pc = "stop"
    BY <1>2 DEF BeginInterrupt, QueueNow, OwnerNow, TypeOK, OpType
  <2> QED
    BY <1>2, <2>1, InterruptServes DEF QueueNow, OwnerNow
<1>4. Only(a)
  BY <1>1, <1>2 DEF BeginInterrupt, SetWorker, QueueNow, OwnerNow, TypeOK, Only, Apart
<1> QED
  BY <1>3, <1>4, OthersServed

\* Only the daemon itself goes down, comes up or starts to close.
LEMMA DaemonAlone ==
  ASSUME NEW a \in Agents, Boot(a) \/ Stop(a) \/ Mutate(a) \/ Await(a) \/ Background(a) \/ Read(a) \/ Process(a)
  PROVE  UNCHANGED <<up, closing>>
<1>1. CASE Boot(a) \/ Stop(a)
  BY <1>1 DEF Boot, Stop, Spawn, Admit, LockVictim, SkipVictim, BootRefused, AdmitWriter, BeforeSpawn, Fork, ForkFails,
     Register, ReadyOk, ReadyFails, EvictionRefused, SpawnInsert, PickVictim, StopDone, UnbootDone, memory
<1>2. CASE Mutate(a) \/ Await(a)
  BY <1>2 DEF Mutate, Interrupt, Respawn, CloseOrphan, ReapDone, ConfirmCleanup, SendWake, SoftInterrupt, SendIdle,
     SendQueued, Answer, Await, PromptOk, PromptRejected, PromptUncertain, AbortConfirmed, AbortForced, memory
<1>3. CASE Background(a) \/ Read(a)
  BY <1>3 DEF Background, StopUnowned, FailWorker, Reaped, WorkerExited, Settle, CheckIdle, FallSilent, ObserveIdle, Park,
     Read, ReadReply, ReadDropped, ReadAsk, ReadClosed, ReadEnd, ReadDelta, ReadStart, ReaderFails, memory
<1>4. CASE Process(a)
  BY ZenonT(40), <1>4 DEF Process, GuardRecord, ProcExit, ChildPrompt, ChildAbort, ChildAnswer, ChildAsk, ChildClose, ChildEnd,
     ChildDelta, ChildStart, Child, memory
<1> QED
  BY <1>1, <1>2, <1>3, <1>4

LEMMA QueueStep ==
  ASSUME OutcomeInv, OwnerInv, QueueMinded, [Next]_vars
  PROVE  QueueMinded'
<1> SUFFICES ASSUME up'
             PROVE  \A b \in Agents : Serves(b)
  BY DEF QueueMinded, Serves
<1>0. OwnerNow
  BY DEF OutcomeInv, OwnerNow
<1>1. Thins(run') \/ \E a \in Agents : \E r \in Runs : SendQueued(a, r)
  BY StepLedger
<1>2. ASSUME NEW a \in Agents, Boot(a) \/ Stop(a) \/ Mutate(a) \/ Await(a) \/ Background(a) \/ Read(a) \/ Process(a)
      PROVE  \A b \in Agents : Serves(b)
  <2>1. QueueNow /\ UNCHANGED closing
    BY <1>0, <1>2, DaemonAlone DEF QueueNow
  <2>2. CASE \E c \in Agents : \E r \in Runs : SendQueued(c, r)
    BY <2>1, <2>2, FollowUpServes
  <2>3. CASE ~ \E c \in Agents : \E r \in Runs : SendQueued(c, r)
    BY <1>1, <1>2, <2>1, <2>3, BootServes, StopServes, MutateServes, AwaitServes, BackgroundServes, ReadServes,
       ProcessServes
  <2> QED
    BY <2>2, <2>3
<1>3. ASSUME NEW a \in Agents, ShutdownAgent(a)
      PROVE  \A b \in Agents : Serves(b)
  <2>1. QueueNow /\ UNCHANGED closing
    BY <1>0, <1>3 DEF QueueNow, ShutdownAgent
  <2> QED
    BY <1>1, <1>3, <2>1, ShutdownServes, FollowUpServes
<1>4. ASSUME NEW v, Restart(v)
      PROVE  \A b \in Agents : Serves(b)
  <2>1. \A r \in Runs : run'[r].state # "queued"
    BY <1>4 DEF Restart, Reconciled, Finish, OutcomeInv, TypeOK, RunType, Active
  <2>2. \A b \in Agents : workers'[b] = 0
    BY <1>4 DEF Restart, memory, OwnerInv, DownHasNoWorker
  <2> QED
    BY <2>1, <2>2 DEF Serves, Waits, Queued, Halted
<1>7. CASE BeginShutdown
  <2>1. QueueNow /\ run' = run /\ closing' /\ \A b \in Agents : Rests(b)
    BY <1>0, <1>7 DEF QueueNow, BeginShutdown, Rests, Exited
  <2> QED
    BY <2>1, RestServed DEF Thins
<1>5. CASE Daemon
  BY <1>4, <1>5, <1>7 DEF Daemon, Crash, ShutdownExit, LoseMemory
<1>6. CASE UNCHANGED vars
  <2>1. QueueNow /\ UNCHANGED closing /\ \A b \in Agents : Rests(b)
    BY <1>0, <1>6 DEF QueueNow, vars, memory, Rests, Exited
  <2>2. Thins(run')
    BY <1>6 DEF vars, Thins
  <2> QED
    BY <2>1, <2>2, RestServed
<1> QED
  BY <1>2, <1>3, <1>5, <1>6 DEF Next

(* Unless a child can start work outside the managed queue or a fork can raise OSError, a queued
   run never waits behind nothing: its agent's lock is held, or its worker is there and has a run
   ahead of it or an exit to account for, whatever settles, rejections, timeouts, interrupts,
   evictions, exits and restarts come in between (advance_queue, send_input, cancel_queued). *)
THEOREM QueuesAreServed ==
  ASSUME NoRunLeftBehind
  PROVE  Spec => []NoStrandedQueue
<1>1. Init => OutcomeInv /\ OwnerInv /\ OwnerGiven /\ QueueMinded
  <2>1. Init => OwnerGiven /\ QueueMinded
    BY DEF Init, OwnerGiven, QueueMinded, Waits, Queued, Halted
  <2> QED
    BY <2>1, OutcomeInit, OwnerInit
<1>2. OutcomeInv /\ OwnerInv /\ OwnerGiven /\ QueueMinded /\ [Next]_vars
        => OutcomeInv' /\ OwnerInv' /\ OwnerGiven' /\ QueueMinded'
  BY OutcomeStep, OwnerStep, StepLedger, OwnerGivenStep, QueueStep DEF OutcomeInv
<1>3. OutcomeInv /\ OwnerInv /\ OwnerGiven /\ QueueMinded => NoStrandedQueue
  <2> SUFFICES ASSUME OutcomeInv, OwnerInv, OwnerGiven, QueueMinded, up, ~closing,
                      NEW r \in Runs, run[r].state = "queued", ~ Busy(run[r].owner)
               PROVE  \E g \in Gens : /\ Accountable(run[r].owner, g)
                                      /\ \/ worker[run[r].owner][g].run # NoRun \/ worker[run[r].owner][g].stopping
                                         \/ Exited(run[r].owner, g)
    BY DEF NoStrandedQueue
  <2> DEFINE a == run[r].owner
  <2>1. a \in Agents /\ Waits(a)
    BY DEF OutcomeInv, TypeOK, RunType, OwnerGiven, Waits, Queued
  <2> HIDE DEF a
  <2>2. HasWorker(a) /\ (W(a).run # NoRun \/ Exited(a, workers[a]))
    BY <2>1 DEF QueueMinded, Minded
  <2>3. workers[a] \in Gens /\ workers[a] = agent[a].gen /\ W(a) = worker[a][workers[a]]
    BY <2>1, <2>2, OpenWorker DEF OutcomeInv, OwnerNow
  <2>4. Accountable(a, workers[a])
    BY <2>1, <2>2, <2>3 DEF OwnerInv, AgentOwns, Registered, HasWorker, Accountable
  <2> QED
    BY <2>2, <2>3, <2>4 DEF a
<1> QED
  BY <1>1, <1>2, <1>3, PTL DEF Spec

------------------------------------------------------------------------------
(* An orderly shutdown leaves no run open: none is starting, for no spawn is left when the daemon
   closes, and a worker that nobody stops any more has none.                                     *)

\* Agent a is not being spawned.
NoSpawn(a) == op[a].kind = "spawn" => op[a].pc = "free"
SpawnsDrained == closing => \A a \in Agents : NoSpawn(a)

LEMMA SpawnSet ==
  ASSUME TypeOK, NEW a \in Agents, NEW o, SetOp(a, o), NEW b \in Agents, NoSpawn(b),
         o.pc = "free" \/ o.kind # "spawn" \/ (op[a].pc # "free" /\ o.kind = op[a].kind)
  PROVE  NoSpawn(b)'
<1>1. op'[b] = IF b = a THEN o ELSE op[b]
  BY DEF SetOp, TypeOK
<1> QED
  BY <1>1 DEF NoSpawn

LEMMA SpawnInterrupt ==
  ASSUME TypeOK, NEW a \in Agents, NEW k, k # "spawn", BeginInterrupt(a, [op EXCEPT ![a].kind = k]),
         NEW b \in Agents, NoSpawn(b)
  PROVE  NoSpawn(b)'
<1>1. op[a] \in OpType
  BY DEF TypeOK
<1>2. CASE b = a
  <2> DEFINE n == [op EXCEPT ![a].kind = k]
  <2>1. n \in [Agents -> {n[c] : c \in Agents}] /\ n[a].kind = k /\ n[a] = [op[a] EXCEPT !.kind = k]
    BY <1>1 DEF TypeOK, OpType
  <2>2. op' = [n EXCEPT ![a] = [n[a] EXCEPT !.pc = "stop"]]
    BY DEF BeginInterrupt
  <2>3. op'[a] = [n[a] EXCEPT !.pc = "stop"]
    BY <2>1, <2>2
  <2>4. op'[a].kind = k
    BY <1>1, <2>1, <2>3 DEF OpType
  <2> QED
    BY <1>2, <2>4 DEF NoSpawn
<1>3. CASE b # a
  <2>1. op'[b] = op[b]
    BY <1>3 DEF BeginInterrupt, TypeOK
  <2> QED
    BY <2>1 DEF NoSpawn
<1> QED
  BY <1>2, <1>3

LEMMA SpawnAnswered ==
  ASSUME TypeOK, NEW a \in Agents, NEW x, op' = [op EXCEPT ![a].ans = x], NEW b \in Agents, NoSpawn(b)
  PROVE  NoSpawn(b)'
<1>1. op[b] \in OpType
  BY DEF TypeOK
<1>2. op'[b] = IF b = a THEN [op[b] EXCEPT !.ans = x] ELSE op[b]
  BY DEF TypeOK
<1>3. op'[b].kind = op[b].kind /\ op'[b].pc = op[b].pc
  BY <1>1, <1>2 DEF OpType
<1> QED
  BY <1>3 DEF NoSpawn

LEMMA SpawnStep ==
  ASSUME TypeOK, Located, closing, NEW a \in Agents,
         Boot(a) \/ Stop(a) \/ Mutate(a) \/ Await(a) \/ Background(a) \/ Read(a) \/ Process(a) \/ ShutdownAgent(a),
         NEW b \in Agents, NoSpawn(b)
  PROVE  NoSpawn(b)'
<1>0. op[b] \in OpType /\ op[a] \in OpType
  BY DEF TypeOK
<1>a. ASSUME op' = op
       PROVE  NoSpawn(b)'
  BY <1>a DEF NoSpawn
<1>b. ASSUME SetOp(a, Free)
       PROVE  NoSpawn(b)'
  BY <1>b, SpawnSet DEF Free
<1>1. CASE Boot(a)
  <2>1. CASE LockVictim(a)
    <3> DEFINE v == op[a].victim
               n == [op EXCEPT ![a].pc = "victim"]
               m == [n EXCEPT ![v].kind = "evict"]
    <3>1. op' = [m EXCEPT ![v].pc = "stop"] /\ op[a].pc = "lock"
      BY <2>1 DEF LockVictim, BeginInterrupt
    <3>2. v \in Agents
      BY <3>1 DEF Located, LocatedAt
    <3>3. n \in [Agents -> OpType] /\ n[b].kind = op[b].kind /\ (op[b].pc = "free" => n[b].pc = "free" \/ b = a)
      BY <1>0 DEF TypeOK, OpType, Steps
    <3> HIDE DEF v, n
    <3>4. m \in [Agents -> OpType] /\ m[v].kind = "evict" /\ (b # v => m[b] = n[b])
      BY <3>2, <3>3 DEF OpType, Kinds
    <3> HIDE DEF m
    <3>5. CASE b = v
      <4>1. op'[b] = [m[b] EXCEPT !.pc = "stop"] /\ m[b] \in OpType
        BY <3>1, <3>4, <3>5
      <4> QED
        BY <3>4, <3>5, <4>1 DEF NoSpawn, OpType
    <3>6. CASE b # v
      <4>1. op'[b] = n[b]
        BY <3>1, <3>4, <3>6
      <4> QED
        BY <3>1, <3>3, <4>1 DEF NoSpawn
    <3> QED
      BY <3>5, <3>6
  <2>2. CASE Fork(a)
    BY <1>a, <2>2 DEF Fork, memory
  <2>3. CASE ForkFails(a) \/ BootRefused(a) \/ EvictionRefused(a)
    BY <1>b, <2>3 DEF ForkFails, BootRefused, EvictionRefused, AbortBoot
  <2>4. CASE SkipVictim(a)
    <3>1. CASE SetOp(a, Free)
      BY <1>b, <3>1
    <3>2. CASE SetOp(a, [op[a] EXCEPT !.pc = "capacity"])
      <4> DEFINE o == [op[a] EXCEPT !.pc = "capacity"]
      <4>1. o.kind = op[a].kind /\ op[a].pc # "free"
        BY <1>0, <2>4 DEF SkipVictim, OpType
      <4> QED
        BY <3>2, <4>1, SpawnSet
    <3> QED
      BY <2>4, <3>1, <3>2 DEF SkipVictim, AbortBoot
  <2>5. CASE Admit(a)
    <3> DEFINE o == [op[a] EXCEPT !.pc = IF op[a].kind = "spawn" THEN "writer" ELSE "capacity"]
    <3>1. SetOp(a, o) /\ o.kind = op[a].kind /\ op[a].pc # "free"
      BY <1>0, <2>5 DEF Admit, OpType
    <3> HIDE DEF o
    <3> QED
      BY <3>1, SpawnSet
  <2>6. CASE AdmitWriter(a)
    <3> DEFINE o == [op[a] EXCEPT !.pc = "writer"]
    <3>1. SetOp(a, o) /\ o.kind = op[a].kind /\ op[a].pc # "free"
      BY <1>0, <2>6 DEF AdmitWriter, OpType
    <3> HIDE DEF o
    <3> QED
      BY <3>1, SpawnSet
  <2>7. CASE BeforeSpawn(a)
    <3> DEFINE o == [op[a] EXCEPT !.pc = "fork", !.tried = {}, !.victim = None, !.back = "free", !.vgen = 0]
    <3>1. SetOp(a, o) /\ o.kind = op[a].kind /\ op[a].pc # "free"
      BY <1>0, <2>7 DEF BeforeSpawn, OpType
    <3> HIDE DEF o
    <3> QED
      BY <3>1, SpawnSet
  <2>8. CASE Register(a)
    <3> DEFINE o == [op[a] EXCEPT !.pc = "ready"]
    <3>1. SetOp(a, o) /\ o.kind = op[a].kind /\ op[a].pc # "free"
      BY <1>0, <2>8 DEF Register, OpType
    <3> HIDE DEF o
    <3> QED
      BY <3>1, SpawnSet
  <2>9. CASE ReadyFails(a)
    <3> DEFINE o == [op[a] EXCEPT !.pc = "unboot"]
    <3>1. SetOp(a, o) /\ o.kind = op[a].kind /\ op[a].pc # "free"
      BY <1>0, <2>9 DEF ReadyFails, OpType
    <3> HIDE DEF o
    <3> QED
      BY <3>1, SpawnSet
  <2>10. ASSUME NEW r \in Runs, SpawnInsert(a, r)
         PROVE  NoSpawn(b)'
    <3> DEFINE o == [op[a] EXCEPT !.pc = "capacity", !.tried = {}]
    <3>1. SetOp(a, o) /\ o.kind = op[a].kind /\ op[a].pc # "free"
      BY <1>0, <2>10 DEF SpawnInsert, OpType
    <3> HIDE DEF o
    <3> QED
      BY <3>1, SpawnSet
  <2>11. ASSUME NEW c \in Agents, PickVictim(a, c)
         PROVE  NoSpawn(b)'
    <3> DEFINE o == [op[a] EXCEPT !.pc = "lock", !.victim = c, !.vgen = workers[c],
                                  !.back = op[a].pc, !.tried = op[a].tried \cup {c}]
    <3>1. SetOp(a, o) /\ o.kind = op[a].kind /\ op[a].pc # "free"
      BY <1>0, <2>11 DEF PickVictim, OpType
    <3> HIDE DEF o
    <3> QED
      BY <3>1, SpawnSet
  <2>12. CASE ReadyOk(a)
    <3> DEFINE o == [Free EXCEPT !.kind = op[a].kind, !.pc = "prompt",
                                 !.ans = IF Exited(a, workers[a]) THEN "gone" ELSE "none"]
    <3>1. (\E ag, rs, w, r : StartRun(a, r, ag, rs, w, op[a].kind)) \/ SetOp(a, Free)
      BY <2>12, Zenon DEF ReadyOk
    <3>2. SetOp(a, o) \/ SetOp(a, Free)
      BY <3>1, Zenon DEF StartRun
    <3>3. o.kind = op[a].kind /\ op[a].pc = "ready"
      BY <2>12 DEF ReadyOk, Free
    <3> HIDE DEF o
    <3> QED
      BY <1>b, <3>2, <3>3, SpawnSet
  <2>13. CASE Spawn(a)
    BY <2>13 DEF Spawn
  <2> QED
    BY <1>1, <2>1, <2>2, <2>3, <2>4, <2>5, <2>6, <2>7, <2>8, <2>9, <2>10, <2>11, <2>12, <2>13 DEF Boot
<1>2. CASE Stop(a)
  <2>1. PICK o : StopDone(a, o) \/ UnbootDone(a, o)
    BY <1>2 DEF Stop
  <2>2. CASE StopDone(a, o)
    <3>1. op'[b] = op[b] \/ op'[b].kind = "send_interrupt" \/ op'[b].pc = "free"
          \/ (op[b].pc = "victim" /\ op'[b].kind = op[b].kind)
      BY <1>0, <2>2 DEF StopDone, Free, OpType
    <3> QED
      BY <3>1 DEF NoSpawn
  <2>3. CASE UnbootDone(a, o)
    BY <1>b, <2>3 DEF UnbootDone
  <2> QED
    BY <2>1, <2>2, <2>3
<1>3. CASE Mutate(a)
  <2>1. \A name : ~ Request(a, name)
    BY DEF Request
  <2>2. \E proved \in BOOLEAN : ReapDone(a, proved)
    BY <1>3, <2>1, Zenon DEF Mutate, Interrupt, Respawn, CloseOrphan, ConfirmCleanup, SendWake, SoftInterrupt, SendIdle,
       SendQueued, Answer
  <2>3. SetOp(a, Free)
    BY <2>2, Zenon DEF ReapDone
  <2> QED
    BY <1>b, <2>3
<1>4. CASE Await(a)
  <2>1. CASE PromptOk(a) \/ PromptUncertain(a) \/ AbortConfirmed(a)
    BY <1>b, <2>1 DEF PromptOk, PromptUncertain, AbortConfirmed
  <2>2. CASE PromptRejected(a)
    <3>1. SetOp(a, Free)
      BY <2>2 DEF PromptRejected, AdvanceQueue
    <3> QED
      BY <1>b, <3>1
  <2>3. CASE AbortForced(a)
    <3> DEFINE n == [op EXCEPT ![a].ans = "none"]
    <3>1. n \in [Agents -> OpType] /\ n[b].kind = op[b].kind /\ n[b].pc = op[b].pc
      BY <1>0 DEF TypeOK, OpType
    <3>2. op' = [n EXCEPT ![a].pc = "stop"] /\ op[a].pc = "abort"
      BY <2>3 DEF AbortForced, BeginInterrupt
    <3> HIDE DEF n
    <3>3. op'[b].kind = op[b].kind /\ (b # a => op'[b].pc = op[b].pc)
      BY <3>1, <3>2 DEF OpType
    <3> QED
      BY <3>2, <3>3 DEF NoSpawn
  <2> QED
    BY <1>4, <2>1, <2>2, <2>3 DEF Await
<1>5. CASE Background(a)
  <2>1. ASSUME NEW ag, NEW rs, NEW w, AdvanceQueue(a, ag, rs, w)
        PROVE  NoSpawn(b)'
    <3>1. SetOp(a, Free)
      BY <2>1 DEF AdvanceQueue
    <3> QED
      BY <1>b, <3>1
  <2>2. ASSUME NEW g \in Gens, NEW r \in Runs, Settle(a, g, r) \/ CheckIdle(a, g, r)
        PROVE  NoSpawn(b)'
    <3>1. \/ op' = op
          \/ AdvanceQueue(a, IdleAgent(agent[a]), Finish(run, {r}, Outcome(W(a))), IdleWorker(W(a)))
          \/ BeginInterrupt(a, [op EXCEPT ![a].kind = "check_idle"])
      BY <2>2 DEF Settle, CheckIdle
    <3>2. CASE BeginInterrupt(a, [op EXCEPT ![a].kind = "check_idle"])
      BY <3>2, SpawnInterrupt
    <3> QED
      BY <1>a, <2>1, <3>1, <3>2
  <2>3. ASSUME NEW g \in Gens, StopUnowned(a, g) \/ FailWorker(a, g)
        PROVE  NoSpawn(b)'
    <3>1. \/ op' = op
          \/ SetOp(a, [Free EXCEPT !.kind = "stop_unowned", !.pc = "stop"])
          \/ SetOp(a, [Free EXCEPT !.kind = "fail_worker", !.pc = "stop"])
      BY <2>3 DEF StopUnowned, FailWorker
    <3>2. CASE SetOp(a, [Free EXCEPT !.kind = "stop_unowned", !.pc = "stop"])
      <4>1. [Free EXCEPT !.kind = "stop_unowned", !.pc = "stop"].kind # "spawn"
        BY DEF Free
      <4> QED
        BY <3>2, <4>1, SpawnSet
    <3>3. CASE SetOp(a, [Free EXCEPT !.kind = "fail_worker", !.pc = "stop"])
      <4>1. [Free EXCEPT !.kind = "fail_worker", !.pc = "stop"].kind # "spawn"
        BY DEF Free
      <4> QED
        BY <3>3, <4>1, SpawnSet
    <3> QED
      BY <1>a, <3>1, <3>2, <3>3
  <2>4. ASSUME NEW g \in Gens, Reaped(a, g)
        PROVE  NoSpawn(b)'
    <3>1. op' = op \/ op' = [op EXCEPT ![a].ans = "gone"]
      BY <2>4 DEF Reaped
    <3> QED
      BY <1>a, <3>1, SpawnAnswered
  <2>5. CASE Park(a)
    BY <2>5, SpawnInterrupt DEF Park
  <2>6. ASSUME NEW g \in Gens, NEW proved, WorkerExited(a, g, proved)
        PROVE  NoSpawn(b)'
    BY <1>a, <2>6 DEF WorkerExited
  <2>7. CASE FallSilent(a) \/ ObserveIdle(a)
    BY <1>a, <2>7 DEF FallSilent, ObserveIdle
  <2> QED
    BY <1>5, <2>2, <2>3, <2>4, <2>5, <2>6, <2>7 DEF Background
<1>6. CASE Read(a)
  <2>1. op' = op \/ \E x : op' = [op EXCEPT ![a].ans = x]
    BY <1>6 DEF Read, ReadReply, ReadDropped, ReadAsk, ReadClosed, ReadEnd, ReadDelta, ReadStart, ReaderFails, memory
  <2>2. CASE \E x : op' = [op EXCEPT ![a].ans = x]
    <3>1. PICK x : op' = [op EXCEPT ![a].ans = x]
      BY <2>2
    <3> QED
      BY <3>1, SpawnAnswered
  <2> QED
    BY <1>a, <2>1, <2>2
<1>7. CASE Process(a)
  <2>1. op' = op
    BY ZenonT(40), <1>7 DEF Process, GuardRecord, ProcExit, ChildPrompt, ChildAbort, ChildAnswer, ChildAsk, ChildClose, ChildEnd,
       ChildDelta, ChildStart, Child, memory
  <2> QED
    BY <1>a, <2>1
<1>8. CASE ShutdownAgent(a)
  <2>1. \/ BeginInterrupt(a, [op EXCEPT ![a].kind = "shutdown"])
        \/ SetOp(a, [Free EXCEPT !.kind = "shutdown", !.pc = "stop"])
    BY <1>8 DEF ShutdownAgent
  <2>2. CASE BeginInterrupt(a, [op EXCEPT ![a].kind = "shutdown"])
    BY <2>2, SpawnInterrupt
  <2>3. CASE SetOp(a, [Free EXCEPT !.kind = "shutdown", !.pc = "stop"])
    <3>1. [Free EXCEPT !.kind = "shutdown", !.pc = "stop"].kind # "spawn"
      BY DEF Free
    <3> QED
      BY <2>3, <3>1, SpawnSet
  <2> QED
    BY <2>1, <2>2, <2>3
<1> QED
  BY <1>1, <1>2, <1>3, <1>4, <1>5, <1>6, <1>7, <1>8

LEMMA SpawnsStep ==
  ASSUME OutcomeInv, OwnerInv, SpawnsDrained, [Next]_vars
  PROVE  SpawnsDrained'
<1> SUFFICES ASSUME closing', NEW b \in Agents
             PROVE  NoSpawn(b)'
  BY DEF SpawnsDrained
<1>1. ASSUME NEW a \in Agents,
             Boot(a) \/ Stop(a) \/ Mutate(a) \/ Await(a) \/ Background(a) \/ Read(a) \/ Process(a) \/ ShutdownAgent(a)
      PROVE  NoSpawn(b)'
  <2>1. closing
    BY <1>1, DaemonAlone DEF ShutdownAgent
  <2> QED
    BY <1>1, <2>1, SpawnStep DEF SpawnsDrained, OutcomeInv
<1>2. CASE BeginShutdown
  BY <1>2 DEF BeginShutdown, NoSpawn
<1>3. ASSUME NEW v, Restart(v)
      PROVE  NoSpawn(b)'
  <2>1. op' = op /\ ~ up
    BY <1>3, Zenon DEF Restart, memory
  <2>2. op[b] = Free
    BY <2>1 DEF OwnerInv, DownHasNoWorker
  <2> QED
    BY <2>1, <2>2 DEF NoSpawn, Free
<1>4. CASE Daemon
  BY <1>2, <1>3, <1>4 DEF Daemon, Crash, ShutdownExit, LoseMemory
<1>5. CASE UNCHANGED vars
  BY <1>5 DEF vars, memory, SpawnsDrained, NoSpawn
<1> QED
  BY <1>1, <1>4, <1>5 DEF Next

(* Unless a child can start work outside the managed queue or a fork can raise OSError, a daemon
   that shuts down in order leaves no run starting, running, asking or queued, whichever agents
   boot, run, wait or end when it begins to close (Runtime.shutdown, cancel_queued, interrupt). *)
THEOREM ShutdownIsOrderly ==
  ASSUME NoRunLeftBehind
  PROVE  Spec => ShutdownSettles
<1> DEFINE Inv == OutcomeInv /\ OwnerInv /\ OwnerGiven /\ QueueMinded /\ SpawnsDrained
<1>1. Init => Inv
  <2>1. Init => OwnerGiven /\ QueueMinded /\ SpawnsDrained
    BY DEF Init, OwnerGiven, QueueMinded, Waits, Queued, Halted, SpawnsDrained
  <2> QED
    BY <2>1, OutcomeInit, OwnerInit
<1>2. Inv /\ [Next]_vars => Inv'
  BY OutcomeStep, OwnerStep, StepLedger, OwnerGivenStep, QueueStep, SpawnsStep DEF OutcomeInv
<1>3. Inv => (ShutdownExit => \A r \in Runs : run[r].state \in Terminal \cup {"absent"})
  <2> SUFFICES ASSUME Inv, ShutdownExit, NEW r \in Runs, run[r].state \notin Terminal \cup {"absent"}
               PROVE  FALSE
    OBVIOUS
  <2> DEFINE a == run[r].owner
  <2>1. /\ up /\ closing /\ OwnerNow
        /\ \A b \in Agents : HasWorker(b) => op[b].pc = "free" /\ W(b).stopping
    BY DEF ShutdownExit, AllStopped, LockFree, OutcomeInv, OwnerNow
  <2>2. run[r].state \in Active \cup {"queued"}
    BY DEF OutcomeInv, TypeOK, RunType, RunStates
  <2>3. CASE run[r].state = "queued"
    <3>1. a \in Agents /\ Waits(a)
      BY <2>3 DEF OutcomeInv, TypeOK, RunType, OwnerGiven, Waits, Queued
    <3> QED
      BY <2>1, <3>1 DEF QueueMinded, Minded
  <2>4. CASE run[r].state \in Active
    <3>1. Owned(r)
      BY <2>1, <2>4 DEF OwnerInv, ActiveOwned
    <3>2. CASE run[r].state = "starting"
      BY <2>1, <3>1, <3>2 DEF Owned, SpawnsDrained, NoSpawn, Booting, BeforeFork
    <3>3. CASE run[r].state # "starting"
      <4>1. a \in Agents /\ agent[a].gen \in Gens /\ worker[a][agent[a].gen].run = r
        BY <3>1, <3>3 DEF Owned
      <4> HIDE DEF a
      <4>2. workers[a] = agent[a].gen /\ ~ worker[a][agent[a].gen].closed /\ r # NoRun
        BY <4>1, BoundsAssumption DEF OwnerInv, AgentOwns, ProjectedByLast, Runs, NoRun
      <4>3. HasWorker(a) /\ W(a).run # NoRun /\ Halted(a)
        BY <2>1, <4>1, <4>2 DEF HasWorker, W, Gens, QueueMinded
      <4> QED
        BY <2>1, <4>1, <4>3 DEF Halted, HasWorker
    <3> QED
      BY <3>2, <3>3
  <2> QED
    BY <2>2, <2>3, <2>4
<1> HIDE DEF Inv
<1>4. Inv /\ [Next]_vars => [ShutdownExit => \A r \in Runs : run[r].state \in Terminal \cup {"absent"}]_vars
  BY <1>3
<1> QED
  BY <1>1, <1>2, <1>4, PTL DEF Spec, ShutdownSettles
=============================================================================
