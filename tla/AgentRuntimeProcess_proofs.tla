--------------------- MODULE AgentRuntimeProcess_proofs ---------------------
(* What the ledger says of processes, and what rests on it, for any agents, generations, requests
   and schedules of one daemon: an agent reported as verified has no process, two writers never
   have one at a time, and neither limit is exceeded.  Crashes and shutdowns are excluded: after
   either a successor may report verified for a guard that had not recorded itself when the daemon
   was lost.  Work that a child starts outside the managed queue is excluded where it matters, for
   the writers and the residents.                                                               *)
EXTENDS AgentRuntimeOwner_proofs, FiniteSetTheorems

\* One daemon, from its start: it neither crashes nor shuts down.
OneDaemon == "crash" \notin Faults /\ "shutdown" \notin Faults
Serving == up /\ ~ closing

\* A process that has recorded itself as the session's owner.
Recorded == {"alive", "stray", "gone"}

\* A Worker that never ran, or whose exit is accounted for.
Over == {"none", "done"}

(* An open worker is the last generation's, and nobody boots behind it; whoever works on the
   registered generation works on the last one. *)
LastOpen(a) ==
  /\ HasWorker(a) => workers[a] = agent[a].gen
  /\ op[a].pc \in BeforeFork \cup {"reap"} => ~ HasWorker(a)
  /\ op[a].pc \in OnWorker => workers[a] # 0 /\ workers[a] = agent[a].gen
  /\ op[a].pc \in {"ready", "prompt", "abort"} => HasWorker(a)
(* A Worker whose exit is to come has a process, of a generation that was named, the last one
   registered; it is reaped when that process is gone. *)
Accounted(a) ==
  \A g \in Gens :
    /\ worker[a][g].life \notin Over =>
         g <= agent[a].gen /\ (g = agent[a].gen => workers[a] = g) /\ proc[a][g].st # "none"
    /\ ~ worker[a][g].closed => worker[a][g].life \notin Over
    /\ worker[a][g].life = "exiting" => Exited(a, g)
(* A process that has not recorded itself is the last generation's, with a boot or a worker that
   will see to it; one that has is the owner on record. *)
Placed(a) ==
  \A g \in Gens :
    /\ proc[a][g].st = "forked" => g = agent[a].gen /\ (op[a].pc = "fork" \/ HasWorker(a))
    /\ proc[a][g].st \in {"alive", "stray"} => owner[a] = g
    /\ owner[a] = g => proc[a][g].st \in Recorded
    /\ proc[a][g].st # "none" => g <= agent[a].gen
(* cleanup=verified is evidence, and a boot withdraws it before it forks. *)
Evident(a) ==
  /\ agent[a].cleanup = "verified" => ~ Live(a)
  /\ op[a].pc = "fork" => agent[a].cleanup = "pending"
  /\ agent[a].gen > 0 => agent[a].state # "absent"
Contained(a) == LastOpen(a) /\ Accounted(a) /\ Placed(a) /\ Evident(a)
AllContained == \A a \in Agents : Contained(a)

(* What the ledger says of an agent that has a process: a worker or a boot answers for it, and its
   row is a resident's, unless the agent is quarantined; a boot names no generation of a
   quarantined agent, and no later one before the earlier are dead.                            *)
Vouched(a) ==
  /\ Live(a) /\ agent[a].cleanup # "unknown" => HasWorker(a) \/ op[a].pc = "fork"
  /\ Live(a) => agent[a].state \in Resident \/ agent[a].cleanup = "unknown"
  /\ op[a].pc \in BeforeFork => agent[a].cleanup # "unknown"
  /\ op[a].pc = "fork" => agent[a].state \in Resident
  /\ op[a].pc = "fork" /\ proc[a][agent[a].gen].st = "none" => ~ Live(a)
  /\ agent[a].state \in {"closed", "dormant"} => agent[a].cleanup \in {"verified", "unknown"}
  /\ agent[a].state = "absent" => agent[a].cleanup = "verified"
AllVouched == \A a \in Agents : Vouched(a)

\* A frame of the agent announces work that no run owns.
Unowned(a) == \E g \in Gens : ~ StartFree(proc[a][g])
\* What every step does to one agent: only a boot that was admitted gives it a process and a worker.
Upholds(b) ==
  /\ Live(b)' => Live(b) \/ op[b].pc = "fork"
  /\ HasWorker(b)' => HasWorker(b) \/ op[b].pc = "fork"
  /\ op'[b].pc = "fork" => op[b].pc = "fork" \/ BeforeSpawn(b)
  /\ Vouched(b) /\ ~ Unowned(b) => Vouched(b)'
Keeps == AllContained' /\ \A b \in Agents : Upholds(b)

------------------------------------------------------------------------------
(* What most steps do, said of one agent, Worker, process or lock at a time. *)

RowStays(b) ==
  /\ agent'[b].gen = agent[b].gen /\ workers'[b] = workers[b]
  /\ agent'[b].state = "absent" => agent[b].state = "absent"
  /\ \/ agent'[b].state \in {agent[b].state} \cup Resident
     \/ agent'[b].state = "crashed" /\ ~ HasWorker(b) /\ op[b].pc # "fork"
     \/ Unowned(b)
  /\ \/ agent'[b].cleanup = agent[b].cleanup
     \/ agent'[b].cleanup = "not_checked" /\ HasWorker(b) /\ agent'[b].state \in Resident
  /\ op[b].pc = "fork" => agent'[b].cleanup = agent[b].cleanup
StaysOpen(b, h, v) ==
  /\ v.closed = worker[b][h].closed
  /\ v.life \in Over <=> worker[b][h].life \in Over
  /\ v.life = "exiting" => worker[b][h].life = "exiting" \/ Exited(b, h)
\* A process goes on, or takes a step towards its end.
Dies(p, q) ==
  q.st = p.st \/ (p.st = "forked" /\ q.st = "refused") \/ (p.st = "alive" /\ q.st \in {"stray", "gone"})
\* The lock stays where it is, is released, or is taken by somebody the worker or its absence admits.
LockMoves(b) ==
  /\ op'[b].pc = "fork" <=> op[b].pc = "fork"
  /\ \/ op'[b].pc \in {op[b].pc, "free"}
     \/ HasWorker(b) /\ op'[b].pc \in OnWorker
     \/ op[b].pc \in BeforeFork /\ op'[b].pc \in BeforeFork
     \/ ~ HasWorker(b) /\ op'[b].pc = "reap"
     \/ /\ ~ HasWorker(b) /\ op'[b].pc \in BeforeFork
        /\ agent[b].cleanup # "unknown" \/ agent[b].state = "absent"

RowsStay == \A b \in Agents : RowStays(b)
WorkersStay == \A b \in Agents, h \in Gens : StaysOpen(b, h, worker'[b][h])
ProcsFade == owner' = owner /\ \A b \in Agents, h \in Gens : Dies(proc[b][h], proc'[b][h])
LocksMove == \A b \in Agents : LockMoves(b)
Calm == RowsStay /\ WorkersStay /\ ProcsFade /\ LocksMove

LEMMA OpenStays ==
  ASSUME TypeOK, NEW b \in Agents, workers'[b] = workers[b],
         \A h \in Gens : StaysOpen(b, h, worker'[b][h])
  PROVE  HasWorker(b)' <=> HasWorker(b)
<1>1. workers[b] \in Gens \cup {0}
  BY DEF TypeOK, Gens
<1> QED
  BY <1>1 DEF HasWorker, W, StaysOpen

LEMMA LiveFades ==
  ASSUME NEW b \in Agents, \A h \in Gens : Dies(proc[b][h], proc'[b][h])
  PROVE  Live(b)' => Live(b)
BY DEF Dies, Live

(* A step of this kind preserves the containment of an agent. *)
LEMMA ContainedKept ==
  ASSUME TypeOK, NEW b \in Agents, Contained(b), RowStays(b), LockMoves(b), owner'[b] = owner[b],
         \A h \in Gens : StaysOpen(b, h, worker'[b][h]) /\ Dies(proc[b][h], proc'[b][h])
  PROVE  Contained(b)'
<1>2. HasWorker(b)' <=> HasWorker(b)
  BY OpenStays DEF RowStays
<1>3. LastOpen(b)'
  <2>1. LastOpen(b) /\ agent'[b].gen = agent[b].gen /\ workers'[b] = workers[b]
    BY DEF Contained, RowStays
  <2>2. HasWorker(b) => workers[b] # 0
    BY DEF HasWorker
  <2> HIDE DEF HasWorker
  <2> QED
    BY <1>2, <2>1, <2>2 DEF LastOpen, LockMoves, BeforeFork, OnWorker
<1>4. Accounted(b)'
  <2> SUFFICES ASSUME NEW g \in Gens
               PROVE  /\ worker'[b][g].life \notin Over =>
                           /\ g <= agent'[b].gen /\ (g = agent'[b].gen => workers'[b] = g)
                           /\ proc'[b][g].st # "none"
                      /\ ~ worker'[b][g].closed => worker'[b][g].life \notin Over
                      /\ worker'[b][g].life = "exiting" => Exited(b, g)'
    BY DEF Accounted
  <2>1. StaysOpen(b, g, worker'[b][g]) /\ Dies(proc[b][g], proc'[b][g])
    OBVIOUS
  <2>2. Accounted(b) /\ agent'[b].gen = agent[b].gen /\ workers'[b] = workers[b]
    BY DEF Contained, RowStays
  <2>3. Exited(b, g) => Exited(b, g)'
    BY <2>1 DEF Dies, Exited
  <2>4. proc[b][g].st # "none" => proc'[b][g].st # "none"
    BY <2>1 DEF Dies
  <2> HIDE DEF Exited
  <2> QED
    BY <2>1, <2>2, <2>3, <2>4 DEF Accounted, StaysOpen
<1>5. Placed(b)'
  <2> SUFFICES ASSUME NEW g \in Gens
               PROVE  /\ proc'[b][g].st = "forked" => g = agent'[b].gen /\ (op'[b].pc = "fork" \/ HasWorker(b)')
                      /\ proc'[b][g].st \in {"alive", "stray"} => owner'[b] = g
                      /\ owner'[b] = g => proc'[b][g].st \in Recorded
                      /\ proc'[b][g].st # "none" => g <= agent'[b].gen
    BY DEF Placed
  <2>1. Dies(proc[b][g], proc'[b][g]) /\ owner'[b] = owner[b] /\ agent'[b].gen = agent[b].gen
    BY DEF RowStays
  <2>2. op[b].pc = "fork" => op'[b].pc = "fork"
    BY DEF LockMoves
  <2>3. /\ proc[b][g].st = "forked" => g = agent[b].gen /\ (op[b].pc = "fork" \/ HasWorker(b))
        /\ proc[b][g].st \in {"alive", "stray"} => owner[b] = g
        /\ owner[b] = g => proc[b][g].st \in Recorded
        /\ proc[b][g].st # "none" => g <= agent[b].gen
    BY DEF Contained, Placed
  <2> HIDE DEF HasWorker
  <2> QED
    BY <1>2, <2>1, <2>2, <2>3 DEF Dies, Recorded
<1>6. Evident(b)'
  <2>1. Live(b)' => Live(b)
    BY LiveFades
  <2>2. Evident(b)
    BY DEF Contained
  <2> HIDE DEF Live, HasWorker, Unowned
  <2> QED
    BY <2>1, <2>2 DEF Evident, RowStays, LockMoves
<1> QED
  BY <1>3, <1>4, <1>5, <1>6 DEF Contained

(* So is what the ledger says of its processes. *)
LEMMA UpheldKept ==
  ASSUME TypeOK, Located, NEW b \in Agents, Contained(b), RowStays(b), LockMoves(b),
         \A h \in Gens : StaysOpen(b, h, worker'[b][h]) /\ Dies(proc[b][h], proc'[b][h])
  PROVE  Upholds(b)
<1>1. Live(b)' => Live(b)
  BY LiveFades
<1>2. HasWorker(b)' <=> HasWorker(b)
  BY OpenStays DEF RowStays
<1>3. op[b].pc = "fork" /\ proc'[b][agent'[b].gen].st = "none" => proc[b][agent[b].gen].st = "none"
  <2>1. agent'[b].gen = agent[b].gen
    BY DEF RowStays
  <2>2. agent[b].gen \in Gens => Dies(proc[b][agent[b].gen], proc'[b][agent[b].gen])
    OBVIOUS
  <2>3. op[b].pc = "fork" => agent[b].gen \in Gens
    BY DEF Located, LocatedAt, Gens
  <2> QED
    BY <2>1, <2>2, <2>3 DEF Dies
<1>4. op'[b].pc = "fork" <=> op[b].pc = "fork"
  BY DEF LockMoves
<1>5. op'[b].pc \in BeforeFork =>
        op[b].pc \in BeforeFork \/ agent[b].cleanup # "unknown" \/ agent[b].state = "absent"
  <2> HIDE DEF HasWorker
  <2> QED
    BY DEF LockMoves, BeforeFork, OnWorker
<1> HIDE DEF Live, HasWorker, Unowned
<1>6. ASSUME Vouched(b), ~ Unowned(b)
      PROVE  Vouched(b)'
  BY <1>1, <1>2, <1>3, <1>4, <1>5, <1>6 DEF Vouched, RowStays, Resident
<1> QED
  BY <1>1, <1>2, <1>4, <1>6 DEF Upholds

(* The end of an agent's process is known, or the agent is quarantined. *)
LEMMA UpheldDecided ==
  ASSUME NEW b \in Agents, Live(b)' => Live(b), HasWorker(b)' => HasWorker(b), Evident(b)', agent'[b].cleanup \in {"verified", "unknown"},
         agent'[b].state # "absent",
         op'[b].pc \in BeforeFork => op'[b].pc # "fork" /\ agent'[b].cleanup = "verified"
  PROVE  Upholds(b)
<1>1. op'[b].pc # "fork"
  BY DEF BeforeFork
<1> HIDE DEF Live, HasWorker, Unowned
<1>2. Vouched(b)'
  BY <1>1 DEF Vouched, Evident
<1> QED
  BY <1>1, <1>2 DEF Upholds

LEMMA CalmKeeps ==
  ASSUME TypeOK, Located, AllContained, Calm
  PROVE  Keeps
<1> SUFFICES ASSUME NEW b \in Agents
             PROVE  Contained(b)' /\ Upholds(b)
  BY DEF AllContained, Keeps
<1>1. Contained(b) /\ RowStays(b) /\ LockMoves(b) /\ owner'[b] = owner[b]
  BY DEF AllContained, Calm, RowsStay, LocksMove, ProcsFade
<1>2. \A h \in Gens : StaysOpen(b, h, worker'[b][h]) /\ Dies(proc[b][h], proc'[b][h])
  BY DEF Calm, WorkersStay, ProcsFade
<1> QED
  BY <1>1, <1>2, ContainedKept, UpheldKept

\* An agent that a step does not touch, but for its lock.
LEMMA UntouchedKept ==
  ASSUME TypeOK, Located, NEW b \in Agents, Contained(b), LockMoves(b), agent'[b] = agent[b], workers'[b] = workers[b],
         worker'[b] = worker[b], proc'[b] = proc[b], owner'[b] = owner[b]
  PROVE  Contained(b)' /\ Upholds(b)
<1>1. RowStays(b)
  BY DEF RowStays
<1>2. \A h \in Gens : StaysOpen(b, h, worker'[b][h]) /\ Dies(proc[b][h], proc'[b][h])
  BY DEF StaysOpen, Dies
<1> QED
  BY <1>1, <1>2, ContainedKept, UpheldKept

------------------------------------------------------------------------------
(* The pieces of Calm, for the updates the actions make. *)

LEMMA RowsUnmoved ==
  ASSUME UNCHANGED <<agent, workers>>
  PROVE  RowsStay
BY DEF RowsStay, RowStays

LEMMA RowsPut ==
  ASSUME TypeOK, NEW a \in Agents, NEW ag, SetAgent(a, ag), UNCHANGED workers, ag.gen = agent[a].gen,
         ag.state = "absent" => agent[a].state = "absent",
         \/ ag.state \in {agent[a].state} \cup Resident
         \/ ag.state = "crashed" /\ ~ HasWorker(a) /\ op[a].pc # "fork"
         \/ Unowned(a),
         \/ ag.cleanup = agent[a].cleanup
         \/ ag.cleanup = "not_checked" /\ op[a].pc # "fork" /\ HasWorker(a) /\ ag.state \in Resident
  PROVE  RowsStay
<1>1. agent'[a] = ag /\ \A b \in Agents \ {a} : agent'[b] = agent[b]
  BY DEF SetAgent, TypeOK
<1> HIDE DEF HasWorker, Unowned
<1> QED
  BY <1>1 DEF RowsStay, RowStays

LEMMA WorkersUnmoved ==
  ASSUME UNCHANGED worker
  PROVE  WorkersStay
BY DEF WorkersStay, StaysOpen

LEMMA WorkersPut ==
  ASSUME TypeOK, NEW a \in Agents, NEW g, NEW v, worker' = [worker EXCEPT ![a][g] = v],
         g \in Gens => StaysOpen(a, g, v)
  PROVE  WorkersStay
<1> SUFFICES ASSUME NEW b \in Agents, NEW h \in Gens
             PROVE  StaysOpen(b, h, worker'[b][h])
  BY DEF WorkersStay
<1>1. worker \in [Agents -> [Gens -> WorkerType]]
  BY DEF TypeOK
<1>2. CASE b = a /\ h = g
  <2>1. worker'[b][h] = v
    BY <1>1, <1>2
  <2> QED
    BY <1>2, <2>1
<1>3. CASE ~(b = a /\ h = g)
  <2>1. worker'[b][h] = worker[b][h]
    BY <1>1, <1>3
  <2> QED
    BY <2>1 DEF StaysOpen
<1> QED
  BY <1>2, <1>3

LEMMA ProcsUnmoved ==
  ASSUME UNCHANGED <<proc, owner>>
  PROVE  ProcsFade
BY DEF ProcsFade, Dies

LEMMA ProcsPut ==
  ASSUME TypeOK, NEW a \in Agents, NEW g, NEW p, proc' = [proc EXCEPT ![a][g] = p], UNCHANGED owner,
         g \in Gens => Dies(proc[a][g], p)
  PROVE  ProcsFade
<1> SUFFICES ASSUME NEW b \in Agents, NEW h \in Gens
             PROVE  Dies(proc[b][h], proc'[b][h])
  BY DEF ProcsFade
<1>1. proc \in [Agents -> [Gens -> ProcType]]
  BY DEF TypeOK
<1>2. CASE b = a /\ h = g
  <2>1. proc'[b][h] = p
    BY <1>1, <1>2
  <2> QED
    BY <1>2, <2>1
<1>3. CASE ~(b = a /\ h = g)
  <2>1. proc'[b][h] = proc[b][h]
    BY <1>1, <1>3
  <2> QED
    BY <2>1 DEF Dies
<1> QED
  BY <1>2, <1>3

LEMMA LocksUnmoved ==
  ASSUME UNCHANGED op
  PROVE  LocksMove
BY DEF LocksMove, LockMoves

\* The holder of one lock releases it, goes on, or takes it.
LEMMA LocksPut ==
  ASSUME TypeOK, NEW a \in Agents, NEW o, SetOp(a, o), op[a].pc # "fork", o.pc # "fork",
         \/ o.pc \in {op[a].pc, "free"}
         \/ HasWorker(a) /\ o.pc \in OnWorker
         \/ op[a].pc \in BeforeFork /\ o.pc \in BeforeFork
         \/ ~ HasWorker(a) /\ o.pc = "reap"
         \/ ~ HasWorker(a) /\ o.pc \in BeforeFork /\ (agent[a].cleanup # "unknown" \/ agent[a].state = "absent")
  PROVE  LocksMove
<1>1. op'[a] = o /\ \A b \in Agents \ {a} : op'[b] = op[b]
  BY DEF SetOp, TypeOK
<1> HIDE DEF HasWorker
<1> QED
  BY <1>1 DEF LocksMove, LockMoves

\* Frames and commands leave a process what it is.
LEMMA WrittenStays ==
  ASSUME NEW p \in ProcType
  PROVE  (\A c : Dies(p, Written(p, c))) /\ Dies(p, Abandoned(p))
BY DEF Written, Abandoned, Dies, ProcType

\* start_run: a worker that is open stays open, and its process has one more command.
LEMMA StartRunCalm ==
  ASSUME TypeOK, AllContained, NEW a \in Agents, HasWorker(a), op[a].pc # "fork", NEW r, NEW ag, NEW rs, NEW w,
         NEW k, StartRun(a, r, ag, rs, w, k), w.life = W(a).life, UNCHANGED <<owner, workers>>,
         ag \in AgentType, ag.gen = agent[a].gen, ag.cleanup \in {agent[a].cleanup, "not_checked"}
  PROVE  Calm
<1> DEFINE n == [ag EXCEPT !.state = "running", !.current = r]
           v == [NewWorker EXCEPT !.run = r, !.tainted = w.tainted, !.life = w.life]
           p == Written(proc[a][workers[a]], [cmd |-> "prompt", id |-> r, dialog |-> None, live |-> TRUE])
           o == [Free EXCEPT !.kind = k, !.pc = "prompt", !.ans = IF Exited(a, workers[a]) THEN "gone" ELSE "none"]
<1>1. workers[a] \in Gens /\ ~ W(a).closed /\ W(a) = worker[a][workers[a]]
  BY DEF HasWorker, W, TypeOK, Gens
<1>2. SetAgent(a, n) /\ SetWorker(a, v) /\ SetProc(a, workers[a], p) /\ SetOp(a, o)
  BY DEF StartRun
<1>3. n.gen = agent[a].gen /\ n.state = "running" /\ n.cleanup = ag.cleanup
  BY DEF AgentType
<1>4. StaysOpen(a, workers[a], v)
  <2>1. v.closed = FALSE /\ v.life = W(a).life
    BY DEF NewWorker, NoWorker
  <2>2. W(a).closed = FALSE
    BY <1>1, Values DEF WorkerType
  <2> HIDE DEF v
  <2> QED
    BY <1>1, <2>1, <2>2 DEF StaysOpen
<1>5. Dies(proc[a][workers[a]], p)
  BY <1>1, WrittenStays, Values
<1>6. o.pc = "prompt"
  BY DEF Free
<1> HIDE DEF n, v, p, o, HasWorker
<1>7. RowsStay
  BY <1>2, <1>3, RowsPut DEF Resident
<1>8. WorkersStay
  BY <1>2, <1>4, WorkersPut DEF SetWorker
<1>9. ProcsFade
  BY <1>2, <1>5, ProcsPut DEF SetProc
<1>10. LocksMove
  BY <1>2, <1>6, LocksPut DEF OnWorker
<1> QED
  BY <1>7, <1>8, <1>9, <1>10 DEF Calm

\* interrupt, up to the await of terminate_worker.
LEMMA InterruptCalm ==
  ASSUME TypeOK, NEW a \in Agents, op[a].pc # "fork", NEW o, BeginInterrupt(a, o),
         UNCHANGED <<workers, owner>>, ProcsFade, o \in [Agents -> OpType],
         \A b \in Agents \ {a} : LockMoves(b)
  PROVE  Calm
<1> DEFINE n == [agent[a] EXCEPT !.state = "stopping"]
           v == [W(a) EXCEPT !.stopping = TRUE]
<1>1. workers[a] \in Gens /\ W(a) = worker[a][workers[a]] /\ HasWorker(a)
  BY DEF BeginInterrupt, Reachable, HasWorker, W, TypeOK, Gens
<1>2. SetAgent(a, n) /\ SetWorker(a, v) /\ op' = [o EXCEPT ![a].pc = "stop"]
  BY DEF BeginInterrupt
<1>3. n.gen = agent[a].gen /\ n.state = "stopping" /\ n.cleanup = agent[a].cleanup
  BY DEF TypeOK, AgentType
<1>4. StaysOpen(a, workers[a], v)
  <2>1. v.closed = W(a).closed /\ v.life = W(a).life
    BY <1>1, Values DEF WorkerType
  <2> HIDE DEF v
  <2> QED
    BY <1>1, <2>1 DEF StaysOpen
<1>5. op'[a].pc = "stop"
  BY <1>2 DEF OpType
<1> HIDE DEF n, v, HasWorker
<1>6. RowsStay
  BY <1>2, <1>3, RowsPut DEF Resident
<1>7. WorkersStay
  BY <1>2, <1>4, WorkersPut DEF SetWorker
<1>8. LockMoves(a)
  BY <1>1, <1>5 DEF LockMoves, OnWorker
<1>9. LocksMove
  BY <1>8 DEF LocksMove
<1> QED
  BY <1>6, <1>7, <1>9 DEF Calm


\* advance_queue behind a worker that is open.
LEMMA AdvanceCalm ==
  ASSUME TypeOK, AllContained, NEW a \in Agents, HasWorker(a), op[a].pc # "fork", NEW rs,
         AdvanceQueue(a, IdleAgent(agent[a]), rs, IdleWorker(W(a))), UNCHANGED <<owner, workers>>
  PROVE  Calm
<1> DEFINE ag == IdleAgent(agent[a])
           w == IdleWorker(W(a))
<1>1. workers[a] \in Gens /\ W(a) = worker[a][workers[a]]
  BY DEF HasWorker, W, TypeOK, Gens
<1>2. ag \in AgentType /\ ag.gen = agent[a].gen /\ ag.state = "idle" /\ ag.cleanup = "not_checked"
  BY Values, AgentValues DEF IdleAgent, AgentType
<1>3. w.life = W(a).life /\ w.closed = W(a).closed
  BY <1>1, Values DEF IdleWorker, Settled, WorkerType
<1>4. AdvanceQueue(a, ag, rs, w)
  OBVIOUS
<1> HIDE DEF ag, w
<1>5. CASE ~closing /\ Queued(rs, a) # {} /\ ~Exited(a, workers[a])
  <2>1. StartRun(a, NextQueued(rs, a), ag, rs, w, "settle")
    BY <1>4, <1>5 DEF AdvanceQueue
  <2> HIDE DEF HasWorker
  <2> QED
    BY <1>2, <1>3, <2>1, StartRunCalm
<1>6. CASE ~(~closing /\ Queued(rs, a) # {} /\ ~Exited(a, workers[a]))
  <2>1. SetAgent(a, ag) /\ SetWorker(a, w) /\ SetOp(a, Free) /\ UNCHANGED proc
    BY <1>4, <1>6 DEF AdvanceQueue
  <2>2. StaysOpen(a, workers[a], w)
    BY <1>1, <1>3 DEF StaysOpen
  <2>3. Free.pc = "free"
    BY DEF Free
  <2> HIDE DEF HasWorker
  <2>4. RowsStay
    BY <1>2, <2>1, RowsPut DEF Resident
  <2>5. WorkersStay
    BY <2>1, <2>2, WorkersPut DEF SetWorker
  <2>6. ProcsFade
    BY <2>1, ProcsUnmoved
  <2>7. LocksMove
    BY <2>1, <2>3, LocksPut
  <2> QED
    BY <2>4, <2>5, <2>6, <2>7 DEF Calm
<1> QED
  BY <1>5, <1>6

\* The result of a run that ends while its worker stays: the row and the worker are idle.
LEMMA IdleCalm ==
  ASSUME TypeOK, NEW a \in Agents, HasWorker(a), op[a].pc # "fork",
         SetAgent(a, IdleAgent(agent[a])), SetWorker(a, IdleWorker(W(a))), SetOp(a, Free),
         UNCHANGED <<owner, workers, proc>>
  PROVE  Calm
<1> DEFINE ag == IdleAgent(agent[a])
           w == IdleWorker(W(a))
<1>1. workers[a] \in Gens /\ W(a) = worker[a][workers[a]]
  BY DEF HasWorker, W, TypeOK, Gens
<1>2. ag.gen = agent[a].gen /\ ag.state = "idle" /\ ag.cleanup = "not_checked"
  BY Values, AgentValues DEF IdleAgent, AgentType
<1>3. w.life = W(a).life /\ w.closed = W(a).closed
  BY <1>1, Values DEF IdleWorker, Settled, WorkerType
<1>4. SetAgent(a, ag) /\ SetWorker(a, w)
  OBVIOUS
<1> HIDE DEF ag, w
<1>5. StaysOpen(a, workers[a], w)
  BY <1>1, <1>3 DEF StaysOpen
<1>6. Free.pc = "free"
  BY DEF Free
<1> HIDE DEF HasWorker
<1>7. RowsStay
  BY <1>2, <1>4, RowsPut DEF Resident
<1>8. WorkersStay
  BY <1>4, <1>5, WorkersPut DEF SetWorker
<1>9. ProcsFade
  BY ProcsUnmoved
<1>10. LocksMove
  BY <1>6, LocksPut
<1> QED
  BY <1>7, <1>8, <1>9, <1>10 DEF Calm

\* A boot that raises before it forked gives the lock back.
LEMMA AbortCalm ==
  ASSUME TypeOK, NEW a \in Agents, op[a].pc # "fork", ~ HasWorker(a), AbortBoot(a),
         UNCHANGED <<owner, workers, worker, proc>>
  PROVE  Calm
<1> DEFINE n == [agent[a] EXCEPT !.state = "crashed"]
<1>1. n.gen = agent[a].gen /\ n.state = "crashed" /\ n.cleanup = agent[a].cleanup
  BY Values DEF AgentType
<1>2. SetAgent(a, n) \/ UNCHANGED agent
  BY DEF AbortBoot
<1> HIDE DEF n, HasWorker
<1>3. RowsStay
  BY <1>1, <1>2, RowsPut, RowsUnmoved
<1>4. SetOp(a, Free) /\ Free.pc = "free"
  BY DEF AbortBoot, Free
<1> QED
  BY <1>3, <1>4, LocksPut, WorkersUnmoved, ProcsUnmoved DEF Calm

\* Only one agent's lock changes.
LEMMA HolderCalm ==
  ASSUME TypeOK, NEW a \in Agents, NEW o, SetOp(a, o), op[a].pc # "fork", o.pc # "fork",
         \/ o.pc \in {op[a].pc, "free"}
         \/ HasWorker(a) /\ o.pc \in OnWorker
         \/ op[a].pc \in BeforeFork /\ o.pc \in BeforeFork
         \/ ~ HasWorker(a) /\ o.pc = "reap"
         \/ ~ HasWorker(a) /\ o.pc \in BeforeFork /\ (agent[a].cleanup # "unknown" \/ agent[a].state = "absent"),
         UNCHANGED <<owner, agent, workers, worker, proc>>
  PROVE  Calm
<1> HIDE DEF HasWorker
<1> QED
  BY LocksPut, RowsUnmoved, WorkersUnmoved, ProcsUnmoved DEF Calm


------------------------------------------------------------------------------
(* The steps that move a generation on: naming it, forking it, registering it. *)

\* What the containment says of an agent before its boot forks.
LEMMA BootContained ==
  ASSUME TypeOK, NEW a \in Agents, Contained(a), op[a].pc \in BeforeFork
  PROVE  /\ ~ HasWorker(a) /\ agent[a].gen \in Nat
         /\ \A g \in Gens : proc[a][g].st = "forked" => op[a].pc = "fork" /\ g = agent[a].gen
<1>1. agent[a].gen \in Nat
  BY Values, BoundsAssumption DEF AgentType
<1> HIDE DEF HasWorker
<1> QED
  BY <1>1 DEF Contained, LastOpen, Placed

LEMMA BeforeSpawnContains ==
  ASSUME TypeOK, Located, AllContained, NEW a \in Agents, BeforeSpawn(a)
  PROVE  Keeps
<1> DEFINE n == [agent[a] EXCEPT !.state = "starting", !.gen = agent[a].gen + 1, !.cleanup = "pending"]
           o == [op[a] EXCEPT !.pc = "fork", !.tried = {}, !.victim = None, !.back = "free", !.vgen = 0]
<1>1. agent' = [agent EXCEPT ![a] = n] /\ op' = [op EXCEPT ![a] = o]
  BY DEF BeforeSpawn, SetAgent, SetOp
<1>2. UNCHANGED <<owner, workers, worker, proc>> /\ op[a].pc \in {"writer", "capacity"}
  BY DEF BeforeSpawn
<1>3. n.state = "starting" /\ n.gen = agent[a].gen + 1 /\ n.cleanup = "pending" /\ o.pc = "fork"
  BY Values DEF AgentType, OpType
<1> HIDE DEF n, o
<1>4. agent'[a] = n /\ op'[a] = o /\ \A b \in Agents \ {a} : agent'[b] = agent[b] /\ op'[b] = op[b]
  BY <1>1 DEF TypeOK
<1>5. Contained(a)
  BY DEF AllContained
<1>6. /\ ~ HasWorker(a) /\ agent[a].gen \in Nat /\ Gens \subseteq Nat
      /\ \A g \in Gens : proc[a][g].st # "forked"
  BY <1>2, <1>5, BootContained DEF BeforeFork, Gens
<1>7. HasWorker(a)' <=> HasWorker(a)
  BY <1>2 DEF HasWorker, W
<1> HIDE DEF HasWorker
<1>8. LastOpen(a)'
  BY <1>3, <1>4, <1>6, <1>7 DEF LastOpen, OnWorker
<1>9. Accounted(a)'
  <2> SUFFICES ASSUME NEW g \in Gens
               PROVE  /\ worker[a][g].life \notin Over =>
                           /\ g <= agent[a].gen + 1 /\ (g = agent[a].gen + 1 => workers[a] = g)
                           /\ proc[a][g].st # "none"
                      /\ ~ worker[a][g].closed => worker[a][g].life \notin Over
                      /\ worker[a][g].life = "exiting" => Exited(a, g)
    BY <1>2, <1>3, <1>4 DEF Accounted, Exited
  <2>1. Accounted(a)
    BY <1>5 DEF Contained
  <2>2. g \in Nat
    BY <1>6
  <2> HIDE DEF Exited
  <2> QED
    BY <1>6, <2>1, <2>2 DEF Accounted
<1>10. Placed(a)'
  <2> SUFFICES ASSUME NEW g \in Gens
               PROVE  /\ proc[a][g].st # "forked"
                      /\ proc[a][g].st \in {"alive", "stray"} => owner[a] = g
                      /\ owner[a] = g => proc[a][g].st \in Recorded
                      /\ proc[a][g].st # "none" => g <= agent[a].gen + 1
    BY <1>2, <1>3, <1>4 DEF Placed
  <2>1. Placed(a)
    BY <1>5 DEF Contained
  <2>2. g \in Nat
    BY <1>6
  <2> QED
    BY <1>6, <2>1, <2>2 DEF Placed
<1>11. Evident(a)'
  BY <1>3, <1>4 DEF Evident
<1>12. Contained(a)'
  BY <1>8, <1>9, <1>10, <1>11 DEF Contained
<1>14. Upholds(a)
  <2>1. Live(a)' <=> Live(a)
    BY <1>2 DEF Live
  <2> HIDE DEF Live, Unowned
  <2>2. Vouched(a) => ~ Live(a)
    BY <1>2, <1>6 DEF Vouched, BeforeFork
  <2>3. Vouched(a) => Vouched(a)'
    BY <1>3, <1>4, <2>1, <2>2 DEF Vouched, Resident
  <2> QED
    BY <1>7, <2>1, <2>3 DEF Upholds
<1>13. ASSUME NEW b \in Agents \ {a}
       PROVE  Contained(b)' /\ Upholds(b)
  <2>1. Contained(b) /\ LockMoves(b)
    BY <1>4 DEF AllContained, LockMoves
  <2> QED
    BY <1>2, <1>4, <2>1, UntouchedKept
<1> QED
  BY <1>12, <1>13, <1>14 DEF AllContained, Keeps

\* The process of the named generation.
LEMMA ForkContains ==
  ASSUME TypeOK, Located, AllContained, NEW a \in Agents, Fork(a)
  PROVE  Keeps
<1> DEFINE k == agent[a].gen
           p == [NoProc EXCEPT !.st = "forked"]
<1>1. /\ proc' = [proc EXCEPT ![a][k] = p] /\ op[a].pc = "fork" /\ proc[a][k].st = "none"
      /\ UNCHANGED <<owner, agent, workers, worker, op>>
  BY DEF Fork, SetProc, memory
<1>2. p.st = "forked"
  BY DEF NoProc
<1>3. k \in Gens /\ k \in Nat
  BY <1>1 DEF Located, LocatedAt, Gens
<1> HIDE DEF p
<1>4. /\ proc'[a][k] = p /\ \A h \in Gens \ {k} : proc'[a][h] = proc[a][h]
      /\ \A b \in Agents \ {a} : proc'[b] = proc[b]
  BY <1>1, <1>3 DEF TypeOK
<1>5. Contained(a)
  BY DEF AllContained
<1>6. /\ agent'[a].gen = k /\ agent'[a] = agent[a] /\ owner'[a] = owner[a] /\ op'[a].pc = "fork"
      /\ workers'[a] = workers[a] /\ worker'[a] = worker[a]
  BY <1>1
<1>7. HasWorker(a)' <=> HasWorker(a)
  BY <1>1 DEF HasWorker, W
<1>8. LastOpen(a)'
  <2> HIDE DEF HasWorker, k
  <2> QED
    BY <1>1, <1>5, <1>7 DEF Contained, LastOpen
<1>9. Accounted(a)'
  <2> SUFFICES ASSUME NEW g \in Gens
               PROVE  /\ worker[a][g].life \notin Over =>
                           g <= k /\ (g = k => workers[a] = g) /\ proc'[a][g].st # "none"
                      /\ ~ worker[a][g].closed => worker[a][g].life \notin Over
                      /\ worker[a][g].life = "exiting" => Exited(a, g)'
    BY <1>6 DEF Accounted
  <2>1. /\ worker[a][g].life \notin Over => g <= k /\ (g = k => workers[a] = g) /\ proc[a][g].st # "none"
        /\ ~ worker[a][g].closed => worker[a][g].life \notin Over
        /\ worker[a][g].life = "exiting" => Exited(a, g)
    BY <1>5 DEF Contained, Accounted
  <2>2. CASE g = k
    BY <1>1, <2>1, <2>2 DEF Over
  <2>3. CASE g # k
    BY <1>4, <2>1, <2>3 DEF Exited
  <2> QED
    BY <2>2, <2>3
<1>10. Placed(a)'
  <2> SUFFICES ASSUME NEW g \in Gens
               PROVE  /\ proc'[a][g].st = "forked" => g = k
                      /\ proc'[a][g].st \in {"alive", "stray"} => owner[a] = g
                      /\ owner[a] = g => proc'[a][g].st \in Recorded
                      /\ proc'[a][g].st # "none" => g <= k
    <3> HIDE DEF HasWorker
    <3> QED
      BY <1>6 DEF Placed
  <2>1. CASE g = k
    BY <1>1, <1>2, <1>3, <1>4, <1>5, <2>1 DEF Contained, Placed, Recorded
  <2>2. CASE g # k
    BY <1>4, <1>5, <2>2 DEF Contained, Placed
  <2> QED
    BY <2>1, <2>2
<1>11. Evident(a)'
  <2>1. agent[a].cleanup = "pending" /\ (agent[a].gen > 0 => agent[a].state # "absent")
    BY <1>1, <1>5 DEF Contained, Evident
  <2> QED
    BY <1>6, <2>1 DEF Evident
<1>12. Contained(a)'
  BY <1>8, <1>9, <1>10, <1>11 DEF Contained
<1>14. Upholds(a)
  <2>1. Vouched(a) => Vouched(a)'
    <3> HIDE DEF Live, HasWorker
    <3> QED
      BY <1>1, <1>2, <1>3, <1>4, <1>6, <1>7 DEF Vouched
  <2> HIDE DEF Live, HasWorker, Unowned
  <2> QED
    BY <1>1, <2>1 DEF Upholds
<1>13. ASSUME NEW b \in Agents \ {a}
       PROVE  Contained(b)' /\ Upholds(b)
  <2>1. Contained(b) /\ LockMoves(b)
    BY <1>1 DEF AllContained, LockMoves
  <2> QED
    BY <1>1, <1>4, <2>1, UntouchedKept
<1> QED
  BY <1>12, <1>13, <1>14 DEF AllContained, Keeps

\* A fork that fails left no process of the generation it named.
LEMMA ForkFailsContains ==
  ASSUME TypeOK, Located, AllContained, NEW a \in Agents, ForkFails(a)
  PROVE  Keeps
<1>1. /\ SetOp(a, Free) /\ op[a].pc = "fork" /\ proc[a][agent[a].gen].st = "none"
      /\ UNCHANGED <<owner, agent, workers, worker, proc>>
  BY DEF ForkFails
<1>2. op'[a].pc = "free" /\ \A b \in Agents \ {a} : op'[b] = op[b]
  BY <1>1 DEF SetOp, TypeOK, Free
<1>3. Contained(a)
  BY DEF AllContained
<1>4. HasWorker(a)' <=> HasWorker(a)
  BY <1>1 DEF HasWorker, W
<1>5. Live(a)' <=> Live(a)
  BY <1>1 DEF Live
<1>6. \A g \in Gens : Exited(a, g)' <=> Exited(a, g)
  BY <1>1 DEF Exited
<1>7. \A g \in Gens : proc[a][g].st # "forked"
  BY <1>1, <1>3 DEF Contained, Placed
<1> HIDE DEF HasWorker, Live, Exited, Unowned
<1>8. LastOpen(a)' /\ Accounted(a)' /\ Placed(a)' /\ Evident(a)'
  BY <1>1, <1>2, <1>3, <1>4, <1>5, <1>6, <1>7
     DEF Contained, LastOpen, Accounted, Placed, Evident, BeforeFork, OnWorker
<1>10. Upholds(a)
  <2>1. Vouched(a) => Vouched(a)'
    BY <1>1, <1>2, <1>4, <1>5 DEF Vouched, BeforeFork
  <2> QED
    BY <1>1, <1>2, <1>4, <1>5, <2>1 DEF Upholds
<1>9. ASSUME NEW b \in Agents \ {a}
      PROVE  Contained(b)' /\ Upholds(b)
  <2>1. Contained(b) /\ LockMoves(b)
    BY <1>2 DEF AllContained, LockMoves
  <2> QED
    BY <1>1, <2>1, UntouchedKept
<1> QED
  BY <1>8, <1>9, <1>10 DEF AllContained, Contained, Keeps

\* The Worker of the forked generation.
LEMMA RegisterContains ==
  ASSUME TypeOK, Located, AllContained, NEW a \in Agents, Register(a)
  PROVE  Keeps
<1> DEFINE k == agent[a].gen
           n == [agent[a] EXCEPT !.pid = agent[a].gen]
           o == [op[a] EXCEPT !.pc = "ready"]
<1>1. /\ agent' = [agent EXCEPT ![a] = n] /\ op' = [op EXCEPT ![a] = o]
      /\ worker' = [worker EXCEPT ![a][k] = NewWorker] /\ workers' = [workers EXCEPT ![a] = k]
      /\ op[a].pc = "fork" /\ proc[a][k].st # "none" /\ UNCHANGED <<owner, proc>>
  BY DEF Register, SetAgent, SetOp
<1>2. n.state = agent[a].state /\ n.gen = k /\ n.cleanup = agent[a].cleanup /\ o.pc = "ready"
  BY Values DEF AgentType, OpType
<1>3. k \in Gens /\ k \in Nat \ {0}
  BY <1>1 DEF Located, LocatedAt, Gens
<1> HIDE DEF n, o
<1>4. /\ agent'[a] = n /\ op'[a] = o /\ workers'[a] = k
      /\ worker'[a][k] = NewWorker /\ \A h \in Gens \ {k} : worker'[a][h] = worker[a][h]
      /\ \A b \in Agents \ {a} : /\ agent'[b] = agent[b] /\ op'[b] = op[b] /\ workers'[b] = workers[b]
                                 /\ worker'[b] = worker[b]
  BY <1>1, <1>3 DEF TypeOK
<1>5. Contained(a)
  BY DEF AllContained
<1>6. NewWorker.closed = FALSE /\ NewWorker.life = "reading"
  BY DEF NewWorker, NoWorker
<1>7. HasWorker(a)'
  BY <1>3, <1>4, <1>6 DEF HasWorker, W
<1>8. LastOpen(a)'
  <2> HIDE DEF HasWorker, k
  <2> QED
    BY <1>2, <1>3, <1>4, <1>7 DEF LastOpen, BeforeFork
<1>9. Accounted(a)'
  <2> SUFFICES ASSUME NEW g \in Gens
               PROVE  /\ worker'[a][g].life \notin Over => g <= k /\ proc[a][g].st # "none"
                      /\ ~ worker'[a][g].closed => worker'[a][g].life \notin Over
                      /\ worker'[a][g].life = "exiting" => Exited(a, g)
    <3> HIDE DEF k
    <3> QED
      BY <1>1, <1>2, <1>4 DEF Accounted, Exited
  <2>1. CASE g = k
    BY <1>1, <1>3, <1>4, <1>6, <2>1 DEF Over
  <2>2. CASE g # k
    BY <1>4, <1>5, <2>2 DEF Contained, Accounted
  <2> QED
    BY <2>1, <2>2
<1>10. Placed(a)'
  <2>1. Placed(a)
    BY <1>5 DEF Contained
  <2> HIDE DEF HasWorker
  <2> QED
    BY <1>1, <1>2, <1>4, <1>7, <2>1 DEF Placed
<1>11. Evident(a)'
  <2>1. agent[a].cleanup = "pending" /\ (k > 0 => agent[a].state # "absent")
    BY <1>1, <1>5 DEF Contained, Evident
  <2> HIDE DEF k
  <2> QED
    BY <1>2, <1>4, <2>1 DEF Evident
<1>12. Contained(a)'
  BY <1>8, <1>9, <1>10, <1>11 DEF Contained
<1>14. Upholds(a)
  <2>1. Live(a)' <=> Live(a)
    BY <1>1 DEF Live
  <2> HIDE DEF Live, HasWorker, Unowned
  <2>2. Vouched(a) => Vouched(a)'
    BY <1>1, <1>2, <1>4, <1>7, <2>1 DEF Vouched, BeforeFork
  <2> QED
    BY <1>1, <1>2, <1>4, <2>1, <2>2 DEF Upholds
<1>13. ASSUME NEW b \in Agents \ {a}
       PROVE  Contained(b)' /\ Upholds(b)
  <2>1. Contained(b) /\ LockMoves(b)
    BY <1>4 DEF AllContained, LockMoves
  <2> QED
    BY <1>1, <1>4, <2>1, UntouchedKept
<1> QED
  BY <1>12, <1>13, <1>14 DEF AllContained, Keeps


\* Boots: everything else only moves the lock, or interrupts the victim of an eviction.
LEMMA BootContains ==
  ASSUME TypeOK, Located, AllContained, NEW a \in Agents, Boot(a)
  PROVE  Keeps
<1>0. Contained(a)
  BY DEF AllContained
<1>1. CASE Spawn(a)
  <2> DEFINE o == [Free EXCEPT !.kind = "spawn", !.pc = "admit"]
  <2>1. SetOp(a, o) /\ op[a].pc = "free" /\ UNCHANGED <<owner, agent, workers, worker, proc>>
    BY <1>1 DEF Spawn, LockFree
  <2>2. o.pc = "admit"
    BY DEF Free
  <2>3. agent[a].state = "absent"
    BY <1>1 DEF Spawn
  <2>5. ~ HasWorker(a)
    <3>1. agent[a].gen \in Nat /\ ~(agent[a].gen > 0)
      BY <1>0, <1>1, Values, BoundsAssumption DEF Spawn, Contained, Evident, AgentType
    <3>2. HasWorker(a) => workers[a] = agent[a].gen /\ workers[a] # 0
      BY <1>0 DEF Contained, LastOpen, HasWorker
    <3> HIDE DEF HasWorker
    <3> QED
      BY <3>1, <3>2
  <2> HIDE DEF o, HasWorker
  <2>4. Calm
    BY <2>1, <2>2, <2>3, <2>5, HolderCalm DEF BeforeFork
  <2> QED
    BY <2>4, CalmKeeps
<1>2. CASE Admit(a) \/ AdmitWriter(a) \/ \E b \in Agents : PickVictim(a, b)
  <2>1. PICK o : /\ SetOp(a, o) /\ op[a].pc \in BeforeFork \ {"fork"} /\ o.pc \in BeforeFork \ {"fork"}
                 /\ UNCHANGED <<owner, agent, workers, worker, proc>>
    <3>1. CASE Admit(a)
      <4>1. [op[a] EXCEPT !.pc = IF op[a].kind = "spawn" THEN "writer" ELSE "capacity"].pc
              \in {"writer", "capacity"}
        BY Values DEF OpType
      <4> QED
        BY <3>1, <4>1 DEF Admit, BeforeFork
    <3>2. CASE AdmitWriter(a)
      <4>1. [op[a] EXCEPT !.pc = "writer"].pc = "writer"
        BY Values DEF OpType
      <4> QED
        BY <3>2, <4>1 DEF AdmitWriter, BeforeFork
    <3>3. ASSUME NEW b \in Agents, PickVictim(a, b)
          PROVE  \E o : /\ SetOp(a, o) /\ op[a].pc \in BeforeFork \ {"fork"} /\ o.pc \in BeforeFork \ {"fork"}
                        /\ UNCHANGED <<owner, agent, workers, worker, proc>>
      <4>1. [op[a] EXCEPT !.pc = "lock", !.victim = b, !.vgen = workers[b],
                          !.back = op[a].pc, !.tried = op[a].tried \cup {b}].pc = "lock"
        BY Values DEF OpType
      <4> QED
        BY <3>3, <4>1 DEF PickVictim, BeforeFork
    <3> QED
      BY <1>2, <3>1, <3>2, <3>3
  <2>2. Calm
    <3> HIDE DEF HasWorker
    <3> QED
      BY <2>1, HolderCalm DEF BeforeFork
  <2> QED
    BY <2>2, CalmKeeps
<1>3. ASSUME NEW r \in Runs, SpawnInsert(a, r)
      PROVE  Keeps
  <2> DEFINE n == [agent[a] EXCEPT !.state = "starting"]
             o == [op[a] EXCEPT !.pc = "capacity", !.tried = {}]
  <2>1. SetAgent(a, n) /\ SetOp(a, o) /\ op[a].pc = "writer" /\ UNCHANGED <<owner, workers, worker, proc>>
    BY <1>3 DEF SpawnInsert
  <2>2. n.state = "starting" /\ n.gen = agent[a].gen /\ n.cleanup = agent[a].cleanup /\ o.pc = "capacity"
    BY Values DEF AgentType, OpType
  <2> HIDE DEF n, o, HasWorker
  <2>3. RowsStay
    BY <2>1, <2>2, RowsPut DEF Resident
  <2>4. LocksMove
    BY <2>1, <2>2, LocksPut DEF BeforeFork
  <2>5. Calm
    BY <2>1, <2>3, <2>4, WorkersUnmoved, ProcsUnmoved DEF Calm
  <2> QED
    BY <2>5, CalmKeeps
<1>4. CASE LockVictim(a)
  <2> DEFINE b == op[a].victim
             o == [op EXCEPT ![a].pc = "victim", ![b].kind = "evict"]
  <2>1. op[a].pc = "lock" /\ op[b].pc = "free" /\ BeginInterrupt(b, o) /\ UNCHANGED <<workers, owner, proc>>
    BY <1>4 DEF LockVictim
  <2>2. b \in Agents /\ b # a
    BY <2>1 DEF Located, LocatedAt
  <2>3. o \in [Agents -> OpType]
    <3>1. op \in [Agents -> OpType]
      BY DEF TypeOK
    <3>2. \A c \in Agents : o[c] \in OpType
      BY <2>2, <3>1 DEF OpType, Kinds, Steps
    <3>3. o = [c \in Agents |-> o[c]]
      BY <3>1
    <3> HIDE DEF o
    <3> QED
      BY <3>2, <3>3
  <2>4. o[a].pc = "victim" /\ \A c \in Agents \ {a, b} : o[c] = op[c]
    BY <2>2 DEF TypeOK, OpType
  <2>5. op' = [o EXCEPT ![b].pc = "stop"]
    BY <2>1 DEF BeginInterrupt
  <2> HIDE DEF o, b
  <2>6. op'[a].pc = "victim" /\ \A c \in Agents \ {a, b} : op'[c] = op[c]
    BY <2>2, <2>3, <2>4, <2>5
  <2>7. \A c \in Agents \ {b} : LockMoves(c)
    <3> HIDE DEF HasWorker
    <3> QED
      BY <2>1, <2>6 DEF LockMoves, BeforeFork
  <2>8. ProcsFade
    BY <2>1, ProcsUnmoved
  <2>9. op[b].pc # "fork" /\ UNCHANGED <<workers, owner>>
    BY <2>1
  <2>10. Calm
    BY <2>1, <2>2, <2>3, <2>7, <2>8, <2>9, InterruptCalm
  <2> QED
    BY <2>10, CalmKeeps
<1>5. CASE SkipVictim(a) \/ BootRefused(a) \/ EvictionRefused(a)
  <2>1. op[a].pc # "fork" /\ UNCHANGED <<owner, workers, worker, proc>>
    BY <1>5 DEF SkipVictim, BootRefused, EvictionRefused
  <2>2. CASE AbortBoot(a)
    <3>1. op[a].pc \in BeforeFork
      BY <1>5 DEF SkipVictim, BootRefused, EvictionRefused, BeforeFork
    <3>2. ~ HasWorker(a)
      BY <1>0, <3>1, BootContained
    <3> QED
      BY <2>1, <2>2, <3>2, AbortCalm, CalmKeeps
  <2>3. CASE ~ AbortBoot(a)
    <3> DEFINE o == [op[a] EXCEPT !.pc = "capacity"]
    <3>1. SetOp(a, o) /\ op[a].pc = "lock" /\ UNCHANGED agent
      BY <1>5, <2>3 DEF SkipVictim, BootRefused, EvictionRefused
    <3>2. o.pc = "capacity"
      BY Values DEF OpType
    <3> HIDE DEF o, HasWorker
    <3>3. Calm
      BY <2>1, <3>1, <3>2, HolderCalm DEF BeforeFork
    <3> QED
      BY <3>3, CalmKeeps
  <2> QED
    BY <2>2, <2>3
<1>6. CASE ReadyOk(a)
  <2> DEFINE ag == [agent[a] EXCEPT !.state = "idle", !.cleanup = "not_checked"]
  <2>1. op[a].pc = "ready" /\ UNCHANGED <<owner, workers>>
    BY <1>6 DEF ReadyOk
  <2>2. HasWorker(a)
    BY <1>0, <2>1 DEF Contained, LastOpen
  <2>3. ag \in AgentType /\ ag.gen = agent[a].gen /\ ag.cleanup = "not_checked" /\ ag.state = "idle"
    BY Values DEF AgentType, AgentStates, Resident, Cleanups
  <2>4. \/ \E r, rs, k : StartRun(a, r, ag, rs, W(a), k)
        \/ SetAgent(a, ag) /\ SetOp(a, Free) /\ UNCHANGED <<worker, proc>>
    BY <1>6 DEF ReadyOk
  <2> HIDE DEF ag
  <2>5. ASSUME NEW r, NEW rs, NEW k, StartRun(a, r, ag, rs, W(a), k)
        PROVE  Calm
    <3> HIDE DEF HasWorker
    <3> QED
      BY <2>1, <2>2, <2>3, <2>5, StartRunCalm
  <2>6. CASE SetAgent(a, ag) /\ SetOp(a, Free) /\ UNCHANGED <<worker, proc>>
    <3>1. Free.pc = "free"
      BY DEF Free
    <3>2. RowsStay
      BY <2>1, <2>2, <2>3, <2>6, RowsPut DEF Resident
    <3>3. LocksMove
      BY <2>1, <2>6, <3>1, LocksPut
    <3>4. WorkersStay
      BY <2>6, WorkersUnmoved
    <3>5. ProcsFade
      BY <2>1, <2>6, ProcsUnmoved
    <3> QED
      BY <3>2, <3>3, <3>4, <3>5, CalmKeeps DEF Calm
  <2> QED
    BY <2>4, <2>5, <2>6, CalmKeeps
<1>7. CASE ReadyFails(a)
  <2> DEFINE v == [W(a) EXCEPT !.stopping = TRUE]
             o == [op[a] EXCEPT !.pc = "unboot"]
  <2>1. SetWorker(a, v) /\ SetOp(a, o) /\ op[a].pc = "ready" /\ UNCHANGED <<owner, agent, workers, proc>>
    BY <1>7 DEF ReadyFails
  <2>2. HasWorker(a)
    BY <1>0, <2>1 DEF Contained, LastOpen
  <2>3. workers[a] \in Gens /\ W(a) = worker[a][workers[a]]
    BY <2>2 DEF HasWorker, W, TypeOK, Gens
  <2>4. v.closed = W(a).closed /\ v.life = W(a).life /\ o.pc = "unboot"
    BY <2>3, Values DEF WorkerType, OpType
  <2> HIDE DEF v, o, HasWorker
  <2>5. StaysOpen(a, workers[a], v)
    BY <2>3, <2>4 DEF StaysOpen
  <2>6. WorkersStay
    BY <2>1, <2>5, WorkersPut DEF SetWorker
  <2>7. LocksMove
    BY <2>1, <2>2, <2>4, LocksPut DEF OnWorker
  <2>8. Calm
    BY <2>1, <2>6, <2>7, RowsUnmoved, ProcsUnmoved DEF Calm
  <2> QED
    BY <2>8, CalmKeeps
<1>8. CASE BeforeSpawn(a) \/ Fork(a) \/ ForkFails(a) \/ Register(a)
  BY <1>8, BeforeSpawnContains, ForkContains, ForkFailsContains, RegisterContains
<1> QED
  BY <1>1, <1>2, <1>3, <1>4, <1>5, <1>6, <1>7, <1>8 DEF Boot


------------------------------------------------------------------------------
(* Terminations.  What they report as verified they prove. *)

\* What a termination leaves of the process it stopped, and what verified means of the others.
LEMMA OutcomeProves ==
  ASSUME TypeOK, NEW a \in Agents, Contained(a), op[a].pc \in {"stop", "unboot"}, NEW o \in StopOutcomes(a)
  PROVE  LET k == workers[a] IN
         /\ k \in Gens /\ k = agent[a].gen
         /\ Dies(proc[a][k], [st |-> o.st]) \/ (proc[a][k].st = "alive" /\ o.st = "alive")
         /\ o.st = "forked" => ~ o.attempted /\ HasWorker(a)
         /\ o.cleanup = "verified" =>
              /\ o.attempted
              /\ o.st \notin {"forked", "alive", "stray"}
              /\ \A g \in Gens \ {k} : proc[a][g].st \notin {"forked", "alive", "stray"}
<1> DEFINE k == workers[a]
           st == proc[a][k].st
           killed == CASE st = "forked" -> "refused" [] st = "alive" -> "gone" [] OTHER -> st
<1>1. k \in Gens /\ k = agent[a].gen
  <2>1. k # 0 /\ k = agent[a].gen
    BY DEF Contained, LastOpen, OnWorker
  <2> QED
    BY <2>1 DEF TypeOK, Gens
<1>2. /\ st \in ProcStates /\ killed \in ProcStates \ {"forked", "alive"}
      /\ st = "forked" => killed = "refused"
      /\ st = "alive" => killed = "gone"
      /\ st \notin {"forked", "alive"} => killed = st
  BY <1>1, Values DEF ProcType, ProcStates
<1>3. /\ o.st \in ProcStates
      /\ \/ o.attempted /\ o.st = killed /\ (o.cleanup = "verified" => Provable(a))
         \/ o.cleanup = "unknown" /\ o.attempted /\ o.st \in {killed} \cup (IF st = "alive" THEN {"alive", "stray"} ELSE {})
         \/ o.cleanup = "unknown" /\ ~ o.attempted /\ o.st = st
  BY DEF StopOutcomes
<1>4. st = "forked" => HasWorker(a)
  BY <1>1 DEF Contained, Placed
<1>5. ASSUME NEW g \in Gens \ {k}, Provable(a)
      PROVE  proc[a][g].st \notin {"forked", "alive", "stray"}
  <2>1. owner[a] \in {0, k} \/ proc[a][owner[a]].st = "gone"
    BY <1>5 DEF Provable
  <2>2. proc[a][g].st = "forked" => g = k
    BY <1>1 DEF Contained, Placed
  <2>3. proc[a][g].st \in {"alive", "stray"} => owner[a] = g
    BY DEF Contained, Placed
  <2>4. g # 0 /\ g # k
    BY DEF Gens
  <2> QED
    BY <2>1, <2>2, <2>3, <2>4
<1>6. Provable(a) => st # "stray"
  BY DEF Provable
<1> HIDE DEF st, killed, HasWorker
<1>7. o.st = st \/ (st = "forked" /\ o.st = "refused") \/ (st = "alive" /\ o.st \in {"alive", "stray", "gone"})
  BY <1>2, <1>3
<1>8. o.st = "forked" => ~ o.attempted /\ HasWorker(a)
  BY <1>2, <1>3, <1>4
<1>9. o.cleanup = "verified" => o.attempted /\ Provable(a) /\ o.st \notin {"forked", "alive", "stray"}
  BY <1>2, <1>3, <1>6
<1> QED
  BY <1>1, <1>5, <1>7, <1>8, <1>9 DEF st, Dies

LEMMA StopContains ==
  ASSUME TypeOK, Located, AllContained, NEW a \in Agents, op[a].pc \in {"stop", "unboot"}, NEW o \in StopOutcomes(a),
         NEW w, NEW n, SetProc(a, workers[a], Stopped(proc[a][workers[a]], o.st)), SetWorker(a, w), SetAgent(a, n),
         w.closed = (W(a).closed \/ o.attempted), w.life = W(a).life,
         n.gen = agent[a].gen, n.cleanup = o.cleanup, n.state = "absent" => agent[a].state = "absent",
         op'[a].pc = "free" \/ (op'[a].pc = "admit" /\ o.cleanup = "verified"),
         \A b \in Agents \ {a} : LockMoves(b), UNCHANGED <<owner, workers>>
  PROVE  Keeps
<1> DEFINE k == workers[a]
           p == Stopped(proc[a][k], o.st)
<1>1. Contained(a)
  BY DEF AllContained
<1>2. /\ k \in Gens /\ k = agent[a].gen
      /\ Dies(proc[a][k], [st |-> o.st]) \/ (proc[a][k].st = "alive" /\ o.st = "alive")
      /\ o.st = "forked" => ~ o.attempted /\ HasWorker(a)
      /\ o.cleanup = "verified" =>
           /\ o.attempted
           /\ o.st \notin {"forked", "alive", "stray"}
           /\ \A g \in Gens \ {k} : proc[a][g].st \notin {"forked", "alive", "stray"}
  BY <1>1, OutcomeProves
<1>3. p.st = o.st
  BY <1>2, Values DEF Stopped, ProcType
<1>4. /\ proc'[a][k] = p /\ \A h \in Gens \ {k} : proc'[a][h] = proc[a][h]
      /\ worker'[a][k] = w /\ \A h \in Gens \ {k} : worker'[a][h] = worker[a][h]
      /\ agent'[a] = n
      /\ \A b \in Agents \ {a} : proc'[b] = proc[b] /\ worker'[b] = worker[b] /\ agent'[b] = agent[b]
  BY <1>2 DEF SetProc, SetWorker, SetAgent, TypeOK
<1> HIDE DEF p
<1>5. W(a) = worker[a][k] /\ W(a).closed \in BOOLEAN
  BY <1>2, Values DEF W, WorkerType
<1>6. HasWorker(a)' <=> HasWorker(a) /\ ~ o.attempted
  BY <1>2, <1>4, <1>5 DEF HasWorker, W, Gens
<1>7. Live(a)' <=> o.st \in {"forked", "alive", "stray"}
                   \/ \E g \in Gens \ {k} : proc[a][g].st \in {"forked", "alive", "stray"}
  BY <1>2, <1>3, <1>4 DEF Live
<1>8. LastOpen(a)'
  <2> HIDE DEF HasWorker, k
  <2> QED
    BY <1>1, <1>2, <1>4, <1>6 DEF Contained, LastOpen, OnWorker, BeforeFork
<1>9. Accounted(a)'
  <2> SUFFICES ASSUME NEW g \in Gens
               PROVE  /\ worker'[a][g].life \notin Over =>
                           /\ g <= agent[a].gen /\ (g = agent[a].gen => workers[a] = g)
                           /\ proc'[a][g].st # "none"
                      /\ ~ worker'[a][g].closed => worker'[a][g].life \notin Over
                      /\ worker'[a][g].life = "exiting" => Exited(a, g)'
    BY <1>4 DEF Accounted
  <2>1. /\ worker[a][g].life \notin Over =>
             g <= agent[a].gen /\ (g = agent[a].gen => workers[a] = g) /\ proc[a][g].st # "none"
        /\ ~ worker[a][g].closed => worker[a][g].life \notin Over
        /\ worker[a][g].life = "exiting" => Exited(a, g)
    BY <1>1 DEF Contained, Accounted
  <2>2. CASE g = k
    <3>1. worker'[a][g].life = worker[a][g].life /\ (worker[a][g].closed => worker'[a][g].closed)
      BY <1>4, <1>5, <2>2
    <3>2. (proc[a][g].st # "none" => proc'[a][g].st # "none") /\ (Exited(a, g) => Exited(a, g)')
      BY <1>2, <1>3, <1>4, <2>2 DEF Dies, Exited
    <3> HIDE DEF Exited
    <3> QED
      BY <2>1, <3>1, <3>2
  <2>3. CASE g # k
    BY <1>4, <2>1, <2>3 DEF Exited
  <2> QED
    BY <2>2, <2>3
<1>10. Placed(a)'
  <2> SUFFICES ASSUME NEW g \in Gens
               PROVE  /\ proc'[a][g].st = "forked" => g = k /\ HasWorker(a)'
                      /\ proc'[a][g].st \in {"alive", "stray"} => owner[a] = g
                      /\ owner[a] = g => proc'[a][g].st \in Recorded
                      /\ proc'[a][g].st # "none" => g <= k
    <3> HIDE DEF HasWorker, k
    <3> QED
      BY <1>2, <1>4 DEF Placed
  <2>1. /\ proc[a][g].st = "forked" => g = k
        /\ proc[a][g].st \in {"alive", "stray"} => owner[a] = g
        /\ owner[a] = g => proc[a][g].st \in Recorded
        /\ proc[a][g].st # "none" => g <= k
    BY <1>1, <1>2 DEF Contained, Placed
  <2>2. CASE g = k
    <3> HIDE DEF HasWorker
    <3> QED
      BY <1>2, <1>3, <1>4, <1>6, <2>1, <2>2 DEF Dies, Gens, Recorded
  <2>3. CASE g # k
    <3> HIDE DEF HasWorker
    <3> QED
      BY <1>4, <2>1, <2>3
  <2> QED
    BY <2>2, <2>3
<1>11. Evident(a)'
  <2>1. agent[a].gen > 0 => agent[a].state # "absent"
    BY <1>1 DEF Contained, Evident
  <2>2. o.cleanup = "verified" => ~ Live(a)'
    BY <1>2, <1>7
  <2> HIDE DEF Live
  <2> QED
    BY <1>4, <2>1, <2>2 DEF Evident
<1>12. Contained(a)'
  BY <1>8, <1>9, <1>10, <1>11 DEF Contained
<1>14. Upholds(a)
  <2>1. Live(a)' => Live(a)
    <3>1. o.st \in {"forked", "alive", "stray"} => proc[a][k].st \in {"forked", "alive", "stray"}
      BY <1>2 DEF Dies
    <3> QED
      BY <1>2, <1>7, <3>1 DEF Live
  <2>2. agent[a].state # "absent"
    BY <1>1, <1>2, BoundsAssumption DEF Contained, Evident, Gens
  <2> HIDE DEF Live, HasWorker
  <2> QED
    BY <1>4, <1>6, <1>11, <2>1, <2>2, UpheldDecided DEF BeforeFork, StopOutcomes
<1>13. ASSUME NEW b \in Agents \ {a}
       PROVE  Contained(b)' /\ Upholds(b)
  <2>1. Contained(b) /\ LockMoves(b)
    BY DEF AllContained
  <2> QED
    BY <1>4, <2>1, UntouchedKept
<1> QED
  BY <1>12, <1>13, <1>14 DEF AllContained, Keeps


\* The end of terminate_worker, with or without a boot behind it.
LEMMA StopsContain ==
  ASSUME TypeOK, Located, AllContained, NEW a \in Agents, Stop(a)
  PROVE  Keeps
<1>1. PICK o \in [cleanup: {"verified", "unknown"}, attempted: BOOLEAN, st: ProcStates] :
        StopDone(a, o) \/ UnbootDone(a, o)
  BY DEF Stop
<1>2. op[a].pc \in {"stop", "unboot"} /\ o \in StopOutcomes(a) /\ UNCHANGED <<owner, workers>>
  BY <1>1 DEF StopDone, UnbootDone
<1>3. workers[a] \in Gens /\ W(a) \in WorkerType /\ agent[a] \in AgentType
  BY <1>2, OutcomeProves, Values DEF AllContained
<1>4. CASE StopDone(a, o)
  <2> DEFINE w == [(IF EndsWith(a, op[a].kind) = {} THEN W(a) ELSE Settled(W(a)))
                     EXCEPT !.closed = W(a).closed \/ o.attempted, !.stopping = TRUE]
             n == [agent[a] EXCEPT !.state = StateAfterStop(op[a].kind, o.cleanup),
                                   !.current = NoRun, !.cleanup = o.cleanup]
  <2>1. /\ SetProc(a, workers[a], Stopped(proc[a][workers[a]], o.st)) /\ SetWorker(a, w) /\ SetAgent(a, n)
        /\ op[a].pc = "stop"
    BY <1>4 DEF StopDone
  <2>2. w.closed = (W(a).closed \/ o.attempted) /\ w.life = W(a).life
    BY <1>3 DEF WorkerType, Settled
  <2>3. n.gen = agent[a].gen /\ n.cleanup = o.cleanup /\ n.state # "absent"
    BY <1>3 DEF AgentType, StateAfterStop
  <2>4. \A b \in Agents : op'[b] =
          IF b = a THEN IF op[a].kind = "send_interrupt" /\ o.cleanup = "verified"
                        THEN [Free EXCEPT !.kind = op[a].kind, !.pc = "admit"] ELSE Free
          ELSE IF op[a].kind = "evict" /\ op[b].pc = "victim" /\ op[b].victim = a
          THEN IF op[b].back = "writer" /\ o.cleanup # "verified"
               THEN [op[b] EXCEPT !.pc = "refused"] ELSE [op[b] EXCEPT !.pc = op[b].back]
          ELSE op[b]
    BY <1>4 DEF StopDone
  <2>5. op'[a].pc = "free" \/ (op'[a].pc = "admit" /\ o.cleanup = "verified")
    <3>1. Free.pc = "free" /\ [Free EXCEPT !.kind = op[a].kind, !.pc = "admit"].pc = "admit"
      BY DEF Free
    <3> QED
      BY <2>4, <3>1
  <2>6. ASSUME NEW b \in Agents \ {a}
        PROVE  LockMoves(b)
    <3>1. /\ op[b].back \in {"free", "capacity", "writer"}
          /\ [op[b] EXCEPT !.pc = "refused"].pc = "refused"
          /\ [op[b] EXCEPT !.pc = op[b].back].pc = op[b].back
      BY Values DEF OpType
    <3>2. \/ op'[b].pc = op[b].pc
          \/ op[b].pc = "victim" /\ op'[b].pc \in {"refused", "free", "capacity", "writer"}
      BY <2>4, <3>1
    <3> HIDE DEF HasWorker
    <3> QED
      BY <3>2 DEF LockMoves, BeforeFork
  <2> HIDE DEF w, n
  <2> QED
    BY <1>2, <2>1, <2>2, <2>3, <2>5, <2>6, StopContains
<1>5. CASE UnbootDone(a, o)
  <2> DEFINE w == [W(a) EXCEPT !.closed = W(a).closed \/ o.attempted]
             n == [agent[a] EXCEPT !.cleanup = o.cleanup,
                                   !.state = IF op[a].kind = "spawn" THEN "crashed" ELSE agent[a].state]
  <2>1. /\ SetProc(a, workers[a], Stopped(proc[a][workers[a]], o.st)) /\ SetWorker(a, w) /\ SetAgent(a, n)
        /\ SetOp(a, Free) /\ op[a].pc = "unboot"
    BY <1>5 DEF UnbootDone
  <2>2. w.closed = (W(a).closed \/ o.attempted) /\ w.life = W(a).life
    BY <1>3 DEF WorkerType
  <2>3. n.gen = agent[a].gen /\ n.cleanup = o.cleanup /\ (n.state = "absent" => agent[a].state = "absent")
    BY <1>3 DEF AgentType
  <2>4. op'[a].pc = "free" /\ \A b \in Agents \ {a} : op'[b] = op[b]
    BY <2>1 DEF SetOp, TypeOK, Free
  <2>5. \A b \in Agents \ {a} : LockMoves(b)
    BY <2>4 DEF LockMoves
  <2> HIDE DEF w, n
  <2> QED
    BY <1>2, <2>1, <2>2, <2>3, <2>4, <2>5, StopContains
<1> QED
  BY <1>1, <1>4, <1>5

------------------------------------------------------------------------------
(* Client mutations. *)

(* close_agent and confirm_cleanup, once the owner on record is gone: an agent without a worker
   has no process left. *)
LEMMA ClosedContains ==
  ASSUME TypeOK, Located, AllContained, NEW a \in Agents, ~ HasWorker(a), op[a].pc \in {"free", "reap"}, NEW n, SetAgent(a, n),
         n.gen = agent[a].gen, n.state # "absent", n.cleanup \in {"verified", "unknown"}, op'[a].pc = "free", \A b \in Agents \ {a} : op'[b] = op[b],
         UNCHANGED <<owner, workers, worker>>,
         \A h \in Gens : /\ proc'[a][h].st = proc[a][h].st
                            \/ (owner[a] = h /\ proc'[a][h].st = "gone")
                         /\ n.cleanup = "verified" /\ owner[a] = h => proc'[a][h].st = "gone",
         \A b \in Agents \ {a} : proc'[b] = proc[b]
  PROVE  Keeps
<1>1. Contained(a)
  BY DEF AllContained
<1>2. agent'[a] = n /\ \A b \in Agents \ {a} : agent'[b] = agent[b]
  BY DEF SetAgent, TypeOK
<1>3. HasWorker(a)' <=> HasWorker(a)
  BY DEF HasWorker, W
<1>4. LastOpen(a)'
  <2> HIDE DEF HasWorker
  <2> QED
    BY <1>2, <1>3 DEF LastOpen, OnWorker
<1>5. \A h \in Gens : proc[a][h].st # "forked"
  <2> HIDE DEF HasWorker
  <2> QED
    BY <1>1 DEF Contained, Placed
<1>6. Accounted(a)'
  <2> SUFFICES ASSUME NEW g \in Gens
               PROVE  /\ worker[a][g].life \notin Over =>
                           /\ g <= agent[a].gen /\ (g = agent[a].gen => workers[a] = g)
                           /\ proc'[a][g].st # "none"
                      /\ ~ worker[a][g].closed => worker[a][g].life \notin Over
                      /\ worker[a][g].life = "exiting" => Exited(a, g)'
    BY <1>2 DEF Accounted
  <2>1. Exited(a, g) => Exited(a, g)'
    BY DEF Exited
  <2>2. proc[a][g].st # "none" => proc'[a][g].st # "none"
    OBVIOUS
  <2> HIDE DEF Exited
  <2> QED
    BY <1>1, <2>1, <2>2 DEF Contained, Accounted
<1>7. Placed(a)'
  <2> HIDE DEF HasWorker
  <2> QED
    BY <1>1, <1>2, <1>5 DEF Contained, Placed, Recorded
<1>8. Evident(a)'
  <2>1. n.cleanup = "verified" => ~ Live(a)'
    BY <1>1, <1>5 DEF Live, Contained, Placed
  <2> HIDE DEF Live
  <2> QED
    BY <1>2, <2>1 DEF Evident
<1>9. Contained(a)'
  BY <1>4, <1>6, <1>7, <1>8 DEF Contained
<1>11. Upholds(a)
  <2>1. Live(a)' => Live(a)
    BY <1>1, <1>5 DEF Live, Contained, Placed, Gens
  <2> HIDE DEF Live, HasWorker
  <2> QED
    BY <1>2, <1>3, <1>8, <2>1, UpheldDecided DEF BeforeFork
<1>10. ASSUME NEW b \in Agents \ {a}
       PROVE  Contained(b)' /\ Upholds(b)
  <2>1. Contained(b) /\ LockMoves(b)
    BY DEF AllContained, LockMoves
  <2> QED
    BY <1>2, <2>1, UntouchedKept
<1> QED
  BY <1>9, <1>10, <1>11 DEF AllContained, Keeps


\* A group that stop_group proves gone, or not.
LEMMA ReapContains ==
  ASSUME TypeOK, Located, AllContained, NEW a \in Agents, NEW proved \in BOOLEAN, ReapDone(a, proved)
  PROVE  Keeps
<1> DEFINE n == [agent[a] EXCEPT !.state = IF proved THEN "closed" ELSE "orphaned", !.current = NoRun,
                                 !.cleanup = IF proved THEN "verified" ELSE "unknown"]
           p == IF proved THEN Stopped(proc[a][owner[a]], "gone") ELSE proc[a][owner[a]]
<1>1. /\ op[a].pc = "reap" /\ SetOp(a, Free) /\ SetAgent(a, n) /\ UNCHANGED <<owner, workers, worker>>
      /\ SetProc(a, owner[a], p) /\ (proved => proc[a][owner[a]].st # "stray")
  BY DEF ReapDone
<1>2. n.gen = agent[a].gen /\ n.state # "absent" /\ (n.cleanup = "verified" => proved)
      /\ n.cleanup \in {"verified", "unknown"}
  BY Values DEF AgentType
<1>3. op'[a].pc = "free" /\ \A b \in Agents \ {a} : op'[b] = op[b]
  BY <1>1 DEF SetOp, TypeOK, Free
<1>4. Contained(a) /\ ~ HasWorker(a)
  BY <1>1 DEF AllContained, Contained, LastOpen
<1>5. proved /\ owner[a] \in Gens => p.st = "gone"
  BY Values DEF Stopped, ProcType
<1>6. ~ proved => p = proc[a][owner[a]]
  OBVIOUS
<1> HIDE DEF n, p, HasWorker
<1>7. /\ \A b \in Agents \ {a} : proc'[b] = proc[b]
      /\ \A h \in Gens : proc'[a][h] = IF h = owner[a] THEN p ELSE proc[a][h]
  BY <1>1 DEF SetProc, TypeOK
<1>8. proved => \A g \in Gens : proc[a][g].st # "forked"
  BY <1>1, <1>4 DEF Contained, Placed
<1> QED
  BY <1>1, <1>2, <1>3, <1>4, <1>5, <1>6, <1>7, <1>8, ClosedContains


\* close_agent without a worker: the owner record decides, or a group is to be stopped.
LEMMA CloseContains ==
  ASSUME TypeOK, Located, AllContained, NEW a \in Agents, NEW v \in {"gone", "live"}, CloseOrphan(a, v)
  PROVE  Keeps
<1>1. /\ ~ HasWorker(a) /\ op[a].pc = "free" /\ v \in Ownership(a) /\ UNCHANGED <<owner, workers, worker, proc>>
  BY DEF CloseOrphan, Request, LockFree
<1>2. CASE v = "gone"
  <2> DEFINE n == [agent[a] EXCEPT !.state = "closed", !.current = NoRun, !.cleanup = "verified"]
  <2>1. SetAgent(a, n) /\ UNCHANGED op
    BY <1>2 DEF CloseOrphan
  <2>2. n.gen = agent[a].gen /\ n.state # "absent" /\ n.cleanup \in {"verified", "unknown"}
    BY Values DEF AgentType
  <2>3. ASSUME NEW h \in Gens, owner[a] = h
        PROVE  proc[a][h].st = "gone"
    BY <1>1, <1>2, <2>3 DEF Ownership, Gens
  <2> HIDE DEF n, HasWorker
  <2> QED
    BY <1>1, <2>1, <2>2, <2>3, ClosedContains
<1>3. CASE v = "live"
  <2> DEFINE o == [Free EXCEPT !.kind = "close", !.pc = "reap"]
  <2>1. SetOp(a, o) /\ UNCHANGED agent
    BY <1>3 DEF CloseOrphan
  <2>2. o.pc = "reap"
    BY DEF Free
  <2> HIDE DEF o, HasWorker
  <2>3. Calm
    BY <1>1, <2>1, <2>2, HolderCalm
  <2> QED
    BY <2>3, CalmKeeps
<1> QED
  BY <1>2, <1>3

LEMMA ConfirmContains ==
  ASSUME TypeOK, Located, AllContained, NEW a \in Agents, ConfirmCleanup(a)
  PROVE  Keeps
<1> DEFINE n == [agent[a] EXCEPT !.state = "closed", !.current = NoRun, !.cleanup = "verified"]
           p == Stopped(proc[a][owner[a]], "gone")
<1>1. /\ ~ HasWorker(a) /\ op[a].pc = "free" /\ SetAgent(a, n) /\ SetProc(a, owner[a], p) /\ owner[a] # 0
      /\ UNCHANGED <<owner, workers, worker, op>>
  BY DEF ConfirmCleanup, Request, LockFree
<1>2. n.gen = agent[a].gen /\ n.state # "absent" /\ n.cleanup \in {"verified", "unknown"}
  BY Values DEF AgentType
<1>3. owner[a] \in Gens
  BY <1>1 DEF TypeOK, Gens
<1>4. p.st = "gone"
  BY <1>3, Values DEF Stopped, ProcType
<1> HIDE DEF n, p, HasWorker
<1>5. /\ \A b \in Agents \ {a} : proc'[b] = proc[b]
      /\ \A h \in Gens : proc'[a][h] = IF h = owner[a] THEN p ELSE proc[a][h]
  BY <1>1, <1>3 DEF SetProc, TypeOK
<1> QED
  BY <1>1, <1>2, <1>4, <1>5, ClosedContains

\* soft_interrupt asks the child and waits for its reply.
LEMMA SoftInterruptCalm ==
  ASSUME TypeOK, NEW a \in Agents, SoftInterrupt(a)
  PROVE  Calm
<1> DEFINE n == [agent[a] EXCEPT !.state = "stopping"]
           v == [W(a) EXCEPT !.stopping = TRUE, !.cancelled = TRUE]
           o == [Free EXCEPT !.kind = "soft_interrupt", !.pc = "abort"]
           p == Written(proc[a][workers[a]], [cmd |-> "abort", id |-> W(a).run, dialog |-> None, live |-> TRUE])
<1>1. /\ HasWorker(a) /\ op[a].pc = "free" /\ SetAgent(a, n) /\ SetWorker(a, v) /\ SetOp(a, o)
      /\ SetProc(a, workers[a], p) /\ UNCHANGED <<owner, workers>>
  BY DEF SoftInterrupt, Reachable, Request, LockFree
<1>2. workers[a] \in Gens /\ W(a) = worker[a][workers[a]]
  BY <1>1 DEF HasWorker, W, TypeOK, Gens
<1>3. n.gen = agent[a].gen /\ n.state = "stopping" /\ n.cleanup = agent[a].cleanup /\ o.pc = "abort"
  BY Values DEF AgentType, Free
<1>4. v.life = W(a).life /\ v.closed = W(a).closed
  BY <1>2, Values DEF WorkerType
<1>5. Dies(proc[a][workers[a]], p)
  BY <1>2, WrittenStays, Values
<1> HIDE DEF n, v, o, p, HasWorker
<1>6. StaysOpen(a, workers[a], v)
  BY <1>2, <1>4 DEF StaysOpen
<1>7. RowsStay
  BY <1>1, <1>3, RowsPut DEF Resident
<1>8. WorkersStay
  BY <1>1, <1>6, WorkersPut DEF SetWorker
<1>9. ProcsFade
  BY <1>1, <1>5, ProcsPut DEF SetProc
<1>10. LocksMove
  BY <1>1, <1>3, LocksPut DEF OnWorker
<1> QED
  BY <1>7, <1>8, <1>9, <1>10 DEF Calm

\* A dialog that closes may return the agent to running.
LEMMA DismissCalm ==
  ASSUME TypeOK, NEW a \in Agents, NEW d, NEW rs, NEW w, Dismiss(a, d, agent[a], rs, w), UNCHANGED workers
  PROVE  RowsStay
<1> DEFINE n == [agent[a] EXCEPT !.state = "running"]
<1>1. n.gen = agent[a].gen /\ n.state = "running" /\ n.cleanup = agent[a].cleanup
  BY Values DEF AgentType
<1>2. SetAgent(a, n) \/ SetAgent(a, agent[a])
  BY DEF Dismiss, SetAgent
<1> HIDE DEF n, HasWorker, Unowned
<1> QED
  BY <1>1, <1>2, RowsPut DEF Resident

LEMMA MutateContains ==
  ASSUME TypeOK, Located, AllContained, NEW a \in Agents, Mutate(a)
  PROVE  Keeps
<1>1. ASSUME NEW name \in Requests, Interrupt(a, name)
      PROVE  Keeps
  <2> DEFINE o == [op EXCEPT ![a].kind = name]
  <2>1. BeginInterrupt(a, o) /\ op[a].pc = "free" /\ UNCHANGED <<owner, workers, proc>>
    BY <1>1 DEF Interrupt, Request, LockFree
  <2>2. name \in Kinds
    BY SetsAssumption DEF Kinds
  <2>3. o \in [Agents -> OpType]
    BY ZenonT(40), <2>2 DEF TypeOK, OpType
  <2>4. \A b \in Agents \ {a} : op'[b] = op[b]
    BY <2>1, <2>3 DEF BeginInterrupt, TypeOK
  <2> HIDE DEF o
  <2>5. ProcsFade
    BY <2>1, ProcsUnmoved
  <2>6. \A b \in Agents \ {a} : LockMoves(b)
    BY <2>4 DEF LockMoves
  <2>7. Calm
    BY <2>1, <2>3, <2>5, <2>6, InterruptCalm
  <2> QED
    BY <2>7, CalmKeeps
<1>2. CASE SendWake(a) \/ \E name \in Requests : Respawn(a, name)
  <2>1. PICK k : SetOp(a, [Free EXCEPT !.kind = k, !.pc = "admit"]) /\ ~ HasWorker(a) /\ op[a].pc = "free"
                 /\ agent[a].cleanup # "unknown" /\ UNCHANGED <<owner, agent, workers, worker, proc>>
    BY <1>2 DEF SendWake, Respawn, Request, LockFree
  <2> DEFINE o == [Free EXCEPT !.kind = k, !.pc = "admit"]
  <2>2. o.pc = "admit"
    BY DEF Free
  <2> HIDE DEF o, HasWorker
  <2>3. Calm
    BY <2>1, <2>2, HolderCalm DEF BeforeFork, o
  <2> QED
    BY <2>3, CalmKeeps
<1>3. ASSUME NEW r \in Runs, SendIdle(a, r)
      PROVE  Keeps
  <2>1. /\ StartRun(a, r, agent[a], AddRun(a, r, "queued"), W(a), "send") /\ HasWorker(a) /\ op[a].pc = "free"
        /\ UNCHANGED <<owner, workers>>
    BY <1>3 DEF SendIdle, Reachable, Request, LockFree
  <2>2. agent[a] \in AgentType
    BY Values
  <2> HIDE DEF HasWorker
  <2>3. Calm
    BY <2>1, <2>2, StartRunCalm
  <2> QED
    BY <2>3, CalmKeeps
<1>4. ASSUME NEW r \in Runs, SendQueued(a, r)
      PROVE  Keeps
  <2>1. UNCHANGED <<owner, agent, workers, worker, op, proc>>
    BY <1>4 DEF SendQueued, memory
  <2>2. Calm
    BY <2>1, RowsUnmoved, WorkersUnmoved, ProcsUnmoved, LocksUnmoved DEF Calm
  <2> QED
    BY <2>2, CalmKeeps
<1>5. ASSUME NEW d \in Dialogs, Answer(a, d)
      PROVE  Keeps
  <2> DEFINE v == [W(a) EXCEPT !.ui = W(a).ui \ {d}, !.silent = FALSE]
             p == Written(proc[a][workers[a]], [cmd |-> "answer", id |-> NoRun, dialog |-> d, live |-> FALSE])
  <2>1. /\ HasWorker(a) /\ SetWorker(a, v) /\ SetProc(a, workers[a], p) /\ Dismiss(a, d, agent[a], run, W(a))
        /\ UNCHANGED <<owner, workers, op>>
    BY <1>5 DEF Answer, Reachable
  <2>2. workers[a] \in Gens /\ W(a) = worker[a][workers[a]]
    BY <2>1 DEF HasWorker, W, TypeOK, Gens
  <2>3. v.life = W(a).life /\ v.closed = W(a).closed
    BY <2>2, Values DEF WorkerType
  <2>4. Dies(proc[a][workers[a]], p)
    BY <2>2, WrittenStays, Values
  <2> HIDE DEF v, p, HasWorker
  <2>5. StaysOpen(a, workers[a], v)
    BY <2>2, <2>3 DEF StaysOpen
  <2>6. RowsStay
    BY <2>1, DismissCalm
  <2>7. WorkersStay
    BY <2>1, <2>5, WorkersPut DEF SetWorker
  <2>8. ProcsFade
    BY <2>1, <2>4, ProcsPut DEF SetProc
  <2>9. Calm
    BY <2>1, <2>6, <2>7, <2>8, LocksUnmoved DEF Calm
  <2> QED
    BY <2>9, CalmKeeps
<1> QED
  BY <1>1, <1>2, <1>3, <1>4, <1>5, CloseContains, ReapContains, ConfirmContains, SoftInterruptCalm, CalmKeeps
     DEF Mutate


------------------------------------------------------------------------------
(* Awaited replies and the coroutines the daemon spawns. *)

LEMMA AwaitContains ==
  ASSUME TypeOK, Located, AllContained, NEW a \in Agents, Await(a)
  PROVE  Keeps
<1>1. op[a].pc \in {"prompt", "abort"} /\ UNCHANGED <<owner, workers>>
  BY DEF Await, PromptOk, PromptRejected, PromptUncertain, AbortConfirmed, AbortForced
<1>2. HasWorker(a)
  BY <1>1 DEF AllContained, Contained, LastOpen
<1>3. workers[a] \in Gens /\ Free.pc = "free"
  BY <1>2 DEF HasWorker, TypeOK, Gens, Free
<1>4. Dies(proc[a][workers[a]], Abandoned(proc[a][workers[a]]))
  BY <1>3, Values, WrittenStays
<1> HIDE DEF HasWorker
<1>5. CASE PromptOk(a)
  <2>1. SetOp(a, Free) /\ UNCHANGED <<agent, worker, proc>>
    BY <1>5 DEF PromptOk
  <2> QED
    BY <1>1, <1>3, <2>1, HolderCalm, CalmKeeps
<1>6. CASE PromptRejected(a)
  <2> DEFINE rs == Finish(run, {W(a).run}, "failed")
  <2>1. CASE op[a].kind = "settle"
    <3>1. AdvanceQueue(a, IdleAgent(agent[a]), rs, IdleWorker(W(a)))
      BY <1>6, <2>1 DEF PromptRejected
    <3> HIDE DEF rs
    <3>2. Calm
      BY <1>1, <1>2, <3>1, AdvanceCalm
    <3> QED
      BY <3>2, CalmKeeps
  <2>2. CASE op[a].kind # "settle"
    <3>1. SetAgent(a, IdleAgent(agent[a])) /\ SetWorker(a, IdleWorker(W(a))) /\ SetOp(a, Free) /\ UNCHANGED proc
      BY <1>6, <2>2 DEF PromptRejected
    <3>2. Calm
      BY <1>1, <1>2, <3>1, IdleCalm
    <3> QED
      BY <3>2, CalmKeeps
  <2> QED
    BY <2>1, <2>2
<1>7. CASE PromptUncertain(a)
  <2>1. SetOp(a, Free) /\ SetProc(a, workers[a], Abandoned(proc[a][workers[a]])) /\ UNCHANGED <<agent, worker>>
    BY <1>7 DEF PromptUncertain
  <2>2. LocksMove
    BY <1>1, <1>3, <2>1, LocksPut
  <2>3. ProcsFade
    BY <1>1, <1>4, <2>1, ProcsPut DEF SetProc
  <2>4. Calm
    BY <1>1, <2>1, <2>2, <2>3, RowsUnmoved, WorkersUnmoved DEF Calm
  <2> QED
    BY <2>4, CalmKeeps
<1>8. CASE AbortConfirmed(a)
  <2>1. SetAgent(a, IdleAgent(agent[a])) /\ SetWorker(a, IdleWorker(W(a))) /\ SetOp(a, Free) /\ UNCHANGED proc
    BY <1>8 DEF AbortConfirmed
  <2>2. Calm
    BY <1>1, <1>2, <2>1, IdleCalm
  <2> QED
    BY <2>2, CalmKeeps
<1>9. CASE AbortForced(a)
  <2> DEFINE o == [op EXCEPT ![a].ans = "none"]
  <2>1. BeginInterrupt(a, o) /\ SetProc(a, workers[a], Abandoned(proc[a][workers[a]]))
    BY <1>9 DEF AbortForced
  <2>2. o \in [Agents -> OpType]
    BY ZenonT(40) DEF TypeOK, OpType
  <2>3. \A b \in Agents \ {a} : op'[b] = op[b]
    BY <2>1, <2>2 DEF BeginInterrupt, TypeOK
  <2> HIDE DEF o
  <2>4. ProcsFade
    BY <1>1, <1>4, <2>1, ProcsPut DEF SetProc
  <2>5. \A b \in Agents \ {a} : LockMoves(b)
    BY <2>3 DEF LockMoves
  <2>6. Calm
    BY <1>1, <2>1, <2>2, <2>4, <2>5, InterruptCalm
  <2> QED
    BY <2>6, CalmKeeps
<1> QED
  BY <1>5, <1>6, <1>7, <1>8, <1>9 DEF Await

(* worker_exited: the record of the generation that exited proves the agent's processes dead. *)
LEMMA ExitedContains ==
  ASSUME TypeOK, Located, AllContained, NEW a \in Agents, NEW g \in Gens, NEW proved \in BOOLEAN, WorkerExited(a, g, proved)
  PROVE  Keeps
<1> DEFINE v == [NoWorker EXCEPT !.life = "done"]
           n == [agent[a] EXCEPT !.state = "crashed", !.current = NoRun,
                                 !.cleanup = IF proved THEN "verified" ELSE "unknown"]
<1>1. /\ op[a].pc = "free" /\ worker[a][g].life = "exiting" /\ worker' = [worker EXCEPT ![a][g] = v]
      /\ (agent[a].gen = g /\ SetAgent(a, n)) \/ UNCHANGED agent
      /\ workers' = IF workers[a] = g THEN [workers EXCEPT ![a] = 0] ELSE workers
      /\ proved => owner[a] = g /\ proc[a][g].st = "gone"
      /\ UNCHANGED <<owner, op, proc>>
  BY DEF WorkerExited, LockFree, ExitProof
<1>2. v.closed = TRUE /\ v.life = "done"
  BY DEF NoWorker
<1>3. n.gen = agent[a].gen /\ n.state # "absent" /\ (n.cleanup = "verified" => proved)
      /\ n.cleanup \in {"verified", "unknown"}
  BY Values DEF AgentType
<1>16. agent'[a] = n \/ (agent'[a] = agent[a] /\ (agent[a].gen = g => agent[a].state \in {"closed", "dormant"}))
  BY DEF WorkerExited, SetAgent, TypeOK
<1> HIDE DEF v, n
<1>4. /\ worker'[a][g] = v /\ \A h \in Gens \ {g} : worker'[a][h] = worker[a][h]
      /\ \A b \in Agents \ {a} : worker'[b] = worker[b] /\ workers'[b] = workers[b] /\ agent'[b] = agent[b]
      /\ workers'[a] = IF workers[a] = g THEN 0 ELSE workers[a]
      /\ (agent[a].gen = g /\ agent'[a] = n) \/ agent'[a] = agent[a]
  BY <1>1 DEF SetAgent, TypeOK
<1>5. Contained(a)
  BY DEF AllContained
<1>6. workers[a] \in Gens \cup {0} /\ 0 \notin Gens
  BY DEF TypeOK, Gens
<1>7. HasWorker(a)' <=> HasWorker(a) /\ workers[a] # g
  BY <1>4, <1>6 DEF HasWorker, W
<1>8. proc[a][g].st # "forked"
  BY <1>1, <1>5 DEF Contained, Accounted, Exited
<1>9. LastOpen(a)'
  <2> HIDE DEF HasWorker
  <2> QED
    BY <1>1, <1>3, <1>4, <1>5, <1>7 DEF Contained, LastOpen, BeforeFork, OnWorker
<1>10. Accounted(a)'
  <2> SUFFICES ASSUME NEW h \in Gens
               PROVE  /\ worker'[a][h].life \notin Over =>
                           /\ h <= agent[a].gen /\ (h = agent[a].gen => workers'[a] = h)
                           /\ proc[a][h].st # "none"
                      /\ ~ worker'[a][h].closed => worker'[a][h].life \notin Over
                      /\ worker'[a][h].life = "exiting" => Exited(a, h)
    BY <1>1, <1>3, <1>4 DEF Accounted, Exited
  <2>1. CASE h = g
    BY <1>2, <1>4, <2>1 DEF Over
  <2>2. CASE h # g
    BY <1>4, <1>5, <2>2 DEF Contained, Accounted
  <2> QED
    BY <2>1, <2>2
<1>11. Placed(a)'
  <2>1. ASSUME NEW h \in Gens, proc[a][h].st = "forked"
        PROVE  h = agent[a].gen /\ HasWorker(a) /\ workers[a] # g
    <3>1. h = agent[a].gen /\ HasWorker(a) /\ h # g
      BY <1>1, <1>5, <1>8, <2>1 DEF Contained, Placed
    <3> HIDE DEF HasWorker
    <3> QED
      BY <1>5, <3>1 DEF Contained, LastOpen
  <2> HIDE DEF HasWorker
  <2> QED
    BY <1>1, <1>3, <1>4, <1>5, <1>7, <2>1 DEF Contained, Placed
<1>12. Evident(a)'
  <2>1. Live(a)' <=> Live(a)
    BY <1>1 DEF Live
  <2>2. proved /\ agent[a].gen = g => ~ Live(a)
    BY <1>1, <1>5 DEF Live, Contained, Placed
  <2>3. Evident(a)
    BY <1>5 DEF Contained
  <2> HIDE DEF Live
  <2> QED
    BY <1>1, <1>3, <1>4, <2>1, <2>2, <2>3 DEF Evident
<1>13. Contained(a)'
  BY <1>9, <1>10, <1>11, <1>12 DEF Contained
<1>15. Upholds(a)
  <2>1. Live(a)' <=> Live(a)
    BY <1>1 DEF Live
  <2>2. CASE agent'[a] = n
    BY <1>1, <1>3, <1>7, <1>12, <2>1, <2>2, UpheldDecided DEF BeforeFork
  <2>3. CASE agent'[a] = agent[a] /\ (agent[a].gen = g => agent[a].state \in {"closed", "dormant"})
    <3>1. Evident(a) /\ (HasWorker(a) => workers[a] = agent[a].gen)
      BY <1>5 DEF Contained, LastOpen
    <3>2. op'[a] = op[a] /\ proc'[a] = proc[a]
      BY <1>1
    <3> HIDE DEF Live, HasWorker, Unowned
    <3>3. Vouched(a) /\ Live(a) /\ agent[a].cleanup # "unknown" => HasWorker(a) /\ workers[a] # g
      BY <1>1, <2>3, <3>1 DEF Vouched, Evident
    <3>4. Vouched(a) => Vouched(a)'
      BY <1>1, <1>7, <2>1, <2>3, <3>2, <3>3 DEF Vouched
    <3> QED
      BY <1>1, <1>7, <2>1, <3>2, <3>4 DEF Upholds
  <2> QED
    BY <1>4, <1>16, <2>2, <2>3
<1>14. ASSUME NEW b \in Agents \ {a}
       PROVE  Contained(b)' /\ Upholds(b)
  <2>1. Contained(b) /\ LockMoves(b)
    BY <1>1 DEF AllContained, LockMoves
  <2> QED
    BY <1>1, <1>4, <2>1, UntouchedKept
<1> QED
  BY <1>13, <1>14, <1>15 DEF AllContained, Keeps


\* A background coroutine that takes the lock to terminate the worker it found open.
LEMMA TakesCalm ==
  ASSUME TypeOK, NEW a \in Agents, HasWorker(a), op[a].pc = "free", NEW v, NEW o, SetWorker(a, v), SetOp(a, o),
         v.life = W(a).life, v.closed = W(a).closed, o.pc = "stop", UNCHANGED <<owner, agent, workers, proc>>
  PROVE  Calm
<1>1. workers[a] \in Gens /\ W(a) = worker[a][workers[a]]
  BY DEF HasWorker, W, TypeOK, Gens
<1> HIDE DEF HasWorker
<1>2. StaysOpen(a, workers[a], v)
  BY <1>1 DEF StaysOpen
<1>3. WorkersStay
  BY <1>2, WorkersPut DEF SetWorker
<1>4. LocksMove
  BY LocksPut DEF OnWorker
<1> QED
  BY <1>3, <1>4, RowsUnmoved, ProcsUnmoved DEF Calm

\* An observation of an open worker, under its lock.
LEMMA ObservedCalm ==
  ASSUME TypeOK, NEW a \in Agents, op[a].pc = "free", NEW k \in Kinds, BeginInterrupt(a, [op EXCEPT ![a].kind = k]),
         UNCHANGED <<workers, owner, proc>>
  PROVE  Calm
<1> DEFINE o == [op EXCEPT ![a].kind = k]
<1>1. o \in [Agents -> OpType]
  BY ZenonT(40) DEF TypeOK, OpType
<1>2. \A b \in Agents \ {a} : op'[b] = op[b]
  BY <1>1 DEF BeginInterrupt, TypeOK
<1>3. BeginInterrupt(a, o)
  OBVIOUS
<1> HIDE DEF o
<1>4. \A b \in Agents \ {a} : LockMoves(b)
  BY <1>2 DEF LockMoves
<1>5. ProcsFade
  BY ProcsUnmoved
<1> QED
  BY <1>1, <1>3, <1>4, <1>5, InterruptCalm

\* watch_exit: the Worker's exit accounting begins when its process is gone.
LEMMA ReapedCalm ==
  ASSUME TypeOK, NEW a \in Agents, NEW g \in Gens, Reaped(a, g)
  PROVE  Calm
<1> DEFINE v == [worker[a][g] EXCEPT !.life = "exiting"]
           p == [proc[a][g] EXCEPT !.stdout = <<>>]
<1>1. /\ worker[a][g].life \in {"reading", "failed"} /\ Exited(a, g)
      /\ worker' = [worker EXCEPT ![a][g] = v] /\ proc' = [proc EXCEPT ![a][g] = p]
      /\ op' = op \/ op' = [op EXCEPT ![a].ans = "gone"]
      /\ UNCHANGED <<owner, agent, workers>>
  BY DEF Reaped
<1>2. v.closed = worker[a][g].closed /\ v.life = "exiting" /\ p.st = proc[a][g].st
  BY Values DEF WorkerType, ProcType
<1> HIDE DEF v, p, HasWorker
<1>3. \A b \in Agents : op'[b].pc = op[b].pc
  <2>1. op \in [Agents -> OpType]
    BY DEF TypeOK
  <2> QED
    BY <1>1, <2>1 DEF OpType
<1>4. StaysOpen(a, g, v)
  BY <1>1, <1>2 DEF StaysOpen, Over
<1>5. Dies(proc[a][g], p)
  BY <1>2 DEF Dies
<1>6. LocksMove
  BY <1>3 DEF LocksMove, LockMoves
<1>7. WorkersStay
  BY <1>1, <1>4, WorkersPut
<1>8. ProcsFade
  BY <1>1, <1>5, ProcsPut
<1> QED
  BY <1>1, <1>6, <1>7, <1>8, RowsUnmoved DEF Calm

LEMMA BackgroundContains ==
  ASSUME TypeOK, Located, AllContained, NEW a \in Agents, Background(a)
  PROVE  Keeps
<1>0. UNCHANGED <<owner, agent, workers, worker, op, proc>> => Keeps
  BY RowsUnmoved, WorkersUnmoved, ProcsUnmoved, LocksUnmoved, CalmKeeps DEF Calm
<1>1. ASSUME NEW g \in Gens, StopUnowned(a, g)
      PROVE  Keeps
  <2>1. op[a].pc = "free" /\ UNCHANGED <<owner, agent, workers, proc>>
    BY <1>1 DEF StopUnowned, LockFree
  <2>2. CASE StopsUnowned(a, g)
    <3> DEFINE v == [worker[a][g] EXCEPT !.stopping = TRUE]
               o == [Free EXCEPT !.kind = "stop_unowned", !.pc = "stop"]
    <3>1. agent[a].gen = g /\ ~ worker[a][g].closed /\ SetOp(a, o) /\ worker' = [worker EXCEPT ![a][g] = v]
      BY <1>1, <2>2 DEF StopUnowned, StopsUnowned
    <3>2. workers[a] = g
      BY <3>1 DEF AllContained, Contained, Accounted
    <3>3. W(a) = worker[a][g] /\ HasWorker(a) /\ SetWorker(a, v)
      BY <3>1, <3>2 DEF W, HasWorker, SetWorker, Gens
    <3>4. v.life = worker[a][g].life /\ v.closed = worker[a][g].closed /\ o.pc = "stop"
      BY Values DEF WorkerType, Free
    <3> HIDE DEF v, o, HasWorker
    <3>5. Calm
      BY <2>1, <3>1, <3>3, <3>4, TakesCalm
    <3> QED
      BY <3>5, CalmKeeps
  <2>3. CASE ~ StopsUnowned(a, g)
    BY <1>0, <1>1, <2>1, <2>3 DEF StopUnowned
  <2> QED
    BY <2>2, <2>3
<1>2. ASSUME NEW g \in Gens, FailWorker(a, g)
      PROVE  Keeps
  <2>1. op[a].pc = "free" /\ UNCHANGED <<owner, agent, workers, proc>>
    BY <1>2 DEF FailWorker, LockFree
  <2>2. CASE FailsOwn(a, g)
    <3> DEFINE v == [Settled(W(a)) EXCEPT !.stopping = TRUE]
               o == [Free EXCEPT !.kind = "fail_worker", !.pc = "stop"]
    <3>1. workers[a] = g /\ ~ W(a).closed /\ SetOp(a, o) /\ SetWorker(a, v)
      BY <1>2, <2>2 DEF FailWorker, FailsOwn
    <3>2. W(a) = worker[a][g] /\ HasWorker(a)
      BY <3>1 DEF W, HasWorker, Gens
    <3>3. v.life = W(a).life /\ v.closed = W(a).closed /\ o.pc = "stop"
      BY <3>2, Values DEF WorkerType, Free, Settled
    <3> HIDE DEF v, o, HasWorker
    <3>4. Calm
      BY <2>1, <3>1, <3>2, <3>3, TakesCalm
    <3> QED
      BY <3>4, CalmKeeps
  <2>3. CASE ~ FailsOwn(a, g)
    BY <1>0, <1>2, <2>1, <2>3 DEF FailWorker
  <2> QED
    BY <2>2, <2>3
<1>3. ASSUME NEW g \in Gens, Reaped(a, g)
      PROVE  Keeps
  BY <1>3, ReapedCalm, CalmKeeps
<1>4. ASSUME NEW g \in Gens, NEW proved \in BOOLEAN, WorkerExited(a, g, proved)
      PROVE  Keeps
  BY <1>4, ExitedContains
<1>5. ASSUME NEW g \in Gens, NEW r \in Runs, Settle(a, g, r)
      PROVE  Keeps
  <2>1. op[a].pc = "free" /\ UNCHANGED <<owner, workers>>
    BY <1>5 DEF Settle, LockFree
  <2>2. CASE SettleValid(a, g, r)
    <3> DEFINE rs == Finish(run, {r}, Outcome(W(a)))
    <3>1. AdvanceQueue(a, IdleAgent(agent[a]), rs, IdleWorker(W(a)))
      BY <1>5, <2>2 DEF Settle
    <3>2. HasWorker(a)
      BY <2>2 DEF SettleValid, HasWorker, Gens
    <3> HIDE DEF rs, HasWorker
    <3>3. Calm
      BY <2>1, <3>1, <3>2, AdvanceCalm
    <3> QED
      BY <3>3, CalmKeeps
  <2>3. CASE ~ SettleValid(a, g, r)
    BY <1>0, <1>5, <2>1, <2>3 DEF Settle
  <2> QED
    BY <2>2, <2>3
<1>6. ASSUME NEW g \in Gens, NEW r \in Runs, CheckIdle(a, g, r)
      PROVE  Keeps
  <2>1. op[a].pc = "free" /\ UNCHANGED <<owner, workers, proc>> /\ "check_idle" \in Kinds
    BY <1>6 DEF CheckIdle, LockFree, Kinds
  <2>2. BeginInterrupt(a, [op EXCEPT ![a].kind = "check_idle"]) \/ UNCHANGED <<agent, worker, op>>
    BY <1>6 DEF CheckIdle
  <2> QED
    BY <1>0, <2>1, <2>2, ObservedCalm, CalmKeeps
<1>7. CASE FallSilent(a)
  <2> DEFINE v == [W(a) EXCEPT !.silent = TRUE]
  <2>1. HasWorker(a) /\ SetWorker(a, v) /\ UNCHANGED <<owner, agent, workers, op, proc>>
    BY <1>7 DEF FallSilent
  <2>2. workers[a] \in Gens /\ W(a) = worker[a][workers[a]]
    BY <2>1 DEF HasWorker, W, TypeOK, Gens
  <2>3. v.life = W(a).life /\ v.closed = W(a).closed
    BY <2>2, Values DEF WorkerType
  <2> HIDE DEF v
  <2>4. StaysOpen(a, workers[a], v)
    BY <2>2, <2>3 DEF StaysOpen
  <2>5. WorkersStay
    BY <2>1, <2>4, WorkersPut DEF SetWorker
  <2>6. Calm
    BY <2>1, <2>5, RowsUnmoved, ProcsUnmoved, LocksUnmoved DEF Calm
  <2> QED
    BY <2>6, CalmKeeps
<1>8. CASE ObserveIdle(a)
  BY <1>0, <1>8 DEF ObserveIdle
<1>9. CASE Park(a)
  <2>1. /\ op[a].pc = "free" /\ UNCHANGED <<owner, workers, proc>> /\ "park" \in Kinds
        /\ BeginInterrupt(a, [op EXCEPT ![a].kind = "park"])
    BY <1>9 DEF Park, LockFree, Kinds
  <2> QED
    BY <2>1, ObservedCalm, CalmKeeps
<1> QED
  BY <1>1, <1>2, <1>3, <1>4, <1>5, <1>6, <1>7, <1>8, <1>9 DEF Background


------------------------------------------------------------------------------
(* Frames, the children that write them and the guards around them. *)

LEMMA ConsumeFades ==
  ASSUME TypeOK, NEW a \in Agents, NEW g \in Gens, Consume(a, g), UNCHANGED owner
  PROVE  ProcsFade
<1> DEFINE p == [proc[a][g] EXCEPT !.stdout = Tail(proc[a][g].stdout)]
<1>1. proc' = [proc EXCEPT ![a][g] = p]
  BY DEF Consume, TypeOK
<1>2. p.st = proc[a][g].st
  BY Values DEF ProcType
<1> HIDE DEF p
<1>3. Dies(proc[a][g], p)
  BY <1>2 DEF Dies
<1> QED
  BY <1>1, <1>3, ProcsPut

\* Only flags, dialogs or the reader of one Worker change.
LEMMA FlagsOpen ==
  ASSUME TypeOK, NEW a \in Agents, NEW g \in Gens, NEW v, worker' = [worker EXCEPT ![a][g] = v],
         v.closed = worker[a][g].closed,
         v.life = worker[a][g].life \/ (v.life = "failed" /\ worker[a][g].life = "reading")
  PROVE  WorkersStay
<1>1. StaysOpen(a, g, v)
  BY DEF StaysOpen, Over
<1> QED
  BY <1>1, WorkersPut

LEMMA ReadContains ==
  ASSUME TypeOK, Located, AllContained, NEW a \in Agents, Read(a)
  PROVE  Keeps
<1>1. PICK g \in Gens :
        \/ ReadReply(a, g) \/ ReadDropped(a, g) \/ ReadAsk(a, g) \/ ReadClosed(a, g)
        \/ ReadEnd(a, g) \/ ReadDelta(a, g) \/ ReadStart(a, g) \/ ReaderFails(a, g)
  BY DEF Read
<1> DEFINE w == worker[a][g]
           f == Head(proc[a][g].stdout)
<1>0. w \in WorkerType /\ agent[a] \in AgentType /\ op \in [Agents -> OpType]
  BY Values DEF TypeOK
<1>2. CASE ReadReply(a, g)
  <2>1. Consume(a, g) /\ UNCHANGED <<owner, agent, workers, worker>>
    BY <1>2 DEF ReadReply
  <2>2. \A b \in Agents : op'[b].pc = op[b].pc
    <3>1. op' = op \/ op' = [op EXCEPT ![a].ans = f.how]
      BY <1>2 DEF ReadReply
    <3> QED
      BY <1>0, <3>1 DEF OpType
  <2>3. LocksMove
    <3> HIDE DEF HasWorker
    <3> QED
      BY <2>2 DEF LocksMove, LockMoves
  <2> QED
    BY <2>1, <2>3, RowsUnmoved, WorkersUnmoved, ConsumeFades, CalmKeeps DEF Calm
<1>3. CASE ReadDropped(a, g)
  <2>1. Consume(a, g) /\ UNCHANGED <<owner, agent, workers, worker, op>>
    BY <1>3 DEF ReadDropped, memory
  <2> QED
    BY <2>1, RowsUnmoved, WorkersUnmoved, ConsumeFades, LocksUnmoved, CalmKeeps DEF Calm
<1>4. CASE ReadAsk(a, g)
  <2> DEFINE v == [w EXCEPT !.ui = w.ui \cup {f.dialog}]
             n == [agent[a] EXCEPT !.state = "needs_input"]
  <2>1. /\ Consume(a, g) /\ worker' = [worker EXCEPT ![a][g] = v] /\ SetAgent(a, n)
        /\ UNCHANGED <<owner, workers, op>>
    BY <1>0, <1>4 DEF ReadAsk, TypeOK
  <2>2. v.closed = w.closed /\ v.life = w.life
    BY <1>0 DEF WorkerType
  <2>3. n.gen = agent[a].gen /\ n.state = "needs_input" /\ n.cleanup = agent[a].cleanup
    BY <1>0 DEF AgentType
  <2> HIDE DEF v, n
  <2>4. RowsStay
    BY <2>1, <2>3, RowsPut DEF Resident
  <2>5. WorkersStay
    BY <2>1, <2>2, FlagsOpen
  <2> QED
    BY <2>1, <2>4, <2>5, ConsumeFades, LocksUnmoved, CalmKeeps DEF Calm
<1>5. CASE ReadClosed(a, g)
  <2> DEFINE v == [w EXCEPT !.ui = w.ui \ {f.dialog}, !.silent = w.silent /\ f.dialog \notin w.ui]
  <2>1. /\ Consume(a, g) /\ worker' = [worker EXCEPT ![a][g] = v] /\ Dismiss(a, f.dialog, agent[a], run, w)
        /\ UNCHANGED <<owner, workers, op>>
    BY <1>5 DEF ReadClosed
  <2>2. v.closed = w.closed /\ v.life = w.life
    BY <1>0 DEF WorkerType
  <2> HIDE DEF v
  <2>3. RowsStay
    BY <2>1, DismissCalm
  <2>4. WorkersStay
    BY <2>1, <2>2, FlagsOpen
  <2> QED
    BY <2>1, <2>3, <2>4, ConsumeFades, LocksUnmoved, CalmKeeps DEF Calm
<1>6. CASE ReadEnd(a, g)
  <2> DEFINE v == [w EXCEPT !.cancelled = w.cancelled \/ f.how = "cancelled", !.failed = w.failed \/ f.how = "error"]
  <2>1. Consume(a, g) /\ worker' = [worker EXCEPT ![a][g] = v] /\ UNCHANGED <<owner, agent, workers, op>>
    BY <1>6 DEF ReadEnd
  <2>2. v.closed = w.closed /\ v.life = w.life
    BY <1>0 DEF WorkerType
  <2> HIDE DEF v
  <2>3. WorkersStay
    BY <2>1, <2>2, FlagsOpen
  <2> QED
    BY <2>1, <2>3, RowsUnmoved, ConsumeFades, LocksUnmoved, CalmKeeps DEF Calm
<1>7. CASE ReadDelta(a, g)
  <2> DEFINE v == [w EXCEPT !.silent = FALSE]
  <2>1. Consume(a, g) /\ worker' = [worker EXCEPT ![a][g] = v] /\ UNCHANGED <<owner, agent, workers, op>>
    BY <1>0, <1>7 DEF ReadDelta, TypeOK
  <2>2. v.closed = w.closed /\ v.life = w.life
    BY <1>0 DEF WorkerType
  <2> HIDE DEF v
  <2>3. WorkersStay
    BY <2>1, <2>2, FlagsOpen
  <2> QED
    BY <2>1, <2>3, RowsUnmoved, ConsumeFades, LocksUnmoved, CalmKeeps DEF Calm
<1>8. CASE ReadStart(a, g)
  <2> DEFINE v == [w EXCEPT !.tainted = TRUE]
             n == [agent[a] EXCEPT !.state = "dormant", !.current = NoRun]
  <2>1. Consume(a, g) /\ UNCHANGED <<owner, workers, op>>
    BY <1>8 DEF ReadStart
  <2>2. (worker' = [worker EXCEPT ![a][g] = v] /\ SetAgent(a, n)) \/ UNCHANGED <<worker, agent>>
    BY <1>0, <1>8 DEF ReadStart, TypeOK
  <2>3. v.closed = w.closed /\ v.life = w.life
    BY <1>0 DEF WorkerType
  <2>4. n.gen = agent[a].gen /\ n.state = "dormant" /\ n.cleanup = agent[a].cleanup
    BY <1>0 DEF AgentType
  <2> HIDE DEF v, n
  <2>7. Unowned(a)
    <3>1. proc[a][g].stdout # << >> /\ f.type = "start"
      BY <1>8 DEF ReadStart, Heads
    <3>2. StartFree(proc[a][g]) => f \in QueueFrames
      BY <3>1, QueueFramesAreFrames DEF StartFree
    <3> QED
      BY <3>1, <3>2 DEF Unowned, QueueFrames
  <2>5. RowsStay
    <3> HIDE DEF Unowned
    <3> QED
      BY <2>1, <2>2, <2>4, <2>7, RowsPut, RowsUnmoved
  <2>6. WorkersStay
    BY <2>2, <2>3, FlagsOpen, WorkersUnmoved
  <2> QED
    BY <2>1, <2>5, <2>6, ConsumeFades, LocksUnmoved, CalmKeeps DEF Calm
<1>9. CASE ReaderFails(a, g)
  <2> DEFINE v == [w EXCEPT !.life = "failed"]
  <2>1. /\ worker' = [worker EXCEPT ![a][g] = v] /\ w.life = "reading"
        /\ UNCHANGED <<owner, agent, workers, op, proc>>
    BY <1>0, <1>9 DEF ReaderFails, TypeOK
  <2>2. v.closed = w.closed /\ v.life = "failed"
    BY <1>0 DEF WorkerType
  <2> HIDE DEF v
  <2>3. WorkersStay
    BY <2>1, <2>2, FlagsOpen
  <2> QED
    BY <2>1, <2>3, RowsUnmoved, ProcsUnmoved, LocksUnmoved, CalmKeeps DEF Calm
<1> QED
  BY <1>1, <1>2, <1>3, <1>4, <1>5, <1>6, <1>7, <1>8, <1>9


\* What a child does leaves its process alive; what ends it is a step towards its end.
LEMMA ChildFades ==
  ASSUME TypeOK, NEW a \in Agents, NEW g \in Gens, NEW p, Child(a, g, p), Dies(proc[a][g], p)
  PROVE  ProcsFade
BY ProcsPut DEF Child, SetProc

(* The guard that records itself finds every earlier owner dead. *)
LEMMA GuardContains ==
  ASSUME TypeOK, Located, AllContained, NEW a \in Agents, NEW g \in Gens, GuardRecord(a, g)
  PROVE  Keeps
<1>1. proc[a][g].st = "forked" /\ UNCHANGED <<agent, workers, worker, op>>
  BY DEF GuardRecord, memory
<1>2. CASE PreviousGone(a, g)
  <2> DEFINE p == [proc[a][g] EXCEPT !.st = "alive"]
  <2>1. proc' = [proc EXCEPT ![a][g] = p] /\ owner' = [owner EXCEPT ![a] = g]
    BY <1>2 DEF GuardRecord, TypeOK
  <2>2. p.st = "alive"
    BY Values DEF ProcType
  <2> HIDE DEF p
  <2>3. /\ proc'[a][g] = p /\ \A h \in Gens \ {g} : proc'[a][h] = proc[a][h]
        /\ owner'[a] = g /\ \A b \in Agents \ {a} : proc'[b] = proc[b] /\ owner'[b] = owner[b]
    BY <2>1 DEF TypeOK
  <2>4. Contained(a)
    BY DEF AllContained
  <2>5. HasWorker(a)' <=> HasWorker(a)
    BY <1>1 DEF HasWorker, W
  <2>6. Live(a)' => Live(a)
    BY <1>1, <2>3 DEF Live
  <2>7. \A h \in Gens : (Exited(a, h) => Exited(a, h)') /\ (proc[a][h].st # "none" => proc'[a][h].st # "none")
    BY <1>1, <2>2, <2>3 DEF Exited
  <2>8. ASSUME NEW h \in Gens \ {g}
        PROVE  proc[a][h].st \notin {"alive", "stray"}
    <3>1. proc[a][h].st \in {"alive", "stray"} => owner[a] = h /\ h # 0
      BY <2>4 DEF Contained, Placed, Gens
    <3>2. owner[a] # 0 => proc[a][owner[a]].st = "gone"
      BY <1>2 DEF PreviousGone
    <3> QED
      BY <3>1, <3>2
  <2>14. op[a].pc = "fork" => agent[a].gen \in Gens
    BY DEF Located, LocatedAt, Gens
  <2> HIDE DEF HasWorker, Live, Exited
  <2>9. LastOpen(a)' /\ Accounted(a)' /\ Evident(a)'
    BY <1>1, <2>4, <2>5, <2>6, <2>7 DEF Contained, LastOpen, Accounted, Evident
  <2>10. Placed(a)'
    <3> SUFFICES ASSUME NEW h \in Gens
                 PROVE  /\ proc'[a][h].st = "forked" => h = agent[a].gen /\ (op[a].pc = "fork" \/ HasWorker(a))
                        /\ proc'[a][h].st \in {"alive", "stray"} => g = h
                        /\ g = h => proc'[a][h].st \in Recorded
                        /\ proc'[a][h].st # "none" => h <= agent[a].gen
      BY <1>1, <2>3, <2>5 DEF Placed
    <3>1. CASE h = g
      BY <1>1, <2>2, <2>3, <2>4, <3>1 DEF Contained, Placed, Recorded
    <3>2. CASE h # g
      BY <2>3, <2>4, <2>8, <3>2 DEF Contained, Placed
    <3> QED
      BY <3>1, <3>2
  <2>11. Contained(a)'
    BY <2>9, <2>10 DEF Contained
  <2>13. Upholds(a)
    <3> HIDE DEF Unowned
    <3>1. Vouched(a) => Vouched(a)'
      BY <1>1, <2>3, <2>5, <2>6, <2>7, <2>14 DEF Vouched
    <3> QED
      BY <1>1, <2>5, <2>6, <3>1 DEF Upholds
  <2>12. ASSUME NEW b \in Agents \ {a}
         PROVE  Contained(b)' /\ Upholds(b)
    <3>1. Contained(b) /\ LockMoves(b)
      BY <1>1 DEF AllContained, LockMoves
    <3> QED
      BY <1>1, <2>3, <3>1, UntouchedKept
  <2> QED
    BY <2>11, <2>12, <2>13 DEF AllContained, Keeps
<1>3. CASE ~ PreviousGone(a, g)
  <2> DEFINE p == [proc[a][g] EXCEPT !.st = "refused"]
  <2>1. proc' = [proc EXCEPT ![a][g] = p] /\ UNCHANGED owner
    BY <1>3 DEF GuardRecord, TypeOK
  <2>2. p.st = "refused"
    BY Values DEF ProcType
  <2> HIDE DEF p
  <2>3. ProcsFade
    BY <1>1, <2>1, <2>2, ProcsPut DEF Dies
  <2>4. Calm
    BY <1>1, <2>3, RowsUnmoved, WorkersUnmoved, LocksUnmoved DEF Calm
  <2> QED
    BY <2>4, CalmKeeps
<1> QED
  BY <1>2, <1>3

LEMMA ProcessContains ==
  ASSUME TypeOK, Located, AllContained, NEW a \in Agents, Process(a)
  PROVE  Keeps
<1>1. PICK g \in Gens :
        \/ GuardRecord(a, g) \/ \E st \in ProcStates : ProcExit(a, g, st)
        \/ ChildPrompt(a, g) \/ ChildAbort(a, g) \/ ChildAnswer(a, g)
        \/ \E d \in Dialogs : ChildAsk(a, g, d) \/ ChildClose(a, g, d)
        \/ \E how \in {"ok", "error", "cancelled"} : ChildEnd(a, g, how)
        \/ ChildDelta(a, g) \/ ChildStart(a, g)
  BY DEF Process
<1> DEFINE p == proc[a][g]
           c == Head(p.stdin)
           q == [p EXCEPT !.stdin = Tail(p.stdin)]
<1>2. p \in ProcType
  BY Values
<1>3. CASE GuardRecord(a, g)
  BY <1>3, GuardContains
<1>4. CASE ~ GuardRecord(a, g)
  <2>1. \E v : Child(a, g, v) /\ Dies(p, v)
    <3> HIDE DEF p
    <3>1. ASSUME NEW st \in ProcStates, ProcExit(a, g, st)
          PROVE  \E v : Child(a, g, v) /\ Dies(p, v)
      <4>1. Stopped(p, st).st = st
        BY <1>2 DEF Stopped, ProcType
      <4> QED
        BY <3>1, <4>1 DEF ProcExit, Dies, p
    <3>2. /\ q.st = p.st /\ \A f : Sent(q, f).st = p.st
          /\ \A x : [q EXCEPT !.task = x].st = p.st /\ [q EXCEPT !.abort = x].st = p.st
          /\ \A x, f : Sent([q EXCEPT !.task = x], f).st = p.st
      BY <1>2 DEF Sent, ProcType
    <3>3. CASE ChildPrompt(a, g) \/ ChildAbort(a, g)
      <4>1. \E x, f : \/ Child(a, g, Sent([q EXCEPT !.task = x], f)) \/ Child(a, g, Sent(q, f))
                      \/ Child(a, g, [q EXCEPT !.abort = x])
        BY <3>3 DEF ChildPrompt, ChildAbort, p
      <4> HIDE DEF q
      <4> QED
        BY <3>2, <4>1 DEF Dies
    <3>4. CASE ChildAnswer(a, g)
      <4> DEFINE q2 == [p EXCEPT !.stdin = Tail(p.stdin), !.dialogs = p.dialogs \ {c.dialog}]
      <4>1. q2.st = p.st /\ \A f : Sent(q2, f).st = p.st
        BY <1>2 DEF Sent, ProcType
      <4>2. Child(a, g, IF c.dialog \in p.dialogs
                        THEN Sent(q2, Frame("closed", p.task, c.dialog, "ok", FALSE)) ELSE q2)
        BY <3>4 DEF ChildAnswer, p
      <4> HIDE DEF q2
      <4> QED
        BY <4>1, <4>2 DEF Dies
    <3>5. ASSUME NEW d \in Dialogs, ChildAsk(a, g, d) \/ ChildClose(a, g, d)
          PROVE  \E v : Child(a, g, v) /\ Dies(p, v)
      <4>1. \A x, f : Sent([p EXCEPT !.dialogs = x], f).st = p.st
        BY <1>2 DEF Sent, ProcType
      <4>2. \E x, f : Child(a, g, Sent([p EXCEPT !.dialogs = x], f))
        BY <3>5 DEF ChildAsk, ChildClose, p
      <4> QED
        BY <4>1, <4>2 DEF Dies
    <3>6. ASSUME NEW how \in {"ok", "error", "cancelled"}, ChildEnd(a, g, how)
          PROVE  \E v : Child(a, g, v) /\ Dies(p, v)
      <4> DEFINE e == Sent([p EXCEPT !.task = NoRun, !.dialogs = {}, !.abort = "no"],
                           Frame("end", p.task, None, how, FALSE))
      <4>1. e.st = p.st /\ \A f : Sent(e, f).st = p.st
        BY <1>2 DEF Sent, ProcType
      <4>2. \/ Child(a, g, e)
            \/ Child(a, g, Sent(e, Frame("reply", NoRun, None, "ok", p.abort = "live")))
        BY <3>6 DEF ChildEnd, p
      <4> HIDE DEF e
      <4> QED
        BY <4>1, <4>2 DEF Dies
    <3>7. CASE ChildDelta(a, g) \/ ChildStart(a, g)
      <4>1. \A f : Sent(p, f).st = p.st /\ Sent([p EXCEPT !.strayed = TRUE], f).st = p.st
        BY <1>2 DEF Sent, ProcType
      <4>2. \E f : Child(a, g, Sent(p, f)) \/ Child(a, g, Sent([p EXCEPT !.strayed = TRUE], f))
        BY <3>7 DEF ChildDelta, ChildStart, p
      <4> QED
        BY <4>1, <4>2 DEF Dies
    <3> QED
      BY <1>1, <1>4, <3>1, <3>3, <3>4, <3>5, <3>6, <3>7
  <2>2. ProcsFade /\ UNCHANGED <<agent, workers, worker, op>>
    BY <2>1, ChildFades DEF Child, memory
  <2>3. Calm
    BY <2>2, RowsUnmoved, WorkersUnmoved, LocksUnmoved DEF Calm
  <2> QED
    BY <2>3, CalmKeeps
<1> QED
  BY <1>3, <1>4


------------------------------------------------------------------------------
(* The daemon goes on serving, and what it reports as verified is dead. *)

LEMMA ServingStays ==
  ASSUME OneDaemon, Serving, [Next]_vars
  PROVE  Serving' /\ ~ Daemon /\ \A a \in Agents : ~ ShutdownAgent(a)
<1>1. ~ (Crash \/ BeginShutdown \/ ShutdownExit \/ \E v : Restart(v))
  BY DEF OneDaemon, Serving, Crash, BeginShutdown, ShutdownExit, Restart
<1>2. \A a \in Agents : ~ ShutdownAgent(a)
  BY DEF Serving, ShutdownAgent
<1>3. ASSUME NEW a \in Agents, Boot(a)
      PROVE  UNCHANGED <<up, closing>>
  BY <1>3 DEF Boot, Spawn, Admit, LockVictim, SkipVictim, BootRefused, AdmitWriter, BeforeSpawn, Fork, ForkFails,
     Register, ReadyOk, ReadyFails, EvictionRefused, SpawnInsert, PickVictim, memory
<1>4. ASSUME NEW a \in Agents, Stop(a) \/ Await(a)
      PROVE  UNCHANGED <<up, closing>>
  BY <1>4 DEF Stop, StopDone, UnbootDone, Await, PromptOk, PromptRejected, PromptUncertain, AbortConfirmed, AbortForced
<1>5. ASSUME NEW a \in Agents, Mutate(a)
      PROVE  UNCHANGED <<up, closing>>
  BY <1>5 DEF Mutate, Interrupt, Respawn, CloseOrphan, ReapDone, ConfirmCleanup, SendWake, SoftInterrupt, SendIdle,
     SendQueued, Answer, memory
<1>6. ASSUME NEW a \in Agents, Background(a)
      PROVE  UNCHANGED <<up, closing>>
  BY <1>6 DEF Background, StopUnowned, FailWorker, Reaped, WorkerExited, Settle, CheckIdle, FallSilent, ObserveIdle, Park
<1>7. ASSUME NEW a \in Agents, Read(a)
      PROVE  UNCHANGED <<up, closing>>
  BY <1>7 DEF Read, ReadReply, ReadDropped, ReadAsk, ReadClosed, ReadEnd, ReadDelta, ReadStart, ReaderFails, memory
<1>8. ASSUME NEW a \in Agents, Process(a)
      PROVE  UNCHANGED <<up, closing>>
  BY <1>8, ProcessKeeps DEF memory
<1>9. UNCHANGED vars => UNCHANGED <<up, closing>>
  BY DEF vars, memory
<1>10. ~ Daemon
  BY <1>1 DEF Daemon
<1>11. UNCHANGED <<up, closing>>
  BY <1>2, <1>3, <1>4, <1>5, <1>6, <1>7, <1>8, <1>9, <1>10 DEF Next
<1> QED
  BY <1>2, <1>10, <1>11 DEF Serving

LEMMA ContainedStep ==
  ASSUME OneDaemon, TypeOK, Located, Serving, AllContained, [Next]_vars
  PROVE  Keeps /\ Serving'
<1>1. Serving' /\ ~ Daemon /\ \A a \in Agents : ~ ShutdownAgent(a)
  BY ServingStays
<1>2. CASE UNCHANGED vars
  <2>1. UNCHANGED <<owner, agent, workers, worker, op, proc>>
    BY <1>2 DEF vars, memory
  <2> QED
    BY <1>1, <2>1, RowsUnmoved, WorkersUnmoved, ProcsUnmoved, LocksUnmoved, CalmKeeps DEF Calm
<1>3. ASSUME NEW a \in Agents,
             \/ Boot(a) \/ Stop(a) \/ Mutate(a) \/ Await(a) \/ Background(a) \/ Read(a) \/ Process(a)
      PROVE  Keeps
  BY <1>3, BootContains, StopsContain, MutateContains, AwaitContains, BackgroundContains, ReadContains, ProcessContains
<1> QED
  BY <1>1, <1>2, <1>3 DEF Next

LEMMA ContainedInit == Init => AllContained /\ Serving
<1> SUFFICES ASSUME Init
             PROVE  AllContained /\ Serving
  OBVIOUS
<1>1. Serving
  BY DEF Init, Serving
<1>2. ASSUME NEW a \in Agents
      PROVE  Contained(a)
  <2>1. /\ workers[a] = 0 /\ op[a].pc = "free" /\ owner[a] = 0 /\ agent[a].gen = 0
        /\ \A g \in Gens : /\ worker[a][g].life = "none" /\ worker[a][g].closed /\ proc[a][g].st = "none"
                           /\ g # 0
    BY DEF Init, Free, NoWorker, NoProc, Gens
  <2>2. ~ HasWorker(a)
    BY <2>1 DEF HasWorker
  <2>3. ~ Live(a)
    BY <2>1 DEF Live
  <2> HIDE DEF HasWorker, Live
  <2> QED
    BY <2>1, <2>2, <2>3
       DEF Contained, LastOpen, Accounted, Placed, Evident, BeforeFork, OnWorker, Over, Recorded
<1> QED
  BY <1>1, <1>2 DEF AllContained

(* cleanup=verified is a proof, for any agents, requests and schedule of one daemon: while no
   coroutine works on the agent none of its processes, of any generation, is still there, nor
   a descendant one of them left (worker.py terminate, runtime.py reap_orphan, worker_exited). *)
THEOREM VerifiedIsDead ==
  ASSUME OneDaemon
  PROVE  Spec => []VerifiedMeansDead
<1>1. Init => TypeOK /\ Located /\ Serving /\ AllContained
  BY TypeInit, ContainedInit
<1>2. TypeOK /\ Located /\ Serving /\ AllContained /\ [Next]_vars
        => (TypeOK /\ Located /\ Serving /\ AllContained)'
  BY TypeStep, ContainedStep DEF Keeps
<1>3. AllContained => VerifiedMeansDead
  BY DEF AllContained, Contained, Evident, VerifiedMeansDead
<1> QED
  BY <1>1, <1>2, <1>3, PTL DEF Spec

------------------------------------------------------------------------------
(* No work outside the queue: without such a fault no frame announces any, whatever else happens. *)

LEMMA ProcStartFree ==
  ASSUME TypeOK, NoStarts, NEW a \in Agents, NEW g
  PROVE  g \in Gens => /\ \A c : StartFree(Written(proc[a][g], c))
                       /\ StartFree(Abandoned(proc[a][g])) /\ \A st : StartFree(Stopped(proc[a][g], st))
BY StartFreeKept, Values DEF NoStarts

LEMMA StoppedStartFree ==
  ASSUME TypeOK, NoStarts, NEW a \in Agents, NEW g, NEW st, SetProc(a, g, Stopped(proc[a][g], st))
  PROVE  StartFreeNext
<1> DEFINE p == Stopped(proc[a][g], st)
<1>1. (g \in Gens => StartFree(p)) /\ proc' = [proc EXCEPT ![a][g] = p]
  BY ProcStartFree DEF SetProc
<1> HIDE DEF p
<1> QED
  BY <1>1, StartFreePut

LEMMA WrittenStartFree ==
  ASSUME TypeOK, NoStarts, NEW a \in Agents, NEW g, NEW c, SetProc(a, g, Written(proc[a][g], c))
  PROVE  StartFreeNext
<1> DEFINE p == Written(proc[a][g], c)
<1>1. (g \in Gens => StartFree(p)) /\ proc' = [proc EXCEPT ![a][g] = p]
  BY ProcStartFree DEF SetProc
<1> HIDE DEF p
<1> QED
  BY <1>1, StartFreePut

LEMMA AbandonedStartFree ==
  ASSUME TypeOK, NoStarts, NEW a \in Agents, NEW g, SetProc(a, g, Abandoned(proc[a][g]))
  PROVE  StartFreeNext
<1> DEFINE p == Abandoned(proc[a][g])
<1>1. (g \in Gens => StartFree(p)) /\ proc' = [proc EXCEPT ![a][g] = p]
  BY ProcStartFree DEF SetProc
<1> HIDE DEF p
<1> QED
  BY <1>1, StartFreePut

LEMMA AdvanceStartFree ==
  ASSUME TypeOK, NoStarts, NEW a \in Agents, NEW ag, NEW rs, NEW w, AdvanceQueue(a, ag, rs, w)
  PROVE  StartFreeNext
<1>1. StartRun(a, NextQueued(rs, a), ag, rs, w, "settle") \/ UNCHANGED proc
  BY DEF AdvanceQueue
<1> QED
  BY <1>1, PromptStartFree DEF NoStarts, StartFreeNext

LEMMA BootStartFree ==
  ASSUME TypeOK, NoStarts, NEW a \in Agents, Boot(a)
  PROVE  StartFreeNext
<1>1. CASE Fork(a)
  <2>1. StartFree([NoProc EXCEPT !.st = "forked"])
    BY QueueFramesAreFrames DEF NoProc, StartFree
  <2> QED
    BY <1>1, <2>1, StartFreePut DEF Fork, SetProc
<1>2. CASE ReadyOk(a)
  <2>1. (\E r, ag, rs, w, k : StartRun(a, r, ag, rs, w, k)) \/ UNCHANGED proc
    BY <1>2 DEF ReadyOk
  <2> QED
    BY <2>1, PromptStartFree DEF NoStarts, StartFreeNext
<1>3. CASE ~ Fork(a) /\ ~ ReadyOk(a)
  <2>1. UNCHANGED proc
    BY <1>3 DEF Boot, Spawn, Admit, LockVictim, SkipVictim, BootRefused, AdmitWriter, BeforeSpawn, ForkFails, Register,
       ReadyFails, EvictionRefused, SpawnInsert, PickVictim
  <2> QED
    BY <2>1 DEF NoStarts, StartFreeNext
<1> QED
  BY <1>1, <1>2, <1>3

LEMMA StopStartFree ==
  ASSUME TypeOK, NoStarts, NEW a \in Agents, Stop(a)
  PROVE  StartFreeNext
<1>1. PICK st : SetProc(a, workers[a], Stopped(proc[a][workers[a]], st))
  BY DEF Stop, StopDone, UnbootDone
<1> QED
  BY <1>1, StoppedStartFree

LEMMA MutateStartFree ==
  ASSUME TypeOK, NoStarts, NEW a \in Agents, Mutate(a)
  PROVE  StartFreeNext
<1>1. CASE \E proved \in BOOLEAN : ReapDone(a, proved)
  <2>1. SetProc(a, owner[a], Stopped(proc[a][owner[a]], "gone")) \/ SetProc(a, owner[a], proc[a][owner[a]])
    BY <1>1 DEF ReapDone
  <2>2. owner[a] \in Gens => StartFree(proc[a][owner[a]])
    BY DEF NoStarts
  <2>3. CASE SetProc(a, owner[a], proc[a][owner[a]])
    BY <2>2, <2>3, StartFreePut DEF SetProc
  <2> QED
    BY <2>1, <2>3, StoppedStartFree
<1>2. CASE ConfirmCleanup(a)
  BY <1>2, StoppedStartFree DEF ConfirmCleanup
<1>3. CASE SoftInterrupt(a) \/ \E d \in Dialogs : Answer(a, d)
  <2>1. PICK c : SetProc(a, workers[a], Written(proc[a][workers[a]], c))
    BY <1>3 DEF SoftInterrupt, Answer
  <2> QED
    BY <2>1, WrittenStartFree
<1>4. CASE \E r \in Runs : SendIdle(a, r)
  BY <1>4, PromptStartFree DEF SendIdle
<1>5. CASE \/ \E name \in Requests : Interrupt(a, name) \/ Respawn(a, name)
           \/ \E v \in {"gone", "live"} : CloseOrphan(a, v)
           \/ SendWake(a) \/ \E r \in Runs : SendQueued(a, r)
  <2>1. UNCHANGED proc
    BY <1>5 DEF Interrupt, Respawn, CloseOrphan, SendWake, SendQueued
  <2> QED
    BY <2>1 DEF NoStarts, StartFreeNext
<1> QED
  BY <1>1, <1>2, <1>3, <1>4, <1>5 DEF Mutate

LEMMA AwaitStartFree ==
  ASSUME TypeOK, NoStarts, NEW a \in Agents, Await(a)
  PROVE  StartFreeNext
<1>1. CASE PromptRejected(a)
  <2>1. UNCHANGED proc \/ \E ag, rs, w : AdvanceQueue(a, ag, rs, w)
    BY <1>1 DEF PromptRejected
  <2> QED
    BY <2>1, AdvanceStartFree DEF NoStarts, StartFreeNext
<1>2. CASE PromptUncertain(a) \/ AbortForced(a)
  <2>1. SetProc(a, workers[a], Abandoned(proc[a][workers[a]]))
    BY <1>2 DEF PromptUncertain, AbortForced
  <2> QED
    BY <2>1, AbandonedStartFree
<1>3. CASE PromptOk(a) \/ AbortConfirmed(a)
  <2>1. UNCHANGED proc
    BY <1>3 DEF PromptOk, AbortConfirmed
  <2> QED
    BY <2>1 DEF NoStarts, StartFreeNext
<1> QED
  BY <1>1, <1>2, <1>3 DEF Await

LEMMA BackgroundStartFree ==
  ASSUME TypeOK, NoStarts, NEW a \in Agents, Background(a)
  PROVE  StartFreeNext
<1>1. ASSUME NEW g \in Gens, Reaped(a, g)
      PROVE  StartFreeNext
  <2> DEFINE p == [proc[a][g] EXCEPT !.stdout = << >>]
  <2>1. StartFree(p)
    BY Values, QueueFramesAreFrames DEF StartFree, ProcType
  <2>2. proc' = [proc EXCEPT ![a][g] = p]
    BY <1>1 DEF Reaped, TypeOK
  <2> HIDE DEF p
  <2> QED
    BY <2>1, <2>2, StartFreePut
<1>2. ASSUME NEW g \in Gens, NEW r \in Runs, Settle(a, g, r)
      PROVE  StartFreeNext
  <2>1. UNCHANGED proc \/ \E ag, rs, w : AdvanceQueue(a, ag, rs, w)
    BY <1>2 DEF Settle
  <2> QED
    BY <2>1, AdvanceStartFree DEF NoStarts, StartFreeNext
<1>3. CASE \/ \E g \in Gens : \/ StopUnowned(a, g) \/ FailWorker(a, g)
                              \/ \E proved \in BOOLEAN : WorkerExited(a, g, proved)
                              \/ \E r \in Runs : CheckIdle(a, g, r)
           \/ FallSilent(a) \/ ObserveIdle(a) \/ Park(a)
  <2>1. UNCHANGED proc
    BY <1>3 DEF StopUnowned, FailWorker, WorkerExited, CheckIdle, FallSilent, ObserveIdle, Park
  <2> QED
    BY <2>1 DEF NoStarts, StartFreeNext
<1> QED
  BY <1>1, <1>2, <1>3 DEF Background

LEMMA ReadStartFree ==
  ASSUME TypeOK, NoStarts, NEW a \in Agents, Read(a)
  PROVE  StartFreeNext
<1>1. ASSUME NEW g \in Gens, ReaderFails(a, g)
      PROVE  StartFreeNext
  BY <1>1 DEF ReaderFails, NoStarts, StartFreeNext
<1>2. ASSUME NEW g \in Gens,
             \/ ReadReply(a, g) \/ ReadDropped(a, g) \/ ReadAsk(a, g) \/ ReadClosed(a, g)
             \/ ReadEnd(a, g) \/ ReadDelta(a, g) \/ ReadStart(a, g)
      PROVE  StartFreeNext
  <2>1. \E type : Heads(a, g, type) /\ Consume(a, g)
    BY <1>2 DEF ReadReply, ReadDropped, ReadAsk, ReadClosed, ReadEnd, ReadDelta, ReadStart
  <2> QED
    BY <2>1, TakenStartFree
<1> QED
  BY <1>1, <1>2 DEF Read

LEMMA NoStartsStep ==
  ASSUME "unowned" \notin Faults, TypeOK, NoStarts, [Next]_vars
  PROVE  NoStarts'
<1>1. CASE UNCHANGED vars
  BY <1>1 DEF vars, NoStarts, StartFree
<1>2. ASSUME NEW a \in Agents,
             Boot(a) \/ Stop(a) \/ Mutate(a) \/ Await(a) \/ Background(a) \/ Read(a) \/ Process(a)
      PROVE  StartFreeNext
  BY <1>2, BootStartFree, StopStartFree, MutateStartFree, AwaitStartFree, BackgroundStartFree, ReadStartFree,
     ProcessStartFree
<1>3. CASE Daemon \/ \E a \in Agents : ShutdownAgent(a)
  <2>1. UNCHANGED proc
    BY <1>3 DEF Daemon, Crash, BeginShutdown, ShutdownExit, Restart, ShutdownAgent
  <2> QED
    BY <2>1 DEF NoStarts, StartFree
<1> QED
  BY <1>1, <1>2, <1>3 DEF Next, NoStarts, StartFreeNext

------------------------------------------------------------------------------
(* Writers. *)

\* A boot admitted by the writer check has no other writer behind it, nor has a writer's process.
WritersApart ==
  \A a \in Writers : \A b \in Writers \ {a} :
    /\ ~ (Live(a) /\ Live(b))
    /\ ~ (op[a].pc = "fork" /\ Live(b))

LEMMA VouchedInit == Init => NoStarts /\ AllVouched /\ WritersApart
<1> SUFFICES ASSUME Init
             PROVE  NoStarts /\ AllVouched /\ WritersApart
  OBVIOUS
<1>1. NoStarts
  BY QueueFramesAreFrames DEF Init, NoStarts, NoProc, StartFree
<1>2. ASSUME NEW a \in Agents
      PROVE  ~ Live(a) /\ op[a].pc = "free" /\ agent[a].cleanup = "verified"
  BY DEF Init, Live, NoProc, Free
<1> HIDE DEF Live
<1>3. AllVouched
  BY <1>2 DEF AllVouched, Vouched, BeforeFork
<1>4. WritersApart
  BY <1>2, SetsAssumption DEF WritersApart
<1> QED
  BY <1>1, <1>3, <1>4

LEMMA VouchedStep ==
  ASSUME NoStarts, AllVouched, Keeps
  PROVE  AllVouched'
<1> SUFFICES ASSUME NEW b \in Agents
             PROVE  Vouched(b)'
  BY DEF AllVouched
<1>1. Vouched(b) /\ ~ Unowned(b) /\ Upholds(b)
  BY DEF AllVouched, NoStarts, Unowned, Keeps
<1> QED
  BY <1>1 DEF Upholds

(* Two boots are never past admission at a time, and one that names a generation has seen every
   row that stands for another writer's process. *)
LEMMA ApartStep ==
  ASSUME AdmissionHeld, AllVouched, WritersApart, \A b \in Agents : Upholds(b)
  PROVE  WritersApart'
<1> SUFFICES ASSUME NEW a \in Writers, NEW b \in Writers \ {a}
             PROVE  /\ ~ (Live(a)' /\ Live(b)')
                    /\ ~ (op'[a].pc = "fork" /\ Live(b)')
  BY DEF WritersApart
<1>1. a \in Agents /\ b \in Agents /\ a # b
  BY SetsAssumption
<1>2. Upholds(a) /\ Upholds(b) /\ Vouched(b)
  BY <1>1 DEF AllVouched
<1>3. ~ (op[a].pc \in UnderAdmission /\ op[b].pc \in UnderAdmission)
  BY <1>1 DEF AdmissionHeld
<1>4. /\ ~ (Live(a) /\ Live(b)) /\ ~ (op[a].pc = "fork" /\ Live(b)) /\ ~ (op[b].pc = "fork" /\ Live(a))
  BY DEF WritersApart
<1>5. BeforeSpawn(a) => op[a].pc \in UnderAdmission /\ ~ Live(b)
  <2>1. BeforeSpawn(a) => agent[b].state \notin Resident /\ agent[b].cleanup # "unknown"
    BY DEF BeforeSpawn, WriterConflicts
  <2>2. Live(b) => agent[b].state \in Resident \/ agent[b].cleanup = "unknown"
    BY <1>2 DEF Vouched
  <2>3. BeforeSpawn(a) => op[a].pc \in UnderAdmission
    BY DEF BeforeSpawn, UnderAdmission
  <2> QED
    BY <2>1, <2>2, <2>3
<1> HIDE DEF Live, BeforeSpawn
<1>6. "fork" \in UnderAdmission
  BY DEF UnderAdmission
<1> QED
  BY <1>2, <1>3, <1>4, <1>5, <1>6 DEF Upholds

(* Two managed writers never have a process alive at the same time, orphans, strays and processes
   still being stopped included, for any agents, generations, requests and schedules of one daemon
   whose children start nothing outside the queue (admit_writer, assert_writer_exclusive).  A child
   that does is parked with its process alive, and the next writer is admitted beside it.        *)
THEOREM WritersExclude ==
  ASSUME OneDaemon, "unowned" \notin Faults
  PROVE  Spec => []WriterExclusion
<1> DEFINE Inv == /\ TypeOK /\ Located /\ Serving /\ AllContained
                  /\ AdmissionHeld /\ NoStarts /\ AllVouched /\ WritersApart
<1>1. Init => Inv
  BY TypeInit, ContainedInit, AdmissionInit, VouchedInit
<1>2. Inv /\ [Next]_vars => Inv'
  <2> SUFFICES ASSUME Inv, [Next]_vars
               PROVE  Inv'
    OBVIOUS
  <2>1. TypeOK' /\ Located' /\ AdmissionHeld' /\ NoStarts'
    BY TypeStep, AdmissionStep, NoStartsStep
  <2>2. Keeps /\ Serving'
    BY ContainedStep
  <2>3. AllVouched'
    BY <2>2, VouchedStep
  <2>4. WritersApart'
    BY <2>2, ApartStep DEF Keeps
  <2> QED
    BY <2>1, <2>2, <2>3, <2>4 DEF Keeps
<1>3. Inv => WriterExclusion
  BY DEF WritersApart, WriterExclusion
<1> QED
  BY <1>1, <1>2, <1>3, PTL DEF Spec

------------------------------------------------------------------------------
(* Limits. *)

\* A boot that ensure_capacity let through, up to the fork.
Granted(a) ==
  \/ op[a].pc = "fork"
  \/ /\ agent[a].state # "absent"
     /\ op[a].pc = "writer" \/ (op[a].pc \in {"lock", "victim"} /\ op[a].back = "writer")
\* A spawn waits for admission before it inserts its rows.
Fresh(a) == op[a].pc = "admit" /\ op[a].kind = "spawn" => agent[a].state = "absent"
AllFresh == \A a \in Agents : Fresh(a)

(* No more agents have a process than the scope may hold, no more have a worker than may be
   resident, and a boot that was let through finds room for its own.                      *)
Room ==
  /\ Cardinality({b \in Agents : Live(b)}) <= MaxScope
  /\ Cardinality({b \in Agents : HasWorker(b)}) <= MaxResident
  /\ \A a \in Agents : Granted(a) =>
       /\ Cardinality({b \in Agents : Live(b)} \ {a}) < MaxScope
       /\ Cardinality({b \in Agents : HasWorker(b)} \ {a}) < MaxResident

\* Only ensure_capacity lets a boot through.
Grants(b) ==
  /\ Granted(b)' => Granted(b) \/ (op[b].pc = "capacity" /\ ~ Full(b))
  /\ Fresh(b) => Fresh(b)'

LEMMA StaysGrants ==
  ASSUME NEW b \in Agents, LockStays(b),
         op[b].pc \in BeforeFork /\ agent[b].state = "absent" => agent'[b].state = "absent"
  PROVE  Grants(b)
BY DEF Grants, Granted, Fresh, LockStays, UnderAdmission, BeforeFork

\* The row of another agent is left alone.
LEMMA OtherRow ==
  ASSUME TypeOK, NEW a \in Agents, NEW b \in Agents \ {a}, NEW n, SetAgent(a, n)
  PROVE  agent'[b] = agent[b]
BY DEF SetAgent, TypeOK

(* No step but a boot's touches the row of an agent that boots without one yet. *)
LEMMA AbsentStays ==
  ASSUME TypeOK, AllContained, NEW a \in Agents,
         Mutate(a) \/ Await(a) \/ Background(a) \/ Read(a) \/ Process(a) \/ Stop(a),
         NEW b \in Agents, op[b].pc \in BeforeFork, agent[b].state = "absent"
  PROVE  agent'[b].state = "absent"
<1>1. agent[b].gen = 0
  BY Values, BoundsAssumption DEF AllContained, Contained, Evident, AgentType
<1>2. CASE Mutate(a)
  <2>1. op[a].pc \in {"free", "reap"}
    BY <1>2 DEF Mutate, Interrupt, Respawn, CloseOrphan, ReapDone, ConfirmCleanup, SendWake, SoftInterrupt, SendIdle,
       SendQueued, Answer, Request, LockFree
  <2>2. a # b
    BY <2>1 DEF BeforeFork
  <2>3. (\E n : SetAgent(a, n)) \/ UNCHANGED agent
    BY <1>2 DEF Mutate, Interrupt, Respawn, CloseOrphan, ReapDone, ConfirmCleanup, SendWake, SoftInterrupt, SendIdle,
       SendQueued, Answer, BeginInterrupt, StartRun, Dismiss, SetAgent
  <2> QED
    BY <2>2, <2>3, OtherRow
<1>3. CASE Await(a)
  <2>1. op[a].pc \in {"prompt", "abort"}
    BY <1>3 DEF Await, PromptOk, PromptRejected, PromptUncertain, AbortConfirmed, AbortForced
  <2>2. a # b
    BY <2>1 DEF BeforeFork
  <2>3. (\E n : SetAgent(a, n)) \/ UNCHANGED agent
    BY <1>3 DEF Await, PromptOk, PromptRejected, PromptUncertain, AbortConfirmed, AbortForced, BeginInterrupt,
       AdvanceQueue, StartRun
  <2> QED
    BY <2>2, <2>3, OtherRow
<1>4. CASE Background(a)
  <2>1. op[a].pc = "free" \/ UNCHANGED agent
    BY <1>4 DEF Background, StopUnowned, FailWorker, Reaped, WorkerExited, Settle, CheckIdle, FallSilent, ObserveIdle,
       Park, LockFree
  <2>2. (\E n : SetAgent(a, n)) \/ UNCHANGED agent
    BY ZenonT(40), <1>4 DEF Background, StopUnowned, FailWorker, Reaped, WorkerExited, Settle, CheckIdle, FallSilent, ObserveIdle,
       Park, BeginInterrupt, AdvanceQueue, StartRun
  <2>3. op[a].pc = "free" => a # b
    BY DEF BeforeFork
  <2> QED
    BY <2>1, <2>2, <2>3, OtherRow
<1>5. CASE Read(a)
  <2>1. (\E n : SetAgent(a, n)) \/ UNCHANGED agent
    BY <1>5 DEF Read, ReadReply, ReadDropped, ReadAsk, ReadClosed, ReadEnd, ReadDelta, ReadStart, ReaderFails, Dismiss,
       SetAgent
  <2>2. \E g \in Gens : agent[a].gen = g \/ UNCHANGED agent
    BY <1>5 DEF Read, ReadReply, ReadDropped, ReadAsk, ReadClosed, ReadEnd, ReadDelta, ReadStart, ReaderFails, Heeded,
       memory
  <2>3. 0 \notin Gens
    BY DEF Gens
  <2> QED
    BY <1>1, <2>1, <2>2, <2>3, OtherRow
<1>6. CASE Process(a)
  BY <1>6, ProcessKeeps
<1>7. CASE Stop(a)
  <2>1. op[a].pc \in {"stop", "unboot"} /\ \E n : SetAgent(a, n)
    BY <1>7 DEF Stop, StopDone, UnbootDone
  <2>2. a # b
    BY <2>1 DEF BeforeFork
  <2> QED
    BY <2>1, <2>2, OtherRow
<1> QED
  BY <1>2, <1>3, <1>4, <1>5, <1>6, <1>7

\* The end of a stop hands the boot that waits for it back, and grants nothing.
LEMMA StopGrants ==
  ASSUME TypeOK, AllContained, AdmissionHeld, NEW a \in Agents, Stop(a), NEW b \in Agents
  PROVE  Grants(b)
<1>1. op[b].pc \in BeforeFork /\ agent[b].state = "absent" => agent'[b].state = "absent"
  BY AbsentStays
<1>2. PICK o : StopDone(a, o) \/ UnbootDone(a, o)
  BY DEF Stop
<1>3. CASE UnbootDone(a, o)
  <2>1. LocksStay
    BY <1>3, LocksSet DEF UnbootDone, Free, UnderAdmission
  <2> QED
    BY <1>1, <2>1, StaysGrants DEF LocksStay
<1>4. CASE StopDone(a, o)
  <2>1. op[b] \in OpType /\ op[a].pc = "stop"
    BY <1>4 DEF StopDone, TypeOK
  <2>2. CASE b = a
    <3>1. op'[a].pc = "free" \/ (op'[a].pc = "admit" /\ op'[a].kind = "send_interrupt")
      BY <1>4 DEF StopDone, Free
    <3> QED
      BY <2>2, <3>1 DEF Grants, Granted, Fresh
  <2>3. CASE b # a
    <3>1. \/ op'[b] = op[b]
          \/ op[b].pc = "victim" /\ op'[b] \in {[op[b] EXCEPT !.pc = "refused"], [op[b] EXCEPT !.pc = op[b].back]}
      BY <1>4, <2>3 DEF StopDone
    <3>2. \/ op'[b] = op[b]
          \/ op[b].pc = "victim" /\ op'[b].pc \in {"refused", op[b].back}
      BY <2>1, <3>1 DEF OpType
    <3>3. op[b].pc = "victim" => op[b].back \in {"capacity", "writer"}
      BY DEF AdmissionHeld
    <3> QED
      BY <1>1, <3>2, <3>3 DEF Grants, Granted, Fresh, BeforeFork
  <2> QED
    BY <2>2, <2>3
<1> QED
  BY <1>2, <1>3, <1>4


\* The steps of a boot; only ensure_capacity's last word lets it through.
LEMMA BootGrants ==
  ASSUME TypeOK, Located, AllContained, AdmissionHeld, AllFresh, NEW a \in Agents, Boot(a), NEW b \in Agents
  PROVE  Grants(b)
<1>0. op \in [Agents -> OpType] /\ op[a] \in OpType /\ agent[a] \in AgentType
  BY DEF TypeOK
<1>1. CASE Spawn(a)
  <2>1. /\ op'[a].pc = "admit" /\ agent[a].state = "absent" /\ UNCHANGED agent
        /\ \A c \in Agents \ {a} : op'[c] = op[c]
    BY <1>0, <1>1 DEF Spawn, SetOp, Free
  <2> QED
    BY <2>1 DEF Grants, Granted, Fresh
<1>2. CASE Admit(a)
  <2>1. /\ op[a].pc = "admit" /\ UNCHANGED agent /\ \A c \in Agents \ {a} : op'[c] = op[c]
        /\ op'[a].pc = IF op[a].kind = "spawn" THEN "writer" ELSE "capacity"
    BY <1>0, <1>2 DEF Admit, SetOp, OpType
  <2>2. op[a].kind = "spawn" => agent[a].state = "absent"
    BY <2>1 DEF AllFresh, Fresh
  <2> QED
    BY <2>1, <2>2 DEF Grants, Granted, Fresh
<1>3. ASSUME NEW r \in Runs, SpawnInsert(a, r)
      PROVE  Grants(b)
  <2>1. op'[a].pc = "capacity" /\ \A c \in Agents \ {a} : op'[c] = op[c] /\ agent'[c] = agent[c]
    BY <1>0, <1>3, OtherRow DEF SpawnInsert, SetOp, OpType
  <2> QED
    BY <2>1 DEF Grants, Granted, Fresh
<1>4. ASSUME NEW c \in Agents, PickVictim(a, c)
      PROVE  Grants(b)
  <2> DEFINE o == [op[a] EXCEPT !.pc = "lock", !.victim = c, !.vgen = workers[c],
                                !.back = op[a].pc, !.tried = op[a].tried \cup {c}]
  <2>1. o.pc = "lock" /\ o.back = op[a].pc
    BY <1>0 DEF OpType
  <2>2. op[a].pc \in {"capacity", "writer"} /\ UNCHANGED agent /\ op' = [op EXCEPT ![a] = o]
    BY <1>4 DEF PickVictim, SetOp
  <2> HIDE DEF o
  <2>3. op'[a] = o /\ \A d \in Agents \ {a} : op'[d] = op[d]
    BY <1>0, <2>2
  <2> QED
    BY <2>1, <2>2, <2>3 DEF Grants, Granted, Fresh
<1>5. CASE LockVictim(a)
  <2> DEFINE v == op[a].victim
             o == [op EXCEPT ![a].pc = "victim", ![v].kind = "evict"]
  <2>1. op[a].pc = "lock" /\ v \in Agents /\ v # a /\ op[v].pc = "free"
    BY <1>5 DEF LockVictim, Located, LocatedAt
  <2>2. op' = [o EXCEPT ![v].pc = "stop"] /\ \E n : SetAgent(v, n)
    BY <1>5 DEF LockVictim, BeginInterrupt
  <2>3. o \in [Agents -> OpType] /\ o[a] = [op[a] EXCEPT !.pc = "victim"] /\ \A c \in Agents \ {a, v} : o[c] = op[c]
    BY <1>0, <2>1 DEF OpType, Steps, Kinds
  <2> HIDE DEF o
  <2>4. op'[v].pc = "stop" /\ op'[a] = o[a] /\ \A c \in Agents \ {a, v} : op'[c] = op[c]
    BY <2>1, <2>2, <2>3 DEF OpType
  <2>5. op'[a].pc = "victim" /\ op'[a].back = op[a].back
    BY <1>0, <2>3, <2>4 DEF OpType
  <2>6. \A c \in Agents \ {v} : agent'[c] = agent[c]
    BY <2>1, <2>2, OtherRow
  <2> HIDE DEF v
  <2> QED
    BY <2>1, <2>4, <2>5, <2>6 DEF Grants, Granted, Fresh
<1>6. CASE SkipVictim(a) \/ BootRefused(a) \/ EvictionRefused(a) \/ ForkFails(a)
  <2>1. \A c \in Agents \ {a} : op'[c] = op[c] /\ agent'[c] = agent[c]
    <3>1. \/ AbortBoot(a) \/ (SetOp(a, Free) /\ UNCHANGED agent)
          \/ SetOp(a, [op[a] EXCEPT !.pc = "capacity"]) /\ UNCHANGED agent
      BY <1>6 DEF SkipVictim, BootRefused, EvictionRefused, ForkFails
    <3> QED
      BY <1>0, <3>1, OtherRow DEF AbortBoot, SetOp
  <2>2. op'[a].pc \in {"free", "capacity"}
    BY <1>0, <1>6 DEF SkipVictim, BootRefused, EvictionRefused, ForkFails, AbortBoot, SetOp, Free, OpType
  <2> QED
    BY <2>1, <2>2 DEF Grants, Granted, Fresh
<1>7. CASE AdmitWriter(a)
  <2>1. /\ op[a].pc = "capacity" /\ ~ Full(a) /\ UNCHANGED agent /\ op'[a].pc = "writer"
        /\ \A c \in Agents \ {a} : op'[c] = op[c]
    BY <1>0, <1>7 DEF AdmitWriter, SetOp, OpType
  <2> QED
    BY <2>1 DEF Grants, Granted, Fresh
<1>8. CASE BeforeSpawn(a)
  <2> DEFINE o == [op[a] EXCEPT !.pc = "fork", !.tried = {}, !.victim = None, !.back = "free", !.vgen = 0]
  <2>1. o.pc = "fork"
    BY <1>0 DEF OpType
  <2>2. /\ op' = [op EXCEPT ![a] = o] /\ agent[a].state # "absent"
        /\ op[a].pc = "writer" \/ (op[a].pc = "capacity" /\ ~ Full(a))
    BY <1>8 DEF BeforeSpawn, SetOp
  <2> HIDE DEF o
  <2>3. op'[a].pc = "fork" /\ \A c \in Agents \ {a} : op'[c] = op[c] /\ agent'[c] = agent[c]
    BY <1>0, <1>8, <2>1, <2>2, OtherRow DEF BeforeSpawn
  <2> QED
    BY <2>2, <2>3 DEF Grants, Granted, Fresh
<1>9. CASE Fork(a)
  BY <1>9 DEF Fork, memory, Grants, Granted, Fresh
<1>10. CASE Register(a) \/ ReadyOk(a) \/ ReadyFails(a)
  <2>1. \A c \in Agents \ {a} : op'[c] = op[c] /\ agent'[c] = agent[c]
    <3>1. (\E o : SetOp(a, o)) /\ ((\E n : SetAgent(a, n)) \/ UNCHANGED agent)
      BY <1>10 DEF Register, ReadyOk, ReadyFails, StartRun
    <3> QED
      BY <1>0, <3>1, OtherRow DEF SetOp
  <2>2. op'[a].pc \in {"ready", "unboot", "prompt", "free"}
    <3>1. CASE Register(a) \/ ReadyFails(a)
      BY <1>0, <3>1 DEF Register, ReadyFails, SetOp, OpType
    <3>2. SetOp(a, Free) => op'[a].pc = "free"
      BY <1>0 DEF SetOp, Free
    <3>3. ASSUME NEW r, NEW ag, NEW rs, NEW w, NEW k, StartRun(a, r, ag, rs, w, k)
          PROVE  op'[a].pc = "prompt"
      BY <1>0, <3>3 DEF StartRun, SetOp, Free
    <3>4. ReadyOk(a) => op'[a].pc \in {"prompt", "free"}
      BY <3>2, <3>3 DEF ReadyOk
    <3> QED
      BY <1>10, <3>1, <3>4
  <2> QED
    BY <2>1, <2>2 DEF Grants, Granted, Fresh
<1> QED
  BY <1>1, <1>2, <1>3, <1>4, <1>5, <1>6, <1>7, <1>8, <1>9, <1>10 DEF Boot

LEMMA GrantsStep ==
  ASSUME OneDaemon, TypeOK, Located, Serving, AllContained, AdmissionHeld, AllFresh, [Next]_vars, NEW b \in Agents
  PROVE  Grants(b)
<1>1. CASE UNCHANGED vars
  BY <1>1 DEF vars, memory, Grants, Granted, Fresh
<1>2. ASSUME NEW a \in Agents, Boot(a)
      PROVE  Grants(b)
  BY <1>2, BootGrants
<1>3. ASSUME NEW a \in Agents, Stop(a)
      PROVE  Grants(b)
  BY <1>3, StopGrants
<1>4. ASSUME NEW a \in Agents, Mutate(a) \/ Await(a) \/ Background(a) \/ Read(a) \/ Process(a)
      PROVE  Grants(b)
  <2>1. LocksStay
    BY <1>4, LocksMutate, LocksAwait, LocksBackground, LocksRead
  <2>2. op[b].pc \in BeforeFork /\ agent[b].state = "absent" => agent'[b].state = "absent"
    BY <1>4, AbsentStays
  <2> QED
    BY <2>1, <2>2, StaysGrants DEF LocksStay
<1>5. ~ Daemon /\ \A a \in Agents : ~ ShutdownAgent(a)
  BY ServingStays
<1> QED
  BY <1>1, <1>2, <1>3, <1>4, <1>5 DEF Next

\* Arithmetic of the limits: what one boot adds, and what it finds beside itself.
LEMMA OneMore ==
  ASSUME NEW S, IsFiniteSet(S), NEW N \in Nat, NEW f, Cardinality(S \ {f}) < N, NEW T \in SUBSET (S \cup {f})
  PROVE  Cardinality(T) <= N
<1>1. /\ IsFiniteSet(S \ {f}) /\ Cardinality(S \ {f}) \in Nat
      /\ IsFiniteSet((S \ {f}) \cup {f}) /\ Cardinality((S \ {f}) \cup {f}) = Cardinality(S \ {f}) + 1
  BY FS_RemoveElement, FS_AddElement, FS_CardinalityType
<1>2. T \in SUBSET ((S \ {f}) \cup {f})
  OBVIOUS
<1>3. IsFiniteSet(T) /\ Cardinality(T) <= Cardinality((S \ {f}) \cup {f})
  BY <1>1, <1>2, FS_Subset
<1>4. Cardinality(T) \in Nat
  BY <1>3, FS_CardinalityType
<1> QED
  BY <1>1, <1>3, <1>4

LEMMA NoMore ==
  ASSUME NEW S, IsFiniteSet(S), NEW T \in SUBSET S
  PROVE  Cardinality(T) <= Cardinality(S) /\ Cardinality(T) \in Nat /\ Cardinality(S) \in Nat
BY FS_Subset, FS_CardinalityType

\* Whoever has a process counts against the scope of every other agent.
LEMMA LiveIsCounted ==
  ASSUME TypeOK, AllContained, NEW a \in Agents, NEW b \in Agents \ {a}, Live(b)
  PROVE  b \in Counted(a)
<1>1. agent[b] \in AgentType /\ Contained(b)
  BY DEF TypeOK, AllContained
<1>2. PICK g \in Gens : proc[b][g].st # "none"
  BY DEF Live
<1>3. agent[b].gen > 0 /\ agent[b].gen \in Nat
  BY <1>1, <1>2, BoundsAssumption DEF Contained, Placed, Gens, AgentType
<1>4. agent[b].state \in Resident \cup Parked
  BY <1>1, <1>3 DEF Contained, Evident, AgentType, AgentStates
<1>5. agent[b].cleanup # "verified"
  BY <1>1 DEF Contained, Evident
<1> QED
  BY <1>3, <1>4, <1>5 DEF Counted

(* A boot that was let through counted everyone else, so its process and its worker are within
   the limits; and nobody else boots before they are there.                                    *)
LEMMA RoomStep ==
  ASSUME IsFiniteSet(Agents), TypeOK, AdmissionHeld, AllContained, Room,
         \A b \in Agents : Upholds(b) /\ Grants(b)
  PROVE  Room'
<1> DEFINE L == {b \in Agents : Live(b)}
           H == {b \in Agents : HasWorker(b)}
           M == {b \in Agents : Live(b)'}
           I == {b \in Agents : HasWorker(b)'}
<1>1. /\ IsFiniteSet(L) /\ IsFiniteSet(H) /\ MaxScope \in Nat /\ MaxResident \in Nat
      /\ Cardinality(L) <= MaxScope /\ Cardinality(H) <= MaxResident
  BY FS_Subset, BoundsAssumption DEF Room
<1>2. \A a \in Agents : Granted(a) => Cardinality(L \ {a}) < MaxScope /\ Cardinality(H \ {a}) < MaxResident
  BY DEF Room
<1>3. \A b \in Agents : op[b].pc # "fork" => (b \in M => b \in L) /\ (b \in I => b \in H)
  BY DEF Upholds
<1>4. ASSUME NEW a \in Agents, NEW b \in Agents \ {a}, op[a].pc \in UnderAdmission
      PROVE  op[b].pc # "fork"
  BY <1>4 DEF AdmissionHeld, UnderAdmission
<1>5. ASSUME NEW a \in Agents, op[a].pc = "capacity", ~ Full(a)
      PROVE  Cardinality(L \ {a}) < MaxScope /\ Cardinality(H \ {a}) < MaxResident
  <2>1. L \ {a} \in SUBSET Counted(a)
    BY LiveIsCounted
  <2>2. IsFiniteSet(Counted(a))
    <3>1. Counted(a) \in SUBSET Agents
      BY DEF Counted
    <3> QED
      BY <3>1, FS_Subset
  <2>3. Cardinality(Counted(a)) \in Nat /\ Cardinality(L \ {a}) \in Nat /\ Cardinality(L \ {a}) <= Cardinality(Counted(a))
    BY <2>1, <2>2, NoMore
  <2>4. Cardinality(H) \in Nat /\ Cardinality(H \ {a}) \in Nat /\ Cardinality(H \ {a}) <= Cardinality(H)
    <3>1. H \ {a} \in SUBSET H
      OBVIOUS
    <3> HIDE DEF H
    <3> QED
      BY <1>1, <3>1, NoMore
  <2>5. ~ (Cardinality(Counted(a)) >= MaxScope) /\ ~ (Cardinality(H) >= MaxResident)
    BY <1>5 DEF Full
  <2> HIDE DEF L, H
  <2> QED
    BY <1>1, <2>3, <2>4, <2>5
<1>6. \A a \in Agents : Granted(a)' => Granted(a) \/ (op[a].pc = "capacity" /\ ~ Full(a))
  BY DEF Grants
<1>7. \A a \in Agents : op[a].pc = "fork" => Granted(a)
  BY DEF Granted
<1>8. \A a \in Agents : Granted(a) \/ op[a].pc = "capacity" => op[a].pc \in UnderAdmission
  BY DEF Granted, UnderAdmission
<1>9. L \in SUBSET Agents /\ H \in SUBSET Agents /\ M \in SUBSET Agents /\ I \in SUBSET Agents
  OBVIOUS
<1>10. (Cardinality(M) <= MaxScope /\ Cardinality(I) <= MaxResident
        /\ \A a \in Agents : Granted(a)' => Cardinality(M \ {a}) < MaxScope /\ Cardinality(I \ {a}) < MaxResident)
       => Room'
  BY DEF Room
<1> HIDE DEF L, H, M, I, Granted, Full
<1>11. Cardinality(M) <= MaxScope /\ Cardinality(I) <= MaxResident
  <2>1. CASE \E f \in Agents : op[f].pc = "fork"
    <3>1. PICK f \in Agents : op[f].pc = "fork"
      BY <2>1
    <3>2. M \in SUBSET (L \cup {f}) /\ I \in SUBSET (H \cup {f})
      BY <1>3, <1>4, <1>7, <1>8, <1>9, <3>1
    <3>3. Cardinality(L \ {f}) < MaxScope /\ Cardinality(H \ {f}) < MaxResident
      BY <1>2, <1>7, <3>1
    <3> QED
      BY <1>1, <3>2, <3>3, OneMore
  <2>2. CASE ~ \E f \in Agents : op[f].pc = "fork"
    <3>1. M \in SUBSET L /\ I \in SUBSET H
      BY <1>3, <1>9, <2>2
    <3>2. /\ Cardinality(M) \in Nat /\ Cardinality(L) \in Nat /\ Cardinality(M) <= Cardinality(L)
          /\ Cardinality(I) \in Nat /\ Cardinality(H) \in Nat /\ Cardinality(I) <= Cardinality(H)
      BY <1>1, <3>1, NoMore
    <3> QED
      BY <1>1, <3>2
  <2> QED
    BY <2>1, <2>2
<1>12. ASSUME NEW a \in Agents, Granted(a)'
       PROVE  Cardinality(M \ {a}) < MaxScope /\ Cardinality(I \ {a}) < MaxResident
  <2>1. op[a].pc \in UnderAdmission
    BY <1>6, <1>8, <1>12
  <2>2. M \ {a} \in SUBSET (L \ {a}) /\ I \ {a} \in SUBSET (H \ {a})
    BY <1>3, <1>4, <1>9, <2>1
  <2>3. Cardinality(L \ {a}) < MaxScope /\ Cardinality(H \ {a}) < MaxResident
    BY <1>2, <1>5, <1>6, <1>12
  <2>4. IsFiniteSet(L \ {a}) /\ IsFiniteSet(H \ {a})
    BY <1>1, FS_RemoveElement
  <2>5. /\ Cardinality(M \ {a}) \in Nat /\ Cardinality(L \ {a}) \in Nat /\ Cardinality(M \ {a}) <= Cardinality(L \ {a})
        /\ Cardinality(I \ {a}) \in Nat /\ Cardinality(H \ {a}) \in Nat /\ Cardinality(I \ {a}) <= Cardinality(H \ {a})
    BY <2>2, <2>4, NoMore
  <2> QED
    BY <1>1, <2>3, <2>5
<1> QED
  BY <1>10, <1>11, <1>12

LEMMA RoomInit == Init => AllFresh /\ Room
<1> SUFFICES ASSUME Init
             PROVE  AllFresh /\ Room
  OBVIOUS
<1>1. ASSUME NEW a \in Agents
      PROVE  ~ Live(a) /\ ~ HasWorker(a) /\ ~ Granted(a) /\ Fresh(a)
  BY DEF Init, Live, HasWorker, Granted, Fresh, NoProc, Free
<1> HIDE DEF Live, HasWorker, Granted, Fresh
<1>2. {b \in Agents : Live(b)} = {} /\ {b \in Agents : HasWorker(b)} = {}
  BY <1>1
<1> QED
  BY <1>1, <1>2, FS_EmptySet, BoundsAssumption DEF AllFresh, Room

\* Whoever has a process and is not quarantined has a worker, or is the boot that was let through.
LEMMA RoomLimits ==
  ASSUME IsFiniteSet(Agents), AdmissionHeld, AllVouched, Room
  PROVE  LimitsHold
<1> DEFINE H == {b \in Agents : HasWorker(b)}
           R == {a \in Agents : Live(a) /\ agent[a].cleanup # "unknown"}
<1>1. /\ IsFiniteSet(H) /\ MaxResident \in Nat /\ Cardinality(H) <= MaxResident
      /\ \A a \in Agents : op[a].pc = "fork" => Cardinality(H \ {a}) < MaxResident
  BY FS_Subset, BoundsAssumption DEF Room, Granted
<1>2. \A b \in Agents : op[b].pc # "fork" => (b \in R => b \in H)
  BY DEF AllVouched, Vouched
<1>3. \A a, b \in Agents : op[a].pc = "fork" /\ op[b].pc = "fork" => a = b
  BY DEF AdmissionHeld, UnderAdmission
<1>4. R \in SUBSET Agents
  OBVIOUS
<1>5. (Cardinality(R) <= MaxResident => ResidentBound) /\ ScopeBound
  BY DEF Room, ResidentBound, ScopeBound
<1> HIDE DEF H, R
<1>6. CASE \E f \in Agents : op[f].pc = "fork"
  <2>1. PICK f \in Agents : op[f].pc = "fork"
    BY <1>6
  <2>2. R \in SUBSET (H \cup {f}) /\ Cardinality(H \ {f}) < MaxResident
    BY <1>1, <1>2, <1>3, <1>4, <2>1
  <2>3. Cardinality(R) <= MaxResident
    BY <1>1, <2>2, OneMore
  <2> QED
    BY <1>5, <2>3 DEF LimitsHold
<1>7. CASE ~ \E f \in Agents : op[f].pc = "fork"
  <2>1. R \in SUBSET H
    BY <1>2, <1>4, <1>7
  <2>2. Cardinality(R) <= Cardinality(H) /\ Cardinality(R) \in Nat /\ Cardinality(H) \in Nat
    BY <1>1, <2>1, NoMore
  <2>3. Cardinality(R) <= MaxResident
    BY <1>1, <2>2
  <2> QED
    BY <1>5, <2>3 DEF LimitsHold
<1> QED
  BY <1>6, <1>7

LEMMA RoomHolds ==
  ASSUME OneDaemon, IsFiniteSet(Agents)
  PROVE  Spec => [](TypeOK /\ Located /\ Serving /\ AllContained /\ AdmissionHeld /\ Room)
<1> DEFINE Inv == /\ TypeOK /\ Located /\ Serving /\ AllContained
                  /\ AdmissionHeld /\ AllFresh /\ Room
<1>1. Init => Inv
  BY TypeInit, ContainedInit, AdmissionInit, RoomInit
<1>2. Inv /\ [Next]_vars => Inv'
  <2> SUFFICES ASSUME Inv, [Next]_vars
               PROVE  Inv'
    OBVIOUS
  <2>1. TypeOK' /\ Located' /\ AdmissionHeld'
    BY TypeStep, AdmissionStep
  <2>2. Keeps /\ Serving'
    BY ContainedStep
  <2>3. \A b \in Agents : Upholds(b) /\ Grants(b)
    BY <2>2, GrantsStep DEF Keeps
  <2>4. AllFresh'
    BY <2>3 DEF AllFresh, Grants
  <2>5. Room'
    BY <2>3, RoomStep
  <2> QED
    BY <2>1, <2>2, <2>4, <2>5 DEF Keeps
<1>3. Inv => TypeOK /\ Located /\ Serving /\ AllContained /\ AdmissionHeld /\ Room
  OBVIOUS
<1> QED
  BY <1>1, <1>2, <1>3, PTL DEF Spec

(* No more agents than max_agents_per_scope ever have a process, whatever their rows say of it:
   boots in flight, evictions and stops that failed included, for any finite set of agents, any
   limits, generations, requests and schedules of one daemon (ensure_capacity).  After a crash a
   successor may report verified for a guard that had not recorded itself, and nothing counts
   that process any more.                                                                      *)
THEOREM ScopeIsKept ==
  ASSUME OneDaemon, IsFiniteSet(Agents)
  PROVE  Spec => []ScopeBound
<1>1. Room => ScopeBound
  BY DEF Room, ScopeBound
<1> QED
  BY <1>1, RoomHolds, PTL

(* Neither limit is ever exceeded by one daemon whose children start nothing outside the queue.
   A child that does is parked without a verdict; if it then dies and leaves descendants, no
   worker and no quarantine counts them against the residents (worker_exited).                 *)
THEOREM LimitsAreKept ==
  ASSUME OneDaemon, "unowned" \notin Faults, IsFiniteSet(Agents)
  PROVE  Spec => []LimitsHold
<1> DEFINE Sound == TypeOK /\ Located /\ Serving /\ AllContained /\ AdmissionHeld /\ Room
           Inv == NoStarts /\ AllVouched
<1>1. Init => Inv
  BY VouchedInit
<1>2. Sound /\ Inv /\ [Next]_vars => Inv'
  <2> SUFFICES ASSUME Sound, Inv, [Next]_vars
               PROVE  Inv'
    OBVIOUS
  <2>1. NoStarts'
    BY NoStartsStep
  <2>2. Keeps
    BY ContainedStep
  <2> QED
    BY <2>1, <2>2, VouchedStep
<1>3. Sound /\ Inv => LimitsHold
  BY RoomLimits
<1>4. Spec => []Sound
  BY RoomHolds
<1> QED
  BY <1>1, <1>2, <1>3, <1>4, PTL DEF Spec
=============================================================================
