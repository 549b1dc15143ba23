----------------------------- MODULE IndexCache -----------------------------
(* The quota ledger of the corpus indexes that a user's searches cache (semantic/src/storage.rs and
   storage/policy.rs): readers lease the immutable file of an index, writers replace it, both under
   quota.lock; the budget changes under policy.lock alone; any process may be killed at any step.

   Sizes are in units; the control files are within ControlReserve. One configuration file and one cache
   root; names are the targets, the retired links and the writers' temporaries. Which index a prune
   takes first, and which are too old, is left open, as are MAX_ENTRIES and the staging of a lease. *)
EXTENDS Naturals, FiniteSets, FiniteSetsExt

CONSTANTS
  Searches,          \* processes, alive one incarnation after another
  Targets,           \* index files, one per scope and model
  Budgets,           \* cache budgets a user may configure, in units
  MaxInodes, MaxSize, MaxConfigs,   \* data files at a time, units of a file, configurations
  ControlReserve            \* CONTROL_RESERVE
Inodes == 1..MaxInodes
NoInode == 0
SomeTarget == CHOOSE t \in Targets : TRUE
ASSUME CacheAssumption == Budgets \subseteq Nat /\ Budgets # {} /\ {MaxInodes, MaxSize, MaxConfigs, ControlReserve} \subseteq Nat

VARIABLES
  files,     \* [path, retired, temps]: which inodes the names in the cache root stand for
  size,      \* units allocated to an inode
  leases,     \* per process: [inode, open], the record in the ledger; whether the data is still open
  search,    \* per process: [pc, target, inode, old, config]: what it does; the inode it replaces;
             \* the configuration it was given
  quota,     \* who holds quota.lock: a set of at most one process
  config,    \* the configuration file: [version, budget]
  policy,    \* budget.json: [active, wanted, version]
  removed,   \* inodes someone else unlinked
  late       \* a writer allocated or published under a budget it should have known is leaving

cacheVars == <<files, size, leases, search, quota, config, policy, removed, late>>

-----------------------------------------------------------------------------
Linked(fs) == ({fs.path[t] : t \in Targets} \union fs.retired \union fs.temps) \ {NoInode}
Leased == {leases[p].inode : p \in {q \in Searches : leases[q].open}}   \* a shared lock on the file
Written == {search[p].inode : p \in Searches} \ {NoInode}
Records == {leases[p].inode : p \in Searches} \ {NoInode}
Units(is) == MapThenSumSet(LAMBDA i : size[i], is)
InUse == Linked(files) \union Leased \union Written
\* measure: what the names stand for and what the records of living processes say.
MeasuredByName(fs) == Units(Linked(fs))   \* mutant: what readers still have open is forgotten
Measure(fs) == Units(Linked(fs) \union Records)
DecreasePending == policy.active # policy.wanted

\* reclaim: a name goes if nobody has its file locked.
Anything(i) == TRUE   \* mutant
Reclaimable(i) == i \notin Leased
Without(fs, ts, is) == [fs EXCEPT !.path = [t \in Targets |-> IF t \in ts THEN NoInode ELSE @[t]],
                                  !.retired = @ \ is]
Prunings(fs, spared) ==
  {Without(fs, ts, is) : ts \in SUBSET {t \in Targets \ spared : fs.path[t] # NoInode /\ Reclaimable(fs.path[t])},
                         is \in SUBSET {i \in fs.retired : Reclaimable(i)}}
Exhausted(fs, spared) == Prunings(fs, spared) = {fs}
Pruned(fs, spared, limit) ==
  IF Measure(fs) <= limit THEN {fs} ELSE {g \in Prunings(fs, spared) : Measure(g) <= limit \/ Exhausted(g, spared)}
Less(n) == IF policy.active > n THEN policy.active - n ELSE 0
\* cleanup: temporaries and retired links that nobody uses, and indexes too old.
CleanedUp(fs, t) ==
  {g \in Prunings([fs EXCEPT !.temps = {}], {t}) : \A i \in g.retired : ~Reclaimable(i)}
\* settle: a decrease waits until what is in use fits.
SettledFiles(fs) ==
  IF ~DecreasePending THEN {[files |-> fs, active |-> policy.active]}
  ELSE {[files |-> g, active |-> IF Measure(g) <= policy.wanted - ControlReserve THEN policy.wanted ELSE policy.active] :
          g \in Pruned(fs, {}, policy.wanted - ControlReserve)}

-----------------------------------------------------------------------------
Idling(v) == [pc |-> "idle", target |-> SomeTarget, inode |-> NoInode, old |-> NoInode, config |-> v]
ToIdle(p) == search' = [search EXCEPT ![p] = Idling(@.config)]
\* select: the request's snapshot must be that of the file. An increase takes effect at once.
Chosen(budget) == budget   \* mutant: a decrease as well
ActiveWith(budget) == IF policy.active > budget THEN policy.active ELSE budget
SelectPolicy(p, pc, t) ==
  /\ search[p].pc = "idle" /\ (pc = "toRead" => leases[p].inode = NoInode)
  /\ \A q \in Searches : search[q].pc \notin {"linked", "renamed"}   \* policy.lock
  /\ search[p].config = config.version
  /\ policy' = IF policy.version = config.version THEN policy
               ELSE [active |-> ActiveWith(config.budget), wanted |-> config.budget, version |-> config.version]
  /\ search' = [search EXCEPT ![p].pc = pc, ![p].target = t]
  /\ UNCHANGED <<files, size, leases, quota, config, removed, late>>
ReadIndex(p) ==
  /\ search[p].pc = "toRead" /\ quota = {} /\ ToIdle(p)
  /\ \E s \in SettledFiles(files) :
       LET i == s.files.path[search[p].target]
       IN /\ files' = s.files /\ policy' = [policy EXCEPT !.active = s.active]
          /\ leases' = IF s.active = policy.wanted /\ i # NoInode /\ Measure(s.files) <= s.active - ControlReserve
                      THEN [leases EXCEPT ![p] = [inode |-> i, open |-> TRUE]] ELSE leases
  /\ UNCHANGED <<size, quota, config, removed, late>>
\* Drop: the data is closed before the record goes.
CloseData(p) ==
  /\ leases[p].open /\ leases' = [leases EXCEPT ![p].open = FALSE]
  /\ UNCHANGED <<files, size, search, quota, config, policy, removed, late>>
RemoveRecord(p) ==
  /\ leases[p].inode # NoInode /\ ~leases[p].open /\ leases' = [leases EXCEPT ![p].inode = NoInode]
  /\ UNCHANGED <<files, size, search, quota, config, policy, removed, late>>

\* begin: an index is written to a file of its own.
BeginWrite(p) ==
  /\ search[p].pc = "toWrite" /\ quota = {}
  /\ \E fs \in CleanedUp(files, search[p].target) : \E s \in SettledFiles(fs) :
       \E g \in IF s.active = policy.wanted THEN Pruned(s.files, {search[p].target}, s.active - ControlReserve) ELSE {s.files} :
         /\ policy' = [policy EXCEPT !.active = s.active]
         /\ IF s.active = policy.wanted /\ Measure(g) <= s.active - ControlReserve
            THEN \E i \in Inodes \ (Linked(files) \union Leased) :
                   /\ \A j \in 1..(i - 1) : j \in Linked(files) \union Leased
                   /\ files' = [g EXCEPT !.temps = {i}] /\ size' = [size EXCEPT ![i] = 0]
                   /\ quota' = {p} /\ search' = [search EXCEPT ![p].pc = "writing", ![p].inode = i]
                   /\ removed' = removed \ {i}
            ELSE files' = g /\ ToIdle(p) /\ UNCHANGED <<size, quota, removed>>
  /\ UNCHANGED <<leases, config, late>>
\* BudgetFile::drop.
WriteOver(p) == quota' = {} /\ ToIdle(p)
GiveUp(p) ==
  /\ search[p].pc = "writing" /\ WriteOver(p) /\ files' = [files EXCEPT !.temps = @ \ {search[p].inode}]
  /\ UNCHANGED <<size, leases, config, policy, removed, late>>
\* ensure: the budget is read anew, idle indexes make room, and the growth is doubled for safety.
KnownAtBegin == TRUE   \* mutant: the limit of the beginning
InForce == ~DecreasePending
Fits(fs, n) == Measure(fs) <= policy.active   \* mutant: the growth is not counted
RoomFor(fs, n) == Measure(fs) + n <= policy.active
Grow(p) ==
  /\ search[p].pc = "writing" /\ size[search[p].inode] < MaxSize /\ InForce
  /\ \E g \in Pruned(files, {search[p].target}, Less(2 + ControlReserve)) :
       IF RoomFor(g, 2 + ControlReserve)
       THEN /\ files' = g /\ size' = [size EXCEPT ![search[p].inode] = @ + 1]
            /\ late' = (late \/ DecreasePending) /\ UNCHANGED <<search, quota>>
       ELSE files' = [g EXCEPT !.temps = @ \ {search[p].inode}] /\ WriteOver(p) /\ UNCHANGED <<size, late>>
  /\ UNCHANGED <<leases, config, policy, removed>>
\* publish: the old file keeps a name while it is in use; the new one takes the target's.
Link(p) ==
  /\ search[p].pc = "writing" /\ size[search[p].inode] > 0 /\ InForce
  /\ Measure(files) <= policy.active - ControlReserve
  /\ LET old == files.path[search[p].target]
     IN /\ files' = [files EXCEPT !.retired = @ \union ({old} \ {NoInode})]
        /\ search' = [search EXCEPT ![p].pc = "linked", ![p].old = IF old \in files.retired THEN NoInode ELSE old]
  /\ late' = (late \/ DecreasePending)
  /\ UNCHANGED <<size, leases, quota, config, policy, removed>>
Rename(p) ==
  /\ search[p].pc = "linked" /\ search' = [search EXCEPT ![p].pc = "renamed"]
  /\ files' = [files EXCEPT !.path[search[p].target] = search[p].inode, !.temps = @ \ {search[p].inode}]
  /\ UNCHANGED <<size, leases, quota, config, policy, removed, late>>
ReclaimRetired(p) ==
  /\ search[p].pc = "renamed" /\ WriteOver(p)
  /\ files' = [files EXCEPT !.retired = @ \ {i \in {search[p].old} : Reclaimable(i)}]
  /\ UNCHANGED <<size, leases, config, policy, removed, late>>

\* A process ends: its locks go and its names stay; its record counts for nothing from here on, since
\* every measure removes the records whose process is gone (owner_gone) before it counts.
Killed(p) ==
  /\ leases' = [leases EXCEPT ![p] = [inode |-> NoInode, open |-> FALSE]]
  /\ search' = [search EXCEPT ![p] = Idling(config.version)]
  /\ quota' = quota \ {p}
  /\ UNCHANGED <<files, size, config, policy, removed, late>>
Configure(budget) ==
  /\ config.version < MaxConfigs /\ config' = [version |-> config.version + 1, budget |-> budget]
  /\ UNCHANGED <<files, size, leases, search, quota, policy, removed, late>>
\* Someone removes an index, or the whole root.
Unlink(t) ==
  /\ files.path[t] # NoInode /\ files' = [files EXCEPT !.path[t] = NoInode] /\ removed' = removed \union {files.path[t]}
  /\ UNCHANGED <<size, leases, search, quota, config, policy, late>>

-----------------------------------------------------------------------------
CacheInit ==
  /\ files = [path |-> [t \in Targets |-> NoInode], retired |-> {}, temps |-> {}] /\ size = [i \in Inodes |-> 0]
  /\ leases = [p \in Searches |-> [inode |-> NoInode, open |-> FALSE]] /\ quota = {}
  /\ search = [p \in Searches |-> Idling(0)]
  /\ config = [version |-> 0, budget |-> Max(Budgets)]
  /\ policy = [active |-> Max(Budgets), wanted |-> Max(Budgets), version |-> 0] /\ removed = {} /\ late = FALSE

CacheNext ==
  \/ \E p \in Searches, pc \in {"toRead", "toWrite"}, t \in Targets : SelectPolicy(p, pc, t)
  \/ \E p \in Searches : ReadIndex(p)
  \/ \E p \in Searches : CloseData(p)
  \/ \E p \in Searches : RemoveRecord(p)
  \/ \E p \in Searches : BeginWrite(p)
  \/ \E p \in Searches : GiveUp(p)
  \/ \E p \in Searches : Grow(p)
  \/ \E p \in Searches : Link(p)
  \/ \E p \in Searches : Rename(p)
  \/ \E p \in Searches : ReclaimRetired(p)
  \/ \E p \in Searches : Killed(p)
  \/ \E b \in Budgets : Configure(b)
  \/ \E t \in Targets : Unlink(t)

CacheSpec == CacheInit /\ [][CacheNext]_cacheVars

-----------------------------------------------------------------------------
CacheTypeOK ==
  /\ files.path \in [Targets -> Inodes \union {NoInode}] /\ files.retired \subseteq Inodes /\ files.temps \subseteq Inodes
  /\ size \in [Inodes -> 0..MaxSize] /\ removed \subseteq Inodes /\ late \in BOOLEAN
  /\ \A p \in Searches :
       /\ leases[p].inode \in Inodes \union {NoInode} /\ (leases[p].open => leases[p].inode # NoInode)
       /\ search[p].pc \in {"idle", "toRead", "toWrite", "writing", "linked", "renamed"}
       /\ search[p].target \in Targets /\ {search[p].inode, search[p].old} \subseteq Inodes \union {NoInode}
       /\ search[p].config \in 0..MaxConfigs
       /\ search[p].pc \in {"writing", "linked", "renamed"} <=> p \in quota
  /\ quota \subseteq Searches /\ config.version \in 0..MaxConfigs
  /\ {config.budget, policy.active, policy.wanted} \subseteq Budgets /\ policy.version \in 0..config.version

(* What the indexes take on disk, the files deleted but still open included, stays within the active
   budget, whoever is killed, reads, unlinks or reconfigures when ("Actual blocks, not logical lengths,
   govern admission", storage.rs:4).                                                                   *)
BudgetHeld == Units(InUse) <= policy.active
\* The file of a reader keeps a name until the reader is done, unless someone else takes it: no
\* reader's blocks are hidden by a prune, a cleanup or a replacement.
LeasedStay == Leased \subseteq Linked(files) \union removed
\* "that writer must observe it before its next allocation or publication" (policy.rs:3).
DecreaseSeen == ~late
CacheSound == BudgetHeld /\ LeasedStay /\ DecreaseSeen
=============================================================================
