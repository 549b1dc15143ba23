-------------------------- MODULE SemanticService --------------------------
(* The model service that same-user searches share (semantic/src/service.rs): how a client finds
   or starts it, its main loop, one thread per connection, the workers, and its idle teardown.

   A connection is a slot of Slots; its state is that of its thread. Time is abstract: a client's
   wait or deadline, and the idle time of a service, may end at any step, a request expires. What
   only one process does at a time, under server.lock, is one record, srv.                      *)
EXTENDS Naturals, Sequences, FiniteSets

CONSTANTS
  Searchers,        \* processes that search, or ask the service to stop
  MaxSlots,       \* connections open at a time
  MaxServices,    \* service processes started in a behaviour
  MaxSearching, MaxWaiting, Spare   \* MAX_ACTIVE_SEARCHES, MAX_QUEUED_SEARCHES, connections beyond them
Processes == 1..MaxServices
Slots == 1..MaxSlots
Nobody == 0      \* a lock that is free
ASSUME SemanticAssumption ==
  /\ {MaxSlots, MaxServices, MaxSearching, MaxWaiting, Spare} \subseteq Nat /\ MaxSearching > 0 /\ MaxWaiting > 0
  /\ Searchers \cap (0..MaxServices) = {}

VARIABLES
  caller,   \* [pc, op, slot, child, got]
  slot,     \* [pc, of, open, late]: the thread of a connection; whether its peer still reads
  process,  \* per service process: none, forked, starting, serving, closed, removed, dead
  srv,      \* the main loop, the queue, the workers and the counters of the one that serves
  locks,    \* [gate, server]: who holds start.lock and server.lock
  socket,   \* the process whose listener the path names, 0 when there is no file
  ran       \* per client: how often its search was begun

semanticVars == <<caller, slot, process, srv, locks, socket, ran>>

-----------------------------------------------------------------------------
NoSlot == [pc |-> "none", of |-> {}, open |-> FALSE, late |-> FALSE]
NoService ==
  [pc |-> "off", timed |-> FALSE, wake |-> FALSE, draining |-> FALSE, queue |-> <<>>,
   active |-> {}, workers |-> 0, accepted |-> 0, finished |-> 0]
Is(c, pcs) == caller[c].pc \in pcs
Thread(i, pcs) == slot[i].pc \in pcs
Finished == {"leaving", "over", "none"}
Threads == {i \in Slots : ~Thread(i, {"none", "backlog"})}
Backlog == {i \in Slots : Thread(i, {"backlog"})}
Room(T) == Cardinality(T) < MaxSearching + MaxWaiting + Spare
NoSearches == srv.active = {} /\ srv.queue = <<>>
Serving == srv.pc \in {"check", "settle", "asleep"}
Connectable == (Serving \/ srv.pc \in {"bound", "joining"}) /\ socket = locks.server
Woken(s) == [s EXCEPT !.wake = TRUE]
CallOver(c, got) == [caller EXCEPT ![c] = [pc |-> "over", op |-> @.op, slot |-> {}, child |-> 0, got |-> got]]
ToThread(i, pc) == slot' = [slot EXCEPT ![i].pc = pc]
\* The thread answers its peer, if that is still there, and goes.
Responds(i, got) ==
  /\ ToThread(i, "leaving")
  /\ caller' = IF slot[i].open THEN [c \in Searchers |-> IF c \in slot[i].of THEN CallOver(c, got)[c] ELSE caller[c]]
               ELSE caller

-----------------------------------------------------------------------------
(* connect(): a greeting proves that the service serves; without one, start.lock is taken, and the
   caller that holds it starts a process if nobody holds server.lock.                             *)
BeginCall(c, op) ==
  /\ Is(c, {"new"}) /\ caller' = [caller EXCEPT ![c].pc = "ready1", ![c].op = op]
  /\ UNCHANGED <<slot, process, srv, locks, socket, ran>>
Unused(i) == Thread(i, {"none"}) /\ i \notin srv.active
Connect(c) ==
  /\ Is(c, {"ready1", "held"}) /\ Connectable
  /\ \E i \in Slots :
       /\ Unused(i) /\ \A j \in 1..(i - 1) : ~Unused(j)
       /\ slot' = [slot EXCEPT ![i] = [pc |-> "backlog", of |-> {c}, open |-> TRUE, late |-> FALSE]]
       /\ caller' = [caller EXCEPT ![c].pc = "hello", ![c].slot = {i}]
  /\ UNCHANGED <<process, srv, locks, socket, ran>>
Mine(c) == {i \in caller[c].slot : c \in slot[i].of}
Hung(c) == [i \in Slots |-> IF i \in Mine(c) THEN [slot[i] EXCEPT !.open = FALSE] ELSE slot[i]]
Freed(c) == [gate |-> IF locks.gate = c THEN Nobody ELSE locks.gate,
             server |-> IF locks.server = c THEN Nobody ELSE locks.server]
ConnectFails(c) == caller' = CallOver(c, "failed") /\ locks' = Freed(c)
\* The greeting is read: connect() returns, the gate is let go, and the message is written.
Greeted(c) ==
  /\ Is(c, {"hello"}) /\ \E i \in Mine(c) : Thread(i, {"greeted"})
  /\ caller' = [caller EXCEPT ![c].pc = "asked"] /\ locks' = Freed(c)
  /\ UNCHANGED <<slot, process, srv, socket, ran>>
\* No connection, or no greeting in 250 ms.
RetriesAsked == {"ready1", "held", "hello", "asked"}   \* mutant: a search is sent again as well
Retries == {"ready1", "held", "hello"}
NotReady(c) ==
  /\ Is(c, Retries) /\ (Is(c, {"ready1", "held"}) => ~Connectable)
  /\ IF locks.gate = c
     THEN IF caller[c].child = 0 THEN caller' = [caller EXCEPT ![c].pc = "probe", ![c].slot = {}] /\ UNCHANGED locks
          ELSE IF process[caller[c].child] = "dead" THEN ConnectFails(c)
          ELSE caller' = [caller EXCEPT ![c].pc = "held", ![c].slot = {}] /\ UNCHANGED locks
     ELSE IF caller[c].op = "stop" THEN ConnectFails(c)
          ELSE caller' = [caller EXCEPT ![c].pc = "gate", ![c].slot = {}] /\ UNCHANGED locks
  /\ slot' = Hung(c) /\ UNCHANGED <<process, srv, socket, ran>>
TakeGate(c) ==
  /\ Is(c, {"gate"}) /\ locks.gate = Nobody /\ locks' = [locks EXCEPT !.gate = c]
  /\ caller' = [caller EXCEPT ![c].pc = "held"] /\ UNCHANGED <<slot, process, srv, socket, ran>>
Probe(c) ==
  /\ Is(c, {"probe"})
  /\ IF locks.server = Nobody THEN locks' = [locks EXCEPT !.server = c] /\ caller' = [caller EXCEPT ![c].pc = "probed"]
     ELSE caller' = [caller EXCEPT ![c].pc = "held"] /\ UNCHANGED locks
  /\ UNCHANGED <<slot, process, srv, socket, ran>>
StartService(c) ==
  /\ Is(c, {"probed"}) /\ locks' = [locks EXCEPT !.server = Nobody]
  /\ \E s \in Processes :
       /\ process[s] = "none" /\ \A t \in 1..(s - 1) : process[t] # "none"
       /\ process' = [process EXCEPT ![s] = "forked"]
       /\ caller' = [caller EXCEPT ![c].pc = "starting", ![c].child = s]
  /\ UNCHANGED <<slot, srv, socket, ran>>
\* The notification: R, or its end is closed.
Notified(c) ==
  /\ Is(c, {"starting"}) /\ process[caller[c].child] \notin {"forked", "starting"}
  /\ IF process[caller[c].child] = "dead" THEN ConnectFails(c)
     ELSE caller' = [caller EXCEPT ![c].pc = "held"] /\ UNCHANGED locks
  /\ UNCHANGED <<slot, process, srv, socket, ran>>
\* A deadline of the client, its end, or the end of a connection it waited on.
CallerLeaves(c) ==
  /\ ~Is(c, {"new", "over"}) /\ ConnectFails(c) /\ slot' = Hung(c) /\ UNCHANGED <<process, srv, socket, ran>>

-----------------------------------------------------------------------------
\* serve(): the lock, the socket, the workers, the notification.
TryLock(s) ==
  /\ process[s] = "forked"
  /\ IF locks.server = Nobody
     THEN /\ locks' = [locks EXCEPT !.server = s] /\ process' = [process EXCEPT ![s] = "starting"]
          /\ srv' = [NoService EXCEPT !.pc = "locked"]
     ELSE process' = [process EXCEPT ![s] = "dead"] /\ UNCHANGED <<locks, srv>>
  /\ UNCHANGED <<caller, slot, socket, ran>>
Bind ==
  /\ srv.pc = "locked" /\ socket' = locks.server
  /\ srv' = [srv EXCEPT !.pc = "bound", !.workers = MaxSearching]
  /\ UNCHANGED <<caller, slot, process, locks, ran>>
ServiceDies(s) ==
  /\ process' = [process EXCEPT ![s] = "dead"]
  /\ locks' = [locks EXCEPT !.server = IF @ = s THEN Nobody ELSE @]
  /\ IF locks.server = s THEN srv' = NoService /\ slot' = [i \in Slots |-> NoSlot] ELSE UNCHANGED <<srv, slot>>
\* Whoever started it must still be there to hear of it.
Announce ==
  /\ srv.pc = "bound"
  /\ IF \E c \in Searchers : Is(c, {"starting"}) /\ caller[c].child = locks.server
     THEN /\ process' = [process EXCEPT ![locks.server] = "serving"] /\ srv' = [srv EXCEPT !.pc = "check"]
          /\ UNCHANGED <<locks, slot>>
     ELSE ServiceDies(locks.server)
  /\ UNCHANGED <<caller, socket, ran>>
ServiceCrash(s) ==
  /\ process[s] \notin {"none", "dead"} /\ ServiceDies(s) /\ UNCHANGED <<caller, socket, ran>>

\* The main loop: leave when there is nothing to do and it drains or is idle; else join who is done.
LeavesRunning == srv.queue = <<>>   \* mutant: running searches are not waited for
MayLeave == NoSearches
Reaped(i) == IF Thread(i, {"over"}) THEN NoSlot ELSE slot[i]
LeaveLoop ==
  /\ srv.pc = "check" /\ MayLeave   \* it drains, or its idle time is over
  /\ srv' = Woken([srv EXCEPT !.draining = TRUE, !.pc = "joining"])
  /\ UNCHANGED <<caller, slot, process, locks, socket, ran>>
\* One connection is accepted and its thread greets it; with none, or no room for one, the loop will wait.
AcceptOne ==
  /\ srv.pc = "check" /\ ~(NoSearches /\ srv.draining)
  /\ IF Room({i \in Threads : ~Thread(i, {"over"})}) /\ Backlog # {}
     THEN \E i \in Backlog : /\ slot' = [j \in Slots |-> IF j = i THEN [slot[j] EXCEPT !.pc = "greeted"] ELSE Reaped(j)]
                            /\ UNCHANGED srv
     ELSE slot' = [j \in Slots |-> Reaped(j)] /\ srv' = [srv EXCEPT !.pc = "settle"]
  /\ UNCHANGED <<caller, process, locks, socket, ran>>
DrainedBefore(w) == FALSE   \* mutant: the wake pipe is drained before the wait
KeptWake(w) == w
SettleTimeout ==
  /\ srv.pc = "settle" /\ srv' = [srv EXCEPT !.pc = "asleep", !.timed = NoSearches, !.wake = KeptWake(@)]
  /\ UNCHANGED <<caller, slot, process, locks, socket, ran>>
Signalled == srv.wake \/ (Room(Threads) /\ Backlog # {})
LoopWakes ==
  /\ srv.pc = "asleep" /\ (Signalled \/ srv.timed) /\ srv' = [srv EXCEPT !.pc = "check", !.wake = FALSE, !.timed = FALSE]
  /\ UNCHANGED <<caller, slot, process, locks, socket, ran>>
\* Teardown: the threads and workers are joined, the listener closed, its file removed, the lock let go.
UnlocksFirst(s) == [locks EXCEPT !.server = Nobody]   \* mutant: the lock is dropped before the file is removed
AtClose(s) == locks
CloseListener ==
  /\ srv.pc = "joining" /\ srv.workers = 0 /\ \A i \in Threads : Thread(i, {"over"})
  /\ process' = [process EXCEPT ![locks.server] = "closed"] /\ srv' = NoService
  /\ slot' = [i \in Slots |-> NoSlot] /\ locks' = AtClose(locks.server) /\ UNCHANGED <<caller, socket, ran>>
RemoveSocket(s) ==
  /\ process[s] = "closed" /\ process' = [process EXCEPT ![s] = "removed"] /\ socket' = 0
  /\ UNCHANGED <<caller, slot, srv, locks, ran>>
ServiceExit(s) ==
  /\ process[s] = "removed" /\ process' = [process EXCEPT ![s] = "dead"]
  /\ locks' = [locks EXCEPT !.server = IF @ = s THEN Nobody ELSE @] /\ UNCHANGED <<caller, slot, srv, socket, ran>>

-----------------------------------------------------------------------------
\* connection(): the message, or five seconds without one.
ReadMessage(i) ==
  /\ Thread(i, {"greeted"})
  /\ \/ \E c \in slot[i].of : /\ slot[i].open /\ Is(c, {"asked"})
                              /\ IF caller[c].op = "stop"
                                 THEN ToThread(i, "stopping") /\ srv' = [srv EXCEPT !.draining = TRUE]
                                 ELSE ToThread(i, "offering") /\ UNCHANGED srv
                              /\ UNCHANGED caller
     \/ Responds(i, "failed") /\ UNCHANGED srv
  /\ UNCHANGED <<process, locks, socket, ran>>
StopReply(i) ==
  /\ Thread(i, {"stopping"}) /\ Responds(i, "answer") /\ srv' = Woken(srv)
  /\ UNCHANGED <<process, locks, socket, ran>>
\* The wait for a place in the queue; a service that drains takes no more.
OfferedAnyway == FALSE   \* mutant: draining is not looked at again
TakesNoMore == srv.draining
Offer(i) ==
  /\ Thread(i, {"offering"})
  /\ IF TakesNoMore THEN Responds(i, "refused") /\ UNCHANGED srv
     ELSE IF Len(srv.queue) < MaxWaiting
     THEN /\ srv' = Woken([srv EXCEPT !.queue = Append(@, i), !.accepted = @ + 1]) /\ ToThread(i, "waiting")
          /\ UNCHANGED caller
     ELSE Responds(i, "failed") /\ UNCHANGED srv
  /\ UNCHANGED <<process, locks, socket, ran>>
\* A request that expires in the queue; one that runs is stopped, and answered all the same.
Queued(i) == \E n \in DOMAIN srv.queue : srv.queue[n] = i
Expire(i) ==
  /\ Queued(i) /\ ~slot[i].late /\ slot' = [slot EXCEPT ![i].late = TRUE]
  /\ UNCHANGED <<caller, process, srv, locks, socket, ran>>
\* The peer is gone: cancel_request() takes its job out of the queue and counts it.
WithdrawnUncounted(i) == [srv EXCEPT !.queue = SelectSeq(@, LAMBDA j : j # i)]   \* mutant: it is only taken out
Withdrawn(i) == [srv EXCEPT !.queue = SelectSeq(@, LAMBDA j : j # i), !.finished = @ + 1]
PeerGone(i) ==
  /\ Queued(i) /\ ~slot[i].open /\ srv' = Woken(Withdrawn(i)) /\ slot' = [slot EXCEPT ![i].pc = "leaving", ![i].late = FALSE]
  /\ UNCHANGED <<caller, process, locks, socket, ran>>
\* The response is written, or the peer is gone and it is dropped.
Respond(i) ==
  /\ Thread(i, {"replying"}) /\ Responds(i, "answer")
  /\ UNCHANGED <<process, srv, locks, socket, ran>>
\* ConnectionDone: the capacity is published and the main loop woken.
ConnectionDone(i) ==
  /\ Thread(i, {"leaving"}) /\ ToThread(i, "over") /\ srv' = Woken(srv)
  /\ UNCHANGED <<caller, process, locks, socket, ran>>

-----------------------------------------------------------------------------
\* worker(): the oldest job; one that was cancelled or expired is answered without running.
Pop ==
  /\ srv.queue # <<>> /\ Cardinality(srv.active) < srv.workers
  /\ LET i == Head(srv.queue)
         s == [srv EXCEPT !.queue = Tail(@)]
     IN  IF slot[i].late
         THEN srv' = Woken([s EXCEPT !.finished = @ + 1]) /\ UNCHANGED ran
              /\ slot' = [slot EXCEPT ![i].pc = "replying", ![i].late = FALSE]
         ELSE /\ srv' = Woken([s EXCEPT !.active = @ \cup {i}]) /\ UNCHANGED slot
              /\ ran' = [c \in Searchers |-> IF c \in slot[i].of THEN ran[c] + 1 ELSE ran[c]]
  /\ UNCHANGED <<caller, process, locks, socket>>
Deliver(i) ==
  /\ i \in srv.active /\ Thread(i, {"waiting"}) /\ ToThread(i, "replying")
  /\ UNCHANGED <<caller, process, srv, locks, socket, ran>>
\* The worker keeps its slot until the connection has dropped the delivery.
FreeWorker(i) ==
  /\ i \in srv.active /\ Thread(i, Finished)
  /\ srv' = Woken([srv EXCEPT !.active = @ \ {i}, !.finished = @ + 1])
  /\ UNCHANGED <<caller, slot, process, locks, socket, ran>>
EndsWithQueue == srv.draining   \* mutant: draining is looked at before the queue
WorkerMayEnd == srv.draining /\ srv.queue = <<>>
WorkerEnds ==
  /\ WorkerMayEnd /\ srv.workers > Cardinality(srv.active) /\ srv' = [srv EXCEPT !.workers = @ - 1]
  /\ UNCHANGED <<caller, slot, process, locks, socket, ran>>

-----------------------------------------------------------------------------
SemanticInit ==
  /\ caller = [c \in Searchers |-> [pc |-> "new", op |-> "search", slot |-> {}, child |-> 0, got |-> "none"]]
  /\ slot = [i \in Slots |-> NoSlot] /\ process = [s \in Processes |-> "none"] /\ srv = NoService
  /\ locks = [gate |-> Nobody, server |-> Nobody] /\ socket = 0 /\ ran = [c \in Searchers |-> 0]
SemanticNext ==
  \/ \E c \in Searchers : \/ \E op \in {"search", "stop"} : BeginCall(c, op)
                        \/ Connect(c) \/ Greeted(c) \/ NotReady(c) \/ TakeGate(c) \/ Probe(c) \/ StartService(c)
                        \/ Notified(c) \/ CallerLeaves(c)
  \/ \E s \in Processes : TryLock(s) \/ RemoveSocket(s) \/ ServiceExit(s) \/ ServiceCrash(s)
  \/ \E i \in Slots : \/ ReadMessage(i) \/ StopReply(i) \/ Offer(i) \/ Expire(i) \/ PeerGone(i) \/ Respond(i)
                      \/ ConnectionDone(i) \/ Deliver(i) \/ FreeWorker(i)
  \/ Bind \/ Announce \/ LeaveLoop \/ AcceptOne \/ SettleTimeout \/ LoopWakes \/ CloseListener \/ Pop \/ WorkerEnds
SemanticSpec == SemanticInit /\ [][SemanticNext]_semanticVars

-----------------------------------------------------------------------------
ClientPcs == {"new", "ready1", "hello", "gate", "held", "probe", "probed", "starting", "asked", "over"}
SlotPcs == {"none", "backlog", "greeted", "stopping", "offering", "waiting", "replying", "leaving", "over"}
SemanticTypeOK ==
  /\ caller \in [Searchers -> [pc : ClientPcs, op : {"search", "stop"}, slot : SUBSET Slots, child : 0..MaxServices,
                             got : {"none", "answer", "refused", "failed"}]]
  /\ slot \in [Slots -> [pc : SlotPcs, of : SUBSET Searchers, open : BOOLEAN, late : BOOLEAN]]
  /\ process \in [Processes -> {"none", "forked", "starting", "serving", "closed", "removed", "dead"}]
  /\ srv.pc \in {"off", "locked", "bound", "check", "settle", "asleep", "joining"}
  /\ srv.active \subseteq Slots /\ srv.workers \in 0..MaxSearching
  /\ Len(srv.queue) <= MaxWaiting /\ srv.queue \in Seq(Slots)
  /\ locks \in [gate : Searchers \cup {Nobody}, server : Searchers \cup Processes \cup {Nobody}]
  /\ socket \in 0..MaxServices /\ ran \in [Searchers -> Nat]

\* While a process serves, the path names its own listener: a predecessor's teardown cannot remove it.
SocketOwned == Serving \/ srv.pc = "joining" => socket = locks.server
\* A search is begun at most once, and never when its client is told to retry.
RunsOnce == \A c \in Searchers : ran[c] <= 1 /\ (caller[c].got = "refused" => ran[c] = 0)
\* What was accepted is running, waits for a worker that is there, or was counted; a service that
\* leaves its loop has nothing left.
Accounted ==
  /\ srv.accepted = srv.finished + Len(srv.queue) + Cardinality(srv.active)
  /\ srv.queue # <<>> => srv.workers > 0
  /\ srv.pc = "joining" => NoSearches
\* The main loop never sleeps over what it has to do: with nothing left it waits out its idle time
\* and no longer, and a stop ends it. Who is about to wake it counts as awake.
NoLostWake ==
  srv.pc = "asleep" /\ NoSearches /\ ~Signalled /\ ~(\E i \in Slots : Thread(i, {"stopping"})) =>
    srv.timed /\ ~srv.draining

\* The shared search service loses no search, no wake and no socket, whoever starts, stops or leaves it.
ServiceSound == SocketOwned /\ RunsOnce /\ Accounted /\ NoLostWake
=============================================================================
