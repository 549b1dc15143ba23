----------------------------- MODULE Admission -----------------------------
(* The daemon's socket (daemon.py), its request rows (store.py request_begin, request_end) and
   the clients that repeat a mutation whose answer they did not get (client.py, pi_host.py).

   A mutation is named by its request_id and takes two steps, what it does and its end, so it
   can be cut between them. Owned work is one flag: a run that is not over, or a worker that
   cannot be parked. The 30 idle seconds are the steps none, counting, over.               *)
EXTENDS Naturals, FiniteSets

CONSTANTS
  Keys,        \* request ids of mutations
  Conns,       \* connections open at a time
  MaxSends,    \* requests sent in a behaviour
  MaxBoots     \* times the daemon is started

ASSUME AdmissionAssumption == {MaxSends, MaxBoots} \subseteq Nat /\ {"ping", "pi_watch", "shutdown"} \cap Keys = {}

VARIABLES
  server,    \* [life, idle, boots]: down, up or closing; whether it closes because it is idle
  client,    \* per connection: accepted, open, admitted, mutating, did, or none; its operation
  request,   \* per key: the state of its row
  effect,    \* per key: how often the mutation was performed
  told,      \* per key: the definite answers its clients got
  busy,      \* [work, grace]
  sends      \* requests sent

admissionVars == <<server, client, request, effect, told, busy, sends>>

-----------------------------------------------------------------------------
Passive == {"ping", "pi_watch"}
NoConn == [pc |-> "none", op |-> "ping"]
At(c, pc) == client[c].pc = pc
ConnOver(c) == client' = [client EXCEPT ![c] = NoConn]
Step(c, pc) == client' = [client EXCEPT ![c].pc = pc]
Mutations == {c \in Conns : client[c].pc \in {"admitted", "mutating", "did"} /\ client[c].op \in Keys}
\* The entries of clients, and the operation decoded: a connection whose task did not run has none.
Known == {c \in Conns : client[c].pc \notin {"none", "accepted"}}
QuietConns(K) == {c \in K : ~At(c, "open") /\ client[c].op \in Passive}

Send(c, op) ==
  /\ server.life = "up" /\ At(c, "none") /\ sends < MaxSends /\ sends' = sends + 1
  /\ client' = [client EXCEPT ![c] = [pc |-> "accepted", op |-> op]]
  /\ UNCHANGED <<server, request, effect, told, busy>>
\* Whoever finds no daemon starts one; it takes the lock when the last one has let it go.
Start ==
  /\ server.life = "down" /\ server.boots < MaxBoots
  /\ server' = [life |-> "up", idle |-> FALSE, boots |-> server.boots + 1]
  /\ busy' = [work |-> FALSE, grace |-> "none"] /\ UNCHANGED <<client, request, effect, told, sends>>

-----------------------------------------------------------------------------
\* handle(): the task starts, the frame is decoded, and nothing is awaited until it is admitted.
HandlerRuns(c) ==
  /\ At(c, "accepted") /\ Step(c, "open") /\ UNCHANGED <<server, request, effect, told, busy, sends>>
NeverRefused == FALSE   \* mutant: admission is only the open socket
Refused == server.life = "closing" /\ server.idle
Decode(c) ==
  /\ At(c, "open")
  /\ IF Refused THEN ConnOver(c) /\ UNCHANGED busy
     ELSE Step(c, "admitted")
          /\ busy' = IF client[c].op \in Passive THEN busy ELSE [busy EXCEPT !.grace = "none"]
  /\ UNCHANGED <<server, request, effect, told, sends>>
\* A passive operation is answered; the connection ends.
PassiveReply(c) ==
  /\ At(c, "admitted") /\ client[c].op \in Passive /\ ConnOver(c)
  /\ UNCHANGED <<server, request, effect, told, busy, sends>>

\* request_begin(), under the lock of the request: a finished one is replayed, a started one uncertain.
BeginsUnfinished(k) == request[k] \in {"none", "pending"}   \* mutant: what was started is started again
Begins(k) == request[k] = "none"
RequestBegin(c) ==
  LET k == client[c].op
  IN  /\ At(c, "admitted") /\ k \in Keys
      /\ \A d \in Conns : client[d].op = k => client[d].pc \notin {"mutating", "did"}
      /\ IF Begins(k)
         THEN Step(c, "mutating") /\ request' = [request EXCEPT ![k] = "pending"] /\ UNCHANGED told
         ELSE /\ ConnOver(c) /\ UNCHANGED request
              /\ told' = [told EXCEPT ![k] = @ \cup ({request[k]} \ {"pending"})]
  /\ UNCHANGED <<server, effect, busy, sends>>
Mutate(c) ==
  /\ At(c, "mutating") /\ Step(c, "did") /\ effect' = [effect EXCEPT ![client[c].op] = @ + 1]
  /\ \E w \in {busy.work, TRUE} : busy' = [busy EXCEPT !.work = w]
  /\ UNCHANGED <<server, request, told, sends>>
\* request_end(): the answer is in the row before a client, if it still waits, can have it.
ErrorsForgotten(e) == IF e = "error" THEN "none" ELSE e   \* mutant: an error leaves no row
Recorded(e) == e
RequestEnd(c) ==
  LET k == client[c].op
  IN  \E e \in {"ok", "error"} :
        /\ At(c, "did") \/ (At(c, "mutating") /\ e = "error")
        /\ ConnOver(c)
        /\ request' = [request EXCEPT ![k] = Recorded(e)]
        /\ told' \in {told, [told EXCEPT ![k] = @ \cup {e}]}
        /\ UNCHANGED <<server, effect, busy, sends>>
\* Another exception, or the drain's deadline: the row stays as it is.
Cut(c) ==
  /\ At(c, "mutating") \/ At(c, "did") \/ (At(c, "admitted") /\ server.life = "closing")
  /\ ConnOver(c) /\ UNCHANGED <<server, request, effect, told, busy, sends>>
WorkEnds ==
  /\ busy.work /\ busy' = [busy EXCEPT !.work = FALSE]
  /\ UNCHANGED <<server, client, request, effect, told, sends>>

-----------------------------------------------------------------------------
\* monitor(): what is owned or not passive restarts the 30 seconds.
Monitor ==
  /\ server.life = "up"
  /\ busy' = [busy EXCEPT !.grace =
       IF busy.work \/ \E c \in Known : ~At(c, "open") /\ client[c].op \notin Passive THEN "none"
       ELSE IF @ = "none" THEN "counting" ELSE "over"]
  /\ UNCHANGED <<server, client, request, effect, told, sends>>
ClosesIdle == server' = [server EXCEPT !.life = "closing", !.idle = TRUE]
\* The last check and begin_shutdown() are one step: even passive replies come first.
IdleClose ==
  /\ server.life = "up" /\ busy.grace = "over" /\ ~busy.work
  /\ \A c \in Known : ~At(c, "open") /\ client[c].op = "pi_watch"
  /\ ClosesIdle /\ UNCHANGED <<client, request, effect, told, busy, sends>>
\* shutdown if_idle: a bridge of another revision asks; anything undecoded or admitted refuses it.
MayHandOff(c) == Known \ {c} = QuietConns(Known \ {c})
HandOff(c) ==
  /\ At(c, "admitted") /\ client[c].op = "shutdown" /\ ConnOver(c)
  /\ IF server.life = "up" /\ ~busy.work /\ MayHandOff(c) THEN ClosesIdle ELSE UNCHANGED server
  /\ UNCHANGED <<request, effect, told, busy, sends>>
\* A signal, or daemon stop: admission is not withdrawn from connections that are open.
Stop ==
  /\ server.life = "up" /\ server' = [server EXCEPT !.life = "closing"]
  /\ UNCHANGED <<client, request, effect, told, busy, sends>>
\* The drain: admitted operations end or are cut, then the process exits; or it dies at once.
Exit ==
  /\ server.life = "closing" /\ \A c \in Conns : client[c].pc \notin {"mutating", "did"}
  /\ server' = [server EXCEPT !.life = "down"] /\ client' = [c \in Conns |-> NoConn]
  /\ UNCHANGED <<request, effect, told, busy, sends>>
Crash ==
  /\ server.life # "down" /\ server' = [server EXCEPT !.life = "down"]
  /\ client' = [c \in Conns |-> NoConn] /\ UNCHANGED <<request, effect, told, busy, sends>>

-----------------------------------------------------------------------------
AdmissionInit ==
  /\ server = [life |-> "down", idle |-> FALSE, boots |-> 0] /\ client = [c \in Conns |-> NoConn]
  /\ request = [k \in Keys |-> "none"] /\ effect = [k \in Keys |-> 0] /\ told = [k \in Keys |-> {}]
  /\ busy = [work |-> FALSE, grace |-> "none"] /\ sends = 0
AdmissionNext ==
  \/ \E c \in Conns : \/ \E op \in Keys \cup Passive \cup {"shutdown"} : Send(c, op)
                      \/ HandlerRuns(c) \/ Decode(c) \/ PassiveReply(c) \/ RequestBegin(c) \/ Mutate(c)
                      \/ RequestEnd(c) \/ Cut(c) \/ HandOff(c)
  \/ Start \/ WorkEnds \/ Monitor \/ IdleClose \/ Stop \/ Exit \/ Crash
AdmissionSpec == AdmissionInit /\ [][AdmissionNext]_admissionVars

-----------------------------------------------------------------------------
AdmissionTypeOK ==
  /\ server \in [life : {"down", "up", "closing"}, idle : BOOLEAN, boots : 0..MaxBoots]
  /\ client \in [Conns -> [pc : {"none", "accepted", "open", "admitted", "mutating", "did"},
                           op : Keys \cup Passive \cup {"shutdown"}]]
  /\ request \in [Keys -> {"none", "pending", "ok", "error"}]
  /\ effect \in [Keys -> 0..MaxSends] /\ told \in [Keys -> SUBSET {"ok", "error"}]
  /\ busy \in [work : BOOLEAN, grace : {"none", "counting", "over"}] /\ sends \in 0..MaxSends

\* A mutation is performed at most once, however often it is sent, answered, cut or found started by
\* the next daemon.
AtMostOnce == \A k \in Keys : effect[k] <= 1

\* Whoever gets a definite answer gets the same one, and a success was performed.
OneAnswer == \A k \in Keys : told[k] # {"ok", "error"} /\ ("ok" \in told[k] => effect[k] = 1)

\* A daemon that closes because it is idle owns nothing and performs nothing any more: no mutation is
\* admitted between its last look and the closed socket.
IdleOwnsNothing == server.life = "closing" /\ server.idle => ~busy.work /\ Mutations = {}

\* Repeating a mutation is safe: it has one effect and one answer.
RequestsExact == AtMostOnce /\ OneAnswer
AdmissionSound == RequestsExact /\ IdleOwnsNothing
=============================================================================
