-------------------------- MODULE AttentionDelivery --------------------------
(* How a finished run or a question of a subagent reaches the parent conversation:
   the daemon's notices and delivery receipts (pi_parent.py), the frontend that
   owns the parent's lease (host/session.ts) with its serialised synchronisation
   chain, its watcher and its tool calls (host/client.ts), and the parts of Pi that
   end turns and save messages.

   One action is what one side does between two awaits.  Frontends are successive:
   the next one opens after the previous one closed or died, but the detach of the
   previous one may still be under way.                                          *)
EXTENDS Naturals, FiniteSets

CONSTANTS
  Notices,       \* parent_notifications rows: one per run or question
  Questions,     \* those whose dialog may close by itself
  Calls,         \* tool calls that wait for results
  MaxFrontends,  \* bound: frontends (leases) of the session
  MaxReceipts    \* bound: delivery receipts ever issued

ASSUME AttentionAssumption ==
  /\ Questions \subseteq Notices
  /\ MaxFrontends \in Nat \ {0} /\ MaxReceipts \in Nat \ {0}

VARIABLES
  row,       \* ledger: state, pi_receipt and pi_owner of every notice
  lease,     \* ledger: the lease the scope is bound to, 0 when detached
  daemon,    \* a daemon is running and admits calls
  issued,    \* receipts issued so far
  host,      \* the frontend of this session (SubagentSession)
  call,      \* the tool calls of the frontend and their reservations
  releases,  \* receipts whose pi_release was sent and has not arrived
  detaching, \* lease of a closed frontend whose pi_detach has not arrived, or 0
  outbox,    \* messages handed to Pi, not saved yet
  saved      \* messages with a valid receipt in the active branch

ledger == <<row, lease, daemon, issued>>
session == <<outbox, saved>>
attentionVars == <<ledger, host, call, releases, detaching, session>>

Leases == 1..MaxFrontends
Receipts == 1..MaxReceipts
Message == [receipts: SUBSET Receipts, events: SUBSET Notices]
NoMessage == [receipts |-> {}, events |-> {}]

RowType == [state: {"absent", "pending", "pi_waiting", "pi_claimed", "unknown",
                    "observed", "superseded"},
            receipt: 0..MaxReceipts, owner: 0..MaxFrontends]
(* op is the operation at the head of the serialised chain, pc the await it is at;
   `stale`: somebody resumed since it began.  watch is startWatching's loop.      *)
HostType == [id: 0..MaxFrontends, open: BOOLEAN, sync: {"active", "parked", "failed"},
             attention: BOOLEAN, idle: BOOLEAN, settling: BOOLEAN,
             observed: SUBSET Receipts, claims: SUBSET Receipts, sampling: Message,
             watch: {"off", "poll", "notified", "park"}, watchStale: BOOLEAN,
             op: {"none", "reconcile", "idle", "boundary", "take", "settle"},
             pc: {"free", "observe", "claim", "got", "release", "doubt", "confirm"},
             message: Message, stale: BOOLEAN]
CallType == [pc: {"new", "asked", "answered", "held", "altered", "done", "cancelled"},
             wants: SUBSET Notices, message: Message]

AttentionTypeOK ==
  /\ row \in [Notices -> RowType] /\ lease \in 0..MaxFrontends
  /\ daemon \in BOOLEAN /\ issued \in 0..MaxReceipts
  /\ host \in HostType /\ call \in [Calls -> CallType]
  /\ releases \subseteq Receipts /\ detaching \in 0..MaxFrontends
  /\ outbox \subseteq Message /\ saved \subseteq Message

------------------------------------------------------------------------------
(* The ledger *)

InHand == {"pi_waiting", "pi_claimed"}
SetState(rs, S, s) == [n \in Notices |-> IF n \in S THEN [rs[n] EXCEPT !.state = s] ELSE rs[n]]
Held(rs, f) == {n \in Notices : rs[n].owner = f /\ rs[n].state \in InHand}
With(rs, R) == {n \in Notices : rs[n].receipt \in R}

\* Mutant: a new daemon offers again what was handed out.
OfferedAgain(rs) == SetState(rs, {n \in Notices : rs[n].state \in InHand}, "pending")

\* A new daemon and a new lease doubt everything that was handed out before.
Doubtful(rs) == SetState(rs, {n \in Notices : rs[n].state \in InHand}, "unknown")

Reserved == UNION {call[c].wants : c \in {c \in Calls : call[c].pc = "asked"}}
Pending == {n \in Notices : row[n].state = "pending"} \ Reserved

\* A frontend that lost the lease is refused.
Bound == lease = host.id

\* pi_observe: whatever state the rows of the receipt are in.
Observed(rs, r) == SetState(rs, With(rs, {r}), "observed")
\* pi_release and pi_uncertain: only what this lease still holds.
Settle(rs, f, R, s) == SetState(rs, With(rs, R) \cap Held(rs, f), s)

------------------------------------------------------------------------------
(* The frontend *)

Delivered == {c \in Calls : call[c].pc \in {"held", "altered"}}  \* this.deliveries
\* Pi still executes a tool call, or has not saved its result.
ToolsRunning ==
  \E c \in Calls : \/ call[c].pc \in {"asked", "answered"}
                   \/ call[c].pc = "held" /\ call[c].message \notin saved
Tickets == UNION {call[c].message.receipts : c \in Delivered}
HasAttention(h) == h.attention \/ Delivered # {} \/ h.claims # {}
CanSync(h) == h.open /\ h.sync # "failed" /\ (h.sync = "active" \/ HasAttention(h))

SavedReceipts == UNION {m.receipts : m \in saved}

\* startWatching: one watcher, and only while it may synchronise.
Watching(h) == IF h.watch = "off" /\ CanSync(h) THEN [h EXCEPT !.watch = "poll", !.watchStale = FALSE] ELSE h
Resume(h) ==
  Watching([h EXCEPT !.sync = "active", !.stale = TRUE, !.watchStale = TRUE])
ResumeUnlessFailed(h) == IF h.sync = "failed" THEN h ELSE Resume(h)

Ended(h) == [h EXCEPT !.op = "none", !.pc = "free", !.message = NoMessage, !.stale = FALSE]
\* synchronizationFailed: an idle daemon parks, unless someone resumed meanwhile.
Parked(h, stale) == IF h.sync = "failed" \/ stale THEN h ELSE [h EXCEPT !.sync = "parked"]
Failed(h) == [h EXCEPT !.sync = "failed"]

Begin(op, pc) ==
  /\ CanSync(host) /\ host.op = "none"
  /\ host' = [host EXCEPT !.op = op, !.pc = pc, !.stale = FALSE]

------------------------------------------------------------------------------
(* The daemon by itself *)

Raise(n) ==
  /\ daemon /\ row[n].state = "absent"
  /\ row' = SetState(row, {n}, "pending")
  /\ UNCHANGED <<lease, daemon, issued, host, call, releases, detaching, session>>

\* A question whose dialog closed is no longer offered.
Supersede(n) ==
  /\ daemon /\ n \in Questions /\ row[n].state = "pending"
  /\ row' = SetState(row, {n}, "superseded")
  /\ UNCHANGED <<lease, daemon, issued, host, call, releases, detaching, session>>

\* The daemon exits when idle, or dies: reservations die with it.
DaemonEnds ==
  /\ daemon /\ daemon' = FALSE
  /\ call' = [c \in Calls |-> IF call[c].pc = "asked" THEN [call[c] EXCEPT !.pc = "cancelled"] ELSE call[c]]
  /\ UNCHANGED <<row, lease, issued, host, releases, detaching, session>>

\* A call that is not passive starts the daemon before it is sent; so does any
\* command or tool of the user.
Wake ==
  /\ ~daemon /\ host.open
  /\ daemon' = TRUE /\ row' = Doubtful(row)
  /\ UNCHANGED <<lease, issued, host, call, releases, detaching, session>>

\* pi_detach of a closed frontend, refused when the lease was replaced.
Detach ==
  /\ detaching # 0 /\ detaching' = 0
  /\ IF daemon /\ lease = detaching
     THEN /\ row' = SetState(row, Held(row, lease), "unknown") /\ lease' = 0
     ELSE UNCHANGED <<row, lease>>
  /\ UNCHANGED <<daemon, issued, host, call, releases, session>>

\* A release sent outside the chain arrives, or finds no daemon.
ReleaseArrives(r) ==
  /\ r \in releases /\ releases' = releases \ {r}
  /\ row' = IF daemon /\ Bound THEN Settle(row, lease, {r}, "pending") ELSE row
  /\ UNCHANGED <<lease, daemon, issued, host, call, detaching, session>>

------------------------------------------------------------------------------
(* Opening and closing a frontend *)

\* The constructor and its first call: wakes the daemon and binds the new lease.
Open ==
  /\ ~host.open /\ host.id < MaxFrontends
  /\ host' = [host EXCEPT !.id = @ + 1, !.open = TRUE, !.sync = "active",
                !.attention = FALSE, !.idle = TRUE, !.settling = FALSE, !.observed = {},
                !.claims = {}, !.sampling = NoMessage, !.watch = "poll", !.watchStale = FALSE,
                !.op = "reconcile", !.pc = "observe", !.message = NoMessage, !.stale = FALSE]
  /\ daemon' = TRUE /\ lease' = host.id + 1 /\ row' = Doubtful(row)
  /\ UNCHANGED <<issued, call, releases, detaching, session>>

\* close(), or the frontend's process dies without a detach.
Close ==
  /\ host.open
  /\ host' = [Ended(host) EXCEPT !.open = FALSE, !.watch = "off", !.settling = FALSE]
  /\ detaching' \in {0, host.id}
  /\ call' = [c \in Calls |-> IF call[c].pc = "new" THEN call[c] ELSE [call[c] EXCEPT !.pc = "done"]]
  /\ releases' = {} /\ outbox' = {}
  /\ UNCHANGED <<ledger, saved>>

------------------------------------------------------------------------------
(* The serialised chain *)

\* reconcile, one pi_observe at a time, until every saved receipt is observed.
ToObserve == SavedReceipts \ host.observed
Reconcile(r) ==
  /\ host.pc \in {"observe", "confirm"} /\ r \in ToObserve
  /\ daemon /\ IF Bound
     THEN /\ row' = Observed(row, r)
          /\ LET h == [host EXCEPT !.observed = @ \cup {r}]
             IN  host' = IF h.sync = "parked" THEN Resume(h) ELSE h
     ELSE host' = Ended(Failed(host)) /\ UNCHANGED row
  /\ UNCHANGED <<lease, daemon, issued, call, releases, detaching, session>>

AllObserved == host.pc \in {"observe", "confirm"} /\ ToObserve = {}

Confirmed(h) == [h EXCEPT !.claims = @ \ h.observed]
Forgotten ==
  [c \in Calls |-> IF c \in Delivered /\ call[c].message.receipts \subseteq host.observed
                   THEN [call[c] EXCEPT !.pc = "done"] ELSE call[c]]
Reconciled ==
  /\ AllObserved
  /\ host' = CASE host.pc = "confirm" \/ host.op = "reconcile" -> Ended(Confirmed(host))
               [] host.pc = "observe" /\ host.op = "settle" ->
                    [Confirmed(host) EXCEPT !.pc = "doubt", !.sampling = NoMessage]
               [] OTHER -> [Confirmed(host) EXCEPT !.pc = "claim"]
  /\ call' = Forgotten
  /\ UNCHANGED <<ledger, releases, detaching, session>>

\* pi_claim: every eligible notice under one receipt.
Claim ==
  /\ host.pc = "claim" /\ daemon
  /\ IF ~Bound THEN host' = Ended(Failed(host)) /\ UNCHANGED <<row, issued>>
     ELSE IF Pending = {} THEN host' = [host EXCEPT !.pc = "got"] /\ UNCHANGED <<row, issued>>
     ELSE
       /\ issued < MaxReceipts /\ issued' = issued + 1
       /\ row' = [n \in Notices |-> IF n \in Pending
                    THEN [state |-> "pi_claimed", receipt |-> issued', owner |-> lease] ELSE row[n]]
       /\ host' = [host EXCEPT !.pc = "got",
                     !.message = [receipts |-> {issued'}, events |-> Pending]]
  /\ UNCHANGED <<lease, daemon, call, releases, detaching, session>>

\* The observe or claim is passive while nothing is known to wait: an idle daemon
\* then ends the operation and parks the frontend.
PassiveFails ==
  /\ ~daemon /\ ~HasAttention(host)
  /\ host.pc = "claim" \/ (host.pc \in {"observe", "confirm"} /\ ToObserve # {})
  /\ host' = Ended(Parked(host, host.stale))
  /\ UNCHANGED <<ledger, call, releases, detaching, session>>

Claimed(h) ==
  LET g == [h EXCEPT !.attention = FALSE, !.claims = @ \cup h.message.receipts]
  IN  IF h.sync = "parked" \/ h.message.events # {} THEN ResumeUnlessFailed(g) ELSE g

\* The claim is used: shown to an idle Pi, appended to the ending turn, or kept
\* for the end of the sampling it interrupted.
Use ==
  /\ host.pc = "got"
  /\ LET h == Claimed(host) IN
       IF host.message.events = {} THEN host' = Ended(h) /\ UNCHANGED outbox
       ELSE CASE host.op = "take" ->
                   host' = [Ended(h) EXCEPT !.sampling = host.message] /\ UNCHANGED outbox
              [] host.op = "boundary" ->
                   host' = Ended(h) /\ outbox' = outbox \cup {host.message}
              [] host.op \in {"idle", "settle"} /\ ~host.idle ->
                   host' = [h EXCEPT !.pc = "release"] /\ UNCHANGED outbox
              [] OTHER ->
                   /\ outbox' = outbox \cup {host.message}
                   /\ host' = [h EXCEPT !.pc = "confirm", !.idle = FALSE]
  /\ UNCHANGED <<ledger, call, releases, detaching, saved>>

\* sendMessage throws: the outcome is uncertain and synchronisation stops.
UseFails ==
  /\ host.pc = "got" /\ host.op \in {"idle", "settle"} /\ host.idle /\ host.message.events # {}
  /\ daemon /\ Bound
  /\ row' = Settle(row, lease, host.message.receipts, "unknown")
  /\ host' = Ended(Failed([Claimed(host) EXCEPT !.claims = @ \ host.message.receipts]))
  /\ UNCHANGED <<lease, daemon, issued, call, releases, detaching, session>>

\* deliverIdle found Pi busy after its claim.
ReleaseClaim ==
  /\ host.pc = "release" /\ daemon
  /\ IF Bound
     THEN /\ row' = Settle(row, lease, host.message.receipts, "pending")
          /\ host' = Ended([host EXCEPT !.claims = @ \ host.message.receipts])
     ELSE host' = Ended(Failed(host)) /\ UNCHANGED row
  /\ UNCHANGED <<lease, daemon, issued, call, releases, detaching, session>>

\* settled(final): whatever is still in hand, and not saved, is doubted.
Doubt(r) ==
  /\ host.pc = "doubt" /\ daemon /\ r \in host.claims \cup Tickets
  /\ IF Bound
     THEN /\ row' = Settle(row, lease, {r}, "unknown")
          /\ host' = [host EXCEPT !.claims = @ \ {r}]
          /\ call' = [c \in Calls |-> IF c \in Delivered /\ r \in call[c].message.receipts
                                      THEN [call[c] EXCEPT !.pc = "done"] ELSE call[c]]
     ELSE host' = Ended(Failed(host)) /\ UNCHANGED <<row, call>>
  /\ UNCHANGED <<lease, daemon, issued, releases, detaching, session>>

Doubted ==
  /\ host.pc = "doubt" /\ host.claims \cup Tickets = {}
  /\ LET h == IF host.sync = "parked" THEN Resume(host) ELSE host
     IN  host' = IF host.idle THEN [h EXCEPT !.op = "idle", !.pc = "observe"] ELSE Ended(h)
  /\ UNCHANGED <<ledger, call, releases, detaching, session>>

------------------------------------------------------------------------------
(* The watcher *)

\* pi_watch returns: the frontend learns whether there is something to deliver.
Watch ==
  /\ host.watch = "poll" /\ CanSync(host) /\ host.op # "reconcile"
  /\ IF ~daemon THEN host' = [Parked(host, host.watchStale) EXCEPT !.watch = "park"]
     ELSE IF ~Bound THEN host' = [Failed(host) EXCEPT !.watch = "park"]
     ELSE host' = [host EXCEPT !.attention = (Pending # {}), !.watchStale = FALSE, !.watch =
                     IF host.idle /\ ~host.settling THEN "notified" ELSE "poll"]
  /\ UNCHANGED <<ledger, call, releases, detaching, session>>

WatchStops ==
  /\ host.watch = "poll" /\ host.open /\ ~CanSync(host)
  /\ host' = [host EXCEPT !.watch = "park"]
  /\ UNCHANGED <<ledger, call, releases, detaching, session>>

\* The idle delivery of the watcher, when its turn in the chain comes.
WatchDelivers ==
  /\ host.watch = "notified" /\ host.op = "none" /\ host.open
  /\ host' = IF CanSync(host) /\ host.idle
             THEN [host EXCEPT !.watch = "poll", !.op = "idle", !.pc = "observe", !.stale = FALSE]
             ELSE [host EXCEPT !.watch = "poll"]
  /\ UNCHANGED <<ledger, call, releases, detaching, session>>

\* Mutant: nobody looks again after the watcher parked.
WatchEndsQuietly ==
  /\ host.watch = "park" /\ host.op = "none" /\ host.open
  /\ host' = [host EXCEPT !.watch = "off"]
  /\ UNCHANGED <<ledger, call, releases, detaching, session>>

\* The watcher ends behind the chain, and starts again when somebody resumed.
WatchEnds ==
  /\ host.watch = "park" /\ host.op = "none" /\ host.open
  /\ host' = LET h == [host EXCEPT !.watch = "off"] IN IF h.sync = "active" THEN Watching(h) ELSE h
  /\ UNCHANGED <<ledger, call, releases, detaching, session>>

------------------------------------------------------------------------------
(* Pi: turns, boundaries and the session file *)

TurnStarts ==
  /\ host.open /\ host.idle /\ ~host.settling
  /\ host' = [host EXCEPT !.idle = FALSE]
  /\ UNCHANGED <<ledger, call, releases, detaching, session>>

\* A safe sampling boundary of the running turn.
Take ==
  /\ ~host.idle /\ ~ToolsRunning /\ host.attention /\ host.sampling = NoMessage
  /\ Begin("take", "observe")
  /\ UNCHANGED <<ledger, call, releases, detaching, session>>

\* turn_end or agent_before_settle with outcome "completed".
Boundary ==
  /\ ~host.idle /\ ~ToolsRunning
  /\ IF host.sampling = NoMessage THEN Begin("boundary", "observe") /\ UNCHANGED outbox
     ELSE /\ CanSync(host) /\ host.op = "none"
          /\ outbox' = outbox \cup {host.sampling}
          /\ host' = [host EXCEPT !.sampling = NoMessage]
  /\ UNCHANGED <<ledger, call, releases, detaching, saved>>

\* A turn that failed or was aborted only reconciles.
BoundaryFailed ==
  /\ ~host.idle /\ ToObserve # {}
  /\ Begin("reconcile", "observe")
  /\ UNCHANGED <<ledger, call, releases, detaching, session>>

(* Assumed: a pi_claim sent before the turn is answered before the turn is over.   *)
TurnSettles ==
  /\ host.open /\ ~host.idle /\ ~ToolsRunning
  /\ host.op \notin {"boundary", "take"} /\ host.pc \notin {"claim", "got"}
  /\ host' = [host EXCEPT !.idle = TRUE, !.settling = TRUE]
  /\ UNCHANGED <<ledger, call, releases, detaching, session>>

Settled ==
  /\ host.settling /\ host.op = "none"
  /\ host' = IF CanSync(host)
             THEN [host EXCEPT !.settling = FALSE, !.op = "settle", !.pc = "observe", !.stale = FALSE]
             ELSE [host EXCEPT !.settling = FALSE]
  /\ UNCHANGED <<ledger, call, releases, detaching, session>>

Save(m) ==
  /\ m \in outbox /\ outbox' = outbox \ {m} /\ saved' = saved \cup {m}
  /\ UNCHANGED <<ledger, host, call, releases, detaching>>

\* An aborted turn drops what it was about to add.
Lose(m) ==
  /\ m \in outbox /\ ~host.idle /\ outbox' = outbox \ {m}
  /\ UNCHANGED <<ledger, host, call, releases, detaching, saved>>

------------------------------------------------------------------------------
(* Tool calls that read results *)

(* reserve_delivery for a wait on some runs: their notices are not claimed meanwhile.
   A sampling that was interrupted for a claim makes no more tool calls.          *)
Ask(c, S) ==
  /\ host.open /\ ~host.idle /\ host.op \notin {"boundary", "take"} /\ host.sampling = NoMessage
  /\ call[c].pc = "new" /\ daemon /\ Bound
  /\ call' = [call EXCEPT ![c] = [pc |-> "asked", wants |-> S, message |-> NoMessage]]
  /\ UNCHANGED <<ledger, host, releases, detaching, session>>

\* prepare_delivery: a receipt per notice, the one a pending wait already holds
\* included; the abort of the turn may already have cancelled the call.
Reusable(n) == row[n].state = "pi_waiting" /\ row[n].owner = lease
Answer(c, n) ==
  /\ call[c].pc = "asked" /\ daemon /\ n \in call[c].wants
  /\ row[n].state \notin {"absent", "pi_claimed", "observed"}
  /\ IF Reusable(n) THEN UNCHANGED issued ELSE issued < MaxReceipts /\ issued' = issued + 1
  /\ LET r == IF Reusable(n) THEN row[n].receipt ELSE issued'
     IN  /\ row' = [row EXCEPT ![n] = [state |-> "pi_waiting", receipt |-> r, owner |-> lease]]
         /\ call' = [call EXCEPT ![c].pc = "answered", ![c].message = [receipts |-> {r}, events |-> {n}]]
  /\ UNCHANGED <<lease, daemon, host, releases, detaching, session>>

\* The reply reaches execute(): the ticket is held until the result is saved.
Reply(c) ==
  /\ call[c].pc = "answered" /\ host.open
  /\ call' = [call EXCEPT ![c].pc = "held"]
  /\ host' = Resume(host)
  /\ UNCHANGED <<ledger, releases, detaching, session>>

\* The call was cancelled first: its late reply is released by the client.
ReplyTooLate(c) ==
  /\ call[c].pc \in {"asked", "answered"}
  /\ call' = [call EXCEPT ![c].pc = "cancelled"]
  /\ releases' = releases \cup call[c].message.receipts
  /\ UNCHANGED <<ledger, host, detaching, session>>

\* The tool result is saved with its proof while its turn runs ...
ResultSaved(c) ==
  /\ call[c].pc = "held" /\ ~host.idle
  /\ saved' = saved \cup {call[c].message}
  /\ UNCHANGED <<ledger, host, call, releases, detaching, outbox>>

\* ... or another extension flipped its outcome, and result() releases the ticket,
\* or rewrote its content, and the proof saved with it is void.
ResultChanged(c) ==
  /\ call[c].pc = "held" /\ ~host.idle /\ call[c].message \notin saved
  /\ \/ /\ call' = [call EXCEPT ![c].pc = "done"]
        /\ releases' = releases \cup call[c].message.receipts
     \/ call' = [call EXCEPT ![c].pc = "altered"] /\ UNCHANGED releases
  /\ UNCHANGED <<ledger, host, detaching, session>>

------------------------------------------------------------------------------
AttentionDeliveryInit ==
  /\ row = [n \in Notices |-> [state |-> "absent", receipt |-> 0, owner |-> 0]]
  /\ lease = 0 /\ daemon = TRUE /\ issued = 0 /\ releases = {} /\ detaching = 0
  /\ host = [id |-> 0, open |-> FALSE, sync |-> "active", attention |-> FALSE, idle |-> TRUE,
             settling |-> FALSE, observed |-> {}, claims |-> {}, sampling |-> NoMessage,
             watch |-> "off", watchStale |-> FALSE, op |-> "none", pc |-> "free",
             message |-> NoMessage, stale |-> FALSE]
  /\ call = [c \in Calls |-> [pc |-> "new", wants |-> {}, message |-> NoMessage]]
  /\ outbox = {} /\ saved = {}

ChainStep ==
  \/ \E r \in Receipts : Reconcile(r) \/ Doubt(r)
  \/ Reconciled \/ Claim \/ PassiveFails \/ Use \/ ReleaseClaim \/ Doubted
  \/ host.pc # "free" /\ HasAttention(host) /\ Wake

WatchStep == Watch \/ WatchStops \/ WatchDelivers \/ WatchEnds
PiStep == TurnSettles \/ Settled \/ \E m \in Message : Save(m)

AttentionDeliveryNext ==
  \/ ChainStep \/ WatchStep \/ PiStep
  \/ \E n \in Notices : Raise(n) \/ Supersede(n)
  \/ DaemonEnds \/ Wake \/ Detach \/ Open \/ Close \/ UseFails
  \/ TurnStarts \/ Take \/ Boundary \/ BoundaryFailed
  \/ \E r \in Receipts : ReleaseArrives(r)
  \/ \E m \in Message : Lose(m)
  \/ \E c \in Calls :
       \/ \E S \in SUBSET Notices \ {{}} : Ask(c, S)
       \/ \E n \in Notices : Answer(c, n)
       \/ Reply(c) \/ ReplyTooLate(c) \/ ResultSaved(c) \/ ResultChanged(c)

AttentionDeliverySpec == AttentionDeliveryInit /\ [][AttentionDeliveryNext]_attentionVars

------------------------------------------------------------------------------
(* Properties *)

Standing == [n \in Notices |->
  CASE row[n].state = "absent" -> "none"
    [] row[n].state = "pending" -> "eligible"
    [] row[n].state = "pi_claimed" -> "claimed"
    [] row[n].state = "pi_waiting" -> "reading"
    [] row[n].state = "unknown" -> "uncertain"
    [] row[n].state = "observed" -> "consumed"
    [] OTHER -> "dropped"]

(* The delivery keeps what the documentation promises of it: whatever restarts, detaches,
   races and failures follow, a notice that the conversation has or is about to have is
   not submitted again, unless somebody asked to read its result, and only saved notices
   are consumed.                                                                     *)
Events(S) == UNION {m.events : m \in S}
Asked == Events({call[c].message : c \in Calls})
Promise == INSTANCE Attention WITH
  status <- Standing, submitted <- Events(outbox), shown <- Events(saved), asked <- Asked
KeepsPromise == Promise!AttentionSpec

(* No lost wake-up: an open frontend that is active has a watcher, whoever resumed
   it while the previous watcher was on its way out (startWatching, resume).      *)
WatcherAlive == host.open /\ host.sync = "active" => host.watch # "off"

(* "It did not reach Pi, so its reserved attention can be made eligible again"
   (receive, client.ts): the late reply of a cancelled wait makes nothing eligible
   that another call of this frontend has delivered under the same receipt.       *)
ReleasedNotDelivered ==
  [][\A r \in releases \ releases', n \in Notices :
       (row[n].receipt = r /\ row[n].state # "pending" /\ row'[n].state = "pending")
         => \A c \in Delivered : r \notin call[c].message.receipts]_attentionVars
=============================================================================
