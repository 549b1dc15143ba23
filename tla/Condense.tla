------------------------------ MODULE Condense ------------------------------
(* Context pruning in one Pi session (src/condense/runtime.ts): tool results are summarised
   in batches behind a frontier, and closed chains are compacted in the background.

   A batch is one turn with tool calls. The branch is the log of the session; the index, the
   frontier and everything else in memory is rebuilt from it. What a flush publishes is
   appended to the branch, and a raw result is hidden once the index knows its replacement.

   The queue pendingBatches is left out: it only decides whether a flush is worth trying,
   and the flush finds its work by rescanning the branch.

   External (Pi): `mail`, the custom messages steered into a running agent; Pi persists them
   in order or drops them, has none left when the agent settles, and none survives a switch. *)
EXTENDS Naturals, Sequences, FiniteSets, SequencesExt

CONSTANTS
  MaxTurns,     \* turns with tool results in a behaviour
  MaxSwitches,  \* session starts and tree navigations
  MaxChains,    \* chain entries on a branch
  Window        \* summaries requested ahead of the commit: 3 in the code

ASSUME CondenseAssumption == MaxTurns \in Nat \ {0} /\ {MaxSwitches, MaxChains} \subseteq Nat /\ Window \in Nat \ {0}

VARIABLES
  branch,       \* the entries of the current branch
  turnsMade,    \* turns so far: the next one's id
  index,        \* ToolCallIndexer: turns isSummarized holds for
  border,       \* PruneFrontierTracker: the last attempted turn, 0 for none
  queuedKeys,   \* queuedSummaryKeys
  mail,         \* Pi: summaries steered and not yet persisted
  lifecycle,
  restoring,    \* start() awaits its configuration
  rewriter,     \* who holds isFlushing, isArchiving or isCompactingChains
  flush,        \* flushPending's locals
  upkeep,       \* the maintenance task
  skipped,      \* history: turns completed without a summary
  steered       \* history: turns whose summary was handed to Pi

condenseVars == <<branch, turnsMade, index, border, queuedKeys, mail, lifecycle, restoring, rewriter,
                  flush, upkeep, skipped, steered>>
condenseMemory == <<index, border, queuedKeys>>
condenseHistory == <<skipped, steered>>

-----------------------------------------------------------------------------
EntryKinds == {"turn", "summary", "stub", "frontier", "chain"}
Entry(kind, id) == [kind |-> kind, id |-> id]
Ids(kinds) == {branch[i].id : i \in {i \in DOMAIN branch : branch[i].kind \in kinds}}

\* buildSessionProjection().messages: custom entries are not among them.
Messages(log) == SelectSeq(log, LAMBDA e : e.kind \in {"turn", "summary"})
\* A result is replaced by a summary, or by a stub that points at its archive.
SummarizedOn(log) == {log[i].id : i \in {i \in DOMAIN log : log[i].kind \in {"summary", "stub"}}}
FrontierOn(log) == LET marks == SelectSeq(log, LAMBDA e : e.kind = "frontier")
                   IN  IF marks = <<>> THEN 0 ELSE Last(marks).id
Synced(log) == index \cup {log[i].id : i \in {i \in DOMAIN log : log[i].kind = "summary"}}

\* captureUnindexedBatchesFromSession, trimmed to what lies behind the frontier, in branch order.
PendingAndQueued == LET open == SelectSeq(branch, LAMBDA e : e.kind = "turn" /\ e.id > border /\ e.id \notin Synced(branch))
                    IN  [i \in DOMAIN open |-> open[i].id]   \* mutant: what is queued with Pi is captured again
Pending == LET open == SelectSeq(branch, LAMBDA e :
                         e.kind = "turn" /\ e.id > border /\ e.id \notin Synced(branch) \cup queuedKeys)
           IN  [i \in DOMAIN open |-> open[i].id]

NoFlush == [pc |-> "off", abort |-> FALSE, session |-> FALSE, todo |-> <<>>, result |-> <<>>,
            at |-> 0, next |-> 0, gap |-> FALSE, seen |-> <<>>]
Results == {"none", "open", "stub", "skip", "ok", "defer", "null", "error"}
Free == [who |-> "none", version |-> 0, waits |-> FALSE]
NoUpkeep == [on |-> FALSE, version |-> 0, abort |-> FALSE, again |-> 0, seen |-> <<>>]

\* assertCurrent, and the signal of whoever runs
CurrentVersion == rewriter.version = lifecycle
Current == CurrentVersion /\ ~flush.abort
\* checkSource()
SourceHolds == Current /\ Messages(branch) = flush.seen
StopUpkeep == upkeep' = IF upkeep.on THEN [upkeep EXCEPT !.abort = TRUE, !.again = 0] ELSE upkeep

\* A chain covers the turns up to a final answer; one that is published is not prepared again.
Chained == LET done == Ids({"chain"}) IN IF done = {} THEN 0 ELSE CHOOSE k \in done : \A l \in done : l <= k
ChainDue == /\ Ids({"turn"}) # {} /\ Cardinality({i \in DOMAIN branch : branch[i].kind = "chain"}) < MaxChains
            /\ \E k \in Ids({"turn"}) : k > Chained
AddChain == branch' = Append(branch, Entry("chain", CHOOSE k \in Ids({"turn"}) : \A l \in Ids({"turn"}) : l <= k))

-----------------------------------------------------------------------------
\* The flush: the guard, stopMaintenance, the capture, the requests and the ordered commits.
MayRewrite == rewriter.who = "none" /\ ~restoring
Own(who) == rewriter' = [who |-> who, version |-> lifecycle, waits |-> TRUE] /\ StopUpkeep

\* A command flushes through Pi's runtime, a turn's or an answer's end through the session.
FlushBegins ==
  /\ MayRewrite /\ turnsMade > 0
  /\ Own("flush")
  /\ \E session \in BOOLEAN : flush' = [NoFlush EXCEPT !.pc = "capture", !.session = session]
  /\ UNCHANGED <<branch, turnsMade, condenseMemory, mail, lifecycle, restoring, condenseHistory>>

Release == rewriter' = Free /\ flush' = NoFlush
\* The catch and the finally: a flush that lost its session rebuilds the index.
FlushFails ==
  /\ Release
  /\ index' = IF CurrentVersion \/ restoring THEN index ELSE SummarizedOn(branch)
  /\ UNCHANGED <<branch, border, skipped, queuedKeys>>

Running(todo) == [flush EXCEPT !.pc = "run", !.todo = todo, !.result = [i \in DOMAIN todo |-> "none"],
                               !.at = 1, !.next = 1, !.seen = Messages(branch)]
HandedAtOnce == rewriter.waits   \* mutant: the task that is being stopped is not awaited
Handed == rewriter.waits /\ ~upkeep.on

Capture ==
  /\ flush.pc = "capture" /\ Handed
  /\ IF ~Current THEN FlushFails
     ELSE /\ index' = Synced(branch)
          /\ IF Pending = <<>> THEN Release
             ELSE flush' = Running(Pending) /\ rewriter' = [rewriter EXCEPT !.waits = FALSE]
          /\ UNCHANGED <<branch, border, skipped, queuedKeys>>
  /\ UNCHANGED <<turnsMade, mail, lifecycle, restoring, upkeep, steered>>

\* Duplicates of earlier results are registered before any request, under the captured source.
Deduplicate ==
  /\ flush.pc = "run" /\ flush.at = 1 /\ flush.next = 1
  /\ \E k \in DOMAIN flush.todo :
       /\ flush.result[k] = "none"
       /\ IF SourceHolds
          THEN /\ branch' = Append(branch, Entry("stub", flush.todo[k]))
               /\ index' = index \cup {flush.todo[k]}
               /\ flush' = [flush EXCEPT !.result[k] = "stub"]
               /\ UNCHANGED <<rewriter, border, skipped, queuedKeys>>
          ELSE FlushFails
  /\ UNCHANGED <<turnsMade, mail, lifecycle, restoring, upkeep, steered>>

Nulls == {k \in DOMAIN flush.result : flush.result[k] = "null"}
InWindow == /\ flush.next <= Len(flush.todo) /\ flush.next < flush.at + Window
            /\ \A k \in Nulls : flush.next < k

\* Preparing a batch: too small to summarise, packed without a model, retained (no archive, no
\* gain, no pressure, no budget), or worth a request.
Outcomes == {"skip", "ok", "defer", "open"}
\* schedule(): preparing and measuring await; a request stays open.
Prepare ==
  /\ flush.pc = "run" /\ InWindow
  /\ IF ~SourceHolds THEN FlushFails
     ELSE /\ IF flush.result[flush.next] = "stub" THEN flush' = [flush EXCEPT !.next = @ + 1]
             ELSE \E outcome \in Outcomes : flush' = [flush EXCEPT !.next = @ + 1, !.result[flush.next] = outcome]
          /\ UNCHANGED <<branch, rewriter, index, border, skipped, queuedKeys>>
  /\ UNCHANGED <<turnsMade, mail, lifecycle, restoring, upkeep, steered>>

\* summarizeBatch settles, in any order; its own deadlines see to it that it does.
Summarised(k) ==
  /\ flush.pc = "run" /\ flush.result[k] = "open"
  /\ \E outcome \in {"ok", "defer", "null", "error"} : flush' = [flush EXCEPT !.result[k] = outcome]
  /\ UNCHANGED <<branch, turnsMade, condenseMemory, mail, lifecycle, restoring, rewriter, upkeep, condenseHistory>>

\* completeRecord: the frontier advances unless an earlier batch was deferred.
CompleteRegardless(log, id) ==   \* mutant: a deferred batch leaves no gap
  /\ branch' = Append(log, Entry("frontier", id)) /\ border' = id
  /\ flush' = [flush EXCEPT !.at = @ + 1, !.seen = Messages(log)]
Complete(log, id) ==
  /\ IF flush.gap THEN branch' = log /\ UNCHANGED border
     ELSE branch' = Append(log, Entry("frontier", id)) /\ border' = id
  /\ flush' = [flush EXCEPT !.at = @ + 1, !.seen = Messages(log)]

\* The summary is steered into a busy agent: hidden and completed only when it is persisted.
Steered(id) == mail' = Append(mail, id) /\ queuedKeys' = queuedKeys \cup {id} /\ steered' = steered \cup {id}
SteerHidden(id) == Steered(id) /\ index' = index \cup {id}   \* mutant: hidden when it is handed over
Steer(id) == Steered(id) /\ UNCHANGED index
Publish(id) ==
  \/ /\ Complete(Append(branch, Entry("summary", id)), id)
     /\ index' = Synced(branch) \cup {id}
     /\ UNCHANGED <<mail, queuedKeys, steered, rewriter>>
  \/ ~flush.session /\ Steer(id) /\ Release /\ UNCHANGED <<branch, border>>

\* The commit loop takes the results in order and stops at the first one that failed.
Commit ==
  /\ flush.pc = "run" /\ flush.at <= Len(flush.todo)
  /\ LET result == flush.result[flush.at]  id == flush.todo[flush.at] IN
     /\ ~InWindow /\ flush.next > flush.at /\ result # "open"
     /\ \/ (~SourceHolds \/ result = "error") /\ FlushFails /\ UNCHANGED <<mail, steered>>
        \/ SourceHolds /\ result = "null" /\ Release /\ UNCHANGED <<branch, condenseMemory, mail, condenseHistory>>
        \/ /\ SourceHolds /\ result = "defer"
           /\ flush' = [flush EXCEPT !.at = @ + 1, !.gap = TRUE]
           /\ UNCHANGED <<branch, rewriter, condenseMemory, mail, condenseHistory>>
        \/ /\ SourceHolds /\ result \in {"stub", "skip"}
           /\ Complete(branch, id)
           /\ skipped' = IF result = "skip" THEN skipped \cup {id} ELSE skipped
           /\ UNCHANGED <<rewriter, index, queuedKeys, mail, steered>>
        \/ SourceHolds /\ result = "ok" /\ Publish(id) /\ UNCHANGED skipped
  /\ UNCHANGED <<turnsMade, lifecycle, restoring, upkeep>>

\* A command's flush that left nothing behind compacts chains too; the others leave them to upkeep.
FlushEnds ==
  /\ flush.pc = "run" /\ flush.at > Len(flush.todo)
  /\ IF ~flush.session /\ ~flush.gap /\ ~flush.abort /\ ChainDue
     THEN flush' = [flush EXCEPT !.pc = "publish", !.seen = Messages(branch)] /\ UNCHANGED rewriter
     ELSE Release
  /\ UNCHANGED <<branch, turnsMade, condenseMemory, mail, lifecycle, restoring, upkeep, condenseHistory>>

\* A command or a changed policy aborts it; so does a switch, below.
FlushAborted ==
  /\ rewriter.who \in {"flush", "compact"} /\ ~flush.abort
  /\ flush' = [flush EXCEPT !.abort = TRUE]
  /\ upkeep' = [upkeep EXCEPT !.abort = upkeep.on, !.again = 0]
  /\ UNCHANGED <<branch, turnsMade, condenseMemory, mail, lifecycle, restoring, rewriter, condenseHistory>>

-----------------------------------------------------------------------------
\* turn_end: a turn with results joins the branch; oversized ones are archived and stubbed.
TurnEnds ==
  /\ turnsMade < MaxTurns /\ ~restoring
  /\ turnsMade' = turnsMade + 1
  /\ branch' = Append(branch, Entry("turn", turnsMade + 1))
  /\ IF rewriter.who = "none" THEN Own("archive") ELSE UNCHANGED <<rewriter, upkeep>>
  /\ UNCHANGED <<condenseMemory, mail, lifecycle, restoring, flush, condenseHistory>>

Spilled ==
  /\ rewriter.who = "archive" /\ ~upkeep.on
  /\ \/ UNCHANGED <<branch, index>>
     \/ /\ CurrentVersion /\ Last(branch).kind = "turn"
        /\ branch' = Append(branch, Entry("stub", Last(branch).id)) /\ index' = index \cup {Last(branch).id}
  /\ rewriter' = Free
  /\ UNCHANGED <<turnsMade, border, queuedKeys, mail, lifecycle, restoring, flush, upkeep, condenseHistory>>

\* /pruner compact
CompactBegins ==
  /\ MayRewrite /\ ChainDue /\ Own("compact") /\ flush' = [NoFlush EXCEPT !.pc = "compact"]
  /\ UNCHANGED <<branch, turnsMade, condenseMemory, mail, lifecycle, restoring, condenseHistory>>

\* compressChains measures the chain against the messages it is published under.
CompactMeasures ==
  /\ flush.pc = "compact" /\ Handed
  /\ IF Current THEN /\ rewriter' = [rewriter EXCEPT !.waits = FALSE]
                     /\ flush' = [flush EXCEPT !.pc = "publish", !.seen = Messages(branch)]
                ELSE Release
  /\ UNCHANGED <<branch, turnsMade, condenseMemory, mail, lifecycle, restoring, upkeep, condenseHistory>>

CompactEnds ==
  /\ flush.pc = "publish" /\ Release
  /\ IF SourceHolds THEN AddChain ELSE UNCHANGED branch
  /\ UNCHANGED <<turnsMade, condenseMemory, mail, lifecycle, restoring, upkeep, condenseHistory>>

-----------------------------------------------------------------------------
\* maintainChains: one task at a time, asked for again while it runs.
UpkeepAsked ==
  /\ ~restoring /\ ChainDue
  /\ IF upkeep.on THEN upkeep' = [upkeep EXCEPT !.again = lifecycle]
     ELSE /\ rewriter.who = "none"
          /\ upkeep' = [NoUpkeep EXCEPT !.on = TRUE, !.version = lifecycle, !.seen = Messages(branch)]
  /\ UNCHANGED <<branch, turnsMade, condenseMemory, mail, lifecycle, restoring, rewriter, flush, condenseHistory>>

\* assertValid()
UpkeepValid == upkeep.version = lifecycle /\ ~upkeep.abort /\ rewriter.who = "none"

\* The finally: what was asked for meanwhile starts now, if nobody took over.
UpkeepAfter == upkeep' = IF upkeep.again = lifecycle /\ rewriter.who = "none"
                         THEN [NoUpkeep EXCEPT !.on = TRUE, !.version = lifecycle, !.seen = Messages(branch')]
                         ELSE NoUpkeep
UpkeepEnds ==
  /\ upkeep.on
  /\ \/ UNCHANGED branch
     \/ UpkeepValid /\ Messages(branch) = upkeep.seen /\ ChainDue /\ AddChain
  /\ UpkeepAfter
  /\ UNCHANGED <<turnsMade, condenseMemory, mail, lifecycle, restoring, rewriter, flush, condenseHistory>>

-----------------------------------------------------------------------------
\* Pi persists the oldest steered message, and the index learns of it at the next request.
Delivered ==
  /\ mail # <<>> /\ ~restoring
  /\ branch' = Append(branch, Entry("summary", Head(mail))) /\ mail' = Tail(mail)
  /\ UNCHANGED <<turnsMade, condenseMemory, lifecycle, restoring, rewriter, flush, upkeep, condenseHistory>>

ContextBuilt ==
  /\ ~restoring /\ index # Synced(branch)
  /\ index' = Synced(branch)
  /\ UNCHANGED <<branch, turnsMade, border, queuedKeys, mail, lifecycle, restoring, rewriter, flush, upkeep, condenseHistory>>

\* agent_settled: what Pi still held is gone.
AgentSettled ==
  /\ ~restoring /\ queuedKeys # {}
  /\ index' = Synced(branch) /\ queuedKeys' = {}
  /\ mail' = <<>>
  /\ UNCHANGED <<branch, turnsMade, border, lifecycle, restoring, rewriter, flush, upkeep, condenseHistory>>

\* start() and tree() void what is running; the branch becomes another one, of which a prefix of
\* this one is the example; memory is rebuilt, after start()'s configuration is read.
Rebuilt ==
  /\ index' = SummarizedOn(branch') /\ border' = FrontierOn(branch') /\ queuedKeys' = {}
Switch ==
  /\ lifecycle < MaxSwitches /\ ~restoring
  /\ lifecycle' = lifecycle + 1
  /\ \E n \in 0..Len(branch) : branch' = SubSeq(branch, 1, n)
  /\ mail' = <<>>
  /\ flush' = IF rewriter.who \in {"flush", "compact"} THEN [flush EXCEPT !.abort = TRUE] ELSE flush
  /\ upkeep' = [upkeep EXCEPT !.abort = upkeep.on, !.again = 0]
  /\ \/ restoring' = TRUE /\ UNCHANGED condenseMemory
     \/ Rebuilt /\ UNCHANGED restoring
  /\ UNCHANGED <<turnsMade, rewriter, condenseHistory>>

Started ==
  /\ restoring /\ restoring' = FALSE
  /\ UNCHANGED branch /\ Rebuilt
  /\ UNCHANGED <<turnsMade, mail, lifecycle, rewriter, flush, upkeep, condenseHistory>>

-----------------------------------------------------------------------------
CondenseInit ==
  /\ branch = <<>> /\ turnsMade = 0 /\ index = {} /\ border = 0 /\ queuedKeys = {} /\ mail = <<>>
  /\ lifecycle = 0 /\ restoring = FALSE /\ rewriter = Free /\ flush = NoFlush /\ upkeep = NoUpkeep
  /\ skipped = {} /\ steered = {}

FlushStep == Capture \/ Prepare \/ Commit \/ FlushEnds \/ \E k \in 1..MaxTurns : k \in DOMAIN flush.result /\ Summarised(k)
CondenseNext ==
  \/ FlushBegins \/ FlushStep \/ Deduplicate \/ FlushAborted
  \/ TurnEnds \/ Spilled \/ CompactBegins \/ CompactMeasures \/ CompactEnds
  \/ UpkeepAsked \/ UpkeepEnds \/ Delivered \/ ContextBuilt \/ AgentSettled \/ Switch \/ Started

CondenseSpec == CondenseInit /\ [][CondenseNext]_condenseVars

-----------------------------------------------------------------------------
CondenseTypeOK ==
  /\ turnsMade \in 0..MaxTurns /\ border \in 0..MaxTurns /\ lifecycle \in 0..MaxSwitches
  /\ {index, queuedKeys, skipped, steered} \subseteq SUBSET (1..MaxTurns) /\ ToSet(mail) \subseteq 1..MaxTurns
  /\ \A i \in DOMAIN branch : branch[i].kind \in EntryKinds /\ branch[i].id \in 1..MaxTurns
  /\ restoring \in BOOLEAN /\ rewriter.who \in {"none", "flush", "archive", "compact"}
  /\ rewriter.version \in 0..lifecycle /\ upkeep.version \in 0..lifecycle
  /\ flush.pc \in {"off", "capture", "run", "compact", "publish"} /\ flush.at \in 0..Len(flush.todo) + 1
  /\ DOMAIN flush.result = DOMAIN flush.todo /\ \A k \in DOMAIN flush.result : flush.result[k] \in Results

(* No turn is left behind the frontier (later captures never look there again) unless its
   result was replaced, or completed without a summary, or its summary was handed to Pi: not
   when requests finish out of order, an earlier batch is deferred or fails, the source
   changes under a request, or the session switches in mid-flush.                         *)
NothingLeapt ==
  \A k \in Ids({"turn"}) : k <= FrontierOn(branch) =>
    k \in SummarizedOn(branch) \cup skipped \cup steered

(* A raw result is hidden only by a replacement that is on this branch: a summary that is
   steered hides nothing before Pi persisted it, and a flush or an archive that outlived its
   session hides nothing in the next one. While start() reads its configuration, memory
   still describes the session that was left.                                             *)
HiddenIsBacked == ~restoring => index \subseteq SummarizedOn(branch)

(* No turn is summarised twice on a branch, counting what Pi still holds.                  *)
SummarisedOnce ==
  LET all == SelectSeq(branch, LAMBDA e : e.kind = "summary") \o [i \in DOMAIN mail |-> Entry("summary", mail[i])]
  IN  \A i, j \in DOMAIN all : all[i].id = all[j].id => i = j

(* Background maintenance is over before a flush captures its work, an archive writes or a
   compaction measures, and it does not come back under them: what is asked for again while
   it is being stopped must not start.                                                    *)
RewritersAlone == rewriter.who # "none" /\ ~rewriter.waits => ~upkeep.on

\* The rewriters of a session never work on what is no longer its own: no summary hides too much,
\* comes twice or is made under another rewriter's hands.
RewritesSound == HiddenIsBacked /\ SummarisedOnce /\ RewritersAlone
CondenseSound == NothingLeapt /\ RewritesSound
=============================================================================
