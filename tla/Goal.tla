-------------------------------- MODULE Goal --------------------------------
(* The goal extension (src/goal/runtime.ts, src/goal/state.ts) in one Pi session: an
   objective that is continued after every agent run until it is complete, paused,
   blocked or out of budget.

   A goal's text and clocks are left out; a run costs one unit or nothing. `revision`
   and `inputGeneration` are compared for equality only, and whatever raises them also
   voids the ticket they guard: an editor remembers whether the goal changed under it
   (`fresh`), a ticket is identified by its token.

   External (Pi): `phase` and `inbox`. Pi queues messages, runs what is queued, reports
   agent_end before it decides on a retry, and agent_settled when it will not retry.  *)
EXTENDS Naturals, FiniteSets

CONSTANTS
  MaxGoals,      \* goals created in a behaviour
  MaxUsed,       \* usage counted on a goal
  MaxTickets,    \* continuations deferred to maintenance
  MaxBranches,   \* earlier entries the user can navigate back to
  GoalBudget     \* token budget of a goal that has one

ASSUME GoalAssumption == {MaxGoals, MaxUsed, MaxTickets, MaxBranches, GoalBudget} \subseteq Nat \ {0}

VARIABLES
  goal,          \* GoalState.#goal, or NoGoal
  saved,         \* the goal of the last session entry on this branch
  branches,      \* goals of other entries of the session tree
  goalStarted,   \* GoalState.#startedGoalId, 0 for null
  goalQueued,    \* GoalState.continuationQueued
  owed,          \* token of the ticket deferred to maintenance, 0 for none
  goalsMade,     \* [goals, tickets] made so far
  continueCmds,  \* tokens of the "/goal __continue_<token>" commands Pi holds
  editGrant,     \* the goal whose edit the user granted, 0 for none
  reportFor,     \* completionReportGoalId, 0 for none
  pendingError,  \* a failed run whose recovery is not decided
  invalidated,   \* requestInvalidated
  goalDialog,    \* the replace question or the editor a command awaits
  phase,         \* Pi: "idle", "running", "ended", or a handler of it asks to pause
  inbox,         \* Pi: queued messages
  excused        \* history: nothing continues until somebody acts

goalVars == <<goal, saved, branches, goalStarted, goalQueued, owed, goalsMade, continueCmds, editGrant,
              reportFor, pendingError, invalidated, goalDialog, phase, inbox, excused>>
goalTickets == <<goalsMade, continueCmds>>
goalPi == <<phase, invalidated>>

-----------------------------------------------------------------------------
GoalStatuses == {"active", "paused", "blocked", "usageLimited", "budgetLimited", "complete"}
NoGoal == [id |-> 0, status |-> "paused", budget |-> 0, used |-> 0]
Goals == [id : 1..MaxGoals, status : GoalStatuses, budget : {0, GoalBudget}, used : 0..MaxUsed]
NoDialog == [kind |-> "none", fresh |-> FALSE]
Dialogs == {NoDialog} \cup [kind : {"replace", "editor"}, fresh : BOOLEAN]
Active(g) == g.status = "active"
Unfinished == goal # NoGoal /\ goal.status # "complete"
OverBudget(g) == g.budget # 0 /\ g.used >= g.budget

\* appendEntry: the branch ends in g; what it ended in before can be navigated back to.
Append2Log(g) ==
  /\ saved' = g
  /\ branches' = IF Cardinality(branches) < MaxBranches THEN branches \cup {saved} ELSE branches
\* persist() of anything but usage voids the ticket, the grant, the error and the report.
Persist(g, report) ==
  /\ Append2Log(g)
  /\ editGrant' = 0 /\ owed' = 0 /\ pendingError' = FALSE /\ reportFor' = report

\* What is left of continuationQueued once g replaced the goal and clearOwed ran.
QueuedRegardless(g) == goalQueued /\ Active(g)   \* mutant: a ticket keeps its flag
StillQueued(g) == goalQueued /\ owed = 0 /\ Active(goal) /\ Active(g) /\ g.id = goal.id

\* The continuation prompt, whatever its text; the context hook drops all but the last one of the
\* active goal.
Continuation == "continuation"

ContinueIfIdle(g, queued) ==   \* mutant: nothing is queued behind a run
  LET send == Active(g) /\ ~queued /\ inbox = {} /\ phase = "idle"
  IN  goalQueued' = (queued \/ send) /\ inbox' = IF send THEN {Continuation} ELSE inbox
\* queueContinuation(), where continuationQueued was `queued` before it.
Continue(g, queued) ==
  LET send == Active(g) /\ ~queued /\ inbox = {}
  IN  /\ goalQueued' = (queued \/ send)
      /\ inbox' = IF send THEN {Continuation} ELSE inbox
Quiet(g) == goalQueued' = StillQueued(g) /\ UNCHANGED inbox

Stale(d) == [d EXCEPT !.fresh = FALSE]
NewGoal(budget) == [id |-> goalsMade.goals + 1, status |-> "active", budget |-> budget, used |-> 0]
MayCreate == goalsMade.goals < MaxGoals
GoalMade == goalsMade' = [goalsMade EXCEPT !.goals = @ + 1] /\ UNCHANGED continueCmds

-----------------------------------------------------------------------------
\* /goal <objective>, at once or after the replace question; the answer is not checked again.
Create(g) ==
  /\ MayCreate /\ goal' = g /\ Persist(g, 0) /\ Continue(g, FALSE)
  /\ GoalMade /\ excused' = FALSE
UserCreates ==
  /\ goalDialog.kind = "none" /\ ~Unfinished
  /\ Create(NewGoal(0)) /\ UNCHANGED <<goalStarted, goalDialog, goalPi>>
OpenDialog(kind) ==
  /\ goalDialog.kind = "none" /\ (IF kind = "replace" THEN Unfinished ELSE goal # NoGoal)
  /\ goalDialog' = [kind |-> kind, fresh |-> TRUE]
  /\ UNCHANGED <<goal, saved, branches, goalStarted, goalQueued, owed, goalTickets, editGrant, reportFor,
                 pendingError, goalPi, inbox, excused>>
ReplaceConfirmed ==
  /\ goalDialog.kind = "replace" /\ goalDialog' = NoDialog
  /\ Create(NewGoal(0)) /\ UNCHANGED <<goalStarted, goalPi>>

\* The editor returns: saved only if no revision passed under it.
Reopened == IF goal.status \in {"complete", "budgetLimited"} THEN "active" ELSE goal.status
EditSaved ==
  /\ goalDialog.kind = "editor" /\ goalDialog.fresh /\ goalDialog' = NoDialog
  /\ goal' = [goal EXCEPT !.status = Reopened]
  /\ Persist(goal', 0) /\ Continue(goal', StillQueued(goal'))
  /\ excused' = FALSE /\ UNCHANGED <<goalStarted, goalTickets, goalPi>>
DialogCancelled ==
  /\ goalDialog.kind # "none" /\ goalDialog' = NoDialog
  /\ UNCHANGED <<goal, saved, branches, goalStarted, goalQueued, owed, goalTickets, editGrant, reportFor,
                 pendingError, goalPi, inbox, excused>>

\* /goal pause and resume, and the popup's controls.
ControlGoal(status) ==
  /\ goal # NoGoal /\ goal' = [goal EXCEPT !.status = status]
  /\ Persist(goal', 0) /\ Continue(goal', StillQueued(goal'))
  /\ goalDialog' = Stale(goalDialog)
  /\ excused' = FALSE /\ UNCHANGED <<goalStarted, goalTickets, goalPi>>
ClearGoal ==
  /\ goal # NoGoal /\ goal' = NoGoal /\ goalStarted' = 0
  /\ Persist(NoGoal, 0) /\ Quiet(NoGoal)
  /\ goalDialog' = Stale(goalDialog)
  /\ UNCHANGED <<goalTickets, goalPi, excused>>

\* /goal agent-edit grants one edit of the objective and asks for a run.
GrantEdit ==
  /\ Active(goal) /\ editGrant' = goal.id
  /\ owed' = 0 /\ goalQueued' = (goalQueued /\ owed = 0)
  /\ inbox' = inbox \cup {"grant"}
  /\ UNCHANGED <<goal, saved, branches, goalStarted, goalTickets, reportFor, pendingError, goalDialog, goalPi, excused>>

\* The goal tool, in a run.
ToolCreates ==
  /\ phase = "running" /\ ~Unfinished /\ MayCreate
  /\ \E b \in {0, GoalBudget} : goal' = NewGoal(b)
  /\ Persist(goal', 0) /\ Quiet(goal') /\ GoalMade
  /\ goalDialog' = Stale(goalDialog) /\ UNCHANGED <<goalStarted, goalPi, excused>>
ToolEdits ==
  /\ phase = "running" /\ Active(goal) /\ editGrant = goal.id
  /\ Persist(goal, 0) /\ Quiet(goal)
  /\ goalDialog' = Stale(goalDialog) /\ UNCHANGED <<goal, goalStarted, goalTickets, goalPi, excused>>
ToolUpdates(status) ==
  /\ phase = "running" /\ goal # NoGoal /\ goal' = [goal EXCEPT !.status = status]
  /\ Persist(goal', IF status = "complete" THEN goal.id ELSE 0) /\ Quiet(goal')
  /\ goalDialog' = Stale(goalDialog) /\ UNCHANGED <<goalStarted, goalTickets, goalPi, excused>>

-----------------------------------------------------------------------------
\* Pi: input of the user, and messages of other extensions; only the first are "input" events.
UserInput ==
  /\ inbox' = inbox \cup {"user"}
  /\ owed' = 0 /\ goalQueued' = (goalQueued /\ owed = 0)
  /\ UNCHANGED <<goal, saved, branches, goalStarted, goalTickets, editGrant, reportFor, pendingError,
                 goalDialog, goalPi, excused>>
OtherMessage ==
  /\ inbox' = inbox \cup {"other"}
  /\ UNCHANGED <<goal, saved, branches, goalStarted, goalQueued, owed, goalTickets, editGrant, reportFor,
                 pendingError, goalDialog, goalPi, excused>>

\* agent_start: a run for what is queued, or the retry of a failed one.
StartTurn ==
  /\ phase \in {"idle", "ended"} /\ (inbox # {} \/ (phase = "ended" /\ pendingError))
  /\ phase' = "running" /\ inbox' = {}
  /\ pendingError' = FALSE /\ invalidated' = FALSE /\ goalQueued' = FALSE
  /\ goalStarted' = IF Active(goal) THEN goal.id ELSE 0
  /\ excused' = FALSE
  /\ UNCHANGED <<goal, saved, branches, owed, goalTickets, editGrant, reportFor, goalDialog>>

\* A request of the run was cancelled because a checkpoint it was built on is gone.
RequestCancelled ==
  /\ phase = "running" /\ invalidated' = TRUE
  /\ pendingError' = FALSE /\ owed' = 0 /\ goalQueued' = (goalQueued /\ owed = 0)
  /\ UNCHANGED <<goal, saved, branches, goalStarted, goalTickets, editGrant, reportFor, goalDialog, phase, inbox, excused>>

\* accountTurn(): the run's cost, charged to the goal it started for; then the budget.
ChargedToNobody(cost) ==   \* mutant: a run that started without a goal is charged too
  IF goalStarted = goal.id THEN [goal EXCEPT !.used = @ + cost] ELSE goal
Charged(cost) ==
  LET g == IF goal # NoGoal /\ goalStarted = goal.id THEN [goal EXCEPT !.used = @ + cost] ELSE goal
  IN  IF Active(g) /\ OverBudget(g) THEN [g EXCEPT !.status = "budgetLimited"] ELSE g
AccountWith(g, changed, grant) ==
  /\ goal' = g /\ goalStarted' = 0
  /\ IF changed THEN Append2Log(g) ELSE UNCHANGED <<saved, branches>>
  /\ editGrant' = grant
  /\ reportFor' = IF g.status = "complete" THEN 0 ELSE reportFor
AccountKeepsGrant(g) == AccountWith(g, g # goal, editGrant)                \* mutant
AccountUsageOnly(g) == AccountWith(g, g.used # goal.used, IF Active(g) THEN editGrant ELSE 0)   \* mutant
Account(g) == AccountWith(g, g # goal, IF g # goal /\ ~Active(g) THEN 0 ELSE editGrant)

\* The end of agent_end: the continuation waits for maintenance, or is queued now.
Defer(g, queued) ==
  /\ inbox = {} /\ ~queued /\ goalsMade.tickets < MaxTickets
  /\ owed' = goalsMade.tickets + 1 /\ goalQueued' = TRUE
  /\ goalsMade' = [goalsMade EXCEPT !.tickets = @ + 1]
  /\ UNCHANGED <<inbox, continueCmds>>
NextTurn(g, queued) ==
  \/ Defer(g, queued)
  \/ Continue(g, queued) /\ UNCHANGED <<owed, goalTickets>>

EndRun(stop, cost) ==
  /\ phase = "running" /\ goal.used + cost <= MaxUsed
  /\ LET g == Charged(cost)
         queued == goalQueued /\ (g.status = goal.status \/ g.status = "active")
     IN  /\ Account(g)
         /\ IF invalidated \/ ~Active(g) \/ stop # "stop"
              THEN goalQueued' = queued /\ UNCHANGED <<inbox, owed, goalTickets>>
              ELSE NextTurn(g, queued)
         /\ phase' = IF ~invalidated /\ Active(g) /\ stop = "aborted" THEN "asking" ELSE "ended"
         /\ pendingError' = (~invalidated /\ Active(g) /\ stop = "error")
         /\ excused' = invalidated /\ invalidated' = FALSE
  /\ UNCHANGED goalDialog

\* pauseAfterAbort(), asked by agent_end or by agent_settled; the goal may change meanwhile.
PauseConfirmed ==
  /\ phase \in {"asking", "askingLast"} /\ phase' = IF phase = "asking" THEN "ended" ELSE "idle"
  /\ goal # NoGoal /\ goal' = [goal EXCEPT !.status = "paused"]
  /\ Persist(goal', 0) /\ Quiet(goal')
  /\ goalDialog' = Stale(goalDialog) /\ UNCHANGED <<goalStarted, goalTickets, invalidated, excused>>
PauseDeclined ==
  /\ phase \in {"asking", "askingLast"} /\ phase' = IF phase = "asking" THEN "ended" ELSE "idle"
  /\ IF phase = "asking" /\ goal # NoGoal
       THEN NextTurn(goal, goalQueued)
       ELSE Continue(goal, goalQueued) /\ UNCHANGED <<owed, goalTickets>>
  /\ UNCHANGED <<goal, saved, branches, goalStarted, editGrant, reportFor, pendingError, invalidated, goalDialog, excused>>

\* agent_settled: no retry; an exhausted error stops the goal.
Settle(aborted, status) ==
  /\ phase = "ended" /\ pendingError' = FALSE
  /\ IF pendingError /\ Active(goal) /\ ~aborted
       THEN /\ goal' = [goal EXCEPT !.status = status]
            /\ Append2Log(goal') /\ editGrant' = 0 /\ owed' = 0 /\ reportFor' = 0
            /\ goalQueued' = StillQueued(goal') /\ goalDialog' = Stale(goalDialog) /\ phase' = "idle"
       ELSE /\ phase' = IF pendingError /\ Active(goal) THEN "askingLast" ELSE "idle"
            /\ UNCHANGED <<goal, saved, branches, editGrant, owed, reportFor, goalQueued, goalDialog>>
  /\ UNCHANGED <<goalStarted, goalTickets, invalidated, inbox, excused>>

\* Maintenance ends: the ticket's command is sent, or its work was cancelled.
OccFinished(cancelled) ==
  /\ owed # 0
  /\ IF cancelled
       THEN owed' = 0 /\ goalQueued' = FALSE /\ excused' = TRUE /\ UNCHANGED continueCmds
       ELSE continueCmds' = continueCmds \cup {owed} /\ UNCHANGED <<owed, goalQueued, excused>>
  /\ UNCHANGED <<goal, saved, branches, goalStarted, goalsMade, editGrant, reportFor, pendingError,
                 goalDialog, goalPi, inbox>>
ContinueCommand(token) ==
  /\ token \in continueCmds /\ phase \in {"idle", "running"}
  /\ continueCmds' = continueCmds \ {token}
  /\ IF token # owed
       THEN UNCHANGED <<owed, goalQueued, inbox>>
       ELSE /\ owed' = 0
            /\ IF phase = "idle" THEN Continue(goal, FALSE) ELSE goalQueued' = FALSE /\ UNCHANGED inbox
  /\ UNCHANGED <<goal, saved, branches, goalStarted, goalsMade, editGrant, reportFor, pendingError,
                 goalDialog, goalPi, excused>>

\* session_start and session_tree: everything is rebuilt from another branch.
Reconstruct(g) ==
  /\ phase = "idle"
  /\ goal' = g /\ saved' = g
  /\ goalStarted' = 0 /\ goalQueued' = FALSE /\ owed' = 0 /\ editGrant' = 0 /\ reportFor' = 0
  /\ pendingError' = FALSE /\ invalidated' = FALSE
  /\ goalDialog' = Stale(goalDialog) /\ excused' = TRUE
  /\ UNCHANGED <<branches, goalTickets, phase, inbox>>

-----------------------------------------------------------------------------
GoalInit ==
  /\ goal = NoGoal /\ saved = NoGoal /\ branches = {}
  /\ goalStarted = 0 /\ goalQueued = FALSE /\ owed = 0
  /\ goalsMade = [goals |-> 0, tickets |-> 0] /\ continueCmds = {}
  /\ editGrant = 0 /\ reportFor = 0 /\ pendingError = FALSE /\ invalidated = FALSE
  /\ goalDialog = NoDialog /\ phase = "idle" /\ inbox = {} /\ excused = FALSE
GoalNext ==
  \/ UserCreates \/ ReplaceConfirmed \/ EditSaved \/ DialogCancelled \/ ClearGoal \/ GrantEdit
  \/ \E kind \in {"replace", "editor"} : OpenDialog(kind)
  \/ \E status \in {"paused", "active"} : ControlGoal(status)
  \/ ToolCreates \/ ToolEdits \/ \E status \in {"complete", "blocked"} : ToolUpdates(status)
  \/ UserInput \/ OtherMessage \/ StartTurn \/ RequestCancelled
  \/ \E stop \in {"stop", "error", "aborted"}, cost \in {0, 1} : EndRun(stop, cost)
  \/ PauseConfirmed \/ PauseDeclined
  \/ \E aborted \in BOOLEAN, status \in {"usageLimited", "blocked"} : Settle(aborted, status)
  \/ \E cancelled \in BOOLEAN : OccFinished(cancelled)
  \/ \E token \in 1..MaxTickets : ContinueCommand(token)
  \/ \E g \in branches \cup {saved} : Reconstruct(g)
GoalSpec == GoalInit /\ [][GoalNext]_goalVars

-----------------------------------------------------------------------------
GoalTypeOK ==
  /\ {goal, saved} \cup branches \subseteq Goals \cup {NoGoal}
  /\ {goalStarted, editGrant, reportFor} \subseteq 0..MaxGoals
  /\ goalsMade \in [goals : 0..MaxGoals, tickets : 0..MaxTickets]
  /\ owed \in 0..MaxTickets /\ continueCmds \subseteq 1..MaxTickets
  /\ {goalQueued, pendingError, invalidated, excused} \subseteq BOOLEAN
  /\ goalDialog \in Dialogs /\ phase \in {"idle", "running", "ended", "asking", "askingLast"}
  /\ inbox \subseteq {"user", "other", "grant", Continuation}

\* An active goal never stalls silently: with Pi idle and nothing queued, a ticket is owed to it
\* or the code gave up on purpose (a cancelled request, cancelled maintenance, a reload).
GoalMoves == phase = "idle" /\ inbox = {} /\ Active(goal) => owed # 0 \/ excused

\* continuationQueued is set only while a continuation really is on its way; a stuck flag would
\* make every later queueContinuation() return at once.
QueuedIsReal == goalQueued => owed # 0 \/ Continuation \in inbox

\* A granted edit is for the goal as it is now, and only while it is active: no goal change the
\* user or the agent makes leaves the grant usable.
GrantIsCurrent == editGrant # 0 => Active(goal) /\ editGrant = goal.id

\* The last session entry of the branch is the goal: a reload resumes exactly what was reached.
GoalDurable == saved = goal

\* What the goal loop may never lose: a continuation that is really coming, a grant that is still
\* meant, and what was reached, whatever a reload, a dialog or an abort interrupts.
GoalKept == QueuedIsReal /\ GrantIsCurrent /\ GoalDurable
GoalSound == GoalMoves /\ GoalKept
=============================================================================
