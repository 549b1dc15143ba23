----------------------------- MODULE Goal_proofs -----------------------------
(* What goes on between the user and the agent, for any values of the constants.

   Goal: an active goal never stalls silently, and its grant, its continuation and its last entry
   are real, for any goals, budgets, tickets and branches.  GoalSound is inductive with the types
   and with what holds while Pi has ended a run and not settled: an active goal with nothing queued
   is then owed a continuation, was given up on purpose, or failed and is not decided yet.
   Questionnaire: what the dialog shows, keeps and returns is what the user said.
   Occ: a request of the user pays for one summary at most, and a deferred goal is released.      *)
EXTENDS Goal, Questionnaire, Occ, TLAPS

(* Between agent_end and agent_settled. *)
GoalPending ==
  phase = "ended" /\ inbox = {} /\ Active(goal) => owed # 0 \/ excused \/ pendingError
(* An editor that is still fresh edits a goal that is there. *)
EditorHasGoal == goalDialog.kind = "editor" /\ goalDialog.fresh => goal # NoGoal

GoalInv == GoalTypeOK /\ GoalMoves /\ GoalPending /\ QueuedIsReal /\ GrantIsCurrent /\ GoalDurable /\ EditorHasGoal

-----------------------------------------------------------------------------
(* A goal with another status, and a dialog under which the goal changed. *)
LEMMA GoalValues ==
  /\ NoGoal \notin Goals /\ ~ Active(NoGoal) /\ NoGoal.used = 0 /\ NoGoal.id = 0
  /\ \A g \in Goals : g.id # 0 /\ g.id \in 0..MaxGoals /\ g # NoGoal
  /\ \A g \in Goals, status \in GoalStatuses :
       /\ [g EXCEPT !.status = status] \in Goals /\ [g EXCEPT !.status = status].status = status
       /\ [g EXCEPT !.status = status].id = g.id
  /\ \A d \in Dialogs : Stale(d) \in Dialogs /\ Stale(d).fresh = FALSE /\ Stale(d).kind = d.kind
<1>1. NoGoal \notin Goals /\ ~ Active(NoGoal) /\ NoGoal.used = 0 /\ NoGoal.id = 0
  BY DEF NoGoal, Goals, Active
<1>2. ASSUME NEW g \in Goals
      PROVE  g.id # 0 /\ g.id \in 0..MaxGoals /\ g # NoGoal
  BY <1>1, GoalAssumption DEF Goals
<1>3. ASSUME NEW g \in Goals, NEW status \in GoalStatuses
      PROVE  /\ [g EXCEPT !.status = status] \in Goals /\ [g EXCEPT !.status = status].status = status
             /\ [g EXCEPT !.status = status].id = g.id
  BY DEF Goals
<1>4. ASSUME NEW d \in Dialogs
      PROVE  Stale(d) \in Dialogs /\ Stale(d).fresh = FALSE /\ Stale(d).kind = d.kind
  <2>1. CASE d = NoDialog
    <3>1. Stale(NoDialog) = NoDialog
      <4>1. NoDialog \in [kind : {"none"}, fresh : {FALSE}]
        BY DEF NoDialog
      <4>2. [NoDialog EXCEPT !.fresh = FALSE] = NoDialog
        BY <4>1
      <4> QED
        BY <4>2 DEF Stale
    <3>2. NoDialog.fresh = FALSE /\ NoDialog \in Dialogs
      BY DEF NoDialog, Dialogs
    <3> QED
      BY <2>1, <3>1, <3>2
  <2>2. CASE d \in [kind : {"replace", "editor"}, fresh : BOOLEAN]
    BY <2>2 DEF Stale, Dialogs
  <2> QED
    BY <2>1, <2>2 DEF Dialogs
<1> QED
  BY <1>1, <1>2, <1>3, <1>4

(* The types, one by one. *)
LEMMA GoalFacts ==
  ASSUME GoalInv
  PROVE  /\ goal \in Goals \cup {NoGoal} /\ saved \in Goals \cup {NoGoal}
         /\ branches \subseteq Goals \cup {NoGoal}
         /\ goalStarted \in 0..MaxGoals /\ editGrant \in 0..MaxGoals /\ reportFor \in 0..MaxGoals
         /\ goalsMade \in [goals : 0..MaxGoals, tickets : 0..MaxTickets]
         /\ owed \in 0..MaxTickets /\ continueCmds \subseteq 1..MaxTickets
         /\ goalQueued \in BOOLEAN /\ pendingError \in BOOLEAN /\ invalidated \in BOOLEAN
         /\ excused \in BOOLEAN /\ goalDialog \in Dialogs
         /\ phase \in {"idle", "running", "ended", "asking", "askingLast"}
         /\ inbox \subseteq {"user", "other", "grant", Continuation}
BY DEF GoalInv, GoalTypeOK

LEMMA GoalTypesNext ==
  ASSUME goal' \in Goals \cup {NoGoal}, saved' \in Goals \cup {NoGoal},
         branches' \subseteq Goals \cup {NoGoal},
         goalStarted' \in 0..MaxGoals, editGrant' \in 0..MaxGoals, reportFor' \in 0..MaxGoals,
         goalsMade' \in [goals : 0..MaxGoals, tickets : 0..MaxTickets],
         owed' \in 0..MaxTickets, continueCmds' \subseteq 1..MaxTickets,
         goalQueued' \in BOOLEAN, pendingError' \in BOOLEAN, invalidated' \in BOOLEAN,
         excused' \in BOOLEAN, goalDialog' \in Dialogs,
         phase' \in {"idle", "running", "ended", "asking", "askingLast"},
         inbox' \subseteq {"user", "other", "grant", Continuation}
  PROVE  GoalTypeOK'
BY DEF GoalTypeOK

(* A new goal is an active one with an id of its own. *)
LEMMA NewGoalIsAGoal ==
  ASSUME GoalInv, MayCreate, NEW b \in {0, GoalBudget}
  PROVE  NewGoal(b) \in Goals /\ goalsMade.goals + 1 \in 0..MaxGoals
BY GoalFacts, GoalAssumption DEF MayCreate, NewGoal, Goals, GoalStatuses

(* The entry appended is the goal. *)
LEMMA EntryAppended ==
  ASSUME GoalInv, NEW g \in Goals \cup {NoGoal}, Append2Log(g)
  PROVE  /\ saved' = g /\ saved' \in Goals \cup {NoGoal} /\ branches' \subseteq Goals \cup {NoGoal}
BY GoalFacts DEF Append2Log

(* What is left of continuationQueued is real. *)
LEMMA StillQueuedIsReal ==
  ASSUME GoalInv, NEW g
  PROVE  StillQueued(g) \in BOOLEAN /\ (StillQueued(g) => Continuation \in inbox)
<1>1. StillQueued(g) \in BOOLEAN
  BY Zenon DEF StillQueued
<1>2. StillQueued(g) => Continuation \in inbox
  BY DEF StillQueued, GoalInv, QueuedIsReal
<1> QED
  BY <1>1, <1>2

(* queueContinuation() leaves nobody waiting: an active goal has a message ahead or was queued. *)
LEMMA ContinueQueues ==
  ASSUME GoalInv, NEW g, NEW queued \in BOOLEAN, Continue(g, queued)
  PROVE  /\ goalQueued' \in BOOLEAN /\ inbox' \subseteq {"user", "other", "grant", Continuation}
         /\ Active(g) /\ inbox' = {} => queued
         /\ goalQueued' => queued \/ Continuation \in inbox'
         /\ Continuation \in inbox => Continuation \in inbox'
<1>1. goalQueued' \in BOOLEAN
  BY Zenon DEF Continue
<1>2. CASE Active(g) /\ ~queued /\ inbox = {}
  <2>1. inbox' = {Continuation}
    BY <1>2 DEF Continue
  <2> QED
    BY <1>1, <1>2, <2>1
<1>3. CASE ~ (Active(g) /\ ~queued /\ inbox = {})
  <2>1. inbox' = inbox
    BY <1>3 DEF Continue
  <2>2. goalQueued' => queued
    BY <1>3, Zenon DEF Continue
  <2> QED
    BY <1>1, <1>3, <2>1, <2>2, GoalFacts
<1> QED
  BY <1>2, <1>3

(* The continuation is owed, or queued now. *)
LEMMA NextTurnQueues ==
  ASSUME GoalInv, NEW g, NEW queued \in BOOLEAN, NextTurn(g, queued)
  PROVE  /\ goalQueued' \in BOOLEAN /\ inbox' \subseteq {"user", "other", "grant", Continuation}
         /\ Active(g) /\ inbox' = {} => owed' # 0 \/ queued
         /\ goalQueued' => owed' # 0 \/ queued \/ Continuation \in inbox'
         /\ Continuation \in inbox => Continuation \in inbox'
         /\ owed # 0 => owed' # 0
         /\ goalsMade' \in [goals : 0..MaxGoals, tickets : 0..MaxTickets]
         /\ owed' \in 0..MaxTickets /\ continueCmds' \subseteq 1..MaxTickets
<1>1. CASE Defer(g, queued)
  <2>1. goalsMade.tickets + 1 \in 1..MaxTickets /\ goalsMade' \in [goals : 0..MaxGoals, tickets : 0..MaxTickets]
    BY <1>1, GoalFacts, GoalAssumption DEF Defer
  <2>2. owed' \in 0..MaxTickets /\ owed' # 0
    BY <1>1, <2>1 DEF Defer
  <2> QED
    BY <1>1, <2>1, <2>2, GoalFacts DEF Defer
<1>2. CASE Continue(g, queued) /\ UNCHANGED <<owed, goalTickets>>
  BY <1>2, ContinueQueues, GoalFacts DEF goalTickets
<1> QED
  BY <1>1, <1>2 DEF NextTurn

(* accountTurn() keeps the goal's identity, and only an active goal is still active. *)
LEMMA ChargedGoal ==
  ASSUME GoalInv, NEW cost \in {0, 1}, goal.used + cost <= MaxUsed
  PROVE  /\ Charged(cost) \in Goals \cup {NoGoal} /\ Charged(cost).id = goal.id
         /\ Active(Charged(cost)) => Active(goal)
         /\ goal # NoGoal => Charged(cost) # NoGoal
<1> DEFINE g == IF goal # NoGoal /\ goalStarted = goal.id THEN [goal EXCEPT !.used = @ + cost] ELSE goal
<1>1. g \in Goals \cup {NoGoal} /\ g.id = goal.id /\ g.status = goal.status /\ (goal # NoGoal => g \in Goals)
  <2>1. CASE goal # NoGoal /\ goalStarted = goal.id
    BY <2>1, GoalFacts, GoalAssumption DEF Goals
  <2>2. CASE ~ (goal # NoGoal /\ goalStarted = goal.id)
    BY <2>2, GoalFacts
  <2> QED
    BY <2>1, <2>2
<1>2. Charged(cost) = IF Active(g) /\ OverBudget(g) THEN [g EXCEPT !.status = "budgetLimited"] ELSE g
  BY DEF Charged
<1> HIDE DEF g
<1>3. CASE Active(g) /\ OverBudget(g)
  <2>1. g \in Goals /\ "budgetLimited" \in GoalStatuses
    BY <1>1, <1>3, GoalValues DEF GoalStatuses
  <2>2. /\ Charged(cost) \in Goals /\ Charged(cost).id = g.id /\ Charged(cost).status = "budgetLimited"
    BY <1>2, <1>3, <2>1, GoalValues
  <2> QED
    BY <1>1, <2>2, GoalValues DEF Active
<1>4. CASE ~ (Active(g) /\ OverBudget(g))
  BY <1>1, <1>2, <1>4, GoalValues DEF Active
<1> QED
  BY <1>3, <1>4

(* The user changes the status of the goal: nothing of the old one is kept, and it continues. *)
LEMMA PersistAndContinueKeeps ==
  ASSUME GoalInv, goal \in Goals, NEW status \in GoalStatuses,
         goal' = [goal EXCEPT !.status = status], Persist(goal', 0),
         Continue(goal', StillQueued(goal')), goalDialog' \in Dialogs, goalDialog'.fresh = FALSE,
         UNCHANGED <<goalStarted, goalTickets, goalPi>>, excused' \in BOOLEAN
  PROVE  GoalInv'
<1> DEFINE g == [goal EXCEPT !.status = status]
<1>1. g \in Goals /\ goal' = g
  BY GoalValues
<1>2. /\ Append2Log(g) /\ editGrant' = 0 /\ owed' = 0 /\ pendingError' = FALSE /\ reportFor' = 0
      /\ Continue(g, StillQueued(g))
  BY DEF Persist
<1> HIDE DEF g
<1>3. saved' = g /\ saved' \in Goals \cup {NoGoal} /\ branches' \subseteq Goals \cup {NoGoal}
  BY <1>1, <1>2, EntryAppended
<1>4. /\ goalQueued' \in BOOLEAN /\ inbox' \subseteq {"user", "other", "grant", Continuation}
      /\ goalQueued' => Continuation \in inbox'
      /\ ~ (Active(g) /\ inbox' = {})
  BY <1>2, ContinueQueues, StillQueuedIsReal
<1>5. GoalTypeOK'
  <2>1. pendingError' \in BOOLEAN /\ invalidated' \in BOOLEAN
    BY <1>2, GoalFacts DEF goalPi
  <2>2. /\ editGrant' \in 0..MaxGoals /\ reportFor' \in 0..MaxGoals /\ goalStarted' \in 0..MaxGoals
        /\ owed' \in 0..MaxTickets
    BY <1>2, GoalFacts, GoalAssumption
  <2> QED
    BY <1>1, <1>3, <1>4, <2>1, <2>2, GoalFacts, GoalTypesNext DEF goalTickets, goalPi
<1> QED
  BY <1>1, <1>2, <1>3, <1>4, <1>5 DEF GoalInv, GoalMoves, GoalPending, QueuedIsReal, GrantIsCurrent,
     GoalDurable, EditorHasGoal

(* A goal is set by the user. *)
LEMMA CreateKeeps ==
  ASSUME GoalInv, Create(NewGoal(0)), goalDialog' \in Dialogs,
         goalDialog' \in {goalDialog, NoDialog}, UNCHANGED <<goalStarted, goalPi>>
  PROVE  GoalInv'
<1> DEFINE g == NewGoal(0)
<1>1. g \in Goals /\ goalsMade.goals + 1 \in 0..MaxGoals /\ goal' = g
  BY NewGoalIsAGoal DEF Create
<1>2. /\ Append2Log(g) /\ editGrant' = 0 /\ owed' = 0 /\ pendingError' = FALSE /\ reportFor' = 0
      /\ Continue(g, FALSE) /\ GoalMade /\ excused' = FALSE
  BY DEF Create, Persist
<1> HIDE DEF g
<1>3. saved' = g /\ saved' \in Goals \cup {NoGoal} /\ branches' \subseteq Goals \cup {NoGoal}
  BY <1>1, <1>2, EntryAppended
<1>4. /\ goalQueued' \in BOOLEAN /\ inbox' \subseteq {"user", "other", "grant", Continuation}
      /\ goalQueued' => Continuation \in inbox'
      /\ ~ (Active(g) /\ inbox' = {})
  BY <1>2, ContinueQueues
<1>5. GoalTypeOK'
  <2>1. pendingError' \in BOOLEAN /\ invalidated' \in BOOLEAN /\ excused' \in BOOLEAN
    BY <1>2, GoalFacts DEF goalPi
  <2>2. /\ editGrant' \in 0..MaxGoals /\ reportFor' \in 0..MaxGoals /\ goalStarted' \in 0..MaxGoals
        /\ owed' \in 0..MaxTickets
    BY <1>2, GoalFacts, GoalAssumption
  <2>3. goalsMade' \in [goals : 0..MaxGoals, tickets : 0..MaxTickets] /\ continueCmds' = continueCmds
    BY <1>1, <1>2, GoalFacts DEF GoalMade
  <2> QED
    BY <1>1, <1>3, <1>4, <2>1, <2>2, <2>3, GoalFacts, GoalTypesNext DEF goalPi
<1> QED
  BY <1>1, <1>2, <1>3, <1>4, <1>5, GoalValues DEF GoalInv, GoalMoves, GoalPending, QueuedIsReal,
     GrantIsCurrent, GoalDurable, EditorHasGoal

(* The goal is changed in a run or cleared: nothing of the old one is kept. *)
LEMMA PersistQuietKeeps ==
  ASSUME GoalInv, NEW g \in Goals \cup {NoGoal}, NEW report \in 0..MaxGoals, goal' = g,
         Persist(g, report), Quiet(g), goalDialog' = Stale(goalDialog),
         goalStarted' \in 0..MaxGoals,
         goalsMade' \in [goals : 0..MaxGoals, tickets : 0..MaxTickets],
         UNCHANGED <<continueCmds, invalidated, excused>>,
         phase' \in {"idle", "running", "ended", "asking", "askingLast"}, phase' = "running" \/ ~ Active(g)
  PROVE  GoalInv'
<1>1. /\ Append2Log(g) /\ editGrant' = 0 /\ owed' = 0 /\ pendingError' = FALSE /\ reportFor' = report
      /\ goalQueued' = StillQueued(g) /\ inbox' = inbox
  BY DEF Persist, Quiet
<1>2. saved' = g /\ saved' \in Goals \cup {NoGoal} /\ branches' \subseteq Goals \cup {NoGoal}
  BY <1>1, EntryAppended
<1>3. goalQueued' \in BOOLEAN /\ (goalQueued' => Continuation \in inbox')
  BY <1>1, StillQueuedIsReal
<1>4. goalDialog' \in Dialogs /\ goalDialog'.fresh = FALSE
  BY GoalFacts, GoalValues
<1>5. GoalTypeOK'
  <2>1. pendingError' \in BOOLEAN /\ invalidated' \in BOOLEAN /\ excused' \in BOOLEAN
    BY <1>1, GoalFacts
  <2>2. editGrant' \in 0..MaxGoals /\ reportFor' \in 0..MaxGoals /\ owed' \in 0..MaxTickets
    BY <1>1, GoalFacts, GoalAssumption
  <2> QED
    BY <1>1, <1>2, <1>3, <1>4, <2>1, <2>2, GoalFacts, GoalTypesNext
<1> QED
  BY <1>1, <1>2, <1>3, <1>4, <1>5 DEF GoalInv, GoalMoves, GoalPending, QueuedIsReal, GrantIsCurrent,
     GoalDurable, EditorHasGoal

(* The invariant holds after the user sets a goal. *)
LEMMA UserCreatesKeeps ==
  ASSUME GoalInv, UserCreates
  PROVE  GoalInv'
BY CreateKeeps, GoalFacts DEF UserCreates

(* The invariant holds after a dialog of the goal opens. *)
LEMMA OpenDialogKeeps ==
  ASSUME GoalInv, NEW kind \in {"replace", "editor"}, OpenDialog(kind)
  PROVE  GoalInv'
<1>1. GoalTypeOK'
  BY GoalFacts, GoalTypesNext, GoalValues, GoalAssumption DEF OpenDialog, Unfinished, goalTickets, goalPi, Dialogs, NoDialog
<1> QED
  BY <1>1, GoalFacts, GoalValues DEF OpenDialog, Unfinished, goalTickets, goalPi, Dialogs, NoDialog, GoalInv, Active, GoalMoves,
     GoalPending, QueuedIsReal, GrantIsCurrent, GoalDurable, EditorHasGoal

(* The invariant holds after the goal is replaced. *)
LEMMA ReplaceConfirmedKeeps ==
  ASSUME GoalInv, ReplaceConfirmed
  PROVE  GoalInv'
BY CreateKeeps DEF ReplaceConfirmed, Dialogs

(* The invariant holds after the editor saves the goal. *)
LEMMA EditSavedKeeps ==
  ASSUME GoalInv, EditSaved
  PROVE  GoalInv'
<1>1. goal \in Goals /\ Reopened \in GoalStatuses
  BY GoalFacts DEF EditSaved, GoalInv, EditorHasGoal, Reopened, GoalStatuses, Goals
<1>2. /\ goal' = [goal EXCEPT !.status = Reopened] /\ Persist(goal', 0)
      /\ Continue(goal', StillQueued(goal')) /\ goalDialog' = NoDialog
      /\ UNCHANGED <<goalStarted, goalTickets, goalPi>> /\ excused' = FALSE
  BY DEF EditSaved
<1> QED
  BY <1>1, <1>2, PersistAndContinueKeeps DEF NoDialog, Dialogs

(* The invariant holds after a dialog is cancelled. *)
LEMMA DialogCancelledKeeps ==
  ASSUME GoalInv, DialogCancelled
  PROVE  GoalInv'
<1>1. GoalTypeOK'
  BY GoalFacts, GoalTypesNext, GoalValues, GoalAssumption DEF DialogCancelled, NoDialog, Dialogs, goalTickets, goalPi
<1> QED
  BY <1>1, GoalFacts, GoalValues DEF DialogCancelled, NoDialog, Dialogs, goalTickets, goalPi, GoalInv, Active, GoalMoves,
     GoalPending, QueuedIsReal, GrantIsCurrent, GoalDurable, EditorHasGoal

(* The invariant holds after the user pauses or resumes. *)
LEMMA ControlGoalKeeps ==
  ASSUME GoalInv, NEW status \in {"paused", "active"}, ControlGoal(status)
  PROVE  GoalInv'
<1>1. goal \in Goals /\ status \in GoalStatuses
  BY GoalFacts DEF ControlGoal, GoalStatuses
<1>2. /\ goal' = [goal EXCEPT !.status = status] /\ Persist(goal', 0)
      /\ Continue(goal', StillQueued(goal')) /\ goalDialog' = Stale(goalDialog)
      /\ UNCHANGED <<goalStarted, goalTickets, goalPi>> /\ excused' = FALSE
  BY DEF ControlGoal
<1> QED
  BY <1>1, <1>2, PersistAndContinueKeeps, GoalFacts, GoalValues

(* The invariant holds after the user clears the goal. *)
LEMMA ClearGoalKeeps ==
  ASSUME GoalInv, ClearGoal
  PROVE  GoalInv'
<1>1. NoGoal \in Goals \cup {NoGoal} /\ ~ Active(NoGoal) /\ 0 \in 0..MaxGoals
  BY GoalValues, GoalAssumption
<1> QED
  BY <1>1, PersistQuietKeeps, GoalFacts DEF ClearGoal, goalTickets, goalPi

(* The invariant holds after the user grants an edit. *)
LEMMA GrantEditKeeps ==
  ASSUME GoalInv, GrantEdit
  PROVE  GoalInv'
<1>1. GoalTypeOK'
  BY GoalFacts, GoalTypesNext, GoalValues, GoalAssumption DEF GrantEdit, goalTickets, goalPi
<1> QED
  BY <1>1, GoalFacts, GoalValues DEF GrantEdit, goalTickets, goalPi, GoalInv, Active, GoalMoves,
     GoalPending, QueuedIsReal, GrantIsCurrent, GoalDurable, EditorHasGoal

(* The invariant holds after the agent sets a goal. *)
LEMMA ToolCreatesKeeps ==
  ASSUME GoalInv, ToolCreates
  PROVE  GoalInv'
<1>1. PICK b \in {0, GoalBudget} : goal' = NewGoal(b)
  BY DEF ToolCreates
<1>2. NewGoal(b) \in Goals /\ goalsMade.goals + 1 \in 0..MaxGoals /\ 0 \in 0..MaxGoals
  BY NewGoalIsAGoal, GoalAssumption DEF ToolCreates
<1>3. goalsMade' \in [goals : 0..MaxGoals, tickets : 0..MaxTickets]
  BY <1>2, GoalFacts DEF ToolCreates, GoalMade
<1> QED
  BY <1>1, <1>2, <1>3, PersistQuietKeeps, GoalFacts DEF ToolCreates, GoalMade, goalPi

(* The invariant holds after the agent edits the goal it was granted. *)
LEMMA ToolEditsKeeps ==
  ASSUME GoalInv, ToolEdits
  PROVE  GoalInv'
BY PersistQuietKeeps, GoalFacts, GoalAssumption DEF ToolEdits, goalTickets, goalPi

(* The invariant holds after the agent completes or blocks the goal. *)
LEMMA ToolUpdatesKeeps ==
  ASSUME GoalInv, NEW status \in {"complete", "blocked"}, ToolUpdates(status)
  PROVE  GoalInv'
<1>1. goal \in Goals /\ status \in GoalStatuses
  BY GoalFacts DEF ToolUpdates, GoalStatuses
<1>2. [goal EXCEPT !.status = status] \in Goals /\ goal.id \in 0..MaxGoals /\ 0 \in 0..MaxGoals
  BY <1>1, GoalValues, GoalAssumption
<1>3. (IF status = "complete" THEN goal.id ELSE 0) \in 0..MaxGoals
  BY <1>2
<1> QED
  BY <1>2, <1>3, PersistQuietKeeps, GoalFacts DEF ToolUpdates, goalTickets, goalPi

(* The invariant holds after the user writes. *)
LEMMA UserInputKeeps ==
  ASSUME GoalInv, UserInput
  PROVE  GoalInv'
<1>1. GoalTypeOK'
  BY GoalFacts, GoalTypesNext, GoalValues, GoalAssumption DEF UserInput, goalTickets, goalPi
<1> QED
  BY <1>1, GoalFacts, GoalValues DEF UserInput, goalTickets, goalPi, GoalInv, Active, GoalMoves,
     GoalPending, QueuedIsReal, GrantIsCurrent, GoalDurable, EditorHasGoal

(* The invariant holds after another extension sends a message. *)
LEMMA OtherMessageKeeps ==
  ASSUME GoalInv, OtherMessage
  PROVE  GoalInv'
<1>1. GoalTypeOK'
  BY GoalFacts, GoalTypesNext, GoalValues, GoalAssumption DEF OtherMessage, goalTickets, goalPi
<1> QED
  BY <1>1, GoalFacts, GoalValues DEF OtherMessage, goalTickets, goalPi, GoalInv, Active, GoalMoves,
     GoalPending, QueuedIsReal, GrantIsCurrent, GoalDurable, EditorHasGoal

(* The invariant holds after a run starts. *)
LEMMA StartTurnKeeps ==
  ASSUME GoalInv, StartTurn
  PROVE  GoalInv'
<1>1. GoalTypeOK'
  <2>1. pendingError' \in BOOLEAN /\ invalidated' \in BOOLEAN /\ goalQueued' \in BOOLEAN /\ excused' \in BOOLEAN
    BY DEF StartTurn
  <2>2. goalStarted' \in 0..MaxGoals
    BY GoalFacts, GoalValues, GoalAssumption DEF StartTurn
  <2> QED
    BY <2>1, <2>2, GoalFacts, GoalTypesNext DEF StartTurn, goalTickets
<1> QED
  BY <1>1, GoalFacts, GoalValues DEF StartTurn, goalTickets, GoalInv, Active, GoalMoves,
     GoalPending, QueuedIsReal, GrantIsCurrent, GoalDurable, EditorHasGoal

(* The invariant holds after a request is cancelled. *)
LEMMA RequestCancelledKeeps ==
  ASSUME GoalInv, RequestCancelled
  PROVE  GoalInv'
<1>1. GoalTypeOK'
  <2>1. goalQueued' \in BOOLEAN
    BY Zenon DEF RequestCancelled
  <2>2. pendingError' = FALSE /\ invalidated' = TRUE /\ owed' = 0 /\ 0 \in 0..MaxTickets
    BY GoalAssumption DEF RequestCancelled
  <2>3. pendingError' \in BOOLEAN /\ invalidated' \in BOOLEAN
    BY <2>2
  <2> QED
    BY <2>1, <2>2, <2>3, GoalFacts, GoalTypesNext DEF RequestCancelled, goalTickets
<1> QED
  BY <1>1, GoalFacts, GoalValues DEF RequestCancelled, goalTickets, GoalInv, Active, GoalMoves,
     GoalPending, QueuedIsReal, GrantIsCurrent, GoalDurable, EditorHasGoal

(* The invariant holds after a run ends. *)
LEMMA EndRunKeeps ==
  ASSUME GoalInv, NEW stop \in {"stop", "error", "aborted"}, NEW cost \in {0, 1}, EndRun(stop, cost)
  PROVE  GoalInv'
<1> DEFINE g == Charged(cost)
           queued == goalQueued /\ (g.status = goal.status \/ g.status = "active")
<1>0. /\ phase = "running" /\ goal' = g /\ goalStarted' = 0
      /\ g \in Goals \cup {NoGoal} /\ g.id = goal.id /\ (Active(g) => Active(goal))
      /\ goal # NoGoal => g # NoGoal
      /\ phase' = IF ~invalidated /\ Active(g) /\ stop = "aborted" THEN "asking" ELSE "ended"
      /\ goalDialog' = goalDialog
  BY ChargedGoal DEF EndRun, Account, AccountWith
<1>1. queued \in BOOLEAN /\ (queued => owed # 0 \/ Continuation \in inbox)
  <2>1. queued \in BOOLEAN
    BY Zenon
  <2> QED
    BY <2>1 DEF GoalInv, QueuedIsReal
<1>2. IF invalidated \/ ~Active(g) \/ stop # "stop"
      THEN goalQueued' = queued /\ UNCHANGED <<inbox, owed, goalTickets>>
      ELSE NextTurn(g, queued)
  BY DEF EndRun
<1>3. pendingError' = (~invalidated /\ Active(g) /\ stop = "error") /\ excused' = invalidated /\ invalidated' = FALSE
  BY DEF EndRun
<1>4. /\ editGrant' = IF g # goal /\ ~Active(g) THEN 0 ELSE editGrant
      /\ reportFor' \in {0, reportFor}
      /\ IF g # goal THEN Append2Log(g) ELSE UNCHANGED <<saved, branches>>
  BY DEF EndRun, Account, AccountWith
<1> HIDE DEF g, queued
<1>5. saved' = g /\ saved' \in Goals \cup {NoGoal} /\ branches' \subseteq Goals \cup {NoGoal}
  BY <1>0, <1>4, EntryAppended, GoalFacts DEF GoalInv, GoalDurable
<1>6. /\ goalQueued' \in BOOLEAN /\ inbox' \subseteq {"user", "other", "grant", Continuation}
      /\ goalsMade' \in [goals : 0..MaxGoals, tickets : 0..MaxTickets]
      /\ owed' \in 0..MaxTickets /\ continueCmds' \subseteq 1..MaxTickets
      /\ goalQueued' => owed' # 0 \/ Continuation \in inbox'
  <2>1. CASE invalidated \/ ~Active(g) \/ stop # "stop"
    <3>1. goalQueued' = queued /\ UNCHANGED <<inbox, owed, goalTickets>>
      BY <1>2, <2>1
    <3> QED
      BY <1>1, <3>1, GoalFacts DEF goalTickets
  <2>2. CASE ~ (invalidated \/ ~Active(g) \/ stop # "stop")
    <3>1. NextTurn(g, queued)
      BY <1>2, <2>2
    <3> QED
      BY <1>1, <3>1, NextTurnQueues
  <2> QED
    BY <2>1, <2>2
<1>7. GoalTypeOK'
  <2>1. pendingError' \in BOOLEAN /\ excused' \in BOOLEAN /\ invalidated' \in BOOLEAN
    BY <1>3, GoalFacts, Zenon
  <2>2. goalStarted' \in 0..MaxGoals /\ editGrant' \in 0..MaxGoals /\ reportFor' \in 0..MaxGoals
    BY <1>0, <1>4, GoalFacts, GoalAssumption
  <2>3. phase' \in {"idle", "running", "ended", "asking", "askingLast"}
    BY <1>0
  <2> QED
    BY <1>0, <1>5, <1>6, <2>1, <2>2, <2>3, GoalFacts DEF GoalTypeOK
<1>8. GoalMoves'
  BY <1>0 DEF GoalMoves
<1>9. GoalPending'
  <2> SUFFICES ASSUME phase' = "ended", inbox' = {}, Active(g)
               PROVE  owed' # 0 \/ excused' \/ pendingError'
    BY <1>0 DEF GoalPending
  <2>1. CASE invalidated
    BY <1>3, <2>1
  <2>2. CASE ~invalidated /\ stop = "error"
    BY <1>3, <2>2
  <2>3. CASE ~invalidated /\ stop = "stop"
    <3>1. NextTurn(g, queued)
      BY <1>2, <2>3
    <3>2. owed' # 0 \/ queued
      BY <1>1, <3>1, NextTurnQueues
    <3> QED
      BY <1>1, <3>1, <3>2, NextTurnQueues
  <2> QED
    BY <1>0, <2>1, <2>2, <2>3
<1>10. QueuedIsReal'
  BY <1>6 DEF QueuedIsReal
<1>11. GrantIsCurrent'
  BY <1>0, <1>4 DEF GoalInv, GrantIsCurrent
<1>12. GoalDurable' /\ EditorHasGoal'
  BY <1>0, <1>5 DEF GoalInv, GoalDurable, EditorHasGoal
<1> QED
  BY <1>7, <1>8, <1>9, <1>10, <1>11, <1>12 DEF GoalInv

(* The invariant holds after the user confirms the pause. *)
LEMMA PauseConfirmedKeeps ==
  ASSUME GoalInv, PauseConfirmed
  PROVE  GoalInv'
<1>1. goal \in Goals /\ "paused" \in GoalStatuses /\ 0 \in 0..MaxGoals
  BY GoalFacts, GoalAssumption DEF PauseConfirmed, GoalStatuses
<1>2. [goal EXCEPT !.status = "paused"] \in Goals /\ ~ Active([goal EXCEPT !.status = "paused"])
  BY <1>1, GoalValues DEF Active
<1> QED
  BY <1>1, <1>2, PersistQuietKeeps, GoalFacts DEF PauseConfirmed, goalTickets

(* The invariant holds after the user declines the pause. *)
LEMMA PauseDeclinedKeeps ==
  ASSUME GoalInv, PauseDeclined
  PROVE  GoalInv'
<1>1. /\ goal' = goal /\ saved' = saved /\ editGrant' = editGrant /\ goalDialog' = goalDialog
      /\ phase' \in {"ended", "idle"}
      /\ UNCHANGED <<branches, goalStarted, reportFor, pendingError, invalidated, excused>>
      /\ \/ NextTurn(goal, goalQueued)
         \/ Continue(goal, goalQueued) /\ UNCHANGED <<owed, goalTickets>>
  BY DEF PauseDeclined
<1>2. /\ goalQueued' \in BOOLEAN /\ inbox' \subseteq {"user", "other", "grant", Continuation}
      /\ goalsMade' \in [goals : 0..MaxGoals, tickets : 0..MaxTickets]
      /\ owed' \in 0..MaxTickets /\ continueCmds' \subseteq 1..MaxTickets
      /\ goalQueued' => owed' # 0 \/ Continuation \in inbox'
      /\ Active(goal) /\ inbox' = {} => owed' # 0
  <2>1. goalQueued => owed # 0 \/ Continuation \in inbox
    BY DEF GoalInv, QueuedIsReal
  <2>2. CASE NextTurn(goal, goalQueued)
    BY <2>1, <2>2, NextTurnQueues, GoalFacts
  <2>3. CASE Continue(goal, goalQueued) /\ UNCHANGED <<owed, goalTickets>>
    BY <2>1, <2>3, ContinueQueues, GoalFacts DEF goalTickets
  <2> QED
    BY <1>1, <2>2, <2>3
<1>3. GoalTypeOK'
  BY <1>1, <1>2, GoalFacts DEF GoalTypeOK
<1> QED
  BY <1>1, <1>2, <1>3 DEF GoalInv, GoalMoves, GoalPending, QueuedIsReal, GrantIsCurrent, GoalDurable,
     EditorHasGoal

(* The invariant holds after Pi settles. *)
LEMMA SettleKeeps ==
  ASSUME GoalInv, NEW aborted \in BOOLEAN, NEW status \in {"usageLimited", "blocked"}, Settle(aborted, status)
  PROVE  GoalInv'
<1>0. phase = "ended" /\ pendingError' = FALSE /\ UNCHANGED <<goalStarted, goalTickets, invalidated, inbox, excused>>
  BY DEF Settle
<1>1. CASE pendingError /\ Active(goal) /\ ~aborted
  <2> DEFINE g == [goal EXCEPT !.status = status]
  <2>1. goal \in Goals /\ status \in GoalStatuses
    BY <1>1, GoalFacts, GoalValues DEF GoalStatuses
  <2>2. g \in Goals /\ g.status = status /\ ~ Active(g)
    BY <2>1, GoalValues DEF Active
  <2>3. /\ goal' = g /\ Append2Log(g) /\ editGrant' = 0 /\ owed' = 0 /\ reportFor' = 0 /\ phase' = "idle"
        /\ goalQueued' = StillQueued(g) /\ goalDialog' = Stale(goalDialog)
    BY <1>1 DEF Settle
  <2> HIDE DEF g
  <2>4. GoalTypeOK'
    <3>1. saved' \in Goals \cup {NoGoal} /\ branches' \subseteq Goals \cup {NoGoal}
      BY <2>2, <2>3, EntryAppended
    <3>2. pendingError' \in BOOLEAN /\ goalQueued' \in BOOLEAN /\ goalDialog' \in Dialogs
      BY <1>0, <2>3, StillQueuedIsReal, GoalFacts, GoalValues
    <3>3. editGrant' \in 0..MaxGoals /\ reportFor' \in 0..MaxGoals /\ owed' \in 0..MaxTickets
      BY <2>3, GoalAssumption
    <3> QED
      BY <1>0, <2>2, <2>3, <3>1, <3>2, <3>3, GoalFacts, GoalTypesNext DEF goalTickets
  <2>5. QueuedIsReal'
    BY <1>0, <2>3, StillQueuedIsReal DEF QueuedIsReal
  <2> QED
    BY <2>2, <2>3, <2>4, <2>5, EntryAppended, GoalFacts, GoalValues DEF GoalInv, GoalMoves, GoalPending,
       GrantIsCurrent, GoalDurable, EditorHasGoal
<1>2. CASE ~ (pendingError /\ Active(goal) /\ ~aborted)
  <2>1. /\ phase' = IF pendingError /\ Active(goal) THEN "askingLast" ELSE "idle"
        /\ UNCHANGED <<goal, saved, branches, editGrant, owed, reportFor, goalQueued, goalDialog>>
    BY <1>2 DEF Settle
  <2>2. GoalTypeOK'
    BY <1>0, <2>1, GoalFacts DEF GoalTypeOK, goalTickets
  <2> QED
    BY <1>0, <2>1, <2>2 DEF GoalInv, GoalMoves, GoalPending, QueuedIsReal, GrantIsCurrent, GoalDurable,
       EditorHasGoal
<1> QED
  BY <1>1, <1>2

(* The invariant holds after maintenance ends. *)
LEMMA OccFinishedKeeps ==
  ASSUME GoalInv, NEW quits \in BOOLEAN, OccFinished(quits)
  PROVE  GoalInv'
<1>1. GoalTypeOK'
  <2>1. goalQueued' \in BOOLEAN /\ excused' \in BOOLEAN
    BY GoalFacts DEF OccFinished
  <2>2. owed' \in 0..MaxTickets /\ continueCmds' \subseteq 1..MaxTickets
    BY GoalFacts, GoalAssumption DEF OccFinished
  <2> QED
    BY <2>1, <2>2, GoalFacts, GoalTypesNext DEF OccFinished, goalPi
<1> QED
  BY <1>1, GoalFacts, GoalValues DEF OccFinished, goalPi, GoalInv, Active, GoalMoves,
     GoalPending, QueuedIsReal, GrantIsCurrent, GoalDurable, EditorHasGoal

(* The invariant holds after a continuation command arrives. *)
LEMMA ContinueCommandKeeps ==
  ASSUME GoalInv, NEW token \in 1..MaxTickets, ContinueCommand(token)
  PROVE  GoalInv'
<1>1. /\ continueCmds' \subseteq 1..MaxTickets /\ phase \in {"idle", "running"}
      /\ UNCHANGED <<goal, saved, branches, goalStarted, goalsMade, editGrant, reportFor, pendingError,
                     goalDialog, phase, invalidated, excused>>
  BY GoalFacts DEF ContinueCommand, goalPi
<1>2. CASE token # owed
  <2>1. UNCHANGED <<owed, goalQueued, inbox>>
    BY <1>2 DEF ContinueCommand
  <2>2. GoalTypeOK'
    BY <1>1, <2>1, GoalFacts, GoalTypesNext
  <2> QED
    BY <1>1, <2>1, <2>2 DEF GoalInv, GoalMoves, GoalPending, QueuedIsReal, GrantIsCurrent, GoalDurable,
       EditorHasGoal
<1>3. CASE token = owed
  <2>1. owed' = 0 /\ owed' \in 0..MaxTickets
    BY <1>3, GoalAssumption DEF ContinueCommand
  <2>2. \/ phase = "idle" /\ Continue(goal, FALSE)
        \/ phase = "running" /\ goalQueued' = FALSE /\ inbox' = inbox
    BY <1>1, <1>3 DEF ContinueCommand
  <2>3. /\ goalQueued' \in BOOLEAN /\ inbox' \subseteq {"user", "other", "grant", Continuation}
        /\ goalQueued' => Continuation \in inbox'
        /\ phase = "idle" => ~ (Active(goal) /\ inbox' = {})
    BY <2>2, ContinueQueues, GoalFacts
  <2>4. GoalTypeOK'
    BY <1>1, <2>1, <2>3, GoalFacts, GoalTypesNext
  <2> QED
    BY <1>1, <2>1, <2>3, <2>4 DEF GoalInv, GoalMoves, GoalPending, QueuedIsReal, GrantIsCurrent,
       GoalDurable, EditorHasGoal
<1> QED
  BY <1>2, <1>3

(* The invariant holds after the session is rebuilt from a branch. *)
LEMMA ReconstructKeeps ==
  ASSUME GoalInv, NEW g \in branches \cup {saved}, Reconstruct(g)
  PROVE  GoalInv'
<1>1. GoalTypeOK'
  <2>1. pendingError' \in BOOLEAN /\ invalidated' \in BOOLEAN /\ goalQueued' \in BOOLEAN /\ excused' \in BOOLEAN
    BY DEF Reconstruct
  <2>2. /\ goalStarted' \in 0..MaxGoals /\ editGrant' \in 0..MaxGoals /\ reportFor' \in 0..MaxGoals
        /\ owed' \in 0..MaxTickets
    BY GoalAssumption DEF Reconstruct
  <2>3. goal' \in Goals \cup {NoGoal} /\ saved' \in Goals \cup {NoGoal} /\ goalDialog' \in Dialogs
    BY GoalFacts, GoalValues DEF Reconstruct
  <2> QED
    BY <2>1, <2>2, <2>3, GoalFacts, GoalTypesNext DEF Reconstruct, goalTickets
<1> QED
  BY <1>1, GoalFacts, GoalValues DEF Reconstruct, goalTickets, GoalInv, Active, GoalMoves,
     GoalPending, QueuedIsReal, GrantIsCurrent, GoalDurable, EditorHasGoal

(* The invariant holds when no goal was set. *)
LEMMA GoalInvInit == GoalInit => GoalInv
<1> SUFFICES ASSUME GoalInit
             PROVE  GoalInv
  OBVIOUS
<1>1. GoalTypeOK
  <2>1. goalsMade \in [goals : 0..MaxGoals, tickets : 0..MaxTickets] /\ goalDialog \in Dialogs
    BY GoalAssumption DEF GoalInit, Dialogs
  <2>2. {goalStarted, editGrant, reportFor} \subseteq 0..MaxGoals /\ owed \in 0..MaxTickets
    BY GoalAssumption DEF GoalInit
  <2>3. goalQueued \in BOOLEAN /\ pendingError \in BOOLEAN /\ invalidated \in BOOLEAN /\ excused \in BOOLEAN
    BY DEF GoalInit
  <2> QED
    BY <2>1, <2>2, <2>3 DEF GoalInit, GoalTypeOK
<1> QED
  BY <1>1, GoalValues DEF GoalInit, GoalInv, GoalMoves, GoalPending, QueuedIsReal, GrantIsCurrent,
     GoalDurable, EditorHasGoal, NoDialog

(* The invariant is inductive. *)
LEMMA GoalInvStep == GoalInv /\ [GoalNext]_goalVars => GoalInv'
<1> SUFFICES ASSUME GoalInv, [GoalNext]_goalVars
             PROVE  GoalInv'
  OBVIOUS
<1>1. CASE UNCHANGED goalVars
  BY <1>1 DEF goalVars, GoalInv, GoalTypeOK, GoalMoves, GoalPending, QueuedIsReal, GrantIsCurrent,
     GoalDurable, EditorHasGoal
<1>2. CASE UserCreates \/ ReplaceConfirmed \/ EditSaved \/ DialogCancelled \/ ClearGoal \/ GrantEdit
  BY <1>2, UserCreatesKeeps, ReplaceConfirmedKeeps, EditSavedKeeps, DialogCancelledKeeps, ClearGoalKeeps,
     GrantEditKeeps
<1>3. CASE \/ \E kind \in {"replace", "editor"} : OpenDialog(kind)
           \/ \E status \in {"paused", "active"} : ControlGoal(status)
           \/ ToolCreates \/ ToolEdits \/ \E status \in {"complete", "blocked"} : ToolUpdates(status)
  BY <1>3, OpenDialogKeeps, ControlGoalKeeps, ToolCreatesKeeps, ToolEditsKeeps, ToolUpdatesKeeps
<1>4. CASE UserInput \/ OtherMessage \/ StartTurn \/ RequestCancelled \/ PauseConfirmed \/ PauseDeclined
  BY <1>4, UserInputKeeps, OtherMessageKeeps, StartTurnKeeps, RequestCancelledKeeps, PauseConfirmedKeeps,
     PauseDeclinedKeeps
<1>5. CASE \/ \E stop \in {"stop", "error", "aborted"}, cost \in {0, 1} : EndRun(stop, cost)
           \/ \E aborted \in BOOLEAN, status \in {"usageLimited", "blocked"} : Settle(aborted, status)
           \/ \E quits \in BOOLEAN : OccFinished(quits)
           \/ \E token \in 1..MaxTickets : ContinueCommand(token)
           \/ \E g \in branches \cup {saved} : Reconstruct(g)
  BY <1>5, EndRunKeeps, SettleKeeps, OccFinishedKeeps, ContinueCommandKeeps, ReconstructKeeps
<1> QED
  BY <1>1, <1>2, <1>3, <1>4, <1>5 DEF GoalNext

(* An active goal never stalls silently, and its grant, its continuation and its last entry are
   real: the property the run "features" checks, for every value of the constants. *)
THEOREM GoalNeverStalls == GoalSpec => []GoalSound
<1>1. GoalInv => GoalSound
  BY DEF GoalInv, GoalSound, GoalKept
<1> QED
  BY <1>1, GoalInvInit, GoalInvStep, PTL DEF GoalSpec

-----------------------------------------------------------------------------
(* Questionnaire.  The questionnaire: what is drawn, said and returned. *)
AskViews == [tab : Tabs, row : 1..NextRow, typing : BOOLEAN, noting : BOOLEAN, checked : SUBSET Options,
             choice : 1..2, collapsed : BOOLEAN]
AskAnswers == [kind : {"none", "multi", "option", "custom"}, text : Texts, selected : SUBSET Options, note : Texts]
AskSaid == [answers : [Questions -> AskAnswers], drafts : [Questions -> Texts \union {Absent}], notes : [Tabs -> Texts]]
AskDialogs ==
  [phase : {"called", "loaded", "yielded", "open", "closing", "done", "returned", "failed", "unavailable"},
   overlay : BOOLEAN, listener : BOOLEAN, hidden : BOOLEAN, aborted : BOOLEAN, result : {"none", "submitted", "cancelled"}]
AskTypes ==
  /\ view \in AskViews /\ said \in AskSaid /\ field \in Texts /\ editing \in Questions \union {0}
  /\ dialog \in AskDialogs /\ others \in 0..MaxOthers /\ blocked \in BOOLEAN
(* The cursor is on a row of its tab, and a text is typed in the one row that takes it. *)
RowsFit == view.tab \in Questions => view.row \in Rows(view.tab) /\ (view.typing <=> view.row = OtherRow)
(* Before it is mounted a dialog is fresh, with no editor, no listener and nothing hidden; when it is done, no editor. *)
CallsBegin ==
  /\ dialog.phase \in {"called", "loaded", "yielded"} =>
       /\ editing = 0 /\ ~dialog.listener /\ ~dialog.hidden
       /\ view = FreshView /\ said = NothingSaved /\ field = ""
  /\ dialog.phase = "done" => editing = 0
AskInv ==
  /\ AskTypes /\ RowsFit /\ TabsAgree /\ SaidIsSaved /\ EditorKeepsPlace /\ HiddenReopens /\ CallsEnd /\ CallsBegin
-----------------------------------------------------------------------------
(* Draft is a text, whatever is kept; an answer that was saved from it says the same. *)
LEMMA DraftIsText ==
  ASSUME NEW s \in AskSaid, NEW q \in Questions
  PROVE  /\ Draft(s, q) \in Texts /\ Absent \notin Texts
         /\ Draft(s, q) = IF s.drafts[q] # Absent THEN s.drafts[q] ELSE s.answers[q].text
  BY DEF Draft, AskSaid, AskAnswers, Texts, Absent
LEMMA QuestionsAreTabs ==
  /\ Questions \subseteq Tabs /\ (Tabs # Questions => Tabs = 1..SubmitTab /\ SubmitTab = Singles + Multis + 1)
  /\ 0 \notin Questions /\ Singles + Multis \in Nat \ {0} /\ 1 \in Questions
  BY QuestionnaireAssumption DEF Questions, Tabs, SubmitTab
LEMMA NothingSavedIsSaid ==
  /\ NothingSaved \in AskSaid /\ FreshView \in AskViews /\ "" \in Texts
  /\ \A q \in Questions : NothingSaved.answers[q] = NoAnswer /\ NothingSaved.notes[q] = "" /\ Draft(NothingSaved, q) = ""
<1>1. NoAnswer \in AskAnswers
  BY DEF NoAnswer, AskAnswers, Texts
<1>2. "" \in Texts /\ Absent \in Texts \union {Absent}
  BY DEF Texts
<1>3. NothingSaved \in AskSaid
  BY <1>1, <1>2 DEF NothingSaved, AskSaid
<1>4. NextRow \in Nat /\ 1 \in 1..NextRow /\ 1 \in 1..2 /\ 1 \in Tabs
  BY QuestionsAreTabs, QuestionnaireAssumption DEF NextRow
<1>5. FreshView \in AskViews
  BY <1>4 DEF FreshView, AskViews
<1>6. ASSUME NEW q \in Questions
      PROVE  NothingSaved.answers[q] = NoAnswer /\ NothingSaved.notes[q] = "" /\ NothingSaved.drafts[q] = Absent
  BY QuestionsAreTabs DEF NothingSaved
<1>7. NoAnswer.text = ""
  BY DEF NoAnswer
<1>8. \A q \in Questions : Draft(NothingSaved, q) = ""
  BY <1>6, <1>7, <1>3, DraftIsText
<1> QED
  BY <1>2, <1>3, <1>5, <1>6, <1>8

(* A dialog that settles forgets what was said; its promise waits for an editor. *)
LEMMA FinishTells ==
  ASSUME AskInv, NEW quits \in BOOLEAN, FinishDialog(quits)
  PROVE  /\ view' = FreshView /\ said' = NothingSaved /\ field' = ""
         /\ dialog' \in AskDialogs /\ dialog'.phase = (IF editing = 0 THEN "done" ELSE "closing")
         /\ dialog'.listener = dialog.listener /\ dialog'.hidden = dialog.hidden /\ dialog'.aborted = dialog.aborted
  BY DEF FinishDialog, AfterEditor, AskInv, AskTypes, AskDialogs

(* Notes, drafts and answers change one question, the others keep theirs. *)
LEMMA DraftChanges ==
  ASSUME NEW s \in AskSaid, NEW q \in Questions, NEW text \in Texts
  PROVE  /\ [s EXCEPT !.drafts[q] = text] \in AskSaid /\ Draft([s EXCEPT !.drafts[q] = text], q) = text
         /\ [s EXCEPT !.drafts[q] = text].answers = s.answers /\ [s EXCEPT !.drafts[q] = text].notes = s.notes
         /\ \A p \in Questions : p # q => Draft([s EXCEPT !.drafts[q] = text], p) = Draft(s, p)
<1> DEFINE t == [s EXCEPT !.drafts[q] = text]
<1>1. t.answers = s.answers /\ t.notes = s.notes /\ t.drafts = [s.drafts EXCEPT ![q] = text] /\ t \in AskSaid
  BY DEF AskSaid
<1>2. text # Absent
  BY DEF Texts, Absent
<1>3. s.drafts \in [Questions -> Texts \union {Absent}]
  BY DEF AskSaid
<1> HIDE DEF t
<1>4. \A p \in Questions : t.drafts[p] = IF p = q THEN text ELSE s.drafts[p]
  BY <1>1, <1>3
<1>5. Draft(t, q) = text /\ \A p \in Questions : p # q => Draft(t, p) = Draft(s, p)
  BY <1>1, <1>2, <1>4 DEF Draft
<1> QED
  BY <1>1, <1>5 DEF t
LEMMA AnswerChanges ==
  ASSUME NEW s \in AskSaid, NEW q \in Questions, NEW a \in AskAnswers
  PROVE  /\ [s EXCEPT !.answers[q] = a] \in AskSaid /\ [s EXCEPT !.answers[q] = a].drafts = s.drafts
         /\ [s EXCEPT !.answers[q] = a].notes = s.notes /\ [s EXCEPT !.answers[q] = a].answers[q] = a
         /\ \A p \in Questions : p # q => [s EXCEPT !.answers[q] = a].answers[p] = s.answers[p]
<1> DEFINE t == [s EXCEPT !.answers[q] = a]
<1>1. t.drafts = s.drafts /\ t.notes = s.notes /\ t.answers = [s.answers EXCEPT ![q] = a]
  BY DEF AskSaid
<1>2. s.answers \in [Questions -> AskAnswers]
  BY DEF AskSaid
<1>3. t \in AskSaid
  BY DEF AskSaid
<1> HIDE DEF t
<1>4. t.answers[q] = a /\ \A p \in Questions : p # q => t.answers[p] = s.answers[p]
  BY <1>1, <1>2
<1> QED
  BY <1>1, <1>3, <1>4 DEF t

(* What a multi-select question keeps is its boxes and its draft. *)
LEMMA PersistedTells ==
  ASSUME NEW s \in AskSaid, NEW q \in Questions, NEW checks \in SUBSET Options, view \in AskViews
  PROVE  /\ Persisted(s, q, checks) \in AskSaid /\ Persisted(s, q, checks).drafts = s.drafts
         /\ Persisted(s, q, checks).notes = s.notes
         /\ \A p \in Questions : p # q => Persisted(s, q, checks).answers[p] = s.answers[p] /\ Draft(Persisted(s, q, checks), p) = Draft(s, p)
         /\ Persisted(s, q, checks).answers[q].selected = checks
         /\ Persisted(s, q, checks).answers[q].text = Draft(s, q) /\ Draft(Persisted(s, q, checks), q) = Draft(s, q)
         /\ (Persisted(s, q, checks).answers[q].kind # "none" => Persisted(s, q, checks).answers[q].note = s.notes[q])
<1> DEFINE answer == [MultiAnswer(s, q, Draft(s, q)) EXCEPT !.selected = checks]
           a == IF checks # {} \/ answer.text # "" THEN answer ELSE NoAnswer
           t == [s EXCEPT !.answers[q] = a]
<1>1. Draft(s, q) \in Texts /\ s.notes[q] \in Texts
  BY DraftIsText, QuestionsAreTabs DEF AskSaid
<1>2. answer \in AskAnswers /\ answer.text = Draft(s, q) /\ answer.selected = checks /\ answer.note = s.notes[q] /\ answer.kind = "multi"
  BY <1>1 DEF MultiAnswer, AskAnswers, AskViews
<1>3. NoAnswer \in AskAnswers /\ NoAnswer.text = "" /\ NoAnswer.selected = {} /\ NoAnswer.kind = "none"
  BY DEF NoAnswer, AskAnswers, Texts
<1> HIDE DEF answer
<1>4. a \in AskAnswers /\ a.text = Draft(s, q) /\ a.selected = checks /\ (a.kind # "none" => a.note = s.notes[q])
  BY <1>2, <1>3
<1> HIDE DEF a
<1>5. /\ t \in AskSaid /\ t.drafts = s.drafts /\ t.notes = s.notes /\ t.answers[q] = a
      /\ \A p \in Questions : p # q => t.answers[p] = s.answers[p]
  BY <1>4, AnswerChanges
<1> HIDE DEF t
<1>6. Draft(t, q) = Draft(s, q) /\ \A p \in Questions : p # q => Draft(t, p) = Draft(s, p)
  BY <1>4, <1>5 DEF Draft
<1>7. Persisted(s, q, checks) = t
  BY DEF Persisted, t, a, answer
<1> QED
  BY <1>4, <1>5, <1>6, <1>7

(* The first row of a tab is an option. *)
LEMMA FirstRowFits ==
  /\ 1 # OtherRow /\ \A t : 1 \in Rows(t)
  BY QuestionnaireAssumption DEF OtherRow, NextRow, Rows

(* A dialog that is fresh agrees with what was said, which is nothing. *)
LEMMA FreshAgrees ==
  ASSUME view' = FreshView, said' = NothingSaved, field' = ""
  PROVE  TabsAgree' /\ SaidIsSaved' /\ RowsFit'
<1>1. view'.tab = 1 /\ view'.checked = {} /\ 1 \in Questions
  BY QuestionsAreTabs DEF FreshView
<1>2. NoAnswer.text = "" /\ NoAnswer.selected = {} /\ NoAnswer.kind = "none"
  BY DEF NoAnswer
<1>3. \A q \in Questions : said'.answers[q] = NoAnswer /\ Draft(said', q) = ""
  BY NothingSavedIsSaid
<1>4. TabsAgree'
  BY <1>1, <1>2, <1>3 DEF TabsAgree
<1>5. SaidIsSaved'
  BY <1>2, <1>3 DEF SaidIsSaved
<1>6. RowsFit'
  BY FirstRowFits DEF FreshView, RowsFit
<1> QED
  BY <1>4, <1>5, <1>6

-----------------------------------------------------------------------------
(* The dialog's code loads. *)
LEMMA LoadDialogKeeps ==
  ASSUME AskInv, LoadDialog
  PROVE  AskInv'
<1>1. /\ view \in AskViews /\ said \in AskSaid /\ field \in Texts /\ dialog \in AskDialogs /\ editing \in Questions \union {0}
       /\ others \in Nat /\ others \in 0..MaxOthers /\ MaxOthers \in Nat /\ blocked \in BOOLEAN /\ 0 \notin Questions
  BY QuestionnaireAssumption, QuestionsAreTabs DEF AskInv, AskTypes
<1>2. view' = view /\ said' = said /\ field' = field /\ editing' = editing /\ others' = others /\ blocked' = TRUE /\ dialog.phase = "called"
  BY <1>1 DEF AskInv, LoadDialog, CallsBegin
<1>3. dialog' \in AskDialogs /\ dialog'.phase = "loaded" /\ dialog'.listener = dialog.listener /\ dialog'.hidden = dialog.hidden /\ dialog'.aborted = dialog.aborted
  BY <1>1, <1>2 DEF LoadDialog, CallsBegin, AskDialogs
<1>4. Awaiting' = 1
  BY <1>2, <1>3 DEF Awaiting
<1>5. others' \in Nat /\ others' + 1 > 0
  BY <1>1 DEF LoadDialog, CallsBegin
<1>6. blocked' = (others' + Awaiting' > 0)
  BY <1>2, <1>4, <1>5
<1>7. AskTypes'
  BY <1>1, <1>2, <1>3, <1>4, <1>5, <1>6 DEF AskInv, AskTypes
<1>8. RowsFit'
  BY <1>1, <1>2, <1>3, <1>4, <1>5, <1>6 DEF AskInv, RowsFit
<1>9. TabsAgree'
  BY <1>1, <1>2, <1>3, <1>4, <1>5, <1>6 DEF AskInv, TabsAgree
<1>10. SaidIsSaved'
  BY <1>1, <1>2, <1>3, <1>4, <1>5, <1>6 DEF AskInv, SaidIsSaved
<1>11. EditorKeepsPlace'
  BY <1>1, <1>2, <1>3, <1>4, <1>5, <1>6 DEF AskInv, EditorKeepsPlace
<1>12. HiddenReopens'
  BY <1>1, <1>2, <1>3, <1>4, <1>5, <1>6 DEF AskInv, HiddenReopens
<1>13. CallsEnd'
  BY <1>1, <1>2, <1>3, <1>4, <1>5, <1>6 DEF AskInv, CallsEnd
<1>14. CallsBegin'
  BY <1>1, <1>2, <1>3, <1>4, <1>5, <1>6 DEF AskInv, CallsBegin
<1> QED
  BY <1>7, <1>8, <1>9, <1>10, <1>11, <1>12, <1>13, <1>14 DEF AskInv

(* It does not load, and the call is over. *)
LEMMA LoadDialogFailsKeeps ==
  ASSUME AskInv, LoadDialogFails
  PROVE  AskInv'
<1>1. /\ view \in AskViews /\ said \in AskSaid /\ field \in Texts /\ dialog \in AskDialogs /\ editing \in Questions \union {0}
       /\ others \in Nat /\ others \in 0..MaxOthers /\ MaxOthers \in Nat /\ blocked \in BOOLEAN /\ 0 \notin Questions
  BY QuestionnaireAssumption, QuestionsAreTabs DEF AskInv, AskTypes
<1>2. view' = view /\ said' = said /\ field' = field /\ editing' = editing /\ others' = others /\ blocked' = blocked /\ dialog.phase = "called" /\ blocked = (others + 0 > 0) /\ editing = 0 /\ ~dialog.listener /\ ~dialog.hidden
  BY <1>1 DEF AskInv, LoadDialogFails, CallsBegin, CallsEnd, Awaiting
<1>3. dialog' \in AskDialogs /\ dialog'.phase = "unavailable" /\ dialog'.listener = dialog.listener /\ dialog'.hidden = dialog.hidden /\ dialog'.aborted = dialog.aborted
  BY <1>1, <1>2 DEF LoadDialogFails, CallsBegin, CallsEnd, Awaiting, AskDialogs
<1>4. Awaiting' = 0
  BY <1>2, <1>3 DEF Awaiting
<1>5. others' \in Nat /\ others' + 1 > 0
  BY <1>1 DEF LoadDialogFails, CallsBegin, CallsEnd, Awaiting
<1>6. blocked' = (others' + Awaiting' > 0)
  BY <1>2, <1>4, <1>5
<1>7. AskTypes'
  BY <1>1, <1>2, <1>3, <1>4, <1>5, <1>6 DEF AskInv, AskTypes
<1>8. RowsFit'
  BY <1>1, <1>2, <1>3, <1>4, <1>5, <1>6 DEF AskInv, RowsFit
<1>9. TabsAgree'
  BY <1>1, <1>2, <1>3, <1>4, <1>5, <1>6 DEF AskInv, TabsAgree
<1>10. SaidIsSaved'
  BY <1>1, <1>2, <1>3, <1>4, <1>5, <1>6 DEF AskInv, SaidIsSaved
<1>11. EditorKeepsPlace'
  BY <1>1, <1>2, <1>3, <1>4, <1>5, <1>6 DEF AskInv, EditorKeepsPlace
<1>12. HiddenReopens'
  BY <1>1, <1>2, <1>3, <1>4, <1>5, <1>6 DEF AskInv, HiddenReopens
<1>13. CallsEnd'
  BY <1>1, <1>2, <1>3, <1>4, <1>5, <1>6 DEF AskInv, CallsEnd
<1>14. CallsBegin'
  BY <1>1, <1>2, <1>3, <1>4, <1>5, <1>6 DEF AskInv, CallsBegin
<1> QED
  BY <1>7, <1>8, <1>9, <1>10, <1>11, <1>12, <1>13, <1>14 DEF AskInv

(* The dialog is shown in its slot, or leaves it to an overlay. *)
LEMMA MountKeeps ==
  ASSUME AskInv, NEW covered \in BOOLEAN, Mount(covered)
  PROVE  AskInv'
<1>1. /\ view \in AskViews /\ said \in AskSaid /\ field \in Texts /\ dialog \in AskDialogs /\ editing \in Questions \union {0}
       /\ others \in Nat /\ others \in 0..MaxOthers /\ MaxOthers \in Nat /\ blocked \in BOOLEAN /\ 0 \notin Questions
  BY QuestionnaireAssumption, QuestionsAreTabs DEF AskInv, AskTypes
<1>2. view' = view /\ said' = said /\ field' = field /\ editing' = editing /\ others' = others /\ dialog.phase = "loaded" /\ view = FreshView /\ said = NothingSaved /\ field = "" /\ editing = 0 /\ ~dialog.listener /\ ~dialog.hidden /\ blocked' = blocked /\ blocked = (others + 1 > 0)
  BY <1>1 DEF AskInv, Mount, CallsBegin, CallsEnd, Awaiting
<1>3. dialog' \in AskDialogs /\ dialog'.phase = (IF covered THEN "yielded" ELSE "open") /\ dialog'.listener = dialog.listener /\ dialog'.hidden = dialog.hidden /\ dialog'.aborted = dialog.aborted
  BY <1>1, <1>2 DEF Mount, CallsBegin, CallsEnd, Awaiting, AskDialogs
<1>4. Awaiting' = 1
  BY <1>2, <1>3 DEF Awaiting
<1>5. others' \in Nat /\ others' + 1 > 0
  BY <1>1 DEF Mount, CallsBegin, CallsEnd, Awaiting
<1>6. blocked' = (others' + Awaiting' > 0)
  BY <1>2, <1>4, <1>5
<1>7. AskTypes'
  BY <1>1, <1>2, <1>3, <1>4, <1>5, <1>6 DEF AskInv, AskTypes
<1>8. RowsFit'
  BY <1>2, FreshAgrees
<1>9. TabsAgree'
  BY <1>2, FreshAgrees
<1>10. SaidIsSaved'
  BY <1>2, FreshAgrees
<1>11. EditorKeepsPlace'
  BY <1>1, <1>2, <1>3, <1>4, <1>5, <1>6 DEF AskInv, EditorKeepsPlace
<1>12. HiddenReopens'
  BY <1>1, <1>2, <1>3, <1>4, <1>5, <1>6 DEF AskInv, HiddenReopens
<1>13. CallsEnd'
  BY <1>1, <1>2, <1>3, <1>4, <1>5, <1>6 DEF AskInv, CallsEnd
<1>14. CallsBegin'
  BY <1>1, <1>2, <1>3, <1>4, <1>5, <1>6 DEF AskInv, CallsBegin
<1> QED
  BY <1>7, <1>8, <1>9, <1>10, <1>11, <1>12, <1>13, <1>14 DEF AskInv

(* The overlay is shown, with or without a raw listener. *)
LEMMA MountOverlayKeeps ==
  ASSUME AskInv, NEW listener \in BOOLEAN, MountOverlay(listener)
  PROVE  AskInv'
<1>1. /\ view \in AskViews /\ said \in AskSaid /\ field \in Texts /\ dialog \in AskDialogs /\ editing \in Questions \union {0}
       /\ others \in Nat /\ others \in 0..MaxOthers /\ MaxOthers \in Nat /\ blocked \in BOOLEAN /\ 0 \notin Questions
  BY QuestionnaireAssumption, QuestionsAreTabs DEF AskInv, AskTypes
<1>2. view' = view /\ said' = said /\ field' = field /\ editing' = editing /\ others' = others /\ dialog.phase = "yielded" /\ view = FreshView /\ said = NothingSaved /\ field = "" /\ editing = 0 /\ ~dialog.listener /\ ~dialog.hidden /\ blocked' = blocked /\ blocked = (others + 1 > 0)
  BY <1>1 DEF AskInv, MountOverlay, CallsBegin, CallsEnd, Awaiting
<1>3. dialog' \in AskDialogs /\ dialog'.phase = "open" /\ dialog'.listener = listener /\ dialog'.hidden = dialog.hidden /\ dialog'.aborted = dialog.aborted
  BY <1>1, <1>2 DEF MountOverlay, CallsBegin, CallsEnd, Awaiting, AskDialogs
<1>4. Awaiting' = 1
  BY <1>2, <1>3 DEF Awaiting
<1>5. others' \in Nat /\ others' + 1 > 0
  BY <1>1 DEF MountOverlay, CallsBegin, CallsEnd, Awaiting
<1>6. blocked' = (others' + Awaiting' > 0)
  BY <1>2, <1>4, <1>5
<1>7. AskTypes'
  BY <1>1, <1>2, <1>3, <1>4, <1>5, <1>6 DEF AskInv, AskTypes
<1>8. RowsFit'
  BY <1>2, FreshAgrees
<1>9. TabsAgree'
  BY <1>2, FreshAgrees
<1>10. SaidIsSaved'
  BY <1>2, FreshAgrees
<1>11. EditorKeepsPlace'
  BY <1>1, <1>2, <1>3, <1>4, <1>5, <1>6 DEF AskInv, EditorKeepsPlace
<1>12. HiddenReopens'
  BY <1>1, <1>2, <1>3, <1>4, <1>5, <1>6 DEF AskInv, HiddenReopens
<1>13. CallsEnd'
  BY <1>1, <1>2, <1>3, <1>4, <1>5, <1>6 DEF AskInv, CallsEnd
<1>14. CallsBegin'
  BY <1>1, <1>2, <1>3, <1>4, <1>5, <1>6 DEF AskInv, CallsBegin
<1> QED
  BY <1>7, <1>8, <1>9, <1>10, <1>11, <1>12, <1>13, <1>14 DEF AskInv

(* The call is over: its listener is gone, and the session is told. *)
LEMMA ReturnKeeps ==
  ASSUME AskInv, Return
  PROVE  AskInv'
<1>1. /\ view \in AskViews /\ said \in AskSaid /\ field \in Texts /\ dialog \in AskDialogs /\ editing \in Questions \union {0}
       /\ others \in Nat /\ others \in 0..MaxOthers /\ MaxOthers \in Nat /\ blocked \in BOOLEAN /\ 0 \notin Questions
  BY QuestionnaireAssumption, QuestionsAreTabs DEF AskInv, AskTypes
<1>2. view' = view /\ said' = said /\ field' = field /\ editing' = editing /\ others' = others
  BY DEF Return
<1>3. dialog.phase \in {"loaded", "yielded", "done"} /\ editing = 0
  BY DEF Return, AskInv, CallsBegin
<1>4. dialog' \in AskDialogs /\ dialog'.phase = (IF Replies THEN "returned" ELSE "failed") /\ dialog'.listener = FALSE /\ dialog'.hidden = FALSE /\ dialog'.aborted = dialog.aborted
  BY <1>1 DEF Return, AskDialogs
<1>5. (Replies => ~dialog.aborted) /\ Replies \in BOOLEAN
  BY DEF Replies
<1>6. dialog'.phase \in {"returned", "failed"} /\ (dialog'.phase = "returned" => ~dialog'.aborted)
  BY <1>4, <1>5
<1>7. Awaiting' = 0
  BY <1>6 DEF Awaiting
<1>8. blocked' = (others > 0)
  BY DEF Return, StillBlocked
<1>9. (others' + Awaiting' > 0) = (others > 0)
  BY <1>1, <1>2, <1>7
<1>10. blocked' = (others' + Awaiting' > 0)
  BY <1>8, <1>9
<1>11. AskTypes'
  BY <1>1, <1>2, <1>4, <1>8 DEF AskTypes
<1>12. RowsFit'
  BY <1>1, <1>2, <1>3, <1>4, <1>5, <1>6, <1>7, <1>8, <1>9, <1>10 DEF AskInv, RowsFit
<1>13. TabsAgree'
  BY <1>2, <1>6 DEF AskInv, TabsAgree
<1>14. SaidIsSaved'
  BY <1>1, <1>2, <1>3, <1>4, <1>5, <1>6, <1>7, <1>8, <1>9, <1>10 DEF AskInv, SaidIsSaved
<1>15. EditorKeepsPlace'
  BY <1>1, <1>2, <1>3, <1>4, <1>5, <1>6, <1>7, <1>8, <1>9, <1>10 DEF AskInv, EditorKeepsPlace
<1>16. HiddenReopens'
  BY <1>1, <1>2, <1>3, <1>4, <1>5, <1>6, <1>7, <1>8, <1>9, <1>10 DEF AskInv, HiddenReopens
<1>17. CallsEnd'
  BY <1>2, <1>3, <1>4, <1>6, <1>10 DEF CallsEnd
<1>18. CallsBegin'
  BY <1>6 DEF CallsBegin
<1> QED
  BY <1>11, <1>12, <1>13, <1>14, <1>15, <1>16, <1>17, <1>18 DEF AskInv

(* Another questionnaire opens. *)
LEMMA OtherOpensKeeps ==
  ASSUME AskInv, OtherOpens
  PROVE  AskInv'
<1>1. /\ view \in AskViews /\ said \in AskSaid /\ field \in Texts /\ dialog \in AskDialogs /\ editing \in Questions \union {0}
       /\ others \in Nat /\ others \in 0..MaxOthers /\ MaxOthers \in Nat /\ blocked \in BOOLEAN /\ 0 \notin Questions
  BY QuestionnaireAssumption, QuestionsAreTabs DEF AskInv, AskTypes
<1>2. view' = view /\ said' = said /\ field' = field /\ editing' = editing /\ dialog' = dialog /\ Awaiting' = Awaiting /\ others' = others + 1 /\ others' \in 0..MaxOthers /\ blocked' = TRUE
  BY <1>1 DEF OtherOpens, Awaiting
<1>3. Awaiting \in {0, 1}
  BY DEF Awaiting
<1>4. others' + Awaiting' > 0
  BY <1>1, <1>3 DEF OtherOpens, Awaiting
<1>5. blocked' = (others' + Awaiting' > 0)
  BY <1>2, <1>4
<1>6. AskTypes'
  BY <1>1, <1>2 DEF AskTypes
<1>7. RowsFit'
  BY <1>1, <1>2, <1>3, <1>4, <1>5 DEF AskInv, RowsFit
<1>8. TabsAgree'
  BY <1>1, <1>2, <1>3, <1>4, <1>5 DEF AskInv, TabsAgree
<1>9. SaidIsSaved'
  BY <1>1, <1>2, <1>3, <1>4, <1>5 DEF AskInv, SaidIsSaved
<1>10. EditorKeepsPlace'
  BY <1>1, <1>2, <1>3, <1>4, <1>5 DEF AskInv, EditorKeepsPlace
<1>11. HiddenReopens'
  BY <1>1, <1>2, <1>3, <1>4, <1>5 DEF AskInv, HiddenReopens
<1>12. CallsEnd'
  BY <1>2, <1>5 DEF AskInv, CallsEnd
<1>13. CallsBegin'
  BY <1>1, <1>2, <1>3, <1>4, <1>5 DEF AskInv, CallsBegin
<1> QED
  BY <1>6, <1>7, <1>8, <1>9, <1>10, <1>11, <1>12, <1>13 DEF AskInv

(* Another questionnaire closes, and the session is told what is left. *)
LEMMA OtherClosesKeeps ==
  ASSUME AskInv, OtherCloses
  PROVE  AskInv'
<1>1. /\ view \in AskViews /\ said \in AskSaid /\ field \in Texts /\ dialog \in AskDialogs /\ editing \in Questions \union {0}
       /\ others \in Nat /\ others \in 0..MaxOthers /\ MaxOthers \in Nat /\ blocked \in BOOLEAN /\ 0 \notin Questions
  BY QuestionnaireAssumption, QuestionsAreTabs DEF AskInv, AskTypes
<1>2. view' = view /\ said' = said /\ field' = field /\ editing' = editing /\ dialog' = dialog /\ Awaiting' = Awaiting /\ others' = others - 1 /\ others' \in 0..MaxOthers
  BY <1>1 DEF OtherCloses, Awaiting
<1>3. Awaiting \in {0, 1}
  BY DEF Awaiting
<1>4. blocked' = (others - 1 + Awaiting > 0)
  BY DEF OtherCloses, StillBlocked
<1>5. blocked' = (others' + Awaiting' > 0) /\ blocked' \in BOOLEAN
  BY <1>2, <1>4
<1>6. AskTypes'
  BY <1>1, <1>2, <1>5 DEF AskTypes
<1>7. RowsFit'
  BY <1>1, <1>2, <1>3, <1>4, <1>5 DEF AskInv, RowsFit
<1>8. TabsAgree'
  BY <1>1, <1>2, <1>3, <1>4, <1>5 DEF AskInv, TabsAgree
<1>9. SaidIsSaved'
  BY <1>1, <1>2, <1>3, <1>4, <1>5 DEF AskInv, SaidIsSaved
<1>10. EditorKeepsPlace'
  BY <1>1, <1>2, <1>3, <1>4, <1>5 DEF AskInv, EditorKeepsPlace
<1>11. HiddenReopens'
  BY <1>1, <1>2, <1>3, <1>4, <1>5 DEF AskInv, HiddenReopens
<1>12. CallsEnd'
  BY <1>2, <1>5 DEF AskInv, CallsEnd
<1>13. CallsBegin'
  BY <1>1, <1>2, <1>3, <1>4, <1>5 DEF AskInv, CallsBegin
<1> QED
  BY <1>6, <1>7, <1>8, <1>9, <1>10, <1>11, <1>12, <1>13 DEF AskInv

(* The submit tab ends the dialog. *)
LEMMA ConfirmSubmitKeeps ==
  ASSUME AskInv, ConfirmSubmit
  PROVE  AskInv'
<1>1. /\ view \in AskViews /\ said \in AskSaid /\ field \in Texts /\ dialog \in AskDialogs /\ editing \in Questions \union {0}
       /\ others \in Nat /\ others \in 0..MaxOthers /\ MaxOthers \in Nat /\ blocked \in BOOLEAN /\ 0 \notin Questions
  BY QuestionnaireAssumption, QuestionsAreTabs DEF AskInv, AskTypes
<1>2. dialog.phase = "open" /\ editing' = editing /\ others' = others /\ blocked' = blocked
  BY DEF ConfirmSubmit, Reached
<1>3. view' = FreshView /\ said' = NothingSaved /\ field' = "" /\ dialog' \in AskDialogs /\ dialog'.phase = (IF editing = 0 THEN "done" ELSE "closing")
  BY FinishTells, (view.choice = 2) \in BOOLEAN DEF ConfirmSubmit
<1>4. Awaiting' = 1 /\ Awaiting = 1
  BY <1>2, <1>3 DEF Awaiting
<1>5. AskTypes'
  BY <1>1, <1>2, <1>3, NothingSavedIsSaid DEF AskTypes
<1>6. RowsFit'
  BY <1>3, FreshAgrees
<1>7. TabsAgree'
  BY <1>3, FreshAgrees
<1>8. SaidIsSaved'
  BY <1>3, FreshAgrees
<1>9. EditorKeepsPlace'
  BY <1>1, <1>2, <1>3, <1>4 DEF AskInv, EditorKeepsPlace
<1>10. HiddenReopens'
  BY <1>1, <1>2, <1>3, <1>4 DEF AskInv, HiddenReopens
<1>11. CallsEnd'
  BY <1>2, <1>3, <1>4 DEF AskInv, CallsEnd
<1>12. CallsBegin'
  BY <1>2, <1>3 DEF CallsBegin
<1> QED
  BY <1>5, <1>6, <1>7, <1>8, <1>9, <1>10, <1>11, <1>12 DEF AskInv

(* Escape ends the dialog. *)
LEMMA EscapeKeeps ==
  ASSUME AskInv, Escape
  PROVE  AskInv'
<1>1. /\ view \in AskViews /\ said \in AskSaid /\ field \in Texts /\ dialog \in AskDialogs /\ editing \in Questions \union {0}
       /\ others \in Nat /\ others \in 0..MaxOthers /\ MaxOthers \in Nat /\ blocked \in BOOLEAN /\ 0 \notin Questions
  BY QuestionnaireAssumption, QuestionsAreTabs DEF AskInv, AskTypes
<1>2. dialog.phase = "open" /\ editing' = editing /\ others' = others /\ blocked' = blocked
  BY DEF Escape, Reached
<1>3. view' = FreshView /\ said' = NothingSaved /\ field' = "" /\ dialog' \in AskDialogs /\ dialog'.phase = (IF editing = 0 THEN "done" ELSE "closing")
  BY FinishTells DEF Escape
<1>4. Awaiting' = 1 /\ Awaiting = 1
  BY <1>2, <1>3 DEF Awaiting
<1>5. AskTypes'
  BY <1>1, <1>2, <1>3, NothingSavedIsSaid DEF AskTypes
<1>6. RowsFit'
  BY <1>3, FreshAgrees
<1>7. TabsAgree'
  BY <1>3, FreshAgrees
<1>8. SaidIsSaved'
  BY <1>3, FreshAgrees
<1>9. EditorKeepsPlace'
  BY <1>1, <1>2, <1>3, <1>4 DEF AskInv, EditorKeepsPlace
<1>10. HiddenReopens'
  BY <1>1, <1>2, <1>3, <1>4 DEF AskInv, HiddenReopens
<1>11. CallsEnd'
  BY <1>2, <1>3, <1>4 DEF AskInv, CallsEnd
<1>12. CallsBegin'
  BY <1>2, <1>3 DEF CallsBegin
<1> QED
  BY <1>5, <1>6, <1>7, <1>8, <1>9, <1>10, <1>11, <1>12 DEF AskInv

(* The call's signal is aborted: an open dialog is cancelled, one that is not yet shown never is. *)
LEMMA AbortKeeps ==
  ASSUME AskInv, Abort
  PROVE  AskInv'
<1>1. /\ view \in AskViews /\ said \in AskSaid /\ field \in Texts /\ dialog \in AskDialogs /\ editing \in Questions \union {0}
       /\ others \in Nat /\ others \in 0..MaxOthers /\ MaxOthers \in Nat /\ blocked \in BOOLEAN /\ 0 \notin Questions
  BY QuestionnaireAssumption, QuestionsAreTabs DEF AskInv, AskTypes
<1>2. editing' = editing /\ others' = others /\ blocked' = blocked /\ dialog.phase \notin {"returned", "failed", "unavailable"}
  BY DEF Abort
<1>3. dialog' \in AskDialogs /\ dialog'.aborted /\ dialog'.listener = dialog.listener /\ dialog'.hidden = dialog.hidden
  BY <1>1, ZenonT(60) DEF Abort, AfterEditor, AskDialogs
<1>4. dialog'.phase = IF dialog.phase # "open" THEN dialog.phase ELSE IF editing = 0 THEN "done" ELSE "closing"
  BY <1>1 DEF Abort, AfterEditor, AskDialogs
<1>5. IF dialog.phase = "open" THEN view' = FreshView /\ said' = NothingSaved /\ field' = "" ELSE view' = view /\ said' = said /\ field' = field
  BY DEF Abort
<1>6. Awaiting' = Awaiting
  BY <1>2, <1>4 DEF Awaiting
<1>7. AskTypes'
  BY <1>1, <1>2, <1>3, <1>5, NothingSavedIsSaid DEF AskTypes
<1>8. RowsFit'
  <2>1. CASE dialog.phase = "open"
    BY <1>5, <2>1, FreshAgrees
  <2>2. CASE dialog.phase # "open"
    BY <1>4, <1>5, <2>2 DEF AskInv, RowsFit
  <2> QED
    BY <2>1, <2>2
<1>9. TabsAgree'
  <2>1. CASE dialog.phase = "open"
    BY <1>5, <2>1, FreshAgrees
  <2>2. CASE dialog.phase # "open"
    BY <1>4, <1>5, <2>2 DEF AskInv, TabsAgree
  <2> QED
    BY <2>1, <2>2
<1>10. SaidIsSaved'
  <2>1. CASE dialog.phase = "open"
    BY <1>5, <2>1, FreshAgrees
  <2>2. CASE dialog.phase # "open"
    BY <1>4, <1>5, <2>2 DEF AskInv, SaidIsSaved
  <2> QED
    BY <2>1, <2>2
<1>11. EditorKeepsPlace'
  BY <1>4 DEF EditorKeepsPlace
<1>12. HiddenReopens'
  BY <1>4 DEF HiddenReopens
<1>13. CallsEnd'
  BY <1>2, <1>3, <1>4, <1>6 DEF AskInv, CallsEnd
<1>14. CallsBegin'
  BY <1>2, <1>3, <1>4, <1>5 DEF AskInv, CallsBegin
<1> QED
  BY <1>7, <1>8, <1>9, <1>10, <1>11, <1>12, <1>13, <1>14 DEF AskInv

(* The dialog is put aside, or comes back; only an overlay with a raw listener is hidden. *)
LEMMA CollapseKeeps ==
  ASSUME AskInv, Collapse
  PROVE  AskInv'
<1>1. /\ view \in AskViews /\ said \in AskSaid /\ field \in Texts /\ dialog \in AskDialogs /\ editing \in Questions \union {0}
       /\ others \in Nat /\ others \in 0..MaxOthers /\ MaxOthers \in Nat /\ blocked \in BOOLEAN /\ 0 \notin Questions
  BY QuestionnaireAssumption, QuestionsAreTabs DEF AskInv, AskTypes
<1>2. said' = said /\ field' = field /\ editing' = editing /\ others' = others /\ blocked' = blocked /\ dialog.phase = "open" /\ editing = 0
  BY DEF Collapse
<1>3. view' \in AskViews /\ view'.tab = view.tab /\ view'.checked = view.checked /\ view'.row = view.row /\ view'.typing = view.typing /\ view'.collapsed = ~view.collapsed
  BY <1>1 DEF Collapse, AskViews
<1>4. dialog' \in AskDialogs /\ dialog'.phase = dialog.phase /\ dialog'.listener = dialog.listener /\ dialog'.aborted = dialog.aborted
  BY <1>1 DEF Collapse, MayHide, AskDialogs
<1>5. dialog'.hidden => dialog.listener /\ ~view.collapsed
  BY <1>1 DEF Collapse, MayHide, AskDialogs
<1>6. Awaiting' = Awaiting
  BY <1>4 DEF Awaiting
<1>7. AskTypes'
  BY <1>1, <1>2, <1>3, <1>4, <1>5, <1>6 DEF AskInv, AskTypes
<1>8. RowsFit'
  BY <1>1, <1>2, <1>3, <1>4, <1>5, <1>6 DEF AskInv, RowsFit
<1>9. TabsAgree'
  BY <1>1, <1>2, <1>3, <1>4, <1>5, <1>6 DEF AskInv, TabsAgree
<1>10. SaidIsSaved'
  BY <1>1, <1>2, <1>3, <1>4, <1>5, <1>6 DEF AskInv, SaidIsSaved
<1>11. EditorKeepsPlace'
  BY <1>2 DEF EditorKeepsPlace
<1>12. HiddenReopens'
  BY <1>1, <1>2, <1>3, <1>4, <1>5, <1>6 DEF AskInv, HiddenReopens
<1>13. CallsEnd'
  BY <1>1, <1>2, <1>3, <1>4, <1>5, <1>6 DEF AskInv, CallsEnd
<1>14. CallsBegin'
  BY <1>1, <1>2, <1>3, <1>4, <1>5, <1>6 DEF AskInv, CallsBegin
<1> QED
  BY <1>7, <1>8, <1>9, <1>10, <1>11, <1>12, <1>13, <1>14 DEF AskInv

(* An editor that fails leaves the text alone; a dialog that waited for it is done. *)
LEMMA EditorFailsKeeps ==
  ASSUME AskInv, EditorFails
  PROVE  AskInv'
<1>1. /\ view \in AskViews /\ said \in AskSaid /\ field \in Texts /\ dialog \in AskDialogs /\ editing \in Questions \union {0}
       /\ others \in Nat /\ others \in 0..MaxOthers /\ MaxOthers \in Nat /\ blocked \in BOOLEAN /\ 0 \notin Questions
  BY QuestionnaireAssumption, QuestionsAreTabs DEF AskInv, AskTypes
<1>2. view' = view /\ said' = said /\ field' = field /\ others' = others /\ blocked' = blocked /\ editing # 0 /\ editing' = 0
  BY DEF EditorFails
<1>3. dialog' \in AskDialogs /\ dialog'.phase = (IF dialog.phase = "closing" THEN "done" ELSE dialog.phase) /\ dialog'.listener = dialog.listener /\ dialog'.hidden = dialog.hidden /\ dialog'.aborted = dialog.aborted
  BY <1>1 DEF EditorFails, AskDialogs
<1>4. Awaiting' = Awaiting
  BY <1>3 DEF Awaiting
<1>5. AskTypes'
  BY <1>1, <1>2, <1>3, <1>4 DEF AskInv, AskTypes
<1>6. RowsFit'
  BY <1>1, <1>2, <1>3, <1>4 DEF AskInv, RowsFit
<1>7. TabsAgree'
  BY <1>1, <1>2, <1>3, <1>4 DEF AskInv, TabsAgree
<1>8. SaidIsSaved'
  BY <1>1, <1>2, <1>3, <1>4 DEF AskInv, SaidIsSaved
<1>9. EditorKeepsPlace'
  BY <1>1, <1>2, <1>3, <1>4 DEF AskInv, EditorKeepsPlace
<1>10. HiddenReopens'
  BY <1>1, <1>2, <1>3, <1>4 DEF AskInv, HiddenReopens
<1>11. CallsEnd'
  BY <1>1, <1>2, <1>3, <1>4 DEF AskInv, CallsEnd
<1>12. CallsBegin'
  BY <1>1, <1>2, <1>3, <1>4 DEF AskInv, CallsBegin
<1> QED
  BY <1>5, <1>6, <1>7, <1>8, <1>9, <1>10, <1>11, <1>12 DEF AskInv

(* What comes back from an editor is the draft of the question it was opened for. *)
LEMMA EditorReturnsKeeps ==
  ASSUME AskInv, NEW text \in Texts, EditorReturns(text)
  PROVE  AskInv'
<1>1. /\ view \in AskViews /\ said \in AskSaid /\ field \in Texts /\ dialog \in AskDialogs /\ editing \in Questions \union {0}
       /\ others \in Nat /\ others \in 0..MaxOthers /\ MaxOthers \in Nat /\ blocked \in BOOLEAN /\ 0 \notin Questions
  BY QuestionnaireAssumption, QuestionsAreTabs DEF AskInv, AskTypes
<1>2. view' = view /\ others' = others /\ blocked' = blocked /\ editing # 0 /\ editing' = 0
  BY DEF EditorReturns
<1>3. dialog' \in AskDialogs /\ dialog'.phase = (IF dialog.phase = "closing" THEN "done" ELSE dialog.phase) /\ dialog'.listener = dialog.listener /\ dialog'.hidden = dialog.hidden /\ dialog'.aborted = dialog.aborted
  BY <1>1 DEF EditorReturns, AskDialogs
<1>4. dialog.phase = "open" => view.tab = editing /\ view.typing /\ view.tab \in Questions
  BY <1>1, <1>2 DEF AskInv, EditorKeepsPlace
<1>5. dialog.phase # "open" => said' = said /\ field' = field
  BY DEF EditorReturns
<1>6. dialog.phase = "open" =>
       /\ said' \in AskSaid /\ said'.answers = said.answers /\ said'.notes = said.notes /\ Draft(said', view.tab) = text
       /\ \A p \in Questions : p # view.tab => Draft(said', p) = Draft(said, p)
       /\ field' = text
  <2>1. CASE dialog.phase = "open"
    <3>1. said' = [said EXCEPT !.drafts[view.tab] = text] /\ field' = text
      BY <2>1 DEF EditorReturns
    <3> QED
      BY <1>1, <1>4, <2>1, <3>1, DraftChanges
  <2>2. CASE dialog.phase # "open"
    BY <2>2
  <2> QED
    BY <2>1, <2>2
<1>7. Awaiting' = Awaiting
  BY <1>3 DEF Awaiting
<1>8. AskTypes'
  BY <1>1, <1>2, <1>3, <1>5, <1>6 DEF AskTypes
<1>9. RowsFit'
  BY <1>1, <1>2, <1>3, <1>4, <1>5, <1>6, <1>7 DEF AskInv, RowsFit
<1>10. TabsAgree'
  BY <1>1, <1>2, <1>3, <1>4, <1>5, <1>6 DEF AskInv, TabsAgree
<1>11. SaidIsSaved'
  BY <1>1, <1>2, <1>4, <1>5, <1>6 DEF AskInv, SaidIsSaved
<1>12. EditorKeepsPlace'
  BY <1>1, <1>2, <1>3, <1>4, <1>5, <1>6, <1>7 DEF AskInv, EditorKeepsPlace
<1>13. HiddenReopens'
  BY <1>1, <1>2, <1>3, <1>4, <1>5, <1>6, <1>7 DEF AskInv, HiddenReopens
<1>14. CallsEnd'
  BY <1>1, <1>2, <1>3, <1>4, <1>5, <1>6, <1>7 DEF AskInv, CallsEnd
<1>15. CallsBegin'
  BY <1>1, <1>2, <1>3, <1>4, <1>5, <1>6, <1>7 DEF AskInv, CallsBegin
<1> QED
  BY <1>8, <1>9, <1>10, <1>11, <1>12, <1>13, <1>14, <1>15 DEF AskInv

(* Text is typed. *)
LEMMA TypeTextKeeps ==
  ASSUME AskInv, NEW text \in Texts, TypeText(text)
  PROVE  AskInv'
<1>1. /\ view \in AskViews /\ said \in AskSaid /\ field \in Texts /\ dialog \in AskDialogs /\ editing \in Questions \union {0}
       /\ others \in Nat /\ others \in 0..MaxOthers /\ MaxOthers \in Nat /\ blocked \in BOOLEAN /\ 0 \notin Questions
  BY QuestionnaireAssumption, QuestionsAreTabs DEF AskInv, AskTypes
<1>2. dialog' = dialog /\ others' = others /\ blocked' = blocked /\ Awaiting' = Awaiting /\ dialog.phase = "open" /\ view.tab \in Questions /\ view.typing /\ view' = view /\ editing = 0 /\ ~view.collapsed /\ editing' = editing
  BY <1>1 DEF TypeText, OnQuestion, Reached, Awaiting
<1>3. said' = said /\ field' \in Texts
  BY DEF TypeText
<1>4. AskTypes'
  BY <1>1, <1>2, <1>3 DEF AskInv, AskTypes
<1>5. RowsFit'
  BY <1>1, <1>2, <1>3 DEF AskInv, RowsFit
<1>6. TabsAgree'
  BY <1>1, <1>2, <1>3 DEF AskInv, TabsAgree
<1>7. SaidIsSaved'
  BY <1>1, <1>2, <1>3 DEF AskInv, SaidIsSaved
<1>8. EditorKeepsPlace'
  BY <1>1, <1>2, <1>3 DEF AskInv, EditorKeepsPlace
<1>9. HiddenReopens'
  BY <1>1, <1>2, <1>3 DEF AskInv, HiddenReopens
<1>10. CallsEnd'
  BY <1>1, <1>2, <1>3 DEF AskInv, CallsEnd
<1>11. CallsBegin'
  BY <1>1, <1>2, <1>3 DEF AskInv, CallsBegin
<1> QED
  BY <1>4, <1>5, <1>6, <1>7, <1>8, <1>9, <1>10, <1>11 DEF AskInv

(* The text is cleared, and its draft. *)
LEMMA ClearTextKeeps ==
  ASSUME AskInv, ClearText
  PROVE  AskInv'
<1>1. /\ view \in AskViews /\ said \in AskSaid /\ field \in Texts /\ dialog \in AskDialogs /\ editing \in Questions \union {0}
       /\ others \in Nat /\ others \in 0..MaxOthers /\ MaxOthers \in Nat /\ blocked \in BOOLEAN /\ 0 \notin Questions
  BY QuestionnaireAssumption, QuestionsAreTabs DEF AskInv, AskTypes
<1>2. dialog' = dialog /\ others' = others /\ blocked' = blocked /\ Awaiting' = Awaiting /\ dialog.phase = "open" /\ view.tab \in Questions /\ view.typing /\ view' = view /\ editing = 0 /\ ~view.collapsed /\ editing' = editing
  BY <1>1 DEF ClearText, OnQuestion, Reached, Awaiting
<1>3. "" \in Texts /\ field' = ""
  BY DEF ClearText, Texts
<1>4. said' = [said EXCEPT !.drafts[view.tab] = ""]
  BY DEF ClearText
<1>5. /\ said' \in AskSaid /\ said'.answers = said.answers /\ said'.notes = said.notes /\ Draft(said', view.tab) = ""
       /\ \A p \in Questions : p # view.tab => Draft(said', p) = Draft(said, p)
  <2>1. said \in AskSaid /\ view.tab \in Questions /\ "" \in Texts
    BY <1>1, <1>2, <1>3
  <2> QED
    BY <1>4, <2>1, DraftChanges, ZenonT(60)
<1>6. AskTypes'
  BY <1>1, <1>2, <1>3, <1>4, <1>5 DEF AskInv, AskTypes
<1>7. RowsFit'
  BY <1>1, <1>2, <1>3, <1>4, <1>5 DEF AskInv, RowsFit
<1>8. TabsAgree'
  BY <1>1, <1>2, <1>3, <1>4, <1>5 DEF AskInv, TabsAgree
<1>9. SaidIsSaved'
  BY <1>1, <1>2, <1>3, <1>4, <1>5 DEF AskInv, SaidIsSaved
<1>10. EditorKeepsPlace'
  BY <1>1, <1>2, <1>3, <1>4, <1>5 DEF AskInv, EditorKeepsPlace
<1>11. HiddenReopens'
  BY <1>1, <1>2, <1>3, <1>4, <1>5 DEF AskInv, HiddenReopens
<1>12. CallsEnd'
  BY <1>1, <1>2, <1>3, <1>4, <1>5 DEF AskInv, CallsEnd
<1>13. CallsBegin'
  BY <1>1, <1>2, <1>3, <1>4, <1>5 DEF AskInv, CallsBegin
<1> QED
  BY <1>6, <1>7, <1>8, <1>9, <1>10, <1>11, <1>12, <1>13 DEF AskInv

(* An editor opens on the text. *)
LEMMA EditExternallyKeeps ==
  ASSUME AskInv, EditExternally
  PROVE  AskInv'
<1>1. /\ view \in AskViews /\ said \in AskSaid /\ field \in Texts /\ dialog \in AskDialogs /\ editing \in Questions \union {0}
       /\ others \in Nat /\ others \in 0..MaxOthers /\ MaxOthers \in Nat /\ blocked \in BOOLEAN /\ 0 \notin Questions
  BY QuestionnaireAssumption, QuestionsAreTabs DEF AskInv, AskTypes
<1>2. dialog' = dialog /\ others' = others /\ blocked' = blocked /\ Awaiting' = Awaiting /\ dialog.phase = "open" /\ view.tab \in Questions /\ view.typing /\ view' = view /\ editing = 0 /\ ~view.collapsed /\ editing' = view.tab
  BY <1>1 DEF EditExternally, OnQuestion, Reached, Awaiting
<1>3. said' = said /\ field' = field
  BY DEF EditExternally
<1>4. AskTypes'
  BY <1>1, <1>2, <1>3 DEF AskInv, AskTypes
<1>5. RowsFit'
  BY <1>1, <1>2, <1>3 DEF AskInv, RowsFit
<1>6. TabsAgree'
  BY <1>1, <1>2, <1>3 DEF AskInv, TabsAgree
<1>7. SaidIsSaved'
  BY <1>1, <1>2, <1>3 DEF AskInv, SaidIsSaved
<1>8. EditorKeepsPlace'
  BY <1>1, <1>2, <1>3 DEF AskInv, EditorKeepsPlace
<1>9. HiddenReopens'
  BY <1>1, <1>2, <1>3 DEF AskInv, HiddenReopens
<1>10. CallsEnd'
  BY <1>1, <1>2, <1>3 DEF AskInv, CallsEnd
<1>11. CallsBegin'
  BY <1>1, <1>2, <1>3 DEF AskInv, CallsBegin
<1> QED
  BY <1>4, <1>5, <1>6, <1>7, <1>8, <1>9, <1>10, <1>11 DEF AskInv

(* A note is begun. *)
LEMMA EnterNotesKeeps ==
  ASSUME AskInv, EnterNotes
  PROVE  AskInv'
<1>1. /\ view \in AskViews /\ said \in AskSaid /\ field \in Texts /\ dialog \in AskDialogs /\ editing \in Questions \union {0}
       /\ others \in Nat /\ others \in 0..MaxOthers /\ MaxOthers \in Nat /\ blocked \in BOOLEAN /\ 0 \notin Questions
  BY QuestionnaireAssumption, QuestionsAreTabs DEF AskInv, AskTypes
<1>2. dialog' = dialog /\ others' = others /\ blocked' = blocked /\ Awaiting' = Awaiting /\ dialog.phase = "open" /\ said' = said /\ field' = field /\ editing' = editing
  BY DEF EnterNotes, Awaiting, Reached
<1>3. view' \in AskViews /\ view'.tab = view.tab /\ view'.checked = view.checked /\ view'.row = view.row /\ view'.typing = view.typing /\ view'.collapsed = view.collapsed
  BY <1>1 DEF EnterNotes, AskViews
<1>4. AskTypes'
  BY <1>1, <1>2, <1>3 DEF AskInv, AskTypes
<1>5. RowsFit'
  BY <1>1, <1>2, <1>3 DEF AskInv, RowsFit
<1>6. TabsAgree'
  BY <1>1, <1>2, <1>3 DEF AskInv, TabsAgree
<1>7. SaidIsSaved'
  BY <1>1, <1>2, <1>3 DEF AskInv, SaidIsSaved
<1>8. EditorKeepsPlace'
  BY <1>1, <1>2, <1>3 DEF AskInv, EditorKeepsPlace
<1>9. HiddenReopens'
  BY <1>1, <1>2, <1>3 DEF AskInv, HiddenReopens
<1>10. CallsEnd'
  BY <1>1, <1>2, <1>3 DEF AskInv, CallsEnd
<1>11. CallsBegin'
  BY <1>1, <1>2, <1>3 DEF AskInv, CallsBegin
<1> QED
  BY <1>4, <1>5, <1>6, <1>7, <1>8, <1>9, <1>10, <1>11 DEF AskInv

(* Submit or cancel is chosen. *)
LEMMA ChooseSubmitKeeps ==
  ASSUME AskInv, ChooseSubmit
  PROVE  AskInv'
<1>1. /\ view \in AskViews /\ said \in AskSaid /\ field \in Texts /\ dialog \in AskDialogs /\ editing \in Questions \union {0}
       /\ others \in Nat /\ others \in 0..MaxOthers /\ MaxOthers \in Nat /\ blocked \in BOOLEAN /\ 0 \notin Questions
  BY QuestionnaireAssumption, QuestionsAreTabs DEF AskInv, AskTypes
<1>2. dialog' = dialog /\ others' = others /\ blocked' = blocked /\ Awaiting' = Awaiting /\ dialog.phase = "open" /\ said' = said /\ field' = field /\ editing' = editing
  BY DEF ChooseSubmit, Awaiting, Reached
<1>3. 3 - view.choice \in 1..2
  BY <1>1 DEF AskViews
<1>4. view' \in AskViews /\ view'.tab = view.tab /\ view'.checked = view.checked /\ view'.row = view.row /\ view'.typing = view.typing /\ view'.collapsed = view.collapsed
  BY <1>1, <1>3 DEF ChooseSubmit, AskViews
<1>5. AskTypes'
  BY <1>1, <1>2, <1>3, <1>4 DEF AskInv, AskTypes
<1>6. RowsFit'
  BY <1>1, <1>2, <1>3, <1>4 DEF AskInv, RowsFit
<1>7. TabsAgree'
  BY <1>1, <1>2, <1>3, <1>4 DEF AskInv, TabsAgree
<1>8. SaidIsSaved'
  BY <1>1, <1>2, <1>3, <1>4 DEF AskInv, SaidIsSaved
<1>9. EditorKeepsPlace'
  BY <1>1, <1>2, <1>3, <1>4 DEF AskInv, EditorKeepsPlace
<1>10. HiddenReopens'
  BY <1>1, <1>2, <1>3, <1>4 DEF AskInv, HiddenReopens
<1>11. CallsEnd'
  BY <1>1, <1>2, <1>3, <1>4 DEF AskInv, CallsEnd
<1>12. CallsBegin'
  BY <1>1, <1>2, <1>3, <1>4 DEF AskInv, CallsBegin
<1> QED
  BY <1>5, <1>6, <1>7, <1>8, <1>9, <1>10, <1>11, <1>12 DEF AskInv

(* A note reaches the answer of its question too, and nothing else. *)
LEMMA NotedTells ==
  ASSUME NEW s \in AskSaid, NEW t \in Tabs, NEW note \in Texts, said = s
  PROVE  /\ Noted(t, note) \in AskSaid
         /\ \A q \in Questions :
              /\ Noted(t, note).answers[q].text = s.answers[q].text /\ Noted(t, note).answers[q].selected = s.answers[q].selected
              /\ Noted(t, note).answers[q].kind = s.answers[q].kind /\ Draft(Noted(t, note), q) = Draft(s, q)
              /\ Noted(t, note).notes[q] = (IF q = t THEN note ELSE s.notes[q])
              /\ Noted(t, note).answers[q].note = (IF q = t /\ s.answers[q].kind # "none" THEN note ELSE s.answers[q].note)
<1> DEFINE n == Noted(t, note)
           a == [q \in Questions |-> IF q = t /\ s.answers[q].kind # "none" THEN [s.answers[q] EXCEPT !.note = note] ELSE s.answers[q]]
<1>1. n.answers = a /\ n.drafts = s.drafts /\ n.notes = [s.notes EXCEPT ![t] = note]
  BY DEF Noted, AskSaid
<1>2. ASSUME NEW q \in Questions
      PROVE  /\ a[q] \in AskAnswers /\ a[q].text = s.answers[q].text /\ a[q].selected = s.answers[q].selected
             /\ a[q].kind = s.answers[q].kind
             /\ a[q].note = (IF q = t /\ s.answers[q].kind # "none" THEN note ELSE s.answers[q].note)
  <2>1. s.answers[q] \in AskAnswers
    BY DEF AskSaid
  <2>2. CASE q = t /\ s.answers[q].kind # "none"
    <3>1. a[q] = [s.answers[q] EXCEPT !.note = note]
      BY <2>2
    <3> QED
      BY <2>1, <2>2, <3>1 DEF AskAnswers
  <2>3. CASE ~(q = t /\ s.answers[q].kind # "none")
    <3>1. a[q] = s.answers[q]
      BY <2>3
    <3> QED
      BY <2>1, <2>3, <3>1 DEF AskAnswers
  <2> QED
    BY <2>2, <2>3
<1>3. a \in [Questions -> AskAnswers]
  BY <1>2
<1> HIDE DEF a
<1>4. n \in AskSaid
  BY <1>1, <1>3 DEF Noted, AskSaid, a
<1> HIDE DEF n
<1>5. \A q \in Questions : n.notes[q] = IF q = t THEN note ELSE s.notes[q]
  BY <1>1, QuestionsAreTabs DEF AskSaid
<1>6. \A q \in Questions : Draft(n, q) = Draft(s, q)
  BY <1>1, <1>2, <1>4, DraftIsText
<1> QED
  BY <1>1, <1>2, <1>4, <1>5, <1>6 DEF n

(* A note is kept, in the answer of its question too. *)
LEMMA ExitNotesKeeps ==
  ASSUME AskInv, NEW note \in Texts, ExitNotes(note)
  PROVE  AskInv'
<1>1. /\ view \in AskViews /\ said \in AskSaid /\ field \in Texts /\ dialog \in AskDialogs /\ editing \in Questions \union {0}
       /\ others \in Nat /\ others \in 0..MaxOthers /\ MaxOthers \in Nat /\ blocked \in BOOLEAN /\ 0 \notin Questions
  BY QuestionnaireAssumption, QuestionsAreTabs DEF AskInv, AskTypes
<1>2. dialog' = dialog /\ others' = others /\ blocked' = blocked /\ Awaiting' = Awaiting /\ dialog.phase = "open" /\ field' = field /\ editing' = editing
  BY DEF ExitNotes, Awaiting, Reached
<1>3. view' \in AskViews /\ view'.tab = view.tab /\ view'.checked = view.checked /\ view'.row = view.row /\ view'.typing = view.typing /\ view'.collapsed = view.collapsed
  BY <1>1 DEF ExitNotes, AskViews
<1>4. view.tab \in Tabs /\ said' = Noted(view.tab, note)
  BY <1>1 DEF ExitNotes, AskViews
<1>5. /\ said' \in AskSaid
      /\ \A q \in Questions :
              /\ said'.answers[q].text = said.answers[q].text /\ said'.answers[q].selected = said.answers[q].selected
              /\ said'.answers[q].kind = said.answers[q].kind /\ Draft(said', q) = Draft(said, q)
              /\ said'.notes[q] = (IF q = view.tab THEN note ELSE said.notes[q])
              /\ said'.answers[q].note = (IF q = view.tab /\ said.answers[q].kind # "none" THEN note ELSE said.answers[q].note)
  BY <1>1, <1>4, NotedTells
<1>6. AskTypes'
  BY <1>1, <1>2, <1>3, <1>4, <1>5 DEF AskInv, AskTypes
<1>7. RowsFit'
  BY <1>1, <1>2, <1>3, <1>4, <1>5 DEF AskInv, RowsFit
<1>8. TabsAgree'
  BY <1>1, <1>2, <1>3, <1>4, <1>5 DEF AskInv, TabsAgree
<1>9. SaidIsSaved'
  BY <1>1, <1>2, <1>3, <1>4, <1>5 DEF AskInv, SaidIsSaved
<1>10. EditorKeepsPlace'
  BY <1>1, <1>2, <1>3, <1>4, <1>5 DEF AskInv, EditorKeepsPlace
<1>11. HiddenReopens'
  BY <1>1, <1>2, <1>3, <1>4, <1>5 DEF AskInv, HiddenReopens
<1>12. CallsEnd'
  BY <1>1, <1>2, <1>3, <1>4, <1>5 DEF AskInv, CallsEnd
<1>13. CallsBegin'
  BY <1>1, <1>2, <1>3, <1>4, <1>5 DEF AskInv, CallsBegin
<1> QED
  BY <1>6, <1>7, <1>8, <1>9, <1>10, <1>11, <1>12, <1>13 DEF AskInv

-----------------------------------------------------------------------------
(* A tab that is entered shows what its question keeps. *)
LEMMA SwitchTells ==
  ASSUME NEW s \in AskSaid, NEW t \in Tabs, view \in AskViews, SwitchTo(s, t)
  PROVE  /\ view' \in AskViews /\ view'.tab = t /\ view'.row = 1 /\ ~view'.typing /\ view'.collapsed = view.collapsed /\ field' \in Texts
         /\ t \in Questions => /\ field' = Draft(s, t)
                              /\ view'.checked = IF IsMulti(t) THEN s.answers[t].selected ELSE {}
<1>1. ChecksOf(s, t) \in SUBSET Options /\ (t \in Questions => ChecksOf(s, t) = IF IsMulti(t) THEN s.answers[t].selected ELSE {})
  BY DEF ChecksOf, AskSaid, AskAnswers
<1>2. field' = Draft(s, t) /\ field' \in Texts
  <2>1. CASE t \in Questions
    BY <2>1, DraftIsText DEF SwitchTo
  <2>2. CASE t \notin Questions
    BY <2>2 DEF SwitchTo, Draft, Texts
  <2> QED
    BY <2>1, <2>2
<1>3. 1 \in 1..NextRow /\ 1 \in 1..2
  BY QuestionnaireAssumption DEF NextRow
<1>4. view' = [view EXCEPT !.tab = t, !.row = 1, !.typing = FALSE, !.noting = FALSE, !.choice = 1, !.checked = ChecksOf(s, t)]
  BY DEF SwitchTo
<1>5. view' \in AskViews /\ view'.tab = t /\ view'.row = 1 /\ ~view'.typing /\ view'.collapsed = view.collapsed /\ view'.checked = ChecksOf(s, t)
  BY <1>1, <1>3, <1>4 DEF AskViews
<1> QED
  BY <1>1, <1>2, <1>5

(* A box is toggled, and the answer follows. *)
LEMMA ToggleKeeps ==
  ASSUME AskInv, Toggle
  PROVE  AskInv'
<1>1. /\ view \in AskViews /\ said \in AskSaid /\ field \in Texts /\ dialog \in AskDialogs /\ editing \in Questions \union {0}
       /\ others \in Nat /\ others \in 0..MaxOthers /\ MaxOthers \in Nat /\ blocked \in BOOLEAN /\ 0 \notin Questions
  BY QuestionnaireAssumption, QuestionsAreTabs DEF AskInv, AskTypes
<1>2. dialog' = dialog /\ others' = others /\ blocked' = blocked /\ Awaiting' = Awaiting /\ dialog.phase = "open" /\ field' = field /\ editing' = editing /\ view.tab \in Questions /\ IsMulti(view.tab) /\ view.row \in Options /\ ~view.typing /\ editing = 0
  BY DEF Toggle, Awaiting, OnQuestion, Reached
<1>3. PICK checks \in SUBSET Options : view' = [view EXCEPT !.checked = checks] /\ said' = Persisted(said, view.tab, checks)
  BY <1>1, <1>2 DEF Toggle, AskViews
<1>4. view' \in AskViews /\ view'.tab = view.tab /\ view'.checked = checks /\ view'.row = view.row /\ view'.typing = view.typing /\ ~view'.typing /\ view'.collapsed = view.collapsed
  BY <1>1, <1>2, <1>3 DEF AskViews
<1>5. /\ said' \in AskSaid /\ said'.notes = said.notes
      /\ \A p \in Questions : p # view.tab => said'.answers[p] = said.answers[p] /\ Draft(said', p) = Draft(said, p)
      /\ said'.answers[view.tab].selected = checks /\ said'.answers[view.tab].text = Draft(said, view.tab) /\ Draft(said', view.tab) = Draft(said, view.tab)
      /\ said'.answers[view.tab].kind # "none" => said'.answers[view.tab].note = said.notes[view.tab]
  BY <1>1, <1>2, <1>3, PersistedTells
<1>6. field' = Draft(said', view'.tab)
  BY <1>2, <1>4, <1>5 DEF AskInv, TabsAgree
<1>7. AskTypes'
  BY <1>1, <1>2, <1>3, <1>4, <1>5, <1>6 DEF AskInv, AskTypes
<1>8. RowsFit'
  BY <1>4 DEF AskInv, RowsFit
<1>9. TabsAgree'
  BY <1>2, <1>4, <1>5, <1>6 DEF TabsAgree
<1>10. SaidIsSaved'
  BY <1>2, <1>4, <1>5 DEF AskInv, SaidIsSaved
<1>11. EditorKeepsPlace'
  BY <1>1, <1>2, <1>3, <1>4, <1>5, <1>6 DEF AskInv, EditorKeepsPlace
<1>12. HiddenReopens'
  BY <1>1, <1>2, <1>3, <1>4, <1>5, <1>6 DEF AskInv, HiddenReopens
<1>13. CallsEnd'
  BY <1>1, <1>2, <1>3, <1>4, <1>5, <1>6 DEF AskInv, CallsEnd
<1>14. CallsBegin'
  BY <1>1, <1>2, <1>3, <1>4, <1>5, <1>6 DEF AskInv, CallsBegin
<1> QED
  BY <1>7, <1>8, <1>9, <1>10, <1>11, <1>12, <1>13, <1>14 DEF AskInv

(* The next or the previous tab is entered. *)
LEMMA SwitchTabKeeps ==
  ASSUME AskInv, NEW step \in {1, SubmitTab - 1}, SwitchTab(step)
  PROVE  AskInv'
<1>1. /\ view \in AskViews /\ said \in AskSaid /\ field \in Texts /\ dialog \in AskDialogs /\ editing \in Questions \union {0}
       /\ others \in Nat /\ others \in 0..MaxOthers /\ MaxOthers \in Nat /\ blocked \in BOOLEAN /\ 0 \notin Questions
  BY QuestionnaireAssumption, QuestionsAreTabs DEF AskInv, AskTypes
<1>2. dialog' = dialog /\ others' = others /\ blocked' = blocked /\ Awaiting' = Awaiting /\ dialog.phase = "open" /\ said' = said /\ editing' = editing /\ ~view.typing /\ editing = 0 /\ Tabs # Questions
  BY DEF SwitchTab, Awaiting, Reached
<1>3. PICK t \in Tabs : SwitchTo(said, t)
  <2> DEFINE n == view.tab - 1 + step
  <2>1. SubmitTab \in Nat \ {0} /\ view.tab \in 1..SubmitTab /\ step \in Nat
    BY <1>1, <1>2, QuestionsAreTabs DEF AskViews
  <2>2. n \in Nat
    BY <2>1
  <2> HIDE DEF n
  <2>3. n % SubmitTab \in 0..(SubmitTab - 1)
    BY <2>1, <2>2
  <2>4. (n % SubmitTab) + 1 \in Tabs
    BY <1>2, <2>1, <2>3, QuestionsAreTabs
  <2> QED
    BY <2>4 DEF SwitchTab, n
<1>4. /\ view' \in AskViews /\ view'.tab = t /\ view'.row = 1 /\ ~view'.typing /\ view'.collapsed = view.collapsed /\ field' \in Texts
      /\ t \in Questions => /\ field' = Draft(said, t)
                              /\ view'.checked = IF IsMulti(t) THEN said.answers[t].selected ELSE {}
  BY <1>1, <1>3, SwitchTells
<1>5. AskTypes'
  BY <1>1, <1>2, <1>4 DEF AskTypes
<1>6. RowsFit'
  BY <1>4, FirstRowFits DEF RowsFit
<1>7. TabsAgree'
  BY <1>2, <1>4 DEF TabsAgree
<1>8. SaidIsSaved'
  BY <1>1, <1>2, <1>3, <1>4 DEF AskInv, SaidIsSaved
<1>9. EditorKeepsPlace'
  BY <1>1, <1>2, <1>3, <1>4 DEF AskInv, EditorKeepsPlace
<1>10. HiddenReopens'
  BY <1>2, <1>4 DEF AskInv, HiddenReopens
<1>11. CallsEnd'
  BY <1>1, <1>2, <1>3, <1>4 DEF AskInv, CallsEnd
<1>12. CallsBegin'
  BY <1>1, <1>2, <1>3, <1>4 DEF AskInv, CallsBegin
<1> QED
  BY <1>5, <1>6, <1>7, <1>8, <1>9, <1>10, <1>11, <1>12 DEF AskInv

(* What a confirmation keeps: an answer of its kind, and no draft besides, unless an option was chosen. *)
SaidOnConfirm ==
  [said EXCEPT !.answers[view.tab] = Confirmed, !.drafts[view.tab] = IF Confirmed.kind = "option" THEN @ ELSE Absent]
LEMMA ConfirmedTells ==
  ASSUME AskInv, OnQuestion, NEW q, q = view.tab, NEW s, s = SaidOnConfirm,
         ~IsMulti(q) /\ ~view.typing => view.row \in Options
  PROVE  /\ s \in AskSaid /\ s.notes = said.notes /\ s.answers[q].note = said.notes[q]
         /\ \A p \in Questions : p # q => s.answers[p] = said.answers[p] /\ Draft(s, p) = Draft(said, p)
         /\ IsMulti(q) => s.answers[q].text = Draft(s, q)
<1>1. view \in AskViews /\ said \in AskSaid /\ field \in Texts /\ q \in Questions /\ q \in Tabs
  BY QuestionsAreTabs DEF AskInv, AskTypes, OnQuestion
<1>2. said.notes[q] \in Texts /\ "" \in Texts
  BY <1>1 DEF AskSaid, Texts
<1>3. Confirmed \in AskAnswers /\ Confirmed.note = said.notes[q] /\ (IsMulti(q) => Confirmed.kind = "multi")
  <2>1. CASE IsMulti(q)
    BY <1>1, <1>2, <2>1 DEF Confirmed, MultiAnswer, AskAnswers, AskViews
  <2>2. CASE ~IsMulti(q) /\ view.typing
    BY <1>1, <1>2, <2>2 DEF Confirmed, AskAnswers, AskViews
  <2>3. CASE ~IsMulti(q) /\ ~view.typing
    <3>1. {view.row} \in SUBSET Options
      BY <2>3
    <3> QED
      BY <1>1, <1>2, <2>3, <3>1 DEF Confirmed, AskAnswers, AskViews
  <2> QED
    BY <2>1, <2>2, <2>3
<1>4. PICK d \in Texts \union {Absent} : d = IF Confirmed.kind = "option" THEN said.drafts[q] ELSE Absent
  BY <1>1 DEF AskSaid
<1> DEFINE t == [said EXCEPT !.answers[q] = Confirmed]
<1>5. /\ t \in AskSaid /\ t.drafts = said.drafts /\ t.notes = said.notes /\ t.answers[q] = Confirmed
      /\ \A p \in Questions : p # q => t.answers[p] = said.answers[p]
  BY <1>1, <1>3, AnswerChanges
<1>6. s.answers = t.answers /\ s.notes = t.notes /\ s.drafts = [said.drafts EXCEPT ![q] = d]
  BY <1>1, <1>4 DEF AskSaid, SaidOnConfirm
<1>7. s = [answers |-> s.answers, drafts |-> s.drafts, notes |-> s.notes]
  BY <1>1 DEF AskSaid, SaidOnConfirm
<1> HIDE DEF t
<1>8. s.answers \in [Questions -> AskAnswers] /\ s.notes \in [Tabs -> Texts]
  BY <1>5, <1>6 DEF AskSaid
<1>9. s.drafts \in [Questions -> Texts \union {Absent}] /\ \A p \in Questions : s.drafts[p] = IF p = q THEN d ELSE said.drafts[p]
  BY <1>1, <1>6 DEF AskSaid
<1>10. s \in AskSaid
  BY <1>7, <1>8, <1>9 DEF AskSaid
<1>11. \A p \in Questions : p # q => Draft(s, p) = Draft(said, p)
  BY <1>5, <1>6, <1>9 DEF Draft
<1>12. IsMulti(q) => s.answers[q].text = Draft(s, q)
  <2>1. IsMulti(q) => d = Absent /\ s.drafts[q] = d
    BY <1>1, <1>3, <1>4, <1>9
  <2> QED
    BY <1>1, <2>1 DEF Draft
<1> QED
  BY <1>3, <1>5, <1>6, <1>10, <1>11, <1>12

(* A confirmed question is answered, and the next tab entered. *)
LEMMA ConfirmMovesKeeps ==
  ASSUME AskInv, Confirm /\ Tabs # Questions
  PROVE  AskInv'
<1>1. /\ view \in AskViews /\ said \in AskSaid /\ field \in Texts /\ dialog \in AskDialogs /\ editing \in Questions \union {0}
       /\ others \in Nat /\ others \in 0..MaxOthers /\ MaxOthers \in Nat /\ blocked \in BOOLEAN /\ 0 \notin Questions
  BY QuestionnaireAssumption, QuestionsAreTabs DEF AskInv, AskTypes
<1>2. dialog' = dialog /\ others' = others /\ blocked' = blocked /\ Awaiting' = Awaiting /\ dialog.phase = "open" /\ editing' = editing /\ view.tab \in Questions /\ editing = 0 /\ OnQuestion
  BY DEF Confirm, Awaiting, OnQuestion, Reached
<1>3. ~IsMulti(view.tab) /\ ~view.typing => view.row \in Options
  <2>1. view.row \in Nat /\ OptionCount \in Nat
    BY <1>1, QuestionnaireAssumption DEF AskViews
  <2> QED
    BY <1>2, <2>1 DEF AskInv, RowsFit, Rows, OtherRow, Options
<1>4. PICK s : s = SaidOnConfirm
  OBVIOUS
<1>5. said' = s /\ SwitchTo(s, view.tab + 1)
  BY <1>2, <1>4 DEF Confirm, SaidOnConfirm
<1>6. /\ s \in AskSaid /\ s.notes = said.notes /\ s.answers[view.tab].note = said.notes[view.tab]
      /\ \A p \in Questions : p # view.tab => s.answers[p] = said.answers[p] /\ Draft(s, p) = Draft(said, p)
      /\ IsMulti(view.tab) => s.answers[view.tab].text = Draft(s, view.tab)
  BY <1>2, <1>3, <1>4, ConfirmedTells
<1>7. view.tab + 1 \in Tabs /\ view.tab # view.tab + 1
  BY <1>2, QuestionsAreTabs DEF Questions
<1>8. PICK t \in Tabs : t = view.tab + 1
  BY <1>7
<1>9. /\ view' \in AskViews /\ view'.tab = t /\ view'.row = 1 /\ ~view'.typing /\ view'.collapsed = view.collapsed /\ field' \in Texts
      /\ t \in Questions => /\ field' = Draft(s, t)
                              /\ view'.checked = IF IsMulti(t) THEN s.answers[t].selected ELSE {}
  BY <1>1, <1>5, <1>6, <1>8, SwitchTells
<1>10. AskTypes'
  BY <1>1, <1>2, <1>5, <1>6, <1>9 DEF AskTypes
<1>11. RowsFit'
  BY <1>9, FirstRowFits DEF RowsFit
<1>12. TabsAgree'
  BY <1>2, <1>5, <1>9 DEF TabsAgree
<1>13. SaidIsSaved'
  <2>1. ASSUME NEW p \in Questions
        PROVE  /\ IsMulti(p) => said'.answers[p].text = Draft(said', p)
               /\ said'.answers[p].kind # "none" => said'.answers[p].note = said'.notes[p]
    <3>1. CASE p = view.tab
      BY <1>5, <1>6, <3>1
    <3>2. CASE p # view.tab
      BY <1>5, <1>6, <3>2 DEF AskInv, SaidIsSaved
    <3> QED
      BY <3>1, <3>2
  <2> QED
    BY <2>1 DEF SaidIsSaved
<1>14. EditorKeepsPlace'
  BY <1>2 DEF EditorKeepsPlace
<1>15. HiddenReopens'
  BY <1>2, <1>9 DEF AskInv, HiddenReopens
<1>16. CallsEnd'
  BY <1>2 DEF AskInv, CallsEnd
<1>17. CallsBegin'
  BY <1>2 DEF AskInv, CallsBegin
<1> QED
  BY <1>10, <1>11, <1>12, <1>13, <1>14, <1>15, <1>16, <1>17 DEF AskInv

(* The only question ends the dialog when it is confirmed. *)
LEMMA ConfirmEndsKeeps ==
  ASSUME AskInv, Confirm /\ Tabs = Questions
  PROVE  AskInv'
<1>1. /\ view \in AskViews /\ said \in AskSaid /\ field \in Texts /\ dialog \in AskDialogs /\ editing \in Questions \union {0}
       /\ others \in Nat /\ others \in 0..MaxOthers /\ MaxOthers \in Nat /\ blocked \in BOOLEAN /\ 0 \notin Questions
  BY QuestionnaireAssumption, QuestionsAreTabs DEF AskInv, AskTypes
<1>2. dialog.phase = "open" /\ editing' = editing /\ others' = others /\ blocked' = blocked
  BY DEF Confirm, OnQuestion, Reached
<1>3. view' = FreshView /\ said' = NothingSaved /\ field' = "" /\ dialog' \in AskDialogs /\ dialog'.phase = (IF editing = 0 THEN "done" ELSE "closing")
  BY FinishTells, FALSE \in BOOLEAN DEF Confirm
<1>4. Awaiting' = 1 /\ Awaiting = 1
  BY <1>2, <1>3 DEF Awaiting
<1>5. AskTypes'
  BY <1>1, <1>2, <1>3, NothingSavedIsSaid DEF AskTypes
<1>6. RowsFit'
  BY <1>3, FreshAgrees
<1>7. TabsAgree'
  BY <1>3, FreshAgrees
<1>8. SaidIsSaved'
  BY <1>3, FreshAgrees
<1>9. EditorKeepsPlace'
  BY <1>1, <1>2, <1>3, <1>4 DEF AskInv, EditorKeepsPlace
<1>10. HiddenReopens'
  BY <1>1, <1>2, <1>3, <1>4 DEF AskInv, HiddenReopens
<1>11. CallsEnd'
  BY <1>2, <1>3, <1>4 DEF AskInv, CallsEnd
<1>12. CallsBegin'
  BY <1>2, <1>3 DEF CallsBegin
<1> QED
  BY <1>5, <1>6, <1>7, <1>8, <1>9, <1>10, <1>11, <1>12 DEF AskInv

(* A text that is left becomes the draft of its question, and the answer of a multi-select one. *)
LeftSaid ==
  LET drafted == IF view.typing THEN [said EXCEPT !.drafts[view.tab] = field] ELSE said
  IN IF view.typing /\ IsMulti(view.tab) THEN Persisted(drafted, view.tab, view.checked) ELSE drafted
LEMMA LeftTells ==
  ASSUME AskInv, OnQuestion, NEW q, q = view.tab, NEW s, s = LeftSaid
  PROVE  /\ s \in AskSaid /\ s.notes = said.notes /\ s.answers[q].selected = said.answers[q].selected
         /\ \A p \in Questions : p # q => s.answers[p] = said.answers[p] /\ Draft(s, p) = Draft(said, p)
         /\ Draft(s, q) = field /\ (IsMulti(q) => s.answers[q].text = field)
         /\ s.answers[q].kind # "none" => s.answers[q].note = said.notes[q]
         /\ view.typing => Draft([said EXCEPT !.drafts[q] = field], q) = field
<1>1. view \in AskViews /\ said \in AskSaid /\ field \in Texts /\ q \in Questions /\ dialog.phase = "open"
  BY DEF AskInv, AskTypes, OnQuestion, Reached
<1>2. view.checked \in SUBSET Options
  BY <1>1 DEF AskViews
<1>3. /\ ~view.typing => field = Draft(said, q)
      /\ IsMulti(q) => view.checked = said.answers[q].selected
  BY <1>1 DEF AskInv, TabsAgree
<1>4. /\ IsMulti(q) /\ ~view.typing => said.answers[q].text = Draft(said, q)
      /\ said.answers[q].kind # "none" => said.answers[q].note = said.notes[q]
  BY <1>1 DEF AskInv, SaidIsSaved
<1>5. CASE ~view.typing
  <2>1. s = said
    BY <1>5 DEF LeftSaid
  <2> QED
    BY <1>1, <1>3, <1>4, <1>5, <2>1
<1>6. CASE view.typing
  <2>1. PICK d : d = [said EXCEPT !.drafts[q] = field]
    OBVIOUS
  <2>2. /\ d \in AskSaid /\ Draft(d, q) = field /\ d.answers = said.answers /\ d.notes = said.notes
        /\ \A p \in Questions : p # q => Draft(d, p) = Draft(said, p)
    BY <1>1, <2>1, DraftChanges
  <2>3. CASE ~IsMulti(q)
    <3>1. s = d
      BY <1>6, <2>1, <2>3 DEF LeftSaid
    <3> QED
      BY <1>4, <2>1, <2>2, <2>3, <3>1
  <2>4. CASE IsMulti(q)
    <3>1. s = Persisted(d, q, view.checked)
      BY <1>6, <2>1, <2>4 DEF LeftSaid
    <3>2. /\ s \in AskSaid /\ s.notes = d.notes
          /\ \A p \in Questions : p # q => s.answers[p] = d.answers[p] /\ Draft(s, p) = Draft(d, p)
          /\ s.answers[q].selected = view.checked /\ s.answers[q].text = Draft(d, q) /\ Draft(s, q) = Draft(d, q)
          /\ s.answers[q].kind # "none" => s.answers[q].note = d.notes[q]
      BY <1>1, <1>2, <2>2, <3>1, PersistedTells
    <3> QED
      BY <1>1, <1>3, <2>1, <2>2, <2>4, <3>2
  <2> QED
    BY <2>3, <2>4
<1> QED
  BY <1>5, <1>6

(* The cursor moves around the rows, and a text that is left is kept. *)
LEMMA NavKeeps ==
  ASSUME AskInv, NEW down \in BOOLEAN, Nav(down)
  PROVE  AskInv'
<1>1. /\ view \in AskViews /\ said \in AskSaid /\ field \in Texts /\ dialog \in AskDialogs /\ editing \in Questions \union {0}
       /\ others \in Nat /\ others \in 0..MaxOthers /\ MaxOthers \in Nat /\ blocked \in BOOLEAN /\ 0 \notin Questions
  BY QuestionnaireAssumption, QuestionsAreTabs DEF AskInv, AskTypes
<1>2. dialog' = dialog /\ others' = others /\ blocked' = blocked /\ Awaiting' = Awaiting /\ dialog.phase = "open" /\ editing' = editing /\ view.tab \in Questions /\ editing = 0 /\ ~view.collapsed /\ OnQuestion
  BY DEF Nav, Awaiting, OnQuestion, Reached
<1>3. said' = LeftSaid
  BY DEF Nav, LeftSaid
<1>4. PICK s : s = said'
  OBVIOUS
<1>5. PICK q \in Questions : q = view.tab
  BY <1>2
<1>6. /\ s \in AskSaid /\ s.notes = said.notes /\ s.answers[q].selected = said.answers[q].selected
      /\ \A p \in Questions : p # q => s.answers[p] = said.answers[p] /\ Draft(s, p) = Draft(said, p)
      /\ Draft(s, q) = field /\ (IsMulti(q) => s.answers[q].text = field)
      /\ s.answers[q].kind # "none" => s.answers[q].note = said.notes[q]
      /\ view.typing => Draft([said EXCEPT !.drafts[q] = field], q) = field
  BY <1>2, <1>3, <1>4, <1>5, LeftTells
<1>7. PICK row \in Rows(q) : /\ view' = [view EXCEPT !.row = row, !.typing = (row = OtherRow)]
                             /\ field' = IF row = OtherRow THEN Draft(IF view.typing THEN [said EXCEPT !.drafts[q] = field] ELSE said, q) ELSE field
  <2> DEFINE n == IF IsMulti(q) THEN NextRow ELSE OtherRow
            m == view.row - 1 + IF down THEN 1 ELSE n - 1
  <2>1. n \in Nat \ {0} /\ Rows(q) = 1..n
    BY QuestionnaireAssumption DEF NextRow, OtherRow, Rows
  <2>2. view.row \in Nat \ {0}
    BY <1>1, QuestionnaireAssumption DEF AskViews, NextRow
  <2> HIDE DEF n
  <2>3. m \in Nat
    BY <2>1, <2>2
  <2> HIDE DEF m
  <2>4. m % n \in 0..(n - 1)
    BY <2>1, <2>3
  <2>5. (m % n) + 1 \in Rows(q)
    BY <2>1, <2>4
  <2> QED
    BY <1>5, <2>5 DEF Nav, n, m
<1>8. OtherRow \in Nat /\ row \in 1..NextRow
  BY QuestionnaireAssumption DEF Rows, NextRow, OtherRow
<1>9. (row = OtherRow) \in BOOLEAN
  OBVIOUS
<1>10. view' \in AskViews /\ view'.tab = q /\ view'.checked = view.checked /\ view'.row = row /\ (view'.typing <=> row = OtherRow) /\ view'.collapsed = view.collapsed
  BY <1>1, <1>5, <1>7, <1>8, <1>9 DEF AskViews
<1>11. ~view.typing => Draft(said, q) = field
  BY <1>1, <1>2, <1>5 DEF AskInv, TabsAgree
<1>12. field' = field
  BY <1>6, <1>7, <1>11
<1>13. AskTypes'
  BY <1>1, <1>2, <1>4, <1>6, <1>10, <1>12 DEF AskTypes
<1>14. RowsFit'
  BY <1>10 DEF RowsFit
<1>15. TabsAgree'
  <2>1. view'.checked = IF IsMulti(q) THEN said'.answers[q].selected ELSE {}
    BY <1>2, <1>4, <1>5, <1>6, <1>10 DEF AskInv, TabsAgree
  <2> QED
    BY <1>4, <1>6, <1>10, <1>12, <2>1 DEF TabsAgree
<1>16. SaidIsSaved'
  <2>1. ASSUME NEW p \in Questions
        PROVE  /\ IsMulti(p) /\ (p # q \/ ~view'.typing) => said'.answers[p].text = Draft(said', p)
               /\ said'.answers[p].kind # "none" => said'.answers[p].note = said'.notes[p]
    <3>1. CASE p = q
      BY <1>4, <1>6, <3>1
    <3>2. CASE p # q
      BY <1>4, <1>5, <1>6, <3>2 DEF AskInv, SaidIsSaved
    <3> QED
      BY <3>1, <3>2
  <2> QED
    BY <1>10, <2>1 DEF SaidIsSaved
<1>17. EditorKeepsPlace'
  BY <1>2 DEF EditorKeepsPlace
<1>18. HiddenReopens'
  BY <1>2, <1>10 DEF AskInv, HiddenReopens
<1>19. CallsEnd'
  BY <1>2 DEF AskInv, CallsEnd
<1>20. CallsBegin'
  BY <1>2 DEF AskInv, CallsBegin
<1> QED
  BY <1>13, <1>14, <1>15, <1>16, <1>17, <1>18, <1>19, <1>20 DEF AskInv

(* Nothing but a step of the dialog, its editor or its call changes what they keep. *)
LEMMA AskStutters ==
  ASSUME AskInv, UNCHANGED askVars
  PROVE  AskInv'
  BY DEF AskInv, AskTypes, RowsFit, TabsAgree, SaidIsSaved, EditorKeepsPlace, HiddenReopens, CallsEnd, CallsBegin, Awaiting, askVars

-----------------------------------------------------------------------------
(* QuestionnaireSound: what a tab shows is what its question keeps, what was said is what would be submitted, the text of
   an external editor goes to the question it was opened for, a hidden overlay can be brought back, and a call that is over
   leaves nothing behind (key-router.ts, state-reducer.ts, questionnaire-session.ts, ask-user-question.ts), for any number
   of questions, options and questionnaires. *)
THEOREM QuestionsAreSound == AskSpec => []QuestionnaireSound
<1>1. ASSUME AskInit
      PROVE  AskInv
  <2>1. view = FreshView /\ said = NothingSaved /\ field = "" /\ editing = 0 /\ others = 0 /\ blocked = FALSE
        /\ dialog = [phase |-> "called", overlay |-> FALSE, listener |-> FALSE, hidden |-> FALSE, aborted |-> FALSE, result |-> "none"]
    BY <1>1 DEF AskInit
  <2>2. AskTypes
    <3>1. MaxOthers \in Nat /\ 0 \in 0..MaxOthers
      BY QuestionnaireAssumption
    <3>2. dialog \in AskDialogs
      BY <2>1 DEF AskDialogs
    <3> QED
      BY <2>1, <3>1, <3>2, NothingSavedIsSaid DEF AskTypes
  <2>3. RowsFit
    BY <2>1, FirstRowFits DEF RowsFit, FreshView
  <2>4. NoAnswer.text = "" /\ NoAnswer.selected = {} /\ NoAnswer.kind = "none" /\ view.tab = 1 /\ view.checked = {}
    BY <2>1 DEF NoAnswer, FreshView
  <2>5. TabsAgree /\ SaidIsSaved
    BY <2>1, <2>4, NothingSavedIsSaid, QuestionsAreTabs DEF TabsAgree, SaidIsSaved
  <2>6. EditorKeepsPlace /\ HiddenReopens /\ CallsBegin
    BY <2>1 DEF EditorKeepsPlace, HiddenReopens, CallsBegin
  <2>7. CallsEnd
    <3>1. Awaiting = 0 /\ others = 0
      BY <2>1 DEF Awaiting
    <3>2. blocked = FALSE /\ dialog.phase = "called"
      BY <2>1
    <3>3. (others + Awaiting > 0) = FALSE
      BY <3>1
    <3>4. blocked = (others + Awaiting > 0)
      BY <3>2, <3>3
    <3> QED
      BY <2>1, <3>4 DEF CallsEnd
  <2> QED
    BY <2>2, <2>3, <2>5, <2>6, <2>7 DEF AskInv
<1>2. ASSUME AskInv, AskNext
      PROVE  AskInv'
  <2>1. CASE \E down \in BOOLEAN : Nav(down)
    BY <1>2, <2>1, NavKeeps
  <2>2. CASE \E text \in Texts : TypeText(text)
    BY <1>2, <2>2, TypeTextKeeps
  <2>3. CASE ClearText
    BY <1>2, <2>3, ClearTextKeeps
  <2>4. CASE EditExternally
    BY <1>2, <2>4, EditExternallyKeeps
  <2>5. CASE \E text \in Texts : EditorReturns(text)
    BY <1>2, <2>5, EditorReturnsKeeps
  <2>6. CASE EditorFails
    BY <1>2, <2>6, EditorFailsKeeps
  <2>7. CASE \E step \in {1, SubmitTab - 1} : SwitchTab(step)
    BY <1>2, <2>7, SwitchTabKeeps
  <2>8. CASE Confirm
    BY <1>2, <2>8, ConfirmMovesKeeps, ConfirmEndsKeeps
  <2>9. CASE Toggle
    BY <1>2, <2>9, ToggleKeeps
  <2>10. CASE EnterNotes
    BY <1>2, <2>10, EnterNotesKeeps
  <2>11. CASE \E note \in Texts : ExitNotes(note)
    BY <1>2, <2>11, ExitNotesKeeps
  <2>12. CASE ChooseSubmit
    BY <1>2, <2>12, ChooseSubmitKeeps
  <2>13. CASE ConfirmSubmit
    BY <1>2, <2>13, ConfirmSubmitKeeps
  <2>14. CASE Escape
    BY <1>2, <2>14, EscapeKeeps
  <2>15. CASE Collapse
    BY <1>2, <2>15, CollapseKeeps
  <2>16. CASE LoadDialog
    BY <1>2, <2>16, LoadDialogKeeps
  <2>17. CASE LoadDialogFails
    BY <1>2, <2>17, LoadDialogFailsKeeps
  <2>18. CASE \E covered \in BOOLEAN : Mount(covered)
    BY <1>2, <2>18, MountKeeps
  <2>19. CASE \E listener \in BOOLEAN : MountOverlay(listener)
    BY <1>2, <2>19, MountOverlayKeeps
  <2>20. CASE Abort
    BY <1>2, <2>20, AbortKeeps
  <2>21. CASE Return
    BY <1>2, <2>21, ReturnKeeps
  <2>22. CASE OtherOpens
    BY <1>2, <2>22, OtherOpensKeeps
  <2>23. CASE OtherCloses
    BY <1>2, <2>23, OtherClosesKeeps
  <2> QED
    BY <1>2, <2>1, <2>2, <2>3, <2>4, <2>5, <2>6, <2>7, <2>8, <2>9, <2>10, <2>11, <2>12, <2>13, <2>14, <2>15, <2>16, <2>17, <2>18, <2>19, <2>20, <2>21, <2>22, <2>23 DEF AskNext
<1>3. ASSUME AskInv, [AskNext]_askVars
      PROVE  AskInv'
  BY <1>2, <1>3, AskStutters
<1>4. AskInv => QuestionnaireSound
  BY DEF AskInv, QuestionnaireSound
<1> QED
  BY <1>1, <1>3, <1>4, PTL DEF AskSpec

-----------------------------------------------------------------------------
(* Occ.  Opportunistic compaction: what a request spent, who cancelled, who releases the goal. *)
OccRows == [phase : {"normal", "waiting", "hold"}, work : Nat, at : Nat, request : Nat, spent : Nat, exhausted : Nat, capacity : BOOLEAN, tried : BOOLEAN]
OccCompactions == [by : {"none", "occ", "user", "pi"}, pc : {"none", "begun", "archiving", "paid", "done", "failed", "reported"}, aborted : BOOLEAN]
OccTypes ==
  /\ occ \in OccRows /\ savedOcc \in OccRows /\ history \in [user : Nat, saved : OccRows] /\ paidFor \in [Users -> Nat]
  /\ spentInMemory \in SUBSET Nat /\ spentSaved \in SUBSET Nat /\ compaction \in OccCompactions
  /\ ready \in BOOLEAN /\ occRuns \in BOOLEAN /\ cancelled \in BOOLEAN /\ owedGoal \in BOOLEAN /\ userAborts \in BOOLEAN
(* OCC runs exactly while the compaction is its own, which it began at a settlement. *)
RunFits ==
  /\ occRuns <=> compaction.by = "occ"
  /\ compaction.by = "none" <=> compaction.pc = "none"
  /\ occRuns => ~ready
  /\ owedGoal => agentPhase = "ended" \/ occRuns
(* What is paid for is spent, in memory and in the session; what is ready or begun is not yet. *)
PaidIsSpent ==
  /\ \A r \in Users : paidFor[r] > 0 => paidFor[r] = 1 /\ r \in spentInMemory /\ r \in spentSaved
  /\ ready => occ.phase = "waiting" /\ occ.request \notin spentInMemory
  /\ occRuns /\ compaction.pc = "begun" => occ.request \notin spentInMemory
  /\ occRuns /\ compaction.pc = "archiving" /\ occ.request \in Users =>
       paidFor[occ.request] = 0 /\ occ.request \in spentInMemory /\ occ.request \in spentSaved
(* Only the user's abort makes a compaction cancelled. *)
AbortIsUsers == (compaction.aborted => userAborts) /\ (cancelled => userAborts) /\ (compaction.by = "none" => ~compaction.aborted)
OccInv == OccTypes /\ RunFits /\ PaidIsSpent /\ AbortIsUsers
-----------------------------------------------------------------------------

LEMMA OccSets ==
  /\ NoCompaction \in OccCompactions /\ NoCompaction.by = "none" /\ NoCompaction.pc = "none" /\ NoCompaction.aborted = FALSE
  /\ FreshState \in OccRows /\ FreshState.phase = "normal" /\ FreshState.request = 0
  BY DEF NoCompaction, OccCompactions, FreshState, OccRows
(* What the rewriting operators keep of a state. *)
LEMMA RowsTell ==
  ASSUME NEW s \in OccRows
  PROVE  /\ Anew(s) \in OccRows /\ Anew(s).phase = s.phase /\ Anew(s).request = s.request
         /\ Held(s) \in OccRows /\ Held(s).request = s.request /\ Held(s).spent = s.spent
         /\ GaveUp(s) \in OccRows /\ GaveUp(s).phase = "normal" /\ GaveUp(s).request = s.request
         /\ Wait(s) \in OccRows /\ Wait(s).request = s.request
         /\ [s EXCEPT !.capacity = FALSE] \in OccRows /\ [s EXCEPT !.capacity = FALSE].phase = s.phase /\ [s EXCEPT !.capacity = FALSE].request = s.request
         /\ [s EXCEPT !.phase = "normal"] \in OccRows /\ [s EXCEPT !.phase = "normal"].request = s.request
<1>1. s.at \in Nat /\ s.work \in Nat /\ s.request \in Nat
  BY DEF OccRows
<1>2. PICK at \in Nat : at = IF s.exhausted = s.request THEN s.at ELSE s.work
  BY <1>1
<1>3. Wait(s) = [s EXCEPT !.phase = "waiting", !.at = at]
  BY <1>2 DEF Wait
<1>4. [s EXCEPT !.phase = "waiting", !.at = at] \in OccRows /\ [s EXCEPT !.phase = "waiting", !.at = at].request = s.request
  BY DEF OccRows
<1>5. /\ Anew(s) \in OccRows /\ Anew(s).phase = s.phase /\ Anew(s).request = s.request
      /\ Held(s) \in OccRows /\ Held(s).request = s.request /\ Held(s).spent = s.spent
  BY <1>1 DEF OccRows, Anew, Held
<1>6. GaveUp(s) \in OccRows /\ GaveUp(s).phase = "normal" /\ GaveUp(s).request = s.request
  BY <1>1 DEF OccRows, GaveUp
<1>7. /\ [s EXCEPT !.capacity = FALSE] \in OccRows /\ [s EXCEPT !.capacity = FALSE].phase = s.phase /\ [s EXCEPT !.capacity = FALSE].request = s.request
      /\ [s EXCEPT !.phase = "normal"] \in OccRows /\ [s EXCEPT !.phase = "normal"].request = s.request
  BY DEF OccRows
<1> QED
  BY <1>3, <1>4, <1>5, <1>6, <1>7
LEMMA SpendTells ==
  ASSUME NEW s \in OccRows, NEW r \in Nat
  PROVE  Spend(s, r) \in OccRows /\ Spend(s, r).request = s.request /\ Spend(s, r).phase = s.phase /\ Spend(s, r).spent = r
  BY DEF Spend, OccRows
LEMMA PaysForTells ==
  ASSUME NEW s \in OccRows
  PROVE  PaysFor(s) \in OccRows /\ PaysFor(s).request = s.request /\ PaysFor(s).phase = s.phase /\ PaysFor(s).spent = s.request
<1>1. PICK q : q = [s EXCEPT !.tried = TRUE]
  OBVIOUS
<1>2. q \in OccRows /\ q.request = s.request /\ q.phase = s.phase /\ s.request \in Nat
  BY <1>1 DEF OccRows
<1>3. PaysFor(s) = Spend(q, s.request)
  BY <1>1 DEF PaysFor
<1> QED
  BY <1>2, <1>3, SpendTells
(* The journal forgets no request that it once named. *)
JournalGrows == savedOcc' \in OccRows /\ spentSaved' \in SUBSET Nat /\ spentSaved \subseteq spentSaved'
LEMMA JournalTells ==
  ASSUME OccInv, NEW s \in OccRows, Journal(s)
  PROVE  JournalGrows /\ (s.spent # 0 => s.spent \in spentSaved')
  BY DEF Journal, JournalGrows, OccInv, OccTypes, OccRows
LEMMA RewriteTells ==
  ASSUME OccInv, NEW s \in OccRows, Rewrite(s)
  PROVE  /\ occ' \in OccRows /\ occ'.request = s.request /\ ready' \in BOOLEAN /\ JournalGrows
         /\ ready' => ready /\ ~occEnabled /\ occ'.phase = s.phase
         /\ occEnabled /\ s.spent # 0 => s.spent \in spentSaved'
<1>1. savedOcc \in OccRows /\ spentSaved \in SUBSET Nat /\ ready \in BOOLEAN
  BY DEF OccInv, OccTypes
<1>2. CASE occEnabled
  BY <1>1, <1>2, RowsTell, JournalTells DEF Rewrite
<1>3. CASE ~occEnabled
  BY <1>1, <1>3 DEF Rewrite, JournalGrows
<1> QED
  BY <1>2, <1>3
(* Weighing a state leads to a wait that is ready only while its request is unspent. *)
LEMMA WeighedTells ==
  ASSUME NEW s \in OccRows, NEW fill
  PROVE  /\ Weighed(s, fill).state \in OccRows
         /\ Weighed(s, fill).ready \in BOOLEAN
         /\ Weighed(s, fill).ready => Weighed(s, fill).state.phase = "waiting" /\ Weighed(s, fill).state.request \notin spentInMemory
<1>1. PICK w : w = IF Enters(s, fill) THEN Wait(s) ELSE s
  OBVIOUS
<1>2. w \in OccRows
  BY <1>1, RowsTell
<1>3. PICK r : r = IsReady(w, fill)
  OBVIOUS
<1>4. r \in BOOLEAN /\ (r => w.phase = "waiting" /\ w.request \notin spentInMemory)
  BY <1>3 DEF IsReady, Spent
<1>5. PICK u : u = (w.phase = "waiting" /\ ~r /\ w.work >= w.at + WaitWork)
  OBVIOUS
<1>6. PICK q : q = IF u THEN GaveUp(w) ELSE w
  OBVIOUS
<1>7. Weighed(s, fill) = [state |-> q, ready |-> r, saves |-> Enters(s, fill) \/ u]
  BY <1>1, <1>3, <1>5, <1>6 DEF Weighed
<1>8. Weighed(s, fill).state = q /\ Weighed(s, fill).ready = r
  BY <1>7
<1>9. q \in OccRows /\ (r => q = w)
  BY <1>2, <1>5, <1>6, RowsTell
<1> QED
  BY <1>4, <1>8, <1>9
(* A decision for the present request: ready only when it waits for an unspent one. *)
Decided(d) ==
  /\ d.state \in OccRows /\ d.ready \in BOOLEAN
  /\ d.ready => d.state.phase = "waiting" /\ d.state.request \notin spentInMemory
LEMMA DecisionTells ==
  ASSUME OccInv, NEW fill \in Fills, NEW grown \in BOOLEAN
  PROVE  Decided(Decision(fill, grown))
<1> DEFINE
     asked == [occ EXCEPT !.request = history.user]
     over == (fill = "over")
     s == IF over = asked.capacity THEN asked
                   ELSE [asked EXCEPT !.capacity = over, !.phase = IF @ = "waiting" THEN "normal" ELSE @]
     held == (s.phase = "hold" /\ (s.work < s.at + HoldWork \/ ~grown))
     free == IF s.phase = "hold" THEN [s EXCEPT !.phase = "normal"] ELSE s
     leaves == (free.phase = "waiting")
     changed == (s # asked)
<1>12. Decision(fill, grown) =
         CASE over -> [state |-> s, ready |-> FALSE, saves |-> changed]
           [] ~over /\ held -> [state |-> s, ready |-> ready, saves |-> changed]
           [] ~over /\ ~held /\ fill = "near" -> [state |-> [free EXCEPT !.phase = "normal"], ready |-> FALSE, saves |-> changed \/ leaves]
           [] ~over /\ ~held /\ fill = "unknown" -> [state |-> free, ready |-> FALSE, saves |-> changed]
           [] ~over /\ ~held /\ fill = "low" /\ leaves -> [state |-> GaveUp(free), ready |-> FALSE, saves |-> TRUE]
           [] OTHER -> [Weighed(free, fill) EXCEPT !.saves = @ \/ changed]
  BY DEF Decision
<1> HIDE DEF asked, over, s, held, free, leaves, changed
<1>1. asked = ([occ EXCEPT !.request = history.user])
  BY DEF asked
<1>2. asked \in OccRows /\ asked.phase = occ.phase
  BY <1>1 DEF OccInv, OccTypes, OccRows
<1>3. over = ((fill = "over"))
  BY DEF over
<1>4. over \in BOOLEAN
  BY <1>3
<1>5. s = (IF over = asked.capacity THEN asked
                   ELSE [asked EXCEPT !.capacity = over, !.phase = IF @ = "waiting" THEN "normal" ELSE @])
  BY DEF s
<1>6. s \in OccRows /\ (s.phase = "hold" => occ.phase = "hold")
  <2>1. PICK p \in {"normal", "waiting", "hold"} : p = IF asked.phase = "waiting" THEN "normal" ELSE asked.phase
    BY <1>2 DEF OccRows
  <2>2. PICK m : m = [asked EXCEPT !.capacity = over, !.phase = p]
    OBVIOUS
  <2>3. m \in OccRows /\ m.phase = p
    BY <1>2, <1>4, <2>2 DEF OccRows
  <2>4. s = IF over = asked.capacity THEN asked ELSE m
    BY <1>5, <2>1, <2>2
  <2> QED
    BY <1>2, <2>1, <2>3, <2>4
<1>7. held = ((s.phase = "hold" /\ (s.work < s.at + HoldWork \/ ~grown)))
  BY DEF held
<1>8. free = (IF s.phase = "hold" THEN [s EXCEPT !.phase = "normal"] ELSE s)
  BY DEF free
<1>9. free \in OccRows
  BY <1>6, <1>8, RowsTell
<1>10. leaves = ((free.phase = "waiting"))
  BY DEF leaves
<1>11. changed = ((s # asked))
  BY DEF changed
<1>13. ready \in BOOLEAN /\ (ready => occ.phase = "waiting") /\ over \in BOOLEAN /\ held \in BOOLEAN /\ leaves \in BOOLEAN
  BY <1>4, <1>7, <1>10 DEF OccInv, OccTypes, PaidIsSpent
<1>14. [free EXCEPT !.phase = "normal"] \in OccRows /\ GaveUp(free) \in OccRows
  BY <1>9, RowsTell
<1>15. CASE over
  <2>1. Decision(fill, grown) = [state |-> s, ready |-> FALSE, saves |-> changed]
    BY <1>12, <1>15
  <2> QED
    BY <1>6, <2>1 DEF Decided
<1>16. CASE ~over /\ held
  <2>1. Decision(fill, grown) = [state |-> s, ready |-> ready, saves |-> changed]
    BY <1>12, <1>16
  <2>2. ready = FALSE
    BY <1>6, <1>7, <1>13, <1>16
  <2>3. Decision(fill, grown).state = s /\ Decision(fill, grown).ready = FALSE
    BY <2>1, <2>2
  <2> QED
    BY <1>6, <2>3 DEF Decided
<1>17. CASE ~over /\ ~held /\ fill = "near"
  <2>1. Decision(fill, grown) = [state |-> [free EXCEPT !.phase = "normal"], ready |-> FALSE, saves |-> changed \/ leaves]
    BY <1>12, <1>17
  <2> QED
    BY <1>14, <2>1 DEF Decided
<1>18. CASE ~over /\ ~held /\ fill = "unknown"
  <2>1. Decision(fill, grown) = [state |-> free, ready |-> FALSE, saves |-> changed]
    BY <1>12, <1>18
  <2> QED
    BY <1>9, <2>1 DEF Decided
<1>19. CASE ~over /\ ~held /\ fill = "low" /\ leaves
  <2>1. Decision(fill, grown) = [state |-> GaveUp(free), ready |-> FALSE, saves |-> TRUE]
    BY <1>12, <1>19
  <2> QED
    BY <1>14, <2>1 DEF Decided
<1>20. CASE ~over /\ ~held /\ fill # "near" /\ fill # "unknown" /\ ~(fill = "low" /\ leaves)
  <2>1. Decision(fill, grown) = [Weighed(free, fill) EXCEPT !.saves = @ \/ changed]
    BY <1>12, <1>20
  <2>2. Decision(fill, grown).state = Weighed(free, fill).state /\ Decision(fill, grown).ready = Weighed(free, fill).ready
    <3>1. "state" \in DOMAIN Weighed(free, fill) /\ "ready" \in DOMAIN Weighed(free, fill)
      BY DEF Weighed
    <3> QED
      BY <2>1, <3>1
  <2> QED
    BY <1>9, <2>2, WeighedTells DEF Decided
<1> QED
  BY <1>15, <1>16, <1>17, <1>18, <1>19, <1>20
(* A hook moves the compaction on, and touches nothing else of it. *)
LEMMA InHookTells ==
  ASSUME OccInv, NEW pc \in {"begun", "archiving", "paid", "done", "failed", "reported"}, InHook(pc)
  PROVE  /\ compaction' \in OccCompactions /\ compaction'.by = compaction.by /\ compaction'.pc = pc /\ compaction'.aborted = compaction.aborted
         /\ UNCHANGED <<occRuns, cancelled, agentPhase, owedGoal, history, occEnabled, toggles, userAborts>>
  BY DEF InHook, OccInv, OccTypes, OccCompactions
LEMMA ReportedTells ==
  ASSUME OccInv, Reported, compaction.by # "none"
  PROVE  /\ compaction' \in OccCompactions
         /\ compaction.by = "occ" => compaction'.by = "occ" /\ compaction'.pc = "reported" /\ compaction'.aborted = compaction.aborted
         /\ compaction.by # "occ" => compaction'.by = "none" /\ compaction'.pc = "none" /\ compaction'.aborted = FALSE
  BY OccSets DEF Reported, OccInv, OccTypes, OccCompactions

-----------------------------------------------------------------------------
(* The user asks, and what was owed is dropped. *)
LEMMA UserAsksKeeps ==
  ASSUME OccInv, UserAsks
  PROVE  OccInv'
<1>1. /\ occ \in OccRows /\ savedOcc \in OccRows /\ history \in [user : Nat, saved : OccRows] /\ paidFor \in [Users -> Nat] /\ history.user \in Nat
      /\ spentInMemory \in SUBSET Nat /\ spentSaved \in SUBSET Nat /\ compaction \in OccCompactions /\ history.saved \in OccRows
      /\ ready \in BOOLEAN /\ occRuns \in BOOLEAN /\ cancelled \in BOOLEAN /\ owedGoal \in BOOLEAN /\ userAborts \in BOOLEAN
      /\ occ.request \in Nat
  BY DEF OccInv, OccTypes, OccRows
<1>2. occ' \in OccRows /\ occ'.phase = occ.phase /\ occ'.request = occ.request /\ savedOcc' \in OccRows
  BY <1>1, RowsTell DEF UserAsks
<1>3. history' \in [user : Nat, saved : OccRows]
  BY <1>1, <1>2 DEF UserAsks
<1>4. UNCHANGED <<spentInMemory, spentSaved, ready, occRuns, compaction, paidFor, occEnabled>>
  BY DEF UserAsks, Other
<1>5. compaction = NoCompaction /\ compaction.by = "none" /\ compaction.pc = "none" /\ ~compaction.aborted /\ ~occRuns /\ cancelled' = FALSE /\ owedGoal' = FALSE /\ userAborts' = FALSE
  BY OccSets DEF UserAsks
<1>6. OccTypes'
  BY <1>1, <1>2, <1>3, <1>4, <1>5 DEF OccInv, OccTypes
<1>7. RunFits'
  BY <1>1, <1>2, <1>3, <1>4, <1>5 DEF OccInv, RunFits
<1>8. PaidIsSpent'
  BY <1>1, <1>2, <1>3, <1>4, <1>5 DEF OccInv, PaidIsSpent
<1>9. AbortIsUsers'
  BY <1>1, <1>2, <1>3, <1>4, <1>5 DEF OccInv, AbortIsUsers
<1> QED
  BY <1>6, <1>7, <1>8, <1>9 DEF OccInv

(* The goal continues when nothing is owed. *)
LEMMA GoalContinuesKeeps ==
  ASSUME OccInv, GoalContinues
  PROVE  OccInv'
<1>1. /\ occ \in OccRows /\ savedOcc \in OccRows /\ history \in [user : Nat, saved : OccRows] /\ paidFor \in [Users -> Nat] /\ history.user \in Nat
      /\ spentInMemory \in SUBSET Nat /\ spentSaved \in SUBSET Nat /\ compaction \in OccCompactions /\ history.saved \in OccRows
      /\ ready \in BOOLEAN /\ occRuns \in BOOLEAN /\ cancelled \in BOOLEAN /\ owedGoal \in BOOLEAN /\ userAborts \in BOOLEAN
      /\ occ.request \in Nat
  BY DEF OccInv, OccTypes, OccRows
<1>2. UNCHANGED <<occ, savedOcc, spentInMemory, spentSaved, ready, occRuns, cancelled, compaction, owedGoal, history, paidFor, userAborts, occEnabled>>
  BY DEF GoalContinues, Other, journal, ghosts
<1>3. ~owedGoal /\ ~occRuns
  BY DEF GoalContinues
<1>4. OccTypes'
  BY <1>1, <1>2, <1>3 DEF OccInv, OccTypes
<1>5. RunFits'
  BY <1>1, <1>2, <1>3 DEF OccInv, RunFits
<1>6. PaidIsSpent'
  BY <1>1, <1>2, <1>3 DEF OccInv, PaidIsSpent
<1>7. AbortIsUsers'
  BY <1>1, <1>2, <1>3 DEF OccInv, AbortIsUsers
<1> QED
  BY <1>4, <1>5, <1>6, <1>7 DEF OccInv

(* Work is counted. *)
LEMMA WorksKeeps ==
  ASSUME OccInv, Works
  PROVE  OccInv'
<1>1. /\ occ \in OccRows /\ savedOcc \in OccRows /\ history \in [user : Nat, saved : OccRows] /\ paidFor \in [Users -> Nat] /\ history.user \in Nat
      /\ spentInMemory \in SUBSET Nat /\ spentSaved \in SUBSET Nat /\ compaction \in OccCompactions /\ history.saved \in OccRows
      /\ ready \in BOOLEAN /\ occRuns \in BOOLEAN /\ cancelled \in BOOLEAN /\ owedGoal \in BOOLEAN /\ userAborts \in BOOLEAN
      /\ occ.request \in Nat
  BY DEF OccInv, OccTypes, OccRows
<1>2. occ' \in OccRows /\ occ'.phase = occ.phase /\ occ'.request = occ.request /\ JournalGrows
  <2>1. CASE occEnabled
    <3>1. PICK w \in Nat : w = occ.work + 1
      BY <1>1 DEF OccRows
    <3>2. PICK m : m = [occ EXCEPT !.work = w]
      OBVIOUS
    <3>3. m \in OccRows /\ m.phase = occ.phase /\ m.request = occ.request
      BY <1>1, <3>2 DEF OccRows
    <3>4. occ' = Anew(m) /\ Journal(occ')
      BY <2>1, <3>1, <3>2 DEF Works
    <3>5. occ' \in OccRows /\ occ'.phase = occ.phase /\ occ'.request = occ.request
      BY <3>3, <3>4, RowsTell
    <3> QED
      BY <3>4, <3>5, JournalTells
  <2>2. CASE ~occEnabled
    <3>1. occ' = Anew(occ) /\ savedOcc' = Anew(savedOcc) /\ spentSaved' = spentSaved
      BY <2>2 DEF Works
    <3>2. Anew(occ) \in OccRows /\ Anew(occ).phase = occ.phase /\ Anew(occ).request = occ.request /\ Anew(savedOcc) \in OccRows
      BY <1>1, RowsTell
    <3> QED
      BY <1>1, <3>1, <3>2 DEF JournalGrows
  <2> QED
    BY <2>1, <2>2
<1>3. UNCHANGED <<spentInMemory, ready, occRuns, cancelled, compaction, agentPhase, owedGoal, history, paidFor, userAborts, occEnabled>>
  BY DEF Works, Other, journal, ghosts
<1>4. OccTypes'
  BY <1>1, <1>2, <1>3 DEF OccInv, OccTypes, JournalGrows
<1>5. RunFits'
  BY <1>1, <1>2, <1>3 DEF OccInv, RunFits, JournalGrows
<1>6. PaidIsSpent'
  BY <1>1, <1>2, <1>3 DEF OccInv, PaidIsSpent, JournalGrows
<1>7. AbortIsUsers'
  BY <1>1, <1>2, <1>3 DEF OccInv, AbortIsUsers, JournalGrows
<1> QED
  BY <1>4, <1>5, <1>6, <1>7 DEF OccInv

(* It is decided whether to wait, and whether the wait is over. *)
LEMMA DecidesKeeps ==
  ASSUME OccInv, Decides
  PROVE  OccInv'
<1>1. /\ occ \in OccRows /\ savedOcc \in OccRows /\ history \in [user : Nat, saved : OccRows] /\ paidFor \in [Users -> Nat] /\ history.user \in Nat
      /\ spentInMemory \in SUBSET Nat /\ spentSaved \in SUBSET Nat /\ compaction \in OccCompactions /\ history.saved \in OccRows
      /\ ready \in BOOLEAN /\ occRuns \in BOOLEAN /\ cancelled \in BOOLEAN /\ owedGoal \in BOOLEAN /\ userAborts \in BOOLEAN
      /\ occ.request \in Nat
  BY DEF OccInv, OccTypes, OccRows
<1>2. occ' \in OccRows /\ ready' \in BOOLEAN /\ (ready' => occ'.phase = "waiting" /\ occ'.request \notin spentInMemory) /\ JournalGrows
  <2>1. PICK fill \in Fills, grown \in BOOLEAN : LET d == Decision(fill, grown)
                                              IN  occ' = d.state /\ ready' = d.ready /\ JournalIf(d.saves, d.state)
    BY DEF Decides, Decide
  <2>2. PICK d : d = Decision(fill, grown)
    OBVIOUS
  <2>3. occ' = d.state /\ ready' = d.ready /\ JournalIf(d.saves, d.state) /\ Decided(d)
    BY <2>1, <2>2, DecisionTells
  <2>4. JournalGrows
    BY <1>1, <2>3, JournalTells DEF JournalIf, JournalGrows, journal, Decided
  <2> QED
    BY <2>3, <2>4 DEF Decided
<1>3. UNCHANGED <<spentInMemory, occRuns, cancelled, compaction, agentPhase, owedGoal, history, paidFor, userAborts, occEnabled>>
  BY DEF Decides, Other, journal, ghosts
<1>4. compaction = NoCompaction /\ compaction.by = "none" /\ compaction.pc = "none" /\ ~compaction.aborted
  BY OccSets DEF Decides
<1>5. ~occRuns
  BY <1>4 DEF OccInv, RunFits
<1>6. OccTypes'
  BY <1>1, <1>2, <1>3, <1>4, <1>5 DEF OccInv, OccTypes, JournalGrows
<1>7. RunFits'
  BY <1>1, <1>2, <1>3, <1>4, <1>5 DEF OccInv, RunFits, JournalGrows
<1>8. PaidIsSpent'
  BY <1>1, <1>2, <1>3, <1>4, <1>5 DEF OccInv, PaidIsSpent, JournalGrows
<1>9. AbortIsUsers'
  BY <1>1, <1>2, <1>3, <1>4, <1>5 DEF OccInv, AbortIsUsers, JournalGrows
<1> QED
  BY <1>6, <1>7, <1>8, <1>9 DEF OccInv

(* An answer failed. *)
LEMMA AnswerFailsKeeps ==
  ASSUME OccInv, AnswerFails
  PROVE  OccInv'
<1>1. /\ occ \in OccRows /\ savedOcc \in OccRows /\ history \in [user : Nat, saved : OccRows] /\ paidFor \in [Users -> Nat] /\ history.user \in Nat
      /\ spentInMemory \in SUBSET Nat /\ spentSaved \in SUBSET Nat /\ compaction \in OccCompactions /\ history.saved \in OccRows
      /\ ready \in BOOLEAN /\ occRuns \in BOOLEAN /\ cancelled \in BOOLEAN /\ owedGoal \in BOOLEAN /\ userAborts \in BOOLEAN
      /\ occ.request \in Nat
  BY DEF OccInv, OccTypes, OccRows
<1>2. UNCHANGED <<occ, savedOcc, spentInMemory, spentSaved, occRuns, cancelled, compaction, agentPhase, owedGoal, history, paidFor, userAborts, occEnabled>>
  BY DEF AnswerFails, Other, journal, ghosts
<1>3. ready' = FALSE
  BY DEF AnswerFails
<1>4. OccTypes'
  BY <1>1, <1>2, <1>3 DEF OccInv, OccTypes
<1>5. RunFits'
  BY <1>1, <1>2, <1>3 DEF OccInv, RunFits
<1>6. PaidIsSpent'
  BY <1>1, <1>2, <1>3 DEF OccInv, PaidIsSpent
<1>7. AbortIsUsers'
  BY <1>1, <1>2, <1>3 DEF OccInv, AbortIsUsers
<1> QED
  BY <1>4, <1>5, <1>6, <1>7 DEF OccInv

(* The agent ends, and the goal may have to wait. *)
LEMMA AgentEndsKeeps ==
  ASSUME OccInv, AgentEnds
  PROVE  OccInv'
<1>1. /\ occ \in OccRows /\ savedOcc \in OccRows /\ history \in [user : Nat, saved : OccRows] /\ paidFor \in [Users -> Nat] /\ history.user \in Nat
      /\ spentInMemory \in SUBSET Nat /\ spentSaved \in SUBSET Nat /\ compaction \in OccCompactions /\ history.saved \in OccRows
      /\ ready \in BOOLEAN /\ occRuns \in BOOLEAN /\ cancelled \in BOOLEAN /\ owedGoal \in BOOLEAN /\ userAborts \in BOOLEAN
      /\ occ.request \in Nat
  BY DEF OccInv, OccTypes, OccRows
<1>2. UNCHANGED <<occ, savedOcc, spentInMemory, spentSaved, ready, occRuns, cancelled, compaction, history, paidFor, userAborts, occEnabled>>
  BY DEF AgentEnds, Other, journal, ghosts
<1>3. agentPhase' = "ended" /\ owedGoal' \in BOOLEAN
  BY <1>1 DEF AgentEnds, DefersGoal
<1>4. OccTypes'
  BY <1>1, <1>2, <1>3 DEF OccInv, OccTypes
<1>5. RunFits'
  BY <1>1, <1>2, <1>3 DEF OccInv, RunFits
<1>6. PaidIsSpent'
  BY <1>1, <1>2, <1>3 DEF OccInv, PaidIsSpent
<1>7. AbortIsUsers'
  BY <1>1, <1>2, <1>3 DEF OccInv, AbortIsUsers
<1> QED
  BY <1>4, <1>5, <1>6, <1>7 DEF OccInv

(* The agent settles: OCC runs, or the goal is released. *)
LEMMA SettlesKeeps ==
  ASSUME OccInv, Settles
  PROVE  OccInv'
<1>1. /\ occ \in OccRows /\ savedOcc \in OccRows /\ history \in [user : Nat, saved : OccRows] /\ paidFor \in [Users -> Nat] /\ history.user \in Nat
      /\ spentInMemory \in SUBSET Nat /\ spentSaved \in SUBSET Nat /\ compaction \in OccCompactions /\ history.saved \in OccRows
      /\ ready \in BOOLEAN /\ occRuns \in BOOLEAN /\ cancelled \in BOOLEAN /\ owedGoal \in BOOLEAN /\ userAborts \in BOOLEAN
      /\ occ.request \in Nat
  BY DEF OccInv, OccTypes, OccRows
<1>2. UNCHANGED <<occ, savedOcc, spentInMemory, spentSaved, history, paidFor>>
  BY DEF Settles, Finish, journal, ghosts
<1>3. compaction = NoCompaction /\ compaction.by = "none" /\ compaction.pc = "none" /\ ~compaction.aborted
  BY OccSets DEF Settles
<1>4. ~occRuns
  BY <1>3 DEF OccInv, RunFits
<1>5. \/ owedGoal' = FALSE /\ cancelled' = FALSE /\ userAborts' = FALSE /\ UNCHANGED <<ready, occRuns, compaction>>
      \/ /\ occRuns' = TRUE /\ cancelled' = FALSE /\ ready' = FALSE /\ ready /\ UNCHANGED <<owedGoal, userAborts>>
         /\ compaction' \in OccCompactions /\ compaction'.by = "occ" /\ compaction'.pc = "begun" /\ compaction'.aborted = FALSE
  <2>1. PICK q : q = [NoCompaction EXCEPT !.by = "occ", !.pc = "begun"]
    OBVIOUS
  <2>2. q \in OccCompactions /\ q.by = "occ" /\ q.pc = "begun" /\ q.aborted = FALSE
    BY <2>1, OccSets DEF OccCompactions
  <2> QED
    BY <1>1, <2>1, <2>2 DEF Settles, Finish, ghosts
<1>6. OccTypes'
  BY <1>1, <1>2, <1>3, <1>4, <1>5 DEF OccInv, OccTypes
<1>7. RunFits'
  BY <1>1, <1>2, <1>3, <1>4, <1>5 DEF OccInv, RunFits
<1>8. PaidIsSpent'
  BY <1>1, <1>2, <1>3, <1>4, <1>5 DEF OccInv, PaidIsSpent
<1>9. AbortIsUsers'
  BY <1>1, <1>2, <1>3, <1>4, <1>5 DEF OccInv, AbortIsUsers
<1> QED
  BY <1>6, <1>7, <1>8, <1>9 DEF OccInv

(* A compaction begins that is not OCC's. *)
LEMMA CompactsKeeps ==
  ASSUME OccInv, NEW by \in {"user", "pi"}, Compacts(by)
  PROVE  OccInv'
<1>1. /\ occ \in OccRows /\ savedOcc \in OccRows /\ history \in [user : Nat, saved : OccRows] /\ paidFor \in [Users -> Nat] /\ history.user \in Nat
      /\ spentInMemory \in SUBSET Nat /\ spentSaved \in SUBSET Nat /\ compaction \in OccCompactions /\ history.saved \in OccRows
      /\ ready \in BOOLEAN /\ occRuns \in BOOLEAN /\ cancelled \in BOOLEAN /\ owedGoal \in BOOLEAN /\ userAborts \in BOOLEAN
      /\ occ.request \in Nat
  BY DEF OccInv, OccTypes, OccRows
<1>2. UNCHANGED <<occ, savedOcc, spentInMemory, spentSaved, ready, occRuns, cancelled, agentPhase, owedGoal, history, paidFor, userAborts, occEnabled>>
  BY DEF Compacts, journal, ghosts
<1>3. ~occRuns /\ compaction' \in OccCompactions /\ compaction'.by = by /\ compaction'.pc = "begun" /\ compaction'.aborted = FALSE
  BY DEF Compacts, NoCompaction, OccCompactions
<1>4. OccTypes'
  BY <1>1, <1>2, <1>3 DEF OccInv, OccTypes
<1>5. RunFits'
  BY <1>1, <1>2, <1>3 DEF OccInv, RunFits
<1>6. PaidIsSpent'
  BY <1>1, <1>2, <1>3 DEF OccInv, PaidIsSpent
<1>7. AbortIsUsers'
  BY <1>1, <1>2, <1>3 DEF OccInv, AbortIsUsers
<1> QED
  BY <1>4, <1>5, <1>6, <1>7 DEF OccInv

(* The user aborts. *)
LEMMA UserAbortsKeeps ==
  ASSUME OccInv, UserAborts
  PROVE  OccInv'
<1>1. /\ occ \in OccRows /\ savedOcc \in OccRows /\ history \in [user : Nat, saved : OccRows] /\ paidFor \in [Users -> Nat] /\ history.user \in Nat
      /\ spentInMemory \in SUBSET Nat /\ spentSaved \in SUBSET Nat /\ compaction \in OccCompactions /\ history.saved \in OccRows
      /\ ready \in BOOLEAN /\ occRuns \in BOOLEAN /\ cancelled \in BOOLEAN /\ owedGoal \in BOOLEAN /\ userAborts \in BOOLEAN
      /\ occ.request \in Nat
  BY DEF OccInv, OccTypes, OccRows
<1>2. UNCHANGED <<occ, savedOcc, spentInMemory, spentSaved, ready, occRuns, cancelled, agentPhase, owedGoal, history, paidFor, occEnabled>>
  BY DEF UserAborts, journal
<1>3. compaction' \in OccCompactions /\ compaction'.by = compaction.by /\ compaction'.pc = compaction.pc /\ compaction.pc # "none" /\ userAborts' = TRUE
  BY <1>1 DEF UserAborts, OccCompactions
<1>4. compaction.by # "none"
  BY <1>3 DEF OccInv, RunFits
<1>5. OccTypes'
  BY <1>1, <1>2, <1>3, <1>4 DEF OccInv, OccTypes
<1>6. RunFits'
  BY <1>1, <1>2, <1>3, <1>4 DEF OccInv, RunFits
<1>7. PaidIsSpent'
  BY <1>1, <1>2, <1>3, <1>4 DEF OccInv, PaidIsSpent
<1>8. AbortIsUsers'
  BY <1>1, <1>2, <1>3, <1>4 DEF OccInv, AbortIsUsers
<1> QED
  BY <1>5, <1>6, <1>7, <1>8 DEF OccInv

(* No hook is asked. *)
LEMMA HookSkippedKeeps ==
  ASSUME OccInv, HookSkipped
  PROVE  OccInv'
<1>1. /\ occ \in OccRows /\ savedOcc \in OccRows /\ history \in [user : Nat, saved : OccRows] /\ paidFor \in [Users -> Nat] /\ history.user \in Nat
      /\ spentInMemory \in SUBSET Nat /\ spentSaved \in SUBSET Nat /\ compaction \in OccCompactions /\ history.saved \in OccRows
      /\ ready \in BOOLEAN /\ occRuns \in BOOLEAN /\ cancelled \in BOOLEAN /\ owedGoal \in BOOLEAN /\ userAborts \in BOOLEAN
      /\ occ.request \in Nat
  BY DEF OccInv, OccTypes, OccRows
<1>2. UNCHANGED <<occ, savedOcc, spentInMemory, spentSaved, ready, occRuns, cancelled, agentPhase, owedGoal, history, paidFor, userAborts, occEnabled>>
  BY InHookTells DEF HookSkipped, Quietly, journal
<1>3. compaction.pc = "begun"
  BY DEF HookSkipped
<1>4. compaction' \in OccCompactions /\ compaction'.by = compaction.by /\ compaction'.pc = "failed" /\ compaction'.aborted = compaction.aborted
  BY InHookTells DEF HookSkipped
<1>5. OccTypes'
  BY <1>1, <1>2, <1>3, <1>4 DEF OccInv, OccTypes
<1>6. RunFits'
  BY <1>1, <1>2, <1>3, <1>4 DEF OccInv, RunFits
<1>7. PaidIsSpent'
  BY <1>1, <1>2, <1>3, <1>4 DEF OccInv, PaidIsSpent
<1>8. AbortIsUsers'
  BY <1>1, <1>2, <1>3, <1>4 DEF OccInv, AbortIsUsers
<1> QED
  BY <1>5, <1>6, <1>7, <1>8 DEF OccInv

(* The hook refuses. *)
LEMMA RefusesKeeps ==
  ASSUME OccInv, Refuses
  PROVE  OccInv'
<1>1. /\ occ \in OccRows /\ savedOcc \in OccRows /\ history \in [user : Nat, saved : OccRows] /\ paidFor \in [Users -> Nat] /\ history.user \in Nat
      /\ spentInMemory \in SUBSET Nat /\ spentSaved \in SUBSET Nat /\ compaction \in OccCompactions /\ history.saved \in OccRows
      /\ ready \in BOOLEAN /\ occRuns \in BOOLEAN /\ cancelled \in BOOLEAN /\ owedGoal \in BOOLEAN /\ userAborts \in BOOLEAN
      /\ occ.request \in Nat
  BY DEF OccInv, OccTypes, OccRows
<1>2. UNCHANGED <<occ, savedOcc, spentInMemory, spentSaved, ready, occRuns, cancelled, agentPhase, owedGoal, history, paidFor, userAborts, occEnabled>>
  BY InHookTells DEF Refuses, Quietly, journal
<1>3. compaction.pc = "begun"
  BY DEF Refuses
<1>4. compaction' \in OccCompactions /\ compaction'.by = compaction.by /\ compaction'.pc = "failed" /\ compaction'.aborted = compaction.aborted
  BY InHookTells DEF Refuses
<1>5. OccTypes'
  BY <1>1, <1>2, <1>3, <1>4 DEF OccInv, OccTypes
<1>6. RunFits'
  BY <1>1, <1>2, <1>3, <1>4 DEF OccInv, RunFits
<1>7. PaidIsSpent'
  BY <1>1, <1>2, <1>3, <1>4 DEF OccInv, PaidIsSpent
<1>8. AbortIsUsers'
  BY <1>1, <1>2, <1>3, <1>4 DEF OccInv, AbortIsUsers
<1> QED
  BY <1>5, <1>6, <1>7, <1>8 DEF OccInv

(* The hook withdraws. *)
LEMMA WithdrawsKeeps ==
  ASSUME OccInv, Withdraws
  PROVE  OccInv'
<1>1. /\ occ \in OccRows /\ savedOcc \in OccRows /\ history \in [user : Nat, saved : OccRows] /\ paidFor \in [Users -> Nat] /\ history.user \in Nat
      /\ spentInMemory \in SUBSET Nat /\ spentSaved \in SUBSET Nat /\ compaction \in OccCompactions /\ history.saved \in OccRows
      /\ ready \in BOOLEAN /\ occRuns \in BOOLEAN /\ cancelled \in BOOLEAN /\ owedGoal \in BOOLEAN /\ userAborts \in BOOLEAN
      /\ occ.request \in Nat
  BY DEF OccInv, OccTypes, OccRows
<1>2. UNCHANGED <<occ, savedOcc, spentInMemory, spentSaved, ready, occRuns, cancelled, agentPhase, owedGoal, history, paidFor, userAborts, occEnabled>>
  BY InHookTells DEF Withdraws, Quietly, journal
<1>3. compaction.pc \in {"archiving", "paid"}
  BY DEF Withdraws
<1>4. compaction' \in OccCompactions /\ compaction'.by = compaction.by /\ compaction'.pc = "failed" /\ compaction'.aborted = compaction.aborted
  BY InHookTells DEF Withdraws
<1>5. OccTypes'
  BY <1>1, <1>2, <1>3, <1>4 DEF OccInv, OccTypes
<1>6. RunFits'
  BY <1>1, <1>2, <1>3, <1>4 DEF OccInv, RunFits
<1>7. PaidIsSpent'
  BY <1>1, <1>2, <1>3, <1>4 DEF OccInv, PaidIsSpent
<1>8. AbortIsUsers'
  BY <1>1, <1>2, <1>3, <1>4 DEF OccInv, AbortIsUsers
<1> QED
  BY <1>5, <1>6, <1>7, <1>8 DEF OccInv

(* The hook answers. *)
LEMMA AnswersKeeps ==
  ASSUME OccInv, Answers
  PROVE  OccInv'
<1>1. /\ occ \in OccRows /\ savedOcc \in OccRows /\ history \in [user : Nat, saved : OccRows] /\ paidFor \in [Users -> Nat] /\ history.user \in Nat
      /\ spentInMemory \in SUBSET Nat /\ spentSaved \in SUBSET Nat /\ compaction \in OccCompactions /\ history.saved \in OccRows
      /\ ready \in BOOLEAN /\ occRuns \in BOOLEAN /\ cancelled \in BOOLEAN /\ owedGoal \in BOOLEAN /\ userAborts \in BOOLEAN
      /\ occ.request \in Nat
  BY DEF OccInv, OccTypes, OccRows
<1>2. UNCHANGED <<occ, savedOcc, spentInMemory, spentSaved, ready, occRuns, cancelled, agentPhase, owedGoal, history, paidFor, userAborts, occEnabled>>
  BY InHookTells DEF Answers, Quietly, journal
<1>3. compaction.pc = "paid"
  BY DEF Answers
<1>4. compaction' \in OccCompactions /\ compaction'.by = compaction.by /\ compaction'.pc = "done" /\ compaction'.aborted = compaction.aborted
  BY InHookTells DEF Answers
<1>5. OccTypes'
  BY <1>1, <1>2, <1>3, <1>4 DEF OccInv, OccTypes
<1>6. RunFits'
  BY <1>1, <1>2, <1>3, <1>4 DEF OccInv, RunFits
<1>7. PaidIsSpent'
  BY <1>1, <1>2, <1>3, <1>4 DEF OccInv, PaidIsSpent
<1>8. AbortIsUsers'
  BY <1>1, <1>2, <1>3, <1>4 DEF OccInv, AbortIsUsers
<1> QED
  BY <1>5, <1>6, <1>7, <1>8 DEF OccInv

(* Another hook answers. *)
LEMMA HookElsewhereKeeps ==
  ASSUME OccInv, HookElsewhere
  PROVE  OccInv'
<1>1. /\ occ \in OccRows /\ savedOcc \in OccRows /\ history \in [user : Nat, saved : OccRows] /\ paidFor \in [Users -> Nat] /\ history.user \in Nat
      /\ spentInMemory \in SUBSET Nat /\ spentSaved \in SUBSET Nat /\ compaction \in OccCompactions /\ history.saved \in OccRows
      /\ ready \in BOOLEAN /\ occRuns \in BOOLEAN /\ cancelled \in BOOLEAN /\ owedGoal \in BOOLEAN /\ userAborts \in BOOLEAN
      /\ occ.request \in Nat
  BY DEF OccInv, OccTypes, OccRows
<1>2. PICK pc \in {"done", "failed"} : InHook(pc)
  BY DEF HookElsewhere
<1>3. UNCHANGED <<occ, savedOcc, spentInMemory, spentSaved, ready, occRuns, cancelled, agentPhase, owedGoal, history, paidFor, userAborts, occEnabled>>
  BY <1>2, InHookTells DEF HookElsewhere, Quietly, journal
<1>4. compaction.pc = "begun"
  BY DEF HookElsewhere
<1>5. compaction' \in OccCompactions /\ compaction'.by = compaction.by /\ compaction'.pc = pc /\ compaction'.aborted = compaction.aborted
  BY <1>2, InHookTells
<1>6. OccTypes'
  BY <1>1, <1>2, <1>3, <1>4, <1>5 DEF OccInv, OccTypes
<1>7. RunFits'
  BY <1>1, <1>2, <1>3, <1>4, <1>5 DEF OccInv, RunFits
<1>8. PaidIsSpent'
  BY <1>1, <1>2, <1>3, <1>4, <1>5 DEF OccInv, PaidIsSpent
<1>9. AbortIsUsers'
  BY <1>1, <1>2, <1>3, <1>4, <1>5 DEF OccInv, AbortIsUsers
<1> QED
  BY <1>6, <1>7, <1>8, <1>9 DEF OccInv

(* A request is spent before it is paid for. *)
LEMMA AttemptsKeeps ==
  ASSUME OccInv, Attempts
  PROVE  OccInv'
<1>1. /\ occ \in OccRows /\ savedOcc \in OccRows /\ history \in [user : Nat, saved : OccRows] /\ paidFor \in [Users -> Nat] /\ history.user \in Nat
      /\ spentInMemory \in SUBSET Nat /\ spentSaved \in SUBSET Nat /\ compaction \in OccCompactions /\ history.saved \in OccRows
      /\ ready \in BOOLEAN /\ occRuns \in BOOLEAN /\ cancelled \in BOOLEAN /\ owedGoal \in BOOLEAN /\ userAborts \in BOOLEAN
      /\ occ.request \in Nat
  BY DEF OccInv, OccTypes, OccRows
<1>2. UNCHANGED <<occRuns, cancelled, agentPhase, owedGoal, history, paidFor, userAborts, occEnabled>>
  BY InHookTells DEF Attempts
<1>3. compaction.pc = "begun" /\ occEnabled
  BY DEF Attempts
<1>4. compaction' \in OccCompactions /\ compaction'.by = compaction.by /\ compaction'.pc = "archiving" /\ compaction'.aborted = compaction.aborted
  BY InHookTells DEF Attempts
<1>5. occ' \in OccRows /\ occ'.request = occ.request /\ ready' = FALSE /\ JournalGrows /\ (occ.request # 0 => occ.request \in spentSaved')
  <2>1. PaysFor(occ) \in OccRows /\ PaysFor(occ).request = occ.request /\ PaysFor(occ).spent = occ.request
    BY <1>1, PaysForTells
  <2>2. Rewrite(PaysFor(occ))
    BY DEF Attempts
  <2> QED
    BY <1>3, <2>1, <2>2, RewriteTells
<1>6. spentInMemory' = spentInMemory \cup ({occ.request} \ {0})
  BY <1>1, PaysForTells DEF Attempts, SpendMemory
<1>7. \A r \in Users : r # 0 /\ r \in Nat
  BY OccAssumption DEF Users
<1>8. occRuns /\ occ.request \in Users => paidFor[occ.request] = 0
  BY <1>1, <1>3 DEF OccInv, PaidIsSpent
<1>9. OccTypes'
  BY <1>1, <1>2, <1>3, <1>4, <1>5, <1>6, <1>7, <1>8 DEF OccInv, OccTypes, JournalGrows
<1>10. RunFits'
  BY <1>1, <1>2, <1>3, <1>4, <1>5, <1>6, <1>7, <1>8 DEF OccInv, RunFits, JournalGrows
<1>11. PaidIsSpent'
  BY <1>1, <1>2, <1>3, <1>4, <1>5, <1>6, <1>7, <1>8 DEF OccInv, PaidIsSpent, JournalGrows
<1>12. AbortIsUsers'
  BY <1>1, <1>2, <1>3, <1>4, <1>5, <1>6, <1>7, <1>8 DEF OccInv, AbortIsUsers, JournalGrows
<1> QED
  BY <1>9, <1>10, <1>11, <1>12 DEF OccInv

(* The request is paid for. *)
LEMMA PaysKeeps ==
  ASSUME OccInv, Pays
  PROVE  OccInv'
<1>1. /\ occ \in OccRows /\ savedOcc \in OccRows /\ history \in [user : Nat, saved : OccRows] /\ paidFor \in [Users -> Nat] /\ history.user \in Nat
      /\ spentInMemory \in SUBSET Nat /\ spentSaved \in SUBSET Nat /\ compaction \in OccCompactions /\ history.saved \in OccRows
      /\ ready \in BOOLEAN /\ occRuns \in BOOLEAN /\ cancelled \in BOOLEAN /\ owedGoal \in BOOLEAN /\ userAborts \in BOOLEAN
      /\ occ.request \in Nat
  BY DEF OccInv, OccTypes, OccRows
<1>2. UNCHANGED <<occ, savedOcc, spentInMemory, spentSaved, ready, occRuns, cancelled, agentPhase, owedGoal, history, userAborts, occEnabled>>
  BY InHookTells DEF Pays, journal
<1>3. compaction.pc = "archiving"
  BY DEF Pays
<1>4. compaction' \in OccCompactions /\ compaction'.by = compaction.by /\ compaction'.pc = "paid" /\ compaction'.aborted = compaction.aborted
  BY InHookTells DEF Pays
<1>5. paidFor' \in [Users -> Nat] /\ \A r \in Users : paidFor'[r] = IF occRuns /\ r = occ.request THEN paidFor[r] + 1 ELSE paidFor[r]
  <2>1. CASE occRuns
    <3>1. paidFor' = [paidFor EXCEPT ![occ.request] = paidFor[occ.request] + 1]
      BY <2>1 DEF Pays
    <3>2. \A r \in Users : paidFor[r] + 1 \in Nat
      BY <1>1
    <3> QED
      BY <1>1, <2>1, <3>1, <3>2
  <2>2. CASE ~occRuns
    BY <1>1, <2>2 DEF Pays
  <2> QED
    BY <2>1, <2>2
<1>6. \A r \in Users : paidFor'[r] > 0 => paidFor'[r] = 1 /\ r \in spentInMemory /\ r \in spentSaved
  <2> TAKE r \in Users
  <2>1. CASE occRuns /\ r = occ.request
    BY <1>1, <1>3, <1>5, <2>1 DEF OccInv, PaidIsSpent
  <2>2. CASE ~(occRuns /\ r = occ.request)
    BY <1>1, <1>5, <2>2 DEF OccInv, PaidIsSpent
  <2> QED
    BY <2>1, <2>2
<1>7. OccTypes'
  BY <1>1, <1>2, <1>3, <1>4, <1>5, <1>6 DEF OccInv, OccTypes
<1>8. RunFits'
  BY <1>1, <1>2, <1>3, <1>4, <1>5, <1>6 DEF OccInv, RunFits
<1>9. PaidIsSpent'
  BY <1>1, <1>2, <1>3, <1>4, <1>5, <1>6 DEF OccInv, PaidIsSpent
<1>10. AbortIsUsers'
  BY <1>1, <1>2, <1>3, <1>4, <1>5, <1>6 DEF OccInv, AbortIsUsers
<1> QED
  BY <1>7, <1>8, <1>9, <1>10 DEF OccInv

(* Pi compacted. *)
LEMMA CompactedKeeps ==
  ASSUME OccInv, Compacted
  PROVE  OccInv'
<1>1. /\ occ \in OccRows /\ savedOcc \in OccRows /\ history \in [user : Nat, saved : OccRows] /\ paidFor \in [Users -> Nat] /\ history.user \in Nat
      /\ spentInMemory \in SUBSET Nat /\ spentSaved \in SUBSET Nat /\ compaction \in OccCompactions /\ history.saved \in OccRows
      /\ ready \in BOOLEAN /\ occRuns \in BOOLEAN /\ cancelled \in BOOLEAN /\ owedGoal \in BOOLEAN /\ userAborts \in BOOLEAN
      /\ occ.request \in Nat
  BY DEF OccInv, OccTypes, OccRows
<1>2. compaction.pc = "done" /\ Reported /\ compaction.by # "none"
  BY DEF Compacted, OccInv, RunFits
<1>3. UNCHANGED <<spentInMemory, occRuns, cancelled, agentPhase, owedGoal, history, paidFor, userAborts>>
  BY DEF Compacted, ghosts
<1>4. /\ compaction' \in OccCompactions
      /\ compaction.by = "occ" => compaction'.by = "occ" /\ compaction'.pc = "reported" /\ compaction'.aborted = compaction.aborted
      /\ compaction.by # "occ" => compaction'.by = "none" /\ compaction'.pc = "none" /\ compaction'.aborted = FALSE
  BY <1>2, ReportedTells
<1>5. occ' \in OccRows /\ occ'.request = occ.request /\ ready' \in BOOLEAN /\ JournalGrows /\ (ready' => ready /\ occ'.phase = occ.phase)
  <2>1. PICK s : s = [occ EXCEPT !.capacity = FALSE]
    OBVIOUS
  <2>2. s \in OccRows /\ s.phase = occ.phase /\ s.request = occ.request
    BY <1>1, <2>1, RowsTell
  <2>3. Anew(s) \in OccRows /\ Anew(s).phase = occ.phase /\ Anew(s).request = occ.request
    BY <2>2, RowsTell
  <2>4. Rewrite(Anew(s))
    BY <2>1 DEF Compacted
  <2> QED
    BY <2>3, <2>4, RewriteTells
<1>6. OccTypes'
  BY <1>1, <1>2, <1>3, <1>4, <1>5 DEF OccInv, OccTypes, JournalGrows
<1>7. RunFits'
  BY <1>1, <1>2, <1>3, <1>4, <1>5 DEF OccInv, RunFits, JournalGrows
<1>8. PaidIsSpent'
  BY <1>1, <1>2, <1>3, <1>4, <1>5 DEF OccInv, PaidIsSpent, JournalGrows
<1>9. AbortIsUsers'
  BY <1>1, <1>2, <1>3, <1>4, <1>5 DEF OccInv, AbortIsUsers, JournalGrows
<1> QED
  BY <1>6, <1>7, <1>8, <1>9 DEF OccInv

(* Pi's compaction failed. *)
LEMMA FailedKeeps ==
  ASSUME OccInv, Failed
  PROVE  OccInv'
<1>1. /\ occ \in OccRows /\ savedOcc \in OccRows /\ history \in [user : Nat, saved : OccRows] /\ paidFor \in [Users -> Nat] /\ history.user \in Nat
      /\ spentInMemory \in SUBSET Nat /\ spentSaved \in SUBSET Nat /\ compaction \in OccCompactions /\ history.saved \in OccRows
      /\ ready \in BOOLEAN /\ occRuns \in BOOLEAN /\ cancelled \in BOOLEAN /\ owedGoal \in BOOLEAN /\ userAborts \in BOOLEAN
      /\ occ.request \in Nat
  BY DEF OccInv, OccTypes, OccRows
<1>2. compaction.pc = "failed" /\ Reported /\ compaction.by # "none"
  BY DEF Failed, OccInv, RunFits
<1>3. UNCHANGED <<occRuns, agentPhase, owedGoal, history, paidFor, userAborts>>
  BY DEF Failed, ghosts
<1>4. /\ compaction' \in OccCompactions
      /\ compaction.by = "occ" => compaction'.by = "occ" /\ compaction'.pc = "reported" /\ compaction'.aborted = compaction.aborted
      /\ compaction.by # "occ" => compaction'.by = "none" /\ compaction'.pc = "none" /\ compaction'.aborted = FALSE
  BY <1>2, ReportedTells
<1>5. /\ occ' \in OccRows /\ occ'.request = occ.request /\ ready' \in BOOLEAN /\ JournalGrows /\ spentInMemory' \in SUBSET Nat /\ spentInMemory \subseteq spentInMemory'
      /\ ready' => ready /\ occ'.phase = occ.phase /\ spentInMemory' = spentInMemory
      /\ cancelled' \in BOOLEAN /\ (cancelled' => cancelled \/ compaction.aborted)
  <2>1. PICK s : s = [occ EXCEPT !.capacity = FALSE]
    OBVIOUS
  <2>2. s \in OccRows /\ s.phase = occ.phase /\ s.request = occ.request
    BY <1>1, <2>1, RowsTell
  <2>3. AbortedBy(compaction) = compaction.aborted /\ compaction.aborted \in BOOLEAN
    BY <1>1 DEF AbortedBy, Told, OccCompactions
  <2>4. CASE occEnabled
    <3>1. Rewrite(Spend(s, history.user)) /\ SpendMemory(history.user) /\ cancelled' = (cancelled \/ AbortedBy(compaction))
      BY <2>1, <2>4 DEF Failed
    <3>2. Spend(s, history.user) \in OccRows /\ Spend(s, history.user).request = occ.request
      BY <1>1, <2>2, SpendTells
    <3>3. spentInMemory' \in SUBSET Nat /\ spentInMemory \subseteq spentInMemory'
      BY <1>1, <3>1 DEF SpendMemory
    <3>4. cancelled' \in BOOLEAN /\ (cancelled' => cancelled \/ compaction.aborted)
      BY <1>1, <2>3, <3>1
    <3>5. occ' \in OccRows /\ occ'.request = occ.request /\ ready' = FALSE /\ JournalGrows
      BY <2>4, <3>1, <3>2, RewriteTells
    <3> QED
      BY <3>3, <3>4, <3>5
  <2>5. CASE ~occEnabled
    <3>1. occ' = s /\ UNCHANGED <<cancelled, ready, spentInMemory, savedOcc, spentSaved>>
      BY <2>1, <2>5 DEF Failed, journal
    <3> QED
      BY <1>1, <2>2, <3>1 DEF JournalGrows
  <2> QED
    BY <2>4, <2>5
<1>6. OccTypes'
  BY <1>1, <1>2, <1>3, <1>4, <1>5 DEF OccInv, OccTypes, JournalGrows
<1>7. RunFits'
  BY <1>1, <1>2, <1>3, <1>4, <1>5 DEF OccInv, RunFits, JournalGrows
<1>8. PaidIsSpent'
  BY <1>1, <1>2, <1>3, <1>4, <1>5 DEF OccInv, PaidIsSpent, JournalGrows
<1>9. AbortIsUsers'
  BY <1>1, <1>2, <1>3, <1>4, <1>5 DEF OccInv, AbortIsUsers, JournalGrows
<1> QED
  BY <1>6, <1>7, <1>8, <1>9 DEF OccInv

(* OCC's run ends, and the goal is released. *)
LEMMA RunEndsKeeps ==
  ASSUME OccInv, RunEnds
  PROVE  OccInv'
<1>1. /\ occ \in OccRows /\ savedOcc \in OccRows /\ history \in [user : Nat, saved : OccRows] /\ paidFor \in [Users -> Nat] /\ history.user \in Nat
      /\ spentInMemory \in SUBSET Nat /\ spentSaved \in SUBSET Nat /\ compaction \in OccCompactions /\ history.saved \in OccRows
      /\ ready \in BOOLEAN /\ occRuns \in BOOLEAN /\ cancelled \in BOOLEAN /\ owedGoal \in BOOLEAN /\ userAborts \in BOOLEAN
      /\ occ.request \in Nat
  BY DEF OccInv, OccTypes, OccRows
<1>2. occRuns /\ ~ready
  BY DEF RunEnds, OccInv, RunFits
<1>3. UNCHANGED <<agentPhase, history, paidFor>>
  BY DEF RunEnds
<1>4. occRuns' = FALSE /\ owedGoal' = FALSE /\ cancelled' = FALSE /\ userAborts' = FALSE
  BY DEF RunEnds, Finish
<1>5. compaction' \in OccCompactions /\ compaction'.by = "none" /\ compaction'.pc = "none" /\ compaction'.aborted = FALSE
  BY OccSets DEF RunEnds
<1>6. spentInMemory' \in SUBSET Nat /\ spentInMemory \subseteq spentInMemory'
  BY <1>1 DEF RunEnds, SpendMemory
<1>7. occ' \in OccRows /\ ready' \in BOOLEAN /\ JournalGrows /\ (ready' => ready)
  <2>1. Rewrite(Spend(occ, occ.request))
    BY DEF RunEnds
  <2>2. Spend(occ, occ.request) \in OccRows
    BY <1>1, SpendTells
  <2> QED
    BY <2>1, <2>2, RewriteTells
<1>8. OccTypes'
  BY <1>1, <1>2, <1>3, <1>4, <1>5, <1>6, <1>7 DEF OccInv, OccTypes, JournalGrows
<1>9. RunFits'
  BY <1>1, <1>2, <1>3, <1>4, <1>5, <1>6, <1>7 DEF OccInv, RunFits, JournalGrows
<1>10. PaidIsSpent'
  BY <1>1, <1>2, <1>3, <1>4, <1>5, <1>6, <1>7 DEF OccInv, PaidIsSpent, JournalGrows
<1>11. AbortIsUsers'
  BY <1>1, <1>2, <1>3, <1>4, <1>5, <1>6, <1>7 DEF OccInv, AbortIsUsers, JournalGrows
<1> QED
  BY <1>8, <1>9, <1>10, <1>11 DEF OccInv

(* Another branch, or a reload: what is spent is what the session says. *)
LEMMA NavigatesKeeps ==
  ASSUME OccInv, Navigates
  PROVE  OccInv'
<1>1. /\ occ \in OccRows /\ savedOcc \in OccRows /\ history \in [user : Nat, saved : OccRows] /\ paidFor \in [Users -> Nat] /\ history.user \in Nat
      /\ spentInMemory \in SUBSET Nat /\ spentSaved \in SUBSET Nat /\ compaction \in OccCompactions /\ history.saved \in OccRows
      /\ ready \in BOOLEAN /\ occRuns \in BOOLEAN /\ cancelled \in BOOLEAN /\ owedGoal \in BOOLEAN /\ userAborts \in BOOLEAN
      /\ occ.request \in Nat
  BY DEF OccInv, OccTypes, OccRows
<1>2. UNCHANGED <<spentSaved, history, paidFor>>
  BY DEF Navigates
<1>3. spentInMemory' = spentSaved /\ ready' = FALSE /\ occRuns' = FALSE /\ cancelled' = FALSE /\ owedGoal' = FALSE /\ userAborts' = FALSE
  BY DEF Navigates, Restored, SpentInSession
<1>4. occ' \in OccRows /\ savedOcc' \in OccRows
  BY <1>1 DEF Navigates, Restored
<1>5. compaction' \in OccCompactions /\ compaction'.by = "none" /\ compaction'.pc = "none" /\ compaction'.aborted = FALSE
  BY OccSets DEF Navigates
<1>6. OccTypes'
  BY <1>1, <1>2, <1>3, <1>4, <1>5 DEF OccInv, OccTypes
<1>7. RunFits'
  BY <1>1, <1>2, <1>3, <1>4, <1>5 DEF OccInv, RunFits
<1>8. PaidIsSpent'
  BY <1>1, <1>2, <1>3, <1>4, <1>5 DEF OccInv, PaidIsSpent
<1>9. AbortIsUsers'
  BY <1>1, <1>2, <1>3, <1>4, <1>5 DEF OccInv, AbortIsUsers
<1> QED
  BY <1>6, <1>7, <1>8, <1>9 DEF OccInv

(* Another model. *)
LEMMA ModelSelectedKeeps ==
  ASSUME OccInv, ModelSelected
  PROVE  OccInv'
<1>1. /\ occ \in OccRows /\ savedOcc \in OccRows /\ history \in [user : Nat, saved : OccRows] /\ paidFor \in [Users -> Nat] /\ history.user \in Nat
      /\ spentInMemory \in SUBSET Nat /\ spentSaved \in SUBSET Nat /\ compaction \in OccCompactions /\ history.saved \in OccRows
      /\ ready \in BOOLEAN /\ occRuns \in BOOLEAN /\ cancelled \in BOOLEAN /\ owedGoal \in BOOLEAN /\ userAborts \in BOOLEAN
      /\ occ.request \in Nat
  BY DEF OccInv, OccTypes, OccRows
<1>2. UNCHANGED <<spentInMemory, occRuns, cancelled, compaction, agentPhase, owedGoal, history, paidFor, userAborts>>
  BY DEF ModelSelected, ghosts
<1>3. occ' \in OccRows /\ occ'.request = occ.request /\ ready' = FALSE /\ JournalGrows
  <2>1. PICK s : s = [occ EXCEPT !.capacity = FALSE]
    OBVIOUS
  <2>2. s \in OccRows /\ s.request = occ.request
    BY <1>1, <2>1, RowsTell
  <2>3. Held(s) \in OccRows /\ Held(s).request = occ.request
    BY <2>2, RowsTell
  <2>4. CASE occEnabled
    BY <2>1, <2>3, <2>4, JournalTells DEF ModelSelected
  <2>5. CASE ~occEnabled
    BY <1>1, <2>1, <2>2, <2>5 DEF ModelSelected, JournalGrows, journal
  <2> QED
    BY <2>4, <2>5
<1>4. OccTypes'
  BY <1>1, <1>2, <1>3 DEF OccInv, OccTypes, JournalGrows
<1>5. RunFits'
  BY <1>1, <1>2, <1>3 DEF OccInv, RunFits, JournalGrows
<1>6. PaidIsSpent'
  BY <1>1, <1>2, <1>3 DEF OccInv, PaidIsSpent, JournalGrows
<1>7. AbortIsUsers'
  BY <1>1, <1>2, <1>3 DEF OccInv, AbortIsUsers, JournalGrows
<1> QED
  BY <1>4, <1>5, <1>6, <1>7 DEF OccInv

(* The setting changes. *)
LEMMA ConfiguredKeeps ==
  ASSUME OccInv, Configured
  PROVE  OccInv'
<1>1. /\ occ \in OccRows /\ savedOcc \in OccRows /\ history \in [user : Nat, saved : OccRows] /\ paidFor \in [Users -> Nat] /\ history.user \in Nat
      /\ spentInMemory \in SUBSET Nat /\ spentSaved \in SUBSET Nat /\ compaction \in OccCompactions /\ history.saved \in OccRows
      /\ ready \in BOOLEAN /\ occRuns \in BOOLEAN /\ cancelled \in BOOLEAN /\ owedGoal \in BOOLEAN /\ userAborts \in BOOLEAN
      /\ occ.request \in Nat
  BY DEF OccInv, OccTypes, OccRows
<1>2. UNCHANGED <<occ, savedOcc, spentInMemory, spentSaved, ready, occRuns, cancelled, compaction, agentPhase, owedGoal, history, paidFor, userAborts>>
  BY DEF Configured, journal, ghosts
<1>3. OccTypes'
  BY <1>1, <1>2 DEF OccInv, OccTypes
<1>4. RunFits'
  BY <1>1, <1>2 DEF OccInv, RunFits
<1>5. PaidIsSpent'
  BY <1>1, <1>2 DEF OccInv, PaidIsSpent
<1>6. AbortIsUsers'
  BY <1>1, <1>2 DEF OccInv, AbortIsUsers
<1> QED
  BY <1>3, <1>4, <1>5, <1>6 DEF OccInv

-----------------------------------------------------------------------------
LEMMA OccStarts ==
  ASSUME OccInit
  PROVE  OccInv
<1>1. /\ occ = FreshState /\ savedOcc = FreshState /\ spentInMemory = {} /\ spentSaved = {} /\ ready = FALSE /\ occRuns = FALSE
      /\ cancelled = FALSE /\ compaction = NoCompaction /\ owedGoal = FALSE /\ userAborts = FALSE
  BY DEF OccInit
<1>2. history \in [user : Nat, saved : OccRows]
  BY OccSets DEF OccInit
<1>3. paidFor \in [Users -> Nat] /\ \A r \in Users : paidFor[r] = 0
  BY DEF OccInit
<1>4. OccTypes
  BY <1>1, <1>2, <1>3, OccSets DEF OccTypes
<1> QED
  BY <1>1, <1>3, <1>4, OccSets DEF OccInv, RunFits, PaidIsSpent, AbortIsUsers
LEMMA OccKeeps ==
  ASSUME OccInv, [OccNext]_occVars
  PROVE  OccInv'
<1>1. CASE OccNext
  BY <1>1, UserAsksKeeps, GoalContinuesKeeps, WorksKeeps, DecidesKeeps, AnswerFailsKeeps, AgentEndsKeeps, SettlesKeeps, CompactsKeeps,
     UserAbortsKeeps, HookSkippedKeeps, HookElsewhereKeeps, RefusesKeeps, AttemptsKeeps, PaysKeeps, WithdrawsKeeps, AnswersKeeps,
     CompactedKeeps, FailedKeeps, RunEndsKeeps, NavigatesKeeps, ModelSelectedKeeps, ConfiguredKeeps DEF OccNext
<1>2. CASE UNCHANGED occVars
  BY <1>2 DEF occVars, OccInv, OccTypes, RunFits, PaidIsSpent, AbortIsUsers
<1> QED
  BY <1>1, <1>2

(* OCC pays for one summary per request of the user at most, stops the goal only when the user
   cancelled, and keeps it waiting only while somebody will release it (occ.ts), for any number
   of requests, of work turns and of changes of the setting, the model or the branch. *)
THEOREM OccIsAccountable == OccSpec => []OccAccountable
<1>1. OccInit => OccInv
  BY OccStarts
<1>2. OccInv /\ [OccNext]_occVars => OccInv'
  BY OccKeeps
<1>3. OccInv => OccAccountable
  <2> SUFFICES ASSUME OccInv PROVE OccAccountable
    OBVIOUS
  <2>1. PaidOnce
    <3> SUFFICES ASSUME NEW r \in Users PROVE paidFor[r] <= 1
      BY DEF PaidOnce
    <3>1. paidFor[r] \in Nat /\ (paidFor[r] > 0 => paidFor[r] = 1)
      BY DEF OccInv, OccTypes, PaidIsSpent
    <3> QED
      BY <3>1
  <2>2. CancelledByUser /\ DeferralEnds
    BY DEF CancelledByUser, DeferralEnds, OccInv, RunFits, AbortIsUsers
  <2> QED
    BY <2>1, <2>2 DEF OccAccountable
<1> QED
  BY <1>1, <1>2, <1>3, PTL DEF OccSpec
=============================================================================
