-------------------------------- MODULE Occ --------------------------------
(* Opportunistic compaction (src/condense/occ.ts): when the agent settles with a full enough
   context, OCC asks Pi for a compaction and answers Pi's session_before_compact hook with a
   protected summary, at most one paid attempt per user request. Local summaries are deferred
   while it waits, and so is the goal's next continuation while it runs.

   External (Pi): one compaction at a time, begun by OCC, by the user or by Pi itself; a hook's
   cancel is reported as aborted, like the user's abort; a session switch or tree navigation
   drops what is running. External (goal): `owed`, the continuation that waits for occFinished.

   The size of the context, the growth that was measured and a busy executor are one choice,
   the fill that decide() sees: over the limit of Pi, near it, or at one of OCC's thresholds. *)
EXTENDS Naturals, FiniteSets

CONSTANTS
  HoldWork,      \* HOLD_WORK: work turns after a rewrite before anything is considered again
  WaitWork,      \* WAIT_WORK: work turns after which a wait is given up
  MaxRequests,   \* messages of the user
  MaxWork,       \* work turns counted on a branch
  MaxToggles     \* changes of the setting, of the model, and navigations

ASSUME OccAssumption ==
  {HoldWork, WaitWork, MaxRequests, MaxWork} \subseteq Nat \ {0} /\ MaxToggles \in Nat

VARIABLES
  occ,           \* MaintenanceState
  savedOcc,      \* the last metis-occ-state entry of the branch
  spentInMemory, \* spentRequests
  spentSaved,    \* the requests that entries of the session name as spent
  ready,         \* OCC would run when the agent settles
  occRuns,       \* running: OCC's own compaction is under way
  cancelled,     \* a compaction was cancelled by the user
  signal,        \* compactionSignal, as the failure handler will read it
  compaction,    \* Pi's compaction: who began it, how far the hook is, whether the user aborted
  agentPhase,    \* Pi: "idle", "working", or "ended" between agent_end and agent_settled
  owedGoal,      \* goal: a continuation waits for occFinished
  history,       \* the branch: its user request, and the state that it had then
  occEnabled, toggles,
  paidFor,       \* paid automatic attempts per request
  userAborts     \* the user aborted a compaction since the last input or settlement
occVars == <<occ, savedOcc, spentInMemory, spentSaved, ready, occRuns, cancelled, signal, compaction,
             agentPhase, owedGoal, history, occEnabled, toggles, paidFor, userAborts>>
journal == <<savedOcc, spentSaved>>
ghosts == <<paidFor, userAborts>>

Users == 1..MaxRequests
Fills == {"unknown", "low", "kept", "enter", "ready", "near", "over"}
FreshState == [phase |-> "normal", work |-> 0, at |-> 0, request |-> 0, spent |-> 0,
               exhausted |-> 0, capacity |-> FALSE, tried |-> FALSE]
NoCompaction == [by |-> "none", pc |-> "none", aborted |-> FALSE]

\* persist(): the state becomes an entry of the branch.
Journal(s) == savedOcc' = s /\ spentSaved' = spentSaved \cup ({s.spent} \ {0})
JournalIf(p, s) == IF p THEN Journal(s) ELSE UNCHANGED journal

Spent(s) == s.spent = s.request \/ s.request \in spentInMemory
\* Marking the request of a state as spent, in the state and for the rest of the session.
Spend(s, r) == [s EXCEPT !.spent = r]
SpendMemory(r) == spentInMemory' = spentInMemory \cup ({r} \ {0})

\* rewrite(): the context was rewritten, so nothing is considered until new work was done.
Held(s) == [s EXCEPT !.phase = "hold", !.at = s.work]
Rewrite(s) ==
  IF occEnabled THEN occ' = Held(s) /\ ready' = FALSE /\ Journal(Held(s))
                ELSE occ' = s /\ UNCHANGED <<ready, savedOcc, spentSaved>>

-----------------------------------------------------------------------------
(* decide(): what the state, the fill and the growth since the last rewrite make of the wait. *)
GaveUp(s) == [s EXCEPT !.phase = "normal", !.exhausted = s.request]
Enters(s, fill) ==
  s.phase = "normal" /\ ~Spent(s) /\ fill \in (IF s.exhausted = s.request THEN {"ready"} ELSE {"enter", "ready"})
Wait(s) == [s EXCEPT !.phase = "waiting", !.at = IF s.exhausted = s.request THEN @ ELSE s.work]
IsReady(s, fill) ==
  s.phase = "waiting" /\ fill = "ready" /\ s.work >= s.at + 1 /\ s.work >= HoldWork /\ ~Spent(s)
Weighed(s, fill) ==
  LET w == IF Enters(s, fill) THEN Wait(s) ELSE s
      r == IsReady(w, fill)
      out == w.phase = "waiting" /\ ~r /\ w.work >= w.at + WaitWork
  IN  [state |-> IF out THEN GaveUp(w) ELSE w, ready |-> r, saves |-> Enters(s, fill) \/ out]
Decision(fill, grown) ==
  LET asked == [occ EXCEPT !.request = history.user]
      over == fill = "over"
      s == IF over = asked.capacity THEN asked
           ELSE [asked EXCEPT !.capacity = over, !.phase = IF @ = "waiting" THEN "normal" ELSE @]
      held == s.phase = "hold" /\ (s.work < s.at + HoldWork \/ ~grown)
      free == IF s.phase = "hold" THEN [s EXCEPT !.phase = "normal"] ELSE s
      leaves == free.phase = "waiting"
  IN  CASE over -> [state |-> s, ready |-> FALSE, saves |-> s # asked]
        [] ~over /\ held -> [state |-> s, ready |-> ready, saves |-> s # asked]
        [] ~over /\ ~held /\ fill = "near" ->
             [state |-> [free EXCEPT !.phase = "normal"], ready |-> FALSE, saves |-> s # asked \/ leaves]
        [] ~over /\ ~held /\ fill = "unknown" -> [state |-> free, ready |-> FALSE, saves |-> s # asked]
        [] ~over /\ ~held /\ fill = "low" /\ leaves -> [state |-> GaveUp(free), ready |-> FALSE, saves |-> TRUE]
        [] OTHER -> LET d == Weighed(free, fill) IN [d EXCEPT !.saves = @ \/ s # asked]
Decide ==
  \E fill \in Fills, grown \in BOOLEAN :
    LET d == Decision(fill, grown)
    IN  occ' = d.state /\ ready' = d.ready /\ JournalIf(d.saves, d.state)

\* deferGoal of the occStatus request.
DefersGoal == occRuns \/ (occEnabled /\ (ready \/ occ.capacity))
\* occFinished: the goal continues, or drops its continuation when the user cancelled.
Finish == owedGoal' = FALSE /\ cancelled' = FALSE /\ userAborts' = FALSE

Other == UNCHANGED <<signal, compaction, occEnabled, toggles>>
\* `tried` says that attemptedSource is the signature of the session as it is now.
Anew(s) == [s EXCEPT !.tried = FALSE]

-----------------------------------------------------------------------------
(* The agent. *)
\* The user's message: a new request on the branch, and the goal drops what it owed.
UserAsks ==
  /\ agentPhase = "idle" /\ compaction = NoCompaction /\ ~occRuns /\ history.user < MaxRequests
  /\ occ' = Anew(occ) /\ savedOcc' = Anew(savedOcc)
  /\ history' = [user |-> history.user + 1, saved |-> savedOcc']
  /\ agentPhase' = "working" /\ cancelled' = FALSE /\ owedGoal' = FALSE /\ userAborts' = FALSE
  /\ UNCHANGED <<spentInMemory, ready, occRuns, paidFor, spentSaved>> /\ Other
\* A continuation of the goal is no request of the user.
GoalContinues ==
  /\ agentPhase = "idle" /\ compaction = NoCompaction /\ ~occRuns /\ ~owedGoal
  /\ agentPhase' = "working"
  /\ UNCHANGED <<occ, spentInMemory, ready, occRuns, cancelled, owedGoal, history, journal, ghosts>> /\ Other

\* turn_end: distinct successful tool work is counted.
Works ==
  /\ agentPhase = "working" /\ compaction = NoCompaction
  /\ IF occEnabled
       THEN /\ occ.work < MaxWork
            /\ occ' = Anew([occ EXCEPT !.work = @ + 1]) /\ Journal(occ')
       ELSE occ' = Anew(occ) /\ savedOcc' = Anew(savedOcc) /\ UNCHANGED spentSaved
  /\ UNCHANGED <<spentInMemory, ready, occRuns, cancelled, agentPhase, owedGoal, history, ghosts>> /\ Other
\* A flush that asks deferLocal(), or the end of an assistant message.
Decides ==
  /\ agentPhase = "working" /\ compaction = NoCompaction /\ occEnabled /\ Decide
  /\ UNCHANGED <<spentInMemory, occRuns, cancelled, agentPhase, owedGoal, history, ghosts>> /\ Other
\* message_end of an answer that failed or was aborted.
AnswerFails ==
  /\ agentPhase = "working" /\ compaction = NoCompaction /\ occEnabled /\ ready' = FALSE
  /\ UNCHANGED <<occ, spentInMemory, occRuns, cancelled, agentPhase, owedGoal, history, journal, ghosts>> /\ Other
\* agent_end: the goal asks whether its continuation has to wait.
AgentEnds ==
  /\ agentPhase = "working" /\ compaction = NoCompaction /\ agentPhase' = "ended"
  /\ owedGoal' = DefersGoal
  /\ UNCHANGED <<occ, spentInMemory, ready, occRuns, cancelled, history, journal, ghosts>> /\ Other

\* agent_settled: OCC asks Pi for its compaction, or releases the goal at once.
Settles ==
  /\ agentPhase = "ended" /\ compaction = NoCompaction /\ agentPhase' = "idle"
  /\ \E pendingMessages \in BOOLEAN :
       IF ~occEnabled \/ ~ready \/ pendingMessages
       THEN Finish /\ UNCHANGED <<ready, occRuns, signal, compaction, paidFor>>
       ELSE /\ occRuns' = TRUE /\ cancelled' = FALSE /\ ready' = FALSE /\ signal' = "none"
            /\ compaction' = [NoCompaction EXCEPT !.by = "occ", !.pc = "begun"]
            /\ UNCHANGED <<owedGoal, ghosts>>
  /\ UNCHANGED <<occ, spentInMemory, history, occEnabled, toggles, journal>>

-----------------------------------------------------------------------------
(* Pi's compaction and its hook. *)
Compacts(by) ==
  /\ compaction = NoCompaction /\ ~occRuns
  /\ CASE by = "user" -> agentPhase = "idle" [] by = "pi" -> agentPhase \in {"working", "ended"}
  /\ compaction' = [NoCompaction EXCEPT !.by = by, !.pc = "begun"]
  /\ UNCHANGED <<occ, spentInMemory, ready, occRuns, cancelled, signal, agentPhase, owedGoal, history,
                 occEnabled, toggles, journal, ghosts>>
UserAborts ==
  /\ compaction.pc \notin {"none", "reported"} /\ ~compaction.aborted
  /\ compaction' = [compaction EXCEPT !.aborted = TRUE] /\ userAborts' = TRUE
  /\ UNCHANGED <<occ, spentInMemory, ready, occRuns, cancelled, signal, agentPhase, owedGoal, history,
                 occEnabled, toggles, paidFor, journal>>
InHook(pc) ==
  /\ compaction' = [compaction EXCEPT !.pc = pc]
  /\ UNCHANGED <<occRuns, cancelled, agentPhase, owedGoal, history, occEnabled, toggles, userAborts>>
Quietly == UNCHANGED <<occ, spentInMemory, ready, paidFor, journal>>

\* Pi fails or notices the user's abort before it asks the hooks.
HookSkipped ==
  /\ compaction.pc = "begun" /\ InHook("failed") /\ UNCHANGED signal /\ Quietly
\* The remote publisher answers, or OCC is off and Pi summarises alone.
HookElsewhere ==
  /\ compaction.pc = "begun" /\ signal' = "observed" /\ Quietly
  /\ \E remote \in BOOLEAN : (remote \/ ~occEnabled) /\ \E pc \in {"done", "failed"} : InHook(pc)
\* prepare(), up to its first await: it refuses, or spends the request and holds before it pays.
SameSource == (occRuns \/ compaction.by # "user") /\ occ.tried
Refuses ==
  /\ compaction.pc = "begun" /\ occEnabled /\ signal' = "observed" /\ InHook("failed") /\ Quietly
PaysLater(s) == [s EXCEPT !.tried = TRUE]                              \* mutant: spent when it ends
PaysFor(s) == Spend([s EXCEPT !.tried = TRUE], s.request)
Attempts ==
  /\ compaction.pc = "begun" /\ occEnabled /\ ~SameSource /\ signal' = "observed"
  /\ Rewrite(PaysFor(occ)) /\ SpendMemory(PaysFor(occ).spent)
  /\ InHook("archiving") /\ UNCHANGED paidFor
\* After the archive and the credentials: compact(), the paid request.
Pays ==
  /\ compaction.pc = "archiving" /\ ~compaction.aborted /\ InHook("paid")
  /\ paidFor' = IF occRuns THEN [paidFor EXCEPT ![occ.request] = @ + 1] ELSE paidFor
  /\ UNCHANGED <<occ, spentInMemory, ready, signal, journal>>
\* Archiving, the credentials or the request fail, or the summary is no saving.
Withdraws ==
  /\ compaction.pc \in {"archiving", "paid"} /\ InHook("failed") /\ UNCHANGED signal /\ Quietly
\* The summary is handed to Pi for the source it was made from.
Answers ==
  /\ compaction.pc = "paid" /\ ~compaction.aborted
  /\ InHook("done") /\ UNCHANGED signal /\ Quietly

-----------------------------------------------------------------------------
(* What Pi reports, and the end of OCC's own run. *)
Reported == compaction' = IF compaction.by = "occ" THEN [compaction EXCEPT !.pc = "reported"] ELSE NoCompaction
\* session_compact
Compacted ==
  /\ compaction.pc = "done"
  /\ Rewrite(Anew([occ EXCEPT !.capacity = FALSE])) /\ signal' = "none" /\ Reported
  /\ UNCHANGED <<spentInMemory, occRuns, cancelled, agentPhase, owedGoal, history, occEnabled, toggles, ghosts>>
\* session_compact_failed: the signal the hook saw tells the user's abort from a refusal; of a
\* compaction that no hook saw, Pi tells the truth.
Told(c) == c.aborted \/ signal = "observed"   \* event.aborted: a hook's refusal counts as one
AbortedBy(c) == IF signal = "observed" THEN c.aborted ELSE Told(c)
Failed ==
  /\ compaction.pc = "failed"
  /\ LET s == [occ EXCEPT !.capacity = FALSE]
     IN  IF occEnabled
         THEN /\ cancelled' = (cancelled \/ AbortedBy(compaction))
              /\ Rewrite(Spend(s, history.user)) /\ SpendMemory(history.user)
         ELSE occ' = s /\ UNCHANGED <<cancelled, ready, spentInMemory, journal>>
  /\ signal' = "none" /\ Reported
  /\ UNCHANGED <<occRuns, agentPhase, owedGoal, history, occEnabled, toggles, ghosts>>
\* The finally of agent_settled.
RunEnds ==
  /\ occRuns /\ compaction.pc = "reported" /\ compaction' = NoCompaction
  /\ Rewrite(Spend(occ, occ.request)) /\ SpendMemory(occ.request)
  /\ occRuns' = FALSE /\ Finish
  /\ UNCHANGED <<signal, agentPhase, history, occEnabled, toggles, paidFor>>

-----------------------------------------------------------------------------
(* Settings, models, other branches and restarts. *)
SpentForgotten == {}                                                  \* mutant: the branch will tell
SpentInSession == spentSaved
\* restore(): the state is what the branch says, the spent requests what the session says.
Restored(s) ==
  /\ occ' = s /\ spentInMemory' = SpentInSession
  /\ ready' = FALSE /\ occRuns' = FALSE /\ cancelled' = FALSE /\ signal' = "none"
Navigates ==
  /\ toggles < MaxToggles /\ toggles' = toggles + 1
  /\ \/ Restored(savedOcc) /\ UNCHANGED savedOcc
     \/ savedOcc' = history.saved /\ Restored(savedOcc')
  /\ compaction' = NoCompaction /\ agentPhase' = "idle" /\ owedGoal' = FALSE /\ userAborts' = FALSE
  /\ UNCHANGED <<spentSaved, history, occEnabled, paidFor>>
ModelSelected ==
  /\ toggles < MaxToggles /\ toggles' = toggles + 1 /\ ready' = FALSE
  /\ LET s == [occ EXCEPT !.capacity = FALSE]
     IN  IF occEnabled THEN occ' = Held(s) /\ Journal(Held(s)) ELSE occ' = s /\ UNCHANGED journal
  /\ UNCHANGED <<spentInMemory, occRuns, cancelled, signal, compaction, agentPhase, owedGoal, history,
                 occEnabled, ghosts>>
Configured ==
  /\ toggles < MaxToggles /\ toggles' = toggles + 1 /\ occEnabled' = ~occEnabled
  /\ UNCHANGED <<occ, spentInMemory, ready, occRuns, cancelled, signal, compaction, agentPhase, owedGoal,
                 history, journal, ghosts>>

OccInit ==
  /\ occ = FreshState /\ savedOcc = FreshState /\ spentInMemory = {} /\ spentSaved = {}
  /\ ready = FALSE /\ occRuns = FALSE /\ cancelled = FALSE /\ signal = "none" /\ compaction = NoCompaction
  /\ agentPhase = "idle" /\ owedGoal = FALSE /\ occEnabled = TRUE /\ toggles = 0
  /\ history = [user |-> 0, saved |-> FreshState]
  /\ paidFor = [r \in Users |-> 0] /\ userAborts = FALSE
OccNext ==
  \/ UserAsks \/ GoalContinues \/ Works \/ Decides \/ AnswerFails \/ AgentEnds \/ Settles
  \/ \E by \in {"user", "pi"} : Compacts(by)
  \/ UserAborts \/ HookSkipped \/ HookElsewhere \/ Refuses \/ Attempts \/ Pays \/ Withdraws \/ Answers
  \/ Compacted \/ Failed \/ RunEnds
  \/ Navigates \/ ModelSelected \/ Configured
OccSpec == OccInit /\ [][OccNext]_occVars

-----------------------------------------------------------------------------
States == [phase : {"normal", "waiting", "hold"}, work : 0..MaxWork, at : 0..MaxWork, request : 0..MaxRequests,
           spent : 0..MaxRequests, exhausted : 0..MaxRequests, capacity : BOOLEAN, tried : BOOLEAN]
OccTypeOK ==
  /\ {occ, savedOcc} \subseteq States /\ spentInMemory \cup spentSaved \subseteq Users
  /\ {ready, occRuns, cancelled, owedGoal, occEnabled, userAborts} \subseteq BOOLEAN
  /\ signal \in {"none", "observed"} /\ agentPhase \in {"idle", "working", "ended"} /\ toggles \in 0..MaxToggles
  /\ compaction.by \in {"none", "occ", "user", "pi"}
  /\ history.user \in 0..MaxRequests /\ history.saved \in States
  /\ DOMAIN paidFor = Users

\* A request of the user pays for one opportunistic summary at most, whatever fails in it, however
\* often the goal goes on after it, and whether the session was reloaded or navigated since.
PaidOnce == \A r \in Users : paidFor[r] <= 1

\* The goal is stopped as cancelled only when the user did cancel: Pi reports every refusal of a
\* hook as aborted too.
CancelledByUser == cancelled => userAborts

\* A continuation that was deferred waits for somebody: a settlement to come, or OCC's run.
DeferralEnds == owedGoal => agentPhase = "ended" \/ occRuns

\* OCC may cost one summary per request and a pause of the goal, never the goal itself.
OccAccountable == PaidOnce /\ CancelledByUser /\ DeferralEnds
=============================================================================
