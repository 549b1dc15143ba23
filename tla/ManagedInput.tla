---------------------------- MODULE ManagedInput ----------------------------
(* Messages steered into a running task: the daemon's receipts (runtime.py deliver_input),
   the two pipes of the worker, and the child's TaskQueue (worker/task-queue.mjs), which
   owns the SDK calls of one task at a time.

   A message is a number in the order of its receipt; two may have the same text, and the
   daemon recognises what Pi consumed by its text. External: the SDK. A call that streams
   takes the inputs steered into it before it returns; a native input whose preflight ends
   after that starts a turn of its own.                                                   *)
EXTENDS Naturals, Sequences, FiniteSets

CONSTANTS
  MaxInputs,    \* messages the parent sends
  MaxTasks,     \* tasks the worker is given
  MaxQueued     \* MAX_QUEUED_INPUTS

ASSUME InputAssumption == {MaxInputs, MaxTasks, MaxQueued} \subseteq Nat \ {0}

VARIABLES
  receipt,    \* per message: the state of its row, the task it was sent to
  rpc,        \* [msg, reply]: the message whose call is not answered yet (0: none), the answer read
  worker,     \* [task, active, ending, stopping, dead]: the daemon's side of the child
  toChild, toDaemon,   \* the pipes
  child,      \* TaskQueue.active: [task, inputs, controls, entered, cancelled] and the call it awaits
  sdk,        \* [streaming, own, steered]: the session: whether it streams, for a native input, its queue
  seen        \* per message: the task whose model call was given it, 0 for none

inputVars == <<receipt, rpc, worker, toChild, toDaemon, child, sdk, seen>>

-----------------------------------------------------------------------------
Msgs == 1..MaxInputs
Text(m) == (m + 1) \div 2
PendingInputs == {m \in Msgs : receipt[m].state \in {"sending", "queued"}}
Idle == MaxInputs + 1      \* child.call when no SDK call runs; 0 is the task's own prompt
NoTask == [task |-> 0, inputs |-> <<>>, controls |-> <<>>, entered |-> FALSE, cancelled |-> FALSE, call |-> Idle]
QuietSdk == [streaming |-> FALSE, own |-> FALSE, steered |-> <<>>]

Frame(t, m, k) == [type |-> t, msg |-> m, task |-> k]
Mark(M, s) == [m \in Msgs |-> IF m \in M THEN [receipt[m] EXCEPT !.state = s] ELSE receipt[m]]

-----------------------------------------------------------------------------
(* The daemon. A message is delivered under the agent's lock, so one call at a time, and
   none during a settlement.                                                              *)
StartRun ==
  /\ ~worker.active /\ ~worker.dead /\ worker.task < MaxTasks
  /\ worker' = [worker EXCEPT !.task = @ + 1, !.active = TRUE, !.ending = FALSE, !.stopping = FALSE]
  /\ toChild' = Append(toChild, Frame("prompt", 0, worker.task + 1))
  /\ UNCHANGED <<receipt, rpc, toDaemon, child, sdk, seen>>

DeliverInput(m, kind) ==
  /\ worker.active /\ ~worker.stopping /\ ~worker.dead /\ rpc.msg = 0
  /\ receipt[m].state = "none" /\ \A k \in Msgs : k < m => receipt[k].state # "none"
  /\ receipt' = [receipt EXCEPT ![m] = [state |-> "sending", task |-> worker.task]]
  /\ rpc' = [msg |-> m, reply |-> "none"]
  /\ toChild' = Append(toChild, Frame(kind, m, worker.task))
  /\ UNCHANGED <<worker, toDaemon, child, sdk, seen>>

\* The call is answered, and what the daemon reads next may come before it goes on.
QueuedAnyway == Mark({rpc.msg}, "queued")   \* mutant: the acknowledgement does not look at the state
Acknowledged == Mark({rpc.msg} \cap {m \in Msgs : receipt[m].state = "sending"}, "queued")
Answered ==
  /\ rpc.msg # 0 /\ rpc.reply # "none"
  /\ receipt' = IF rpc.reply = "ok" THEN Acknowledged ELSE Mark({rpc.msg}, "not_consumed")
  /\ rpc' = [msg |-> 0, reply |-> "none"]
  /\ UNCHANGED <<worker, toChild, toDaemon, child, sdk, seen>>
\* The call times out, or the worker exits under it.
CallFails ==
  /\ rpc.msg # 0 /\ receipt' = Mark({rpc.msg}, "unknown") /\ rpc' = [msg |-> 0, reply |-> "none"]
  /\ UNCHANGED <<worker, toChild, toDaemon, child, sdk, seen>>

\* The first pending receipt of the task with the text that Pi reports.
ConsumedAll(t) == {m \in PendingInputs : receipt[m].task = worker.task /\ Text(m) = t}   \* mutant: all of them
ConsumedBy(t) == LET same == {m \in PendingInputs : receipt[m].task = worker.task /\ Text(m) = t}
                 IN  {m \in same : \A k \in same : m <= k}
FinishRunOnly == receipt   \* mutant: the receipts of the finished run are left as they are
Finish == Mark({m \in PendingInputs : receipt[m].task = worker.task}, "not_consumed")

Read ==
  /\ toDaemon # <<>> /\ toDaemon' = Tail(toDaemon)
  /\ LET f == Head(toDaemon)
     IN  /\ receipt' = CASE f.type = "user" /\ worker.active -> Mark(ConsumedBy(Text(f.msg)), "consumed")
                         [] f.type = "control_end" /\ f.task = worker.task /\ worker.active
                              -> Mark({f.msg} \cap PendingInputs, "not_consumed")
                         [] OTHER -> receipt
         /\ rpc' = IF f.type \in {"ok", "rejected"} /\ f.msg = rpc.msg THEN [rpc EXCEPT !.reply = f.type] ELSE rpc
         /\ worker' = [worker EXCEPT !.ending = @ \/ (f.type = "task_end" /\ worker.active /\ f.task = worker.task)]
  /\ UNCHANGED <<toChild, child, sdk, seen>>

\* settle(), or worker_exited() once the pipe is drained: the run and its receipts are finished.
SettleRun ==
  /\ worker.active /\ rpc.msg = 0
  /\ worker.ending \/ (worker.dead /\ toDaemon = <<>>)
  /\ receipt' = Finish /\ worker' = [worker EXCEPT !.active = FALSE]
  /\ UNCHANGED <<rpc, toChild, toDaemon, child, sdk, seen>>

Interrupt ==
  /\ worker.active /\ ~worker.stopping /\ ~worker.dead /\ rpc.msg = 0
  /\ worker' = [worker EXCEPT !.stopping = TRUE] /\ toChild' = Append(toChild, Frame("abort", 0, 0))
  /\ UNCHANGED <<receipt, rpc, toDaemon, child, sdk, seen>>

\* The child exits, or is terminated because its abort was refused: what it wrote last may be lost.
ChildExits ==
  /\ worker.active /\ ~worker.dead /\ worker' = [worker EXCEPT !.dead = TRUE]
  /\ \E n \in 0..Len(toDaemon) : toDaemon' = SubSeq(toDaemon, 1, n)
  /\ toChild' = <<>> /\ child' = NoTask /\ sdk' = QuietSdk /\ UNCHANGED <<receipt, rpc, seen>>

-----------------------------------------------------------------------------
(* The child's protocol reader. *)
Owned == child.task # 0 /\ ~child.cancelled
Unlimited == TRUE   \* mutant: the queue of a task has no limit
Reserve == Len(child.inputs) + Len(child.controls) < MaxQueued
Say(f) == toDaemon' = Append(toDaemon, f)

Prompt ==
  /\ toChild # <<>> /\ Head(toChild).type = "prompt" /\ child.task = 0
  /\ toChild' = Tail(toChild) /\ child' = [child EXCEPT !.task = Head(toChild).task, !.inputs = <<0>>]
  /\ UNCHANGED <<receipt, rpc, worker, toDaemon, sdk, seen>>

\* steer and native_input: a native input joins the call that streams, anything else waits its turn.
Steered ==
  /\ toChild # <<>> /\ Head(toChild).type \in {"steer", "native"} /\ toChild' = Tail(toChild)
  /\ LET f == Head(toChild)
     IN  IF ~(Owned /\ Reserve) THEN Say(Frame("rejected", f.msg, 0)) /\ UNCHANGED child
         ELSE /\ Say(Frame("ok", f.msg, 0))
              /\ child' = IF f.type = "native" /\ sdk.streaming
                          THEN [child EXCEPT !.controls = Append(@, f.msg)]
                          ELSE [child EXCEPT !.inputs = Append(@, f.msg)]
  /\ UNCHANGED <<receipt, rpc, worker, sdk, seen>>

KeepsSteered(q) == q   \* mutant: what was steered into the SDK is not discarded
Discarded(q) == <<>>
\* abort: refused while a preflight cannot be cancelled, and then the daemon terminates the child.
Abort ==
  /\ toChild # <<>> /\ Head(toChild).type = "abort" /\ toChild' = Tail(toChild)
  /\ IF child.task # 0 /\ (~sdk.streaming \/ child.controls # <<>>)
     THEN Say(Frame("abort_refused", 0, 0)) /\ UNCHANGED <<child, sdk>>
     ELSE /\ child' = IF child.task = 0 THEN child ELSE [child EXCEPT !.cancelled = TRUE, !.inputs = <<>>]
          /\ sdk' = [sdk EXCEPT !.steered = Discarded(@)] /\ UNCHANGED toDaemon
  /\ UNCHANGED <<receipt, rpc, worker, seen>>

-----------------------------------------------------------------------------
(* The task's loop, and the SDK call it awaits. *)
Given(m) == /\ Say(Frame("user", m, child.task)) /\ seen' = [seen EXCEPT ![m] = child.task]
ExecuteAtOnce == child.task # 0 /\ child.call = Idle /\ ~child.cancelled /\ child.inputs # <<>>   \* mutant
MayExecute ==
  child.task # 0 /\ child.call = Idle /\ child.controls = <<>> /\ ~child.cancelled /\ child.inputs # <<>>
Execute ==
  /\ MayExecute
  /\ child' = [child EXCEPT !.call = Head(child.inputs), !.inputs = Tail(@)]
  /\ UNCHANGED <<receipt, rpc, worker, toChild, toDaemon, sdk, seen>>
Streams ==
  /\ child.call # Idle /\ ~sdk.streaming /\ sdk' = [sdk EXCEPT !.streaming = TRUE]
  /\ IF child.call = 0 THEN UNCHANGED <<toDaemon, seen>> ELSE Given(child.call)
  /\ UNCHANGED <<receipt, rpc, worker, toChild, child>>
TakesSteered ==
  /\ sdk.streaming /\ sdk.steered # <<>> /\ Given(Head(sdk.steered))
  /\ sdk' = [sdk EXCEPT !.steered = Tail(@)]
  /\ UNCHANGED <<receipt, rpc, worker, toChild, child>>
\* It returns, having streamed or not, is aborted, or fails; a failure ends the task.
CallReturns ==
  /\ child.call # Idle /\ (sdk.steered = <<>> \/ child.cancelled)
  /\ \/ child' = [child EXCEPT !.call = Idle]
     \/ child' = [child EXCEPT !.call = Idle, !.cancelled = TRUE, !.inputs = <<>>]
  /\ sdk' = [sdk EXCEPT !.streaming = FALSE]
  /\ UNCHANGED <<receipt, rpc, worker, toChild, toDaemon, seen>>

\* native(): one preflight at a time, in order.
Left == [child EXCEPT !.controls = Tail(@), !.entered = FALSE]
NativeStarts ==
  /\ child.controls # <<>> /\ ~child.entered
  /\ \/ child.cancelled /\ child' = Left /\ Say(Frame("control_end", Head(child.controls), child.task))
     \/ ~child.cancelled /\ sdk.streaming /\ child' = [child EXCEPT !.entered = TRUE] /\ UNCHANGED toDaemon
     \/ /\ ~child.cancelled /\ ~sdk.streaming
        /\ IF Reserve THEN child' = [Left EXCEPT !.inputs = Append(@, Head(child.controls))] /\ UNCHANGED toDaemon
           ELSE child' = Left /\ Say(Frame("control_end", Head(child.controls), child.task))
  /\ UNCHANGED <<receipt, rpc, worker, toChild, sdk, seen>>
NativePrompts ==
  /\ child.controls # <<>> /\ child.entered /\ ~sdk.own
  /\ LET m == Head(child.controls)
     IN  IF sdk.streaming
         THEN child' = Left /\ sdk' = [sdk EXCEPT !.steered = Append(@, m)] /\ UNCHANGED <<toDaemon, seen>>
         ELSE sdk' = [sdk EXCEPT !.streaming = TRUE, !.own = TRUE] /\ Given(m) /\ UNCHANGED child
  /\ UNCHANGED <<receipt, rpc, worker, toChild>>
NativeReturns ==
  /\ sdk.own /\ sdk.steered = <<>> /\ child' = Left /\ sdk' = [sdk EXCEPT !.streaming = FALSE, !.own = FALSE]
  /\ UNCHANGED <<receipt, rpc, worker, toChild, toDaemon, seen>>
NativeFails ==
  /\ child.controls # <<>> /\ child.entered /\ ~sdk.own
  /\ child' = Left /\ Say(Frame("control_end", Head(child.controls), child.task))
  /\ UNCHANGED <<receipt, rpc, worker, toChild, sdk, seen>>

EndsUnderPreflight == child.task # 0 /\ child.call = Idle /\ (child.inputs = <<>> \/ child.cancelled)   \* mutant
MayEnd == child.task # 0 /\ child.call = Idle /\ child.controls = <<>> /\ (child.inputs = <<>> \/ child.cancelled)
TaskEnd ==
  /\ MayEnd
  /\ Say(Frame("task_end", 0, child.task)) /\ child' = [child EXCEPT !.task = 0, !.inputs = <<>>, !.cancelled = FALSE]
  /\ UNCHANGED <<receipt, rpc, worker, toChild, sdk, seen>>

-----------------------------------------------------------------------------
InputInit ==
  /\ receipt = [m \in Msgs |-> [state |-> "none", task |-> 0]] /\ rpc = [msg |-> 0, reply |-> "none"]
  /\ worker = [task |-> 0, active |-> FALSE, ending |-> FALSE, stopping |-> FALSE, dead |-> FALSE]
  /\ toChild = <<>> /\ toDaemon = <<>> /\ child = NoTask /\ sdk = QuietSdk /\ seen = [m \in Msgs |-> 0]
InputNext ==
  \/ \E m \in Msgs, kind \in {"steer", "native"} : DeliverInput(m, kind)
  \/ StartRun \/ Answered \/ CallFails \/ Read \/ SettleRun \/ Interrupt \/ ChildExits
  \/ Prompt \/ Steered \/ Abort \/ Execute \/ Streams \/ TakesSteered \/ CallReturns
  \/ NativeStarts \/ NativePrompts \/ NativeReturns \/ NativeFails \/ TaskEnd
InputSpec == InputInit /\ [][InputNext]_inputVars

-----------------------------------------------------------------------------
InputTypeOK ==
  /\ receipt \in [Msgs -> [state : {"none", "sending", "queued", "consumed", "not_consumed", "unknown"}, task : 0..MaxTasks]]
  /\ rpc \in [msg : 0..MaxInputs, reply : {"none", "ok", "rejected"}]
  /\ worker \in [task : 0..MaxTasks, active : BOOLEAN, ending : BOOLEAN, stopping : BOOLEAN, dead : BOOLEAN]
  /\ child.task \in 0..MaxTasks /\ child.call \in 0..Idle
  /\ Len(child.inputs) + Len(child.controls) <= MaxQueued
  /\ seen \in [Msgs -> 0..MaxTasks]

\* The session is prompted by one caller: no input of the loop runs while a native input, whose
\* preflight outlived the call it was sent into, has a turn of its own.
OneTurn == ~(sdk.own /\ child.call # Idle)

\* A message reaches the model only in the task it was sent to: nothing that waits, in the queue, in
\* a preflight or in the SDK, outlives the task.
TaskOwnsInput == \A m \in Msgs : seen[m] \in {0, receipt[m].task}

\* As many receipts of a text say consumed as messages of that text reached the model, at most.
ConsumedIsBacked ==
  \A m \in Msgs :
    Cardinality({k \in Msgs : Text(k) = Text(m) /\ receipt[k].state = "consumed"})
      <= Cardinality({k \in Msgs : Text(k) = Text(m) /\ seen[k] # 0})

\* Unless the child died, a message whose receipt says not_consumed can be sent again: of each text,
\* once nothing is pending, as many receipts say otherwise as messages reached the model.
NotConsumedIsUnseen ==
  ~worker.dead /\ ~worker.active =>
    \A m \in Msgs :
      Cardinality({k \in Msgs : Text(k) = Text(m) /\ seen[k] # 0})
        <= Cardinality({k \in Msgs : Text(k) = Text(m) /\ receipt[k].state \in {"consumed", "unknown"}})

\* A finished run leaves no receipt waiting.
NoReceiptWaits == \A m \in PendingInputs : worker.active /\ receipt[m].task = worker.task

\* What is recorded as consumed stays so, whenever the answer of its call is read; only a call that
\* fails takes its own receipt back.
ConsumedStays ==
  [][\A m \in Msgs : receipt[m].state = "consumed" =>
       receipt'[m].state = "consumed" \/ (rpc.msg = m /\ receipt'[m].state \in {"unknown", "not_consumed"})]_inputVars

\* A receipt tells the truth about its message, and in time, through preflights, cancellation,
\* the end of the task and the death of the child.
ReceiptsHold == TaskOwnsInput /\ ConsumedIsBacked /\ NotConsumedIsUnseen /\ NoReceiptWaits
InputSound == OneTurn /\ ReceiptsHold
=============================================================================
