----------------------------- MODULE ExecSession -----------------------------
(* exec_command and write_stdin (src/execution/exec): one command, started by the native bridge
   and read by polling; the call that runs it and the calls that poll it, which wait, give up or
   are aborted while its output and its exit come in, are consumed, and are kept for a replay.

   Output is counted in pieces; the display ring, the archive and the yield times are left out: a
   wait may end at any time. What the bridge evicts unread is reported, and left out too.

   External (native/tools/exec): the bridge answers one request after the other, reports the exit
   of a process and the end of its streams, and takes its processes along when it is shut down.
   What becomes of them when it crashes is not known, and not tracked.                        *)
EXTENDS Integers

CONSTANTS
  Polls,       \* calls of write_stdin, each made once
  MaxPieces,   \* pieces of output
  MaxDeaths    \* crashes of the bridge

ASSUME ExecAssumption == MaxPieces \in Nat /\ MaxDeaths \in Nat

VARIABLES
  native,    \* the process, as the bridge knows it: its state, its output, its streams still open
  handle,    \* the BridgeExecProcess: its startup, its exit, the terminations asked for, its cursor
  execution, \* the ExecSession: held in the map, finalized, exposed, and its output offsets
  replay,    \* the completed result: the pieces it holds, or NoReplay
  calls,     \* the call that runs the command and those that poll it
  manager    \* whether it is up, closing or down, and the crashes of the bridge
execVars == <<native, handle, execution, replay, calls, manager>>

Callers == {"exec"} \cup Polls
NoReplay == -1
Up == manager.state = "up"
\* request(): refused once the bridge client is shut down.
MayRequest == Up
\* isOwned()
SessionOwned == Up /\ execution.held
Goes(c, pc) == calls' = [calls EXCEPT ![c].pc = pc]

-----------------------------------------------------------------------------
(* The bridge process. *)
Runs == native.state = "running"
Produces ==
  /\ native.state \in {"running", "exited"} /\ native.open /\ native.out < MaxPieces
  /\ native' = [native EXCEPT !.out = @ + 1]
  /\ UNCHANGED <<handle, execution, replay, calls, manager>>
\* The process ends; descendants may keep its streams open.
Exits ==
  /\ Runs /\ \E open \in BOOLEAN : native' = [native EXCEPT !.state = "exited", !.open = open]
  /\ UNCHANGED <<handle, execution, replay, calls, manager>>
Closes ==
  /\ native.state = "exited" /\ native.open /\ native' = [native EXCEPT !.open = FALSE]
  /\ UNCHANGED <<handle, execution, replay, calls, manager>>
\* Its requests are rejected, and the next bridge knows none of its processes.
Dies ==
  /\ Up /\ manager.deaths < MaxDeaths /\ manager' = [manager EXCEPT !.deaths = @ + 1]
  /\ native' = [native EXCEPT !.state = IF @ \in {"running", "exited"} THEN "lost" ELSE @]
  /\ UNCHANGED <<handle, execution, replay, calls>>

-----------------------------------------------------------------------------
(* The handle: startup, reads, termination. *)
Finalized(s) == [s EXCEPT !.finalized = TRUE]
\* fail(): exit 1; an owner is told, with a line of output.
Fails ==
  /\ handle' = [handle EXCEPT !.start = IF @ = "asked" THEN "failed" ELSE @, !.exit = TRUE]
  /\ execution' = IF SessionOwned THEN Finalized([execution EXCEPT !.end = @ + 1]) ELSE execution
\* The exec request is answered; a command aborted meanwhile is terminated.
Startup ==
  /\ handle.start = "asked"
  /\ \/ /\ manager.state # "down"
        /\ native' = [native EXCEPT !.state = "running", !.open = TRUE]
        /\ handle' = [handle EXCEPT !.start = "ok", !.killing = @ \/ calls["exec"].aborted]
        /\ UNCHANGED execution
     \/ Fails /\ UNCHANGED native
  /\ UNCHANGED <<replay, calls, manager>>
\* readAndCommit(): what came since the cursor is appended; the exit counts when the streams have
\* ended, or after a read that found an exited process quiet for the grace period.
Commits ==
  LET fresh == native.out - handle.seq
      quiet == handle.seen /\ fresh = 0
      ended == native.state = "exited" /\ (~native.open \/ quiet)
  IN  /\ handle' = [handle EXCEPT !.seq = native.out, !.seen = native.state = "exited", !.exit = ended]
      /\ execution' = LET s == [execution EXCEPT !.end = @ + fresh] IN IF ended THEN Finalized(s) ELSE s
Reads == IF native.state = "lost" THEN Fails ELSE Commits
PollLoop ==
  /\ handle.start = "ok" /\ SessionOwned /\ ~handle.exit /\ Reads
  /\ UNCHANGED <<native, replay, calls, manager>>
\* terminate(), after the startup.
KillAtOnce == handle.killing                                    \* mutant
MayKill == handle.killing /\ handle.start # "asked"
Terminated ==
  /\ MayKill /\ handle' = [handle EXCEPT !.killing = FALSE]
  /\ native' = IF ~handle.exit /\ MayRequest /\ Runs
               THEN [native EXCEPT !.state = "exited"] ELSE native
  /\ UNCHANGED <<execution, replay, calls, manager>>
Terminate == [handle EXCEPT !.killing = TRUE, !.terminating = TRUE]

-----------------------------------------------------------------------------
(* The calls. *)
Exec ==
  /\ Up /\ calls["exec"].pc = "idle" /\ Goes("exec", "waiting")
  /\ handle' = [handle EXCEPT !.start = "asked"] /\ execution' = [execution EXCEPT !.held = TRUE]
  /\ UNCHANGED <<native, replay, manager>>
\* write(): of a session, or of a completed one, whose result is replayed.
Write(c) ==
  /\ Up /\ c \in Polls /\ calls[c].pc = "idle" /\ calls["exec"].pc = "done"
  /\ Goes(c, IF execution.held THEN IF handle.exit THEN "starting" ELSE "waiting" ELSE "done")
  /\ UNCHANGED <<native, handle, execution, replay, manager>>
\* The command exited, the time is up, or the call was aborted.
Wakes(c) ==
  /\ calls[c].pc = "waiting" /\ ~calls[c].aborted /\ Goes(c, "starting")
  /\ UNCHANGED <<native, handle, execution, replay, manager>>
Started(c) ==
  /\ calls[c].pc = "starting" /\ handle.start # "asked" /\ ~calls[c].aborted
  /\ Goes(c, IF handle.start = "ok" /\ ~execution.finalized THEN "polling" ELSE "finishing")
  /\ UNCHANGED <<native, handle, execution, replay, manager>>
\* poll(0), behind the polls that were queued before it.
Polled(c) ==
  /\ calls[c].pc = "polling"
  /\ \/ ~handle.exit /\ SessionOwned /\ native.state # "lost" /\ Commits /\ Goes(c, "finishing")
     \/ (handle.exit \/ ~SessionOwned) /\ Goes(c, "finishing") /\ UNCHANGED <<handle, execution>>
  /\ UNCHANGED <<native, replay, manager>>
\* finishResult(): what was not consumed yet is; a completed session is released, then replayable.
Unexposed == [execution EXCEPT !.emitted = execution.end, !.held = @ /\ ~handle.exit]   \* mutant
Yielded == [execution EXCEPT !.emitted = execution.end, !.exposed = @ \/ ~handle.exit,
                            !.held = @ /\ ~handle.exit]
FinishCall(c) ==
  /\ calls[c].pc = "finishing" /\ Goes(c, "done") /\ execution' = Yielded
  /\ replay' = IF handle.exit THEN execution.end - execution.emitted ELSE replay
  /\ UNCHANGED <<native, handle, manager>>
\* A call that throws consumes nothing; that of exec_command gives its session up.
Forgets(kill) == execution' = [execution EXCEPT !.held = FALSE] /\ UNCHANGED handle    \* mutant
GivesUp(kill) ==
  /\ execution' = [execution EXCEPT !.held = FALSE] /\ handle' = IF kill THEN Terminate ELSE handle
Throws(c, kill) ==
  /\ Goes(c, "thrown")
  /\ IF c = "exec" THEN GivesUp(kill) ELSE UNCHANGED <<handle, execution>>
  /\ UNCHANGED <<native, replay, manager>>
\* The output cannot be read, for an update or for the result.
Unreadable(c) ==
  \/ calls[c].pc = "waiting" /\ ~calls[c].aborted /\ Throws(c, TRUE)
  \/ calls[c].pc = "finishing" /\ Throws(c, ~calls[c].aborted)
\* Its own poll finds that the bridge has lost the process.
PollLost(c) ==
  /\ calls[c].pc = "polling" /\ ~handle.exit /\ SessionOwned /\ native.state = "lost"
  /\ Throws(c, ~calls[c].aborted)
\* The abort handler terminates a command that its own call still awaits.
AbortCall(c) ==
  /\ calls[c].pc \in {"waiting", "starting", "polling"} /\ ~calls[c].aborted
  /\ calls' = [calls EXCEPT ![c].aborted = TRUE]
  /\ handle' = IF c = "exec" /\ ~handle.exit THEN Terminate ELSE handle
  /\ UNCHANGED <<native, execution, replay, manager>>
AbortThrows(c) == calls[c].pc \in {"waiting", "starting"} /\ calls[c].aborted /\ Throws(c, FALSE)
\* terminateSession(), and once more after a while.
TerminateSession ==
  /\ execution.held /\ execution.exposed /\ ~handle.exit /\ ~handle.terminating /\ handle' = Terminate
  /\ UNCHANGED <<native, execution, replay, calls, manager>>
Escalate ==
  /\ Up /\ handle.terminating /\ ~handle.exit /\ ~handle.killing /\ handle' = Terminate
  /\ UNCHANGED <<native, execution, replay, calls, manager>>

-----------------------------------------------------------------------------
Shutdown ==
  /\ Up /\ manager' = [manager EXCEPT !.state = "closing"]
  /\ UNCHANGED <<native, handle, execution, replay, calls>>
\* The bridge has answered and closed, or was killed with all its descendants.
ShutdownEnds ==
  /\ manager.state = "closing" /\ manager' = [manager EXCEPT !.state = "down"]
  /\ native' = [native EXCEPT !.state = IF @ = "none" THEN "none" ELSE "lost"]
  /\ execution' = [execution EXCEPT !.held = FALSE] /\ replay' = NoReplay
  /\ UNCHANGED <<handle, calls>>

ExecInit ==
  /\ native = [state |-> "none", out |-> 0, open |-> FALSE]
  /\ handle = [start |-> "none", exit |-> FALSE, killing |-> FALSE, terminating |-> FALSE,
               seq |-> 0, seen |-> FALSE]
  /\ execution = [held |-> FALSE, finalized |-> FALSE, exposed |-> FALSE, end |-> 0, emitted |-> 0]
  /\ replay = NoReplay /\ calls = [c \in Callers |-> [pc |-> "idle", aborted |-> FALSE]]
  /\ manager = [state |-> "up", deaths |-> 0]
ExecNext ==
  \/ Produces \/ Exits \/ Closes \/ Dies \/ Startup \/ PollLoop \/ Terminated
  \/ Exec \/ TerminateSession \/ Escalate \/ Shutdown \/ ShutdownEnds
  \/ \E c \in Callers :
       Write(c) \/ Wakes(c) \/ Started(c) \/ Polled(c) \/ FinishCall(c) \/ Unreadable(c) \/ PollLost(c)
         \/ AbortCall(c) \/ AbortThrows(c)
ExecSpec == ExecInit /\ [][ExecNext]_execVars

-----------------------------------------------------------------------------
ExecTypeOK ==
  /\ native \in [state : {"none", "running", "exited", "lost"}, out : 0..MaxPieces, open : BOOLEAN]
  /\ handle \in [start : {"none", "asked", "ok", "failed"}, exit : BOOLEAN, killing : BOOLEAN,
                 terminating : BOOLEAN, seq : 0..MaxPieces, seen : BOOLEAN]
  /\ execution \in [held : BOOLEAN, finalized : BOOLEAN, exposed : BOOLEAN,
                  end : 0..(MaxPieces + 1), emitted : 0..(MaxPieces + 1)]
  /\ replay \in -1..(MaxPieces + 1)
  /\ calls \in [Callers -> [pc : {"idle", "waiting", "starting", "polling", "finishing", "done", "thrown"},
                            aborted : BOOLEAN]]
  /\ manager \in [state : {"up", "closing", "down"}, deaths : 0..MaxDeaths]

Returned == calls["exec"].pc = "done"
\* A process that runs has an owner or is about to be terminated, and none survives the shutdown.
NothingOrphaned ==
  /\ Up /\ Runs => execution.held \/ handle.killing
  /\ manager.state = "down" => ~Runs
\* A command whose call has returned is listed and can be polled while it runs.
StaysReachable == Up /\ Runs /\ Returned => execution.held /\ execution.exposed
\* When it has ended, its exit and all output not consumed yet are still to be had.
EndIsTold ==
  Up /\ Returned /\ handle.exit =>
    IF execution.held THEN execution.finalized ELSE replay # NoReplay /\ execution.emitted = execution.end
\* Aborts, unreadable output, a crash of the bridge and a shutdown come between the startup, the
\* waits and the result of a command: it is never lost sight of, neither while it runs nor after.
CommandsAccounted == NothingOrphaned /\ StaysReachable /\ EndIsTold

\* A completed command answers every later poll with the output it completed with
\* (test/resource/exec-execution.test.mjs:340-341).
ReplayKept == [][replay # NoReplay /\ replay' # NoReplay => replay' = replay]_execVars
=============================================================================
