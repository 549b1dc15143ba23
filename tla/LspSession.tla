----------------------------- MODULE LspSession -----------------------------
(* The `lsp` tool of one Pi session: src/pi-lsp/pi-lsp.ts with its session scope
   (session-lifecycle.ts), the server each route of a call spawns and must see gone before
   the call ends (lsp-client.ts, runner.ts), and the wait for the diagnostics a server
   pushes (published-diagnostics.ts).  A language server answers, publishes, exits, stalls
   or ignores SIGTERM as it pleases.

   `call[c]` is a tool call with its place in runDiagnostics or runFix, `client[c]` the
   process of its present client, `news[c]` what that server has published of the document
   and the wait for it; `session` is the entry of pi-lsp.ts's map, `starts` and `stops` the
   session handlers that wait for its scope to drain.  Documents of one call are alike: one
   stands for them.  Frames, positions, routing and the text of edits are left out.        *)
EXTENDS Naturals, FiniteSets, FiniteSetsExt

CONSTANTS LspCalls,       \* tool calls, each made once
          MaxEvents,      \* bound: session_start and session_shutdown events
          MaxNews         \* bound: publications of one server
ASSUME LspBounds == MaxEvents \in Nat /\ MaxNews \in Nat

VARIABLES session, starts, stops, call, client, news
lspVars == <<session, starts, stops, call, client, news>>

Asking == {"initialize", "pull", "actions", "goodbye"}     \* a request is pending
Working == {"start", "wait"} \cup (Asking \ {"goodbye"})    \* inside withLspClient's try
Leaving == {"goodbye", "leaving", "terminating", "killing"}  \* LspClient.shutdown
NoServer == [state |-> "none", child |-> FALSE, process |-> FALSE]
NoNews == [version |-> 0, last |-> "none", after |-> 0, fallback |-> FALSE, saw |-> FALSE,
           settling |-> FALSE, answer |-> "none"]
LspTypeOK ==
  /\ session \in [generation : 0..MaxEvents, scope : 0..MaxEvents, closing : BOOLEAN]
  /\ starts \subseteq 1..MaxEvents /\ stops \subseteq 1..MaxEvents
  /\ call \in [LspCalls -> [at : {"none", "ended"} \cup Working \cup Leaving, scope : 0..MaxEvents,
                            fix : BOOLEAN, aborted : BOOLEAN, failed : BOOLEAN, routes : 0..1,
                            wrote : {"no", "wanted", "unwanted"}]]
  /\ client \in [LspCalls -> [state : {"none", "starting", "up", "gone"}, child : BOOLEAN, process : BOOLEAN]]
  /\ news \in [LspCalls -> [version : 0..MaxNews, last : {"none", "empty", "some"}, after : 0..MaxNews,
                            fallback : BOOLEAN, saw : BOOLEAN, settling : BOOLEAN,
                            answer : {"none", "pulled", "empty", "some"}]]

LspInit ==
  /\ session = [generation |-> 0, scope |-> 0, closing |-> FALSE]
  /\ starts = {} /\ stops = {}
  /\ call = [c \in LspCalls |-> [at |-> "none", scope |-> 0, fix |-> FALSE, aborted |-> FALSE,
                                 failed |-> FALSE, routes |-> 0, wrote |-> "no"]]
  /\ client = [c \in LspCalls |-> NoServer]
  /\ news = [c \in LspCalls |-> NoNews]

Alive(c) == client[c].state \in {"starting", "up"}
(* A diagnostics call whose route is done and has another to try is still under way.        *)
MoreRoutes(c) == call[c].at = "ended" /\ call[c].routes > 0 /\ ~call[c].failed /\ ~call[c].aborted
Operating(c) == MoreRoutes(c) \/ call[c].at \notin {"none", "ended"}
(* Calls the scope holds: run() deletes a controller only in its finally. *)
Operations == {c \in LspCalls : Operating(c) /\ call[c].scope = session.scope}

-----------------------------------------------------------------------------
(* The client and its server *)

(* #fail: pending requests and waits are rejected, SIGTERM goes to the child, and the client
   writes nothing more.  A server that honours it exits later, in ServerExits.            *)
Cut(s) == [s EXCEPT !.child = FALSE]

(* Mutant: shutdown goes by the child that listens, which an abort takes from it. *)
FarewellToChild(s) == IF s.child THEN "goodbye" ELSE "ended"

(* Where a call goes when LspClient.shutdown begins with the client in state s: nothing to
   do without a process; a child that still listens is asked, another is given the grace. *)
Farewell(s) == IF ~s.process THEN "ended" ELSE IF s.child THEN "goodbye" ELSE "terminating"

(* The await a call is in rejects: the operation fails and its finally shuts the client
   down; a farewell goes on to close() and the grace.                                     *)
Rejected(r, s) ==
  IF r.at \in Working THEN [r EXCEPT !.at = Farewell(s), !.failed = TRUE]
  ELSE IF r.at = "goodbye" THEN [r EXCEPT !.at = IF s.process THEN "terminating" ELSE "ended"]
  ELSE r

(* An abort of the operation's signal: client.close() while withLspClient listens.  start()
   is not rejected by it: its promise waits for the child's own event.                    *)
AbortedCall(r, s) == [(IF r.at \in {"start", "leaving", "killing"} THEN r ELSE Rejected(r, Cut(s))) EXCEPT !.aborted = TRUE]

Spawned == [state |-> "starting", child |-> TRUE, process |-> TRUE]

(* withLspClient up to the await of start(): a command that is not found ends it.          *)
Launch(c, r) ==
  \/ /\ call' = [call EXCEPT ![c] = [r EXCEPT !.at = "start"]]
     /\ client' = [client EXCEPT ![c] = Spawned]
     /\ news' = [news EXCEPT ![c] = NoNews]
  \/ /\ call' = [call EXCEPT ![c] = [r EXCEPT !.at = "ended", !.failed = TRUE]]
     /\ client' = [client EXCEPT ![c] = NoServer]
     /\ news' = [news EXCEPT ![c] = NoNews]

(* Mutant: a closing scope still takes calls. *)
AlwaysOpen == TRUE

(* The registered execute: assertOpen, then the operation up to its first await.           *)
ScopeOpen == ~session.closing
Execute(c) ==
  /\ call[c].at = "none" /\ ScopeOpen
  /\ \E fix \in BOOLEAN, routes \in 0..1 :
       /\ fix => routes = 0
       /\ Launch(c, [call[c] EXCEPT !.scope = session.scope, !.fix = fix, !.routes = routes])
  /\ UNCHANGED <<session, starts, stops>>

(* The process runs, or failed to start; an operation aborted meanwhile goes no further.   *)
SpawnEnds(c) ==
  /\ call[c].at = "start" /\ client[c].state = "starting"
  /\ \/ /\ client' = [client EXCEPT ![c].state = "up"]
        /\ call' = [call EXCEPT ![c] = IF call[c].aborted THEN Rejected(call[c], client[c])
                                       ELSE [call[c] EXCEPT !.at = "initialize"]]
     \/ /\ client' = [client EXCEPT ![c] = [NoServer EXCEPT !.state = "gone"]]
        /\ call' = [call EXCEPT ![c] = Rejected(call[c], client'[c])]
  /\ UNCHANGED <<session, starts, stops, news>>

(* The exit of a server, by itself or by a signal: `exit` clears both references before it
   rejects what is pending, and processExit ends a farewell that waits for it.            *)
AfterExit(r, s) == IF r.at \in Leaving THEN [r EXCEPT !.at = "ended"] ELSE Rejected(r, s)
ServerExits(c) ==
  /\ client[c].state = "up"
  /\ client' = [client EXCEPT ![c] = [NoServer EXCEPT !.state = "gone"]]
  /\ call' = [call EXCEPT ![c] = AfterExit(call[c], client'[c])]
  /\ UNCHANGED <<session, starts, stops, news>>

(* A request times out or is answered by an error, which leaves the child connected.       *)
RequestFails(c) ==
  /\ client[c].state = "up" /\ client[c].child /\ call[c].at \in Asking
  /\ client' = [client EXCEPT ![c] = IF call[c].at = "goodbye" THEN Cut(client[c]) ELSE client[c]]
  /\ call' = [call EXCEPT ![c] = Rejected(call[c], client[c])]
  /\ UNCHANGED <<session, starts, stops, news>>

(* The server sends what is no frame, or its stdin breaks: the client fails as a whole.    *)
ClientFails(c) ==
  /\ client[c].state = "up" /\ client[c].child /\ call[c].at # "start"
  /\ client' = [client EXCEPT ![c] = Cut(client[c])]
  /\ call' = [call EXCEPT ![c] = Rejected(call[c], client'[c])]
  /\ UNCHANGED <<session, starts, stops, news>>

(* settlesWithin's first grace, after a farewell the server answered: close().             *)
GraceEnds(c) ==
  /\ call[c].at = "leaving"
  /\ call' = [call EXCEPT ![c].at = "terminating"]
  /\ client' = [client EXCEPT ![c] = Cut(client[c])]
  /\ UNCHANGED <<session, starts, stops, news>>

(* The second grace: SIGKILL, and the call waits for the exit however long it takes.       *)
KillGraceEnds(c) ==
  /\ call[c].at = "terminating"
  /\ call' = [call EXCEPT ![c].at = "killing"]
  /\ UNCHANGED <<session, starts, stops, client, news>>

-----------------------------------------------------------------------------
(* The diagnostics of a document *)

(* Mutant: everything published before the pull counts as old. *)
PullAfterAll(n) == n.version

(* What the wait counts as news: publications after the one the pull had seen, that one
   included when it held diagnostics.                                                     *)
PullAfter(n) == IF n.last = "some" THEN n.version - 1 ELSE n.version

(* PublishedDiagnostics.onPublish of publication (version, last) as the wait n sees it.    *)
Noticed(n) ==
  IF n.version <= n.after \/ (n.fallback /\ n.last = "empty" /\ ~n.saw) THEN n
  ELSE [n EXCEPT !.saw = n.saw \/ n.last = "some", !.settling = TRUE]
WaitFor(n, fallback) == IF n.version = 0 THEN [n EXCEPT !.fallback = fallback] ELSE Noticed([n EXCEPT !.fallback = fallback])

(* initialize() is answered and the documents are opened: the server offers pull diagnostics
   or is left to push them, with a grace of the adapter or without.                       *)
Initialized(c) ==
  /\ call[c].at = "initialize" /\ client[c].state = "up" /\ client[c].child
  /\ \/ /\ call' = [call EXCEPT ![c].at = "pull"]
        /\ news' = [news EXCEPT ![c].after = PullAfter(news[c])]
     \/ /\ call' = [call EXCEPT ![c].at = "wait"]
        /\ \E grace \in BOOLEAN : news' = [news EXCEPT ![c] = WaitFor(news[c], grace)]
  /\ UNCHANGED <<session, starts, stops, client>>

PublishedMore(c) ==
  /\ client[c].state = "up" /\ client[c].child /\ call[c].at \in {"initialize", "pull", "wait"}
  /\ news[c].version < MaxNews
  /\ \E last \in {"empty", "some"} :
       LET n == [news[c] EXCEPT !.version = @ + 1, !.last = last]
       IN news' = [news EXCEPT ![c] = IF call[c].at = "wait" THEN Noticed(n) ELSE n]
  /\ UNCHANGED <<session, starts, stops, call, client>>

(* The diagnostics are there: a fix goes on to its code actions, a diagnostics call is done
   with this server and shuts it down.                                                    *)
Diagnosed(c, answer) ==
  /\ news' = [news EXCEPT ![c].answer = answer]
  /\ call' = [call EXCEPT ![c].at = IF call[c].fix THEN "actions" ELSE Farewell(client[c])]
  /\ UNCHANGED <<session, starts, stops, client>>

(* The pull is answered: what it holds is the answer, and so is nothing unless the adapter
   grants a grace for what the server may still push.                                     *)
Pulled(c) ==
  /\ call[c].at = "pull" /\ client[c].child
  /\ \/ Diagnosed(c, "pulled")
     \/ /\ call' = [call EXCEPT ![c].at = "wait"]
        /\ news' = [news EXCEPT ![c] = WaitFor(news[c], TRUE)]
        /\ UNCHANGED <<session, starts, stops, client>>

Settled(c) == call[c].at = "wait" /\ news[c].settling /\ Diagnosed(c, news[c].last)

(* The grace of the fallback, unless news disarmed it, or the overall timeout of the wait.  *)
WaitEnds(c) ==
  /\ call[c].at = "wait"
  /\ IF news[c].version > news[c].after THEN Diagnosed(c, news[c].last)
     ELSE IF news[c].fallback THEN Diagnosed(c, "empty")
     ELSE /\ call' = [call EXCEPT ![c] = Rejected(call[c], client[c])]
          /\ UNCHANGED <<session, starts, stops, client, news>>

(* Code actions are listed and resolved; the fix writes the file if it changes it and was
   asked to, unless it was aborted, before its server is shut down.                       *)
WriteWanted(c) == ~call[c].aborted /\ ~(session.closing /\ call[c].scope = session.scope)
Fixed(c) ==
  /\ call[c].at = "actions" /\ client[c].child
  /\ \E wrote \in {"no", IF WriteWanted(c) THEN "wanted" ELSE "unwanted"} :
       call' = [call EXCEPT ![c].at = Farewell(client[c]), ![c].wrote = wrote]
  /\ UNCHANGED <<session, starts, stops, client, news>>

(* `shutdown` is answered: `exit` is sent and the first grace begins.                      *)
Goodbye(c) ==
  /\ call[c].at = "goodbye" /\ client[c].child
  /\ call' = [call EXCEPT ![c].at = "leaving"]
  /\ UNCHANGED <<session, starts, stops, client, news>>

(* A diagnostics call goes to its next route once a server is gone and nothing failed.     *)
NextRoute(c) ==
  /\ MoreRoutes(c)
  /\ Launch(c, [call[c] EXCEPT !.routes = 0])
  /\ UNCHANGED <<session, starts, stops>>

-----------------------------------------------------------------------------
(* The session *)

AbortAll(cs) ==
  /\ call' = [c \in LspCalls |-> IF c \in cs THEN AbortedCall(call[c], client[c]) ELSE call[c]]
  /\ client' = [c \in LspCalls |-> IF c \in cs THEN Cut(client[c]) ELSE client[c]]
  /\ UNCHANGED news

CallerAborts(c) ==
  /\ Operating(c) /\ ~call[c].aborted
  /\ AbortAll({c})
  /\ UNCHANGED <<session, starts, stops>>

(* scope.close(): the first one marks the scope and aborts what runs, later ones share it.  *)
CloseScope(generation) ==
  /\ session' = [session EXCEPT !.generation = generation, !.closing = TRUE]
  /\ AbortAll(IF session.closing THEN {} ELSE {c \in Operations : ~call[c].aborted})

SessionStart ==
  /\ session.generation < MaxEvents
  /\ CloseScope(session.generation + 1)
  /\ starts' = starts \cup {session.generation + 1}
  /\ UNCHANGED stops

SessionShutdown ==
  /\ session.generation < MaxEvents
  /\ CloseScope(session.generation + 1)
  /\ stops' = stops \cup {session.generation + 1}
  /\ UNCHANGED starts

(* The scope has drained: the newest session_start opens another, an overtaken one returns. *)
Drained == Operations = {}
(* Mutant: every session_start whose wait ends opens a scope. *)
NewestOrOvertaken(g) == g <= session.generation

Newest(g) == g = session.generation
Reopen(g) ==
  /\ g \in starts /\ Drained
  /\ starts' = starts \ {g}
  /\ session' = IF Newest(g) THEN [session EXCEPT !.scope = g, !.closing = FALSE] ELSE session
  /\ UNCHANGED <<stops, call, client, news>>
ShutDown(g) ==
  /\ g \in stops /\ Drained
  /\ stops' = stops \ {g}
  /\ UNCHANGED <<session, starts, call, client, news>>

LspStep(c) ==
  \/ Execute(c) \/ SpawnEnds(c) \/ ServerExits(c) \/ RequestFails(c) \/ ClientFails(c) \/ GraceEnds(c) \/ KillGraceEnds(c)
  \/ Initialized(c) \/ PublishedMore(c) \/ Pulled(c) \/ Settled(c) \/ WaitEnds(c) \/ Fixed(c)
  \/ Goodbye(c) \/ NextRoute(c) \/ CallerAborts(c)
LspNext ==
  \/ \E c \in LspCalls : LspStep(c)
  \/ SessionStart \/ SessionShutdown
  \/ \E g \in 1..MaxEvents : Reopen(g) \/ ShutDown(g)

-----------------------------------------------------------------------------
(* A call never ends while a server it started runs, whatever failed, was aborted or refused
   to go (the finally of runner.ts:143 and LspClient.shutdown).                            *)
ServersOwned == \A c \in LspCalls : Alive(c) => Operating(c)

(* Calls run in the session's present scope only: an open scope never shares the session
   with a call of one that closed, and handlers return only when nothing of theirs runs.   *)
ScopesApart ==
  /\ \A c \in LspCalls : Operating(c) => call[c].scope = session.scope
  /\ session.closing /\ starts \cup stops = {} => Operations = {}

(* While the last event is a shutdown no session_start it overtook opens the session again.*)
StaysShut == session.generation \in stops => session.closing

(* Nobody's file is written for a caller that gave up or a session that is closing.        *)
WritesWanted == \A c \in LspCalls : call[c].wrote # "unwanted"

(* An answer taken from what the server pushed is not `no diagnostics` while the newest the
   server said of the document, before the pull or since, are some.                        *)
NewsHeard == \A c \in LspCalls : news[c].answer = "empty" => news[c].last # "some"

(* The `lsp` tool leaves no process, no call, no write and no diagnostics behind. *)
NothingLeftBehind == ServersOwned /\ ScopesApart /\ StaysShut /\ WritesWanted /\ NewsHeard

LspSpec == LspInit /\ [][LspNext]_lspVars
=============================================================================
