------------------------------- MODULE Curator -------------------------------
(* One curated web search of a Pi session, src/pi-web-access: the curator web server
   (curator-server.ts), the `web_search` tool call that waits for what the user approves
   (index.ts, openCuratorBrowser and execute), the /websearch command that sends it as a
   follow-up (tool-commands.ts), and the page (curator-page.script.ts), which may load
   late or never, lose its event stream, fall silent or be closed.

   `curation` is the host's side, with its entry in pendingCurates (or the command's runs);
   `server` the review server and the setImmediate callback it owes the host; `page` what
   the browser knows.  `results` are the searches the host holds, by index.  Each search is
   one of InitialQueries with up to Providers answers, or one the user adds.  Provider
   choice, summary drafts and query rewriting keep no state of the curation: left out.    *)
EXTENDS Naturals, FiniteSets, FiniteSetsExt

CONSTANTS InitialQueries,   \* searches the call begins with
          Providers,        \* answers of one search: searchRouting's providers
          MaxAdded          \* bound: indices of the searches the user adds
ASSUME CuratorBounds == InitialQueries \in Nat /\ Providers \in Nat \ {0} /\ MaxAdded \in Nat

VARIABLES curation, server, page, results
curatorVars == <<curation, server, page, results>>

Endings == {"submit", "user", "timeout", "stale"}
MaxIndex == InitialQueries * Providers + MaxAdded
Indices == 0..MaxIndex - 1
CuratorTypeOK ==
  /\ curation \in [host : {"tool", "command"}, at : {"none", "begun", "running", "returned"}, held : BOOLEAN,
                   wanted : BOOLEAN, answer : {"none"} \cup Endings, answers : 0..2,
                   opening : {"none", "server", "window", "done"}, window : BOOLEAN,
                   searching : 0..InitialQueries, adding : SUBSET Indices]
  /\ server \in [state : {"off", "SEARCHING", "RESULT_SELECTION", "COMPLETED"}, listening : BOOLEAN,
                 connected : BOOLEAN, idle : BOOLEAN, owes : {"none"} \cup Endings,
                 selected : SUBSET Indices, next : 0..MaxIndex, events : SUBSET Indices]
  /\ page \in [open : BOOLEAN, shown : SUBSET Indices, sent : BOOLEAN]
  /\ results \subseteq [index : Indices, of : {"initial", "added"}]

NoServerYet == [state |-> "off", listening |-> FALSE, connected |-> FALSE, idle |-> FALSE,
                owes |-> "none", selected |-> {}, next |-> 0, events |-> {}]
CuratorInit ==
  /\ curation = [host |-> "tool", at |-> "none", held |-> FALSE, wanted |-> TRUE,
                 answer |-> "none", answers |-> 0, opening |-> "none", window |-> FALSE,
                 searching |-> InitialQueries, adding |-> {}]
  /\ server = NoServerYet
  /\ page = [open |-> FALSE, shown |-> {}, sent |-> FALSE]
  /\ results = {}

Tool == curation.host = "tool"
Reviewing == server.state \in {"SEARCHING", "RESULT_SELECTION"}
Found == {r.index : r \in results}

-----------------------------------------------------------------------------
(* The server *)

(* markCompleted, by the one that finds the review open, and the callback it leaves to the
   next turn of the event loop.                                                           *)
MarkCompleted(s, owes) == [s EXCEPT !.state = "COMPLETED", !.owes = owes]

(* handle.close(): a review still open ends as stale, which no one may be there to hear.  *)
CloseServer(s) ==
  [(IF s.state \in {"SEARCHING", "RESULT_SELECTION"} THEN MarkCompleted(s, "stale") ELSE s) EXCEPT !.listening = FALSE]

(* Mutant: added searches are numbered after the queries, not after all their answers. *)
QueryCapacity == InitialQueries

(* The first index of an added search: curatorResultIndexCapacity.                       *)
ResultCapacity == InitialQueries * Providers

(* curatorResultIndex: answer entry of query.                                            *)
ResultIndex(query, entry) == entry * InitialQueries + query

(* pushResult or pushError of each: ignored once the review is completed.                *)
Push(s, indices) == 
  IF s.state \in {"SEARCHING", "RESULT_SELECTION"}
  THEN [s EXCEPT !.events = @ \cup indices, !.next = Max({@} \cup {i + 1 : i \in indices})]
  ELSE s

(* searchesDone: what a heartbeat said of the user's idleness stays as it was.            *)
SearchesDone(s) == IF s.state = "SEARCHING" THEN [s EXCEPT !.state = "RESULT_SELECTION"] ELSE s

(* Mutant: the watchdog waits for a browser as long as none connected. *)
ConnectedOnly(s) == s.connected

(* Whether the watchdog may end the review: a browser that never came is waited for only
   until the searches are done, one that came may be idle, or silent, at any time.        *)
Watched(s) == s.connected \/ s.state = "RESULT_SELECTION"
TimesOutIdle(s) == s.state = "RESULT_SELECTION" /\ s.idle

Watchdog ==
  /\ Reviewing /\ Watched(server)
  /\ \/ TimesOutIdle(server) /\ server' = MarkCompleted(server, "timeout")
     \/ server' = MarkCompleted(server, IF server.state = "RESULT_SELECTION" THEN "timeout" ELSE "stale")
  /\ UNCHANGED <<curation, page, results>>

-----------------------------------------------------------------------------
(* The host *)

(* An answer of the tool call, or the follow-up of the command: the tool tells of every
   ending, the command of what was submitted or timed out.                               *)
Replied(c, ending) ==
  IF c.host = "command" /\ ending \notin {"submit", "timeout"} THEN [c EXCEPT !.answer = ending]
  ELSE [c EXCEPT !.answer = ending, !.answers = @ + 1]

(* closeCurator: the window closes, a call still pending is cancelled, the entry goes and
   the server closes.                                                                     *)
Dropped(c, ending) == [Replied(c, ending) EXCEPT !.held = FALSE, !.window = FALSE]

(* Mutant: whoever comes second ends the curation again. *)
EndedAgain(c, ending) == Dropped(c, ending)

(* The entry decides who ends a curation: the others find it gone.                        *)
Ended(c, ending) == IF c.held THEN Dropped(c, ending) ELSE c
CloseCuration(ending) ==
  /\ curation' = Ended(curation, ending)
  /\ server' = IF curation.held THEN CloseServer(server) ELSE server

(* The tool is called, or the user types /websearch.                                      *)
CurationBegins ==
  /\ curation.at = "none" /\ curation.wanted
  /\ \E host \in {"tool", "command"} : curation' = [curation EXCEPT !.host = host, !.at = "begun"]
  /\ UNCHANGED <<server, page, results>>

(* Provider availability and summary models are there: the call is stale if the session
   ended or its caller gave up meanwhile; else it is held, and the review opens while the
   tool already searches.                                                                 *)
Bootstrapped ==
  /\ curation.at = "begun"
  /\ curation' = IF curation.wanted
                 THEN [curation EXCEPT !.at = "running", !.held = TRUE, !.opening = "server"]
                 ELSE [Replied(curation, "stale") EXCEPT !.at = "returned"]
  /\ UNCHANGED <<server, page, results>>

(* startCuratorServer is back: a curation dropped meanwhile closes the server at once, a
   held one pushes what was found so far; a server that cannot start drops it.           *)
StartedServer == [NoServerYet EXCEPT !.state = "SEARCHING", !.listening = TRUE, !.next = ResultCapacity]
ServerStarts ==
  /\ curation.opening = "server"
  /\ \/ /\ curation.held
        /\ server' = Push(StartedServer, Found)
        /\ \E opening \in {"window", "done"} : curation' = [curation EXCEPT !.opening = opening]
     \/ /\ ~curation.held
        /\ server' = CloseServer(StartedServer)
        /\ curation' = [curation EXCEPT !.opening = "done"]
     \/ /\ server' = server
        /\ curation' = [Ended(curation, "stale") EXCEPT !.opening = "done"]
  /\ UNCHANGED <<page, results>>

(* Mutant: the window is kept although the curation ended while it opened. *)
WindowKept == TRUE

(* The window, the browser or neither opened; one the curation no longer wants is closed. *)
WindowWanted == curation.held
WindowOpens ==
  /\ curation.opening = "window"
  /\ \E window \in BOOLEAN : curation' = [curation EXCEPT !.opening = "done", !.window = window /\ WindowWanted]
  /\ UNCHANGED <<server, page, results>>

(* A search of the call returns with an answer, or failure, per provider asked.  The tool
   searches while the review opens, the command after.                                    *)
SearchReturns ==
  /\ curation.at = "running" /\ curation.searching > 0 /\ (Tool \/ curation.opening = "done")
  /\ curation' = [curation EXCEPT !.searching = @ - 1]
  /\ \E n \in 1..Providers :
       LET found == {ResultIndex(curation.searching - 1, entry) : entry \in 0..n - 1}
       IN IF curation.held
          THEN /\ results' = results \cup [index : found, of : {"initial"}]
               /\ server' = Push(server, found)
          ELSE UNCHANGED <<results, server>>
  /\ UNCHANGED page

(* All searches are back and the review has opened: it becomes a selection.  The call goes
   on only as the promise that a callback or a cancellation resolves.                     *)
AllSearched ==
  /\ curation.at = "running" /\ curation.searching = 0 /\ curation.opening = "done"
  /\ curation' = [curation EXCEPT !.at = "returned"]
  /\ server' = IF curation.held THEN SearchesDone(server) ELSE server
  /\ UNCHANGED <<page, results>>

(* onSubmit and onCancel, in the turn after the server completed: nothing is left to do for
   a curation dropped in between.                                                         *)
Called ==
  /\ server.owes # "none"
  /\ curation' = Ended(curation, server.owes)
  /\ server' = [(IF curation.held THEN CloseServer(server) ELSE server) EXCEPT !.owes = "none"]
  /\ UNCHANGED <<page, results>>

(* The caller of the tool aborts, before or while its curation is held; the user closes the
   native window; the session ends.                                                       *)
CallerGivesUp ==
  /\ Tool /\ curation.at # "none" /\ curation.wanted
  /\ curation' = [Ended(curation, "stale") EXCEPT !.wanted = FALSE]
  /\ server' = IF curation.held THEN CloseServer(server) ELSE server
  /\ UNCHANGED <<page, results>>
WindowCloses == curation.window /\ CloseCuration("stale") /\ UNCHANGED <<page, results>>
EndSession ==
  /\ curation.at # "none" /\ curation.wanted
  /\ curation' = [Ended(curation, "stale") EXCEPT !.wanted = FALSE]
  /\ server' = IF curation.held THEN CloseServer(server) ELSE server
  /\ UNCHANGED <<page, results>>

-----------------------------------------------------------------------------
(* The page *)

Load ==
  /\ server.listening /\ ~page.open
  /\ page' = [open |-> TRUE, shown |-> {}, sent |-> FALSE]
  /\ server' = [server EXCEPT !.connected = TRUE]
  /\ UNCHANGED <<curation, results>>

(* The event stream replays and follows what was pushed, or the page polls /state.        *)
Sees ==
  /\ server.listening /\ page.open /\ Reviewing /\ page.shown # page.shown \cup server.events
  /\ page' = [page EXCEPT !.shown = @ \cup server.events]
  /\ UNCHANGED <<curation, server, results>>

(* A heartbeat reports since when the user did nothing, whether searches run or not.      *)
Heartbeat ==
  /\ server.listening /\ page.open /\ ~page.sent /\ Reviewing
  /\ \E idle \in BOOLEAN :
       LET s == [server EXCEPT !.idle = idle]
       IN server' = IF TimesOutIdle(s) THEN MarkCompleted(s, "timeout") ELSE s
  /\ UNCHANGED <<curation, page, results>>

(* /search: the search takes the next index before it runs, its further answers later.    *)
AddSearch ==
  /\ server.listening /\ page.open /\ ~page.sent /\ Reviewing
  /\ server.next < MaxIndex
  /\ curation' = [curation EXCEPT !.adding = @ \cup {server.next}]
  /\ server' = [server EXCEPT !.next = @ + 1]
  /\ UNCHANGED <<page, results>>

AddedReturns(index) ==
  /\ index \in curation.adding
  /\ curation' = [curation EXCEPT !.adding = @ \ {index}]
  /\ \E n \in 0..(IF curation.held THEN Providers - 1 ELSE 0) :
       LET found == {index} \cup server.next..server.next + n - 1
       IN /\ server.next + n <= MaxIndex
          /\ server' = [server EXCEPT !.next = @ + n]
          /\ results' = IF curation.held THEN results \cup [index : found, of : {"added"}] ELSE results
          /\ page' = IF page.open THEN [page EXCEPT !.shown = @ \cup found] ELSE page

(* The user approves or skips, or the page's own countdown submits what is there.         *)
Submit ==
  /\ server.listening /\ page.open /\ ~page.sent
  /\ page' = [page EXCEPT !.sent = TRUE]
  /\ \E selected \in SUBSET page.shown :
       server' = IF Reviewing THEN [MarkCompleted(server, "submit") EXCEPT !.selected = selected] ELSE server
  /\ UNCHANGED <<curation, results>>
Skip ==
  /\ server.listening /\ page.open /\ ~page.sent
  /\ page' = [page EXCEPT !.sent = TRUE]
  /\ \E reason \in {"user", "timeout"} : server' = IF Reviewing THEN MarkCompleted(server, reason) ELSE server
  /\ UNCHANGED <<curation, results>>

(* The tab is closed: the server hears nothing of it but the silence.                     *)
PageCloses == page.open /\ page' = [page EXCEPT !.open = FALSE, !.shown = {}] /\ UNCHANGED <<curation, server, results>>

CuratorNext ==
  \/ CurationBegins \/ Bootstrapped \/ ServerStarts \/ WindowOpens \/ SearchReturns \/ AllSearched \/ Called
  \/ CallerGivesUp \/ WindowCloses \/ EndSession \/ Watchdog
  \/ Load \/ Sees \/ Heartbeat \/ AddSearch \/ (\E i \in Indices : AddedReturns(i))
  \/ Submit \/ Skip \/ PageCloses
CuratorSpec == CuratorInit /\ [][CuratorNext]_curatorVars

-----------------------------------------------------------------------------
(* A held curation can always still end without the user: something of its own is under
   way, the watchdog watches the review, or the server owes the host its ending.          *)
StillEnds ==
  curation.held => \/ curation.at = "running"
                   \/ Reviewing /\ Watched(server)
                   \/ server.owes # "none"

(* The caller hears of the curation exactly once, whoever ends it and however often.      *)
AnsweredOnce ==
  /\ curation.answers <= 1
  /\ Tool /\ curation.at \notin {"none", "begun"} => (curation.answers = 1 <=> ~curation.held)

(* A curation that ended keeps no window, and no server once what was opening is open.    *)
NothingOpen == ~curation.held => ~curation.window /\ ~server.listening

(* Every answer keeps an index of its own, added while others stream in or not, and the
   page offers for selection only what the host can return and the server accepts.       *)
IndicesTold ==
  /\ \A r, q \in results : r.index = q.index => r = q
  /\ curation.held => page.shown \cup server.selected \subseteq Found
  /\ Reviewing => \A i \in page.shown : i < server.next

CurationSound == StillEnds /\ AnsweredOnce /\ NothingOpen /\ IndicesTold
=============================================================================
