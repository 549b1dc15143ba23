----------------------------- MODULE McpSession -----------------------------
(* One MCP server session (src/mcp/session.ts): a connection opened on demand, shared by
   tool calls, replaced on refresh or expiry, suspended when idle or when the login
   changed, and shut down once.

   A tool directory is its version, a login its version. `catalogRevision` and `discovery`
   are only compared, so a listing, and the catalog, know whether they are still the
   latest. External: the server and its answers, the login another process may write.   *)
EXTENDS Naturals

CONSTANTS
  McpCallers,    \* concurrent tool calls and resource reads
  MaxClients,    \* connections opened
  MaxChanges     \* changes of the server's directory and of the login, together

ASSUME McpAssumption == MaxClients \in Nat \ {0} /\ MaxChanges \in Nat

VARIABLES
  conn,      \* per McpClient: unused, connecting, connected, closing, closed
  mcp,       \* [client, opening, suspending, retiring, shutdown] of the session, 0 for none
  caller,    \* per caller: how far request() is, its connection, the tool it knows
  listing,   \* per updateCatalog() running: its connection, what it read, whether it is the latest
  catalog,   \* [dir, scope, latest, changed]: catalog, this.scope, catalogRevision = discovery, directoryChanged
  world      \* [dir, login, notice]: the server's directory, the saved login, a list_changed under way

mcpVars == <<conn, mcp, caller, listing, catalog, world>>

-----------------------------------------------------------------------------
Clients == 1..MaxClients
Dirs == 0..MaxChanges + 1   \* 0 is the empty directory
Logins == 0..MaxChanges
Listers == {"open", "notice", "discover"}
NoCall == [pc |-> "none", client |-> 0, dir |-> 0, scope |-> 0, again |-> FALSE]
NoListing == [pc |-> "none", client |-> 0, before |-> 0, seen |-> 0, latest |-> FALSE]
McpClosed == mcp.shutdown # "no"

\* closeClient(): at most once per client.
ClosesConnected(K) ==   \* mutant: one that is still connecting is forgotten
  [k \in Clients |-> IF k \in K /\ conn[k] = "connected" THEN "closing" ELSE conn[k]]
CloseClients(K) ==
  [k \in Clients |-> IF k \in K /\ conn[k] \notin {"unused", "closed"} THEN "closing" ELSE conn[k]]
\* releaseRetired(): which of R the callers cl have left behind.
ClosesAnyway(R, cl) == R   \* mutant: a refresh cuts the requests that still use the old connection
Released(R, cl) == {k \in R : \A c \in McpCallers : cl[c].client # k}

\* suspend(): the current connection closes, and whoever wants one waits for that; a second
\* suspend() only waits for the first.
Suspended == IF mcp.suspending # 0 THEN mcp ELSE [mcp EXCEPT !.client = 0, !.suspending = mcp.client]
\* A listing starts: every other one, and the catalog, is no longer the latest.
Outdated == [l \in Listers |-> [listing[l] EXCEPT !.latest = FALSE]]
List(l, k) ==
  /\ listing' = [Outdated EXCEPT ![l] = [NoListing EXCEPT !.pc = "list", !.client = k,
                                                          !.before = world.login, !.latest = TRUE]]
  /\ catalog' = [catalog EXCEPT !.latest = FALSE, !.changed = FALSE]

\* getClient() hands out the connection: nothing is being opened or closed, the login is the same.
Ready == /\ ~McpClosed /\ mcp.suspending = 0 /\ mcp.opening = 0 /\ mcp.client # 0
         /\ conn[mcp.client] = "connected" /\ catalog.scope = world.login
Wanted == (\E c \in McpCallers : caller[c].pc = "want") \/ listing["discover"].pc = "want"

-----------------------------------------------------------------------------
\* A tool call, as the model knows the tool: lease(), then getClient().
CallTool(c) ==
  /\ caller[c].pc = "none" /\ ~McpClosed
  /\ caller' = [caller EXCEPT ![c] = [NoCall EXCEPT !.pc = "want", !.dir = catalog.dir, !.scope = catalog.scope]]
  /\ UNCHANGED <<conn, mcp, listing, catalog, world>>
GetClient(c) ==
  /\ caller[c].pc = "want" /\ Ready
  /\ caller' = [caller EXCEPT ![c].pc = "have", ![c].client = mcp.client]
  /\ UNCHANGED <<conn, mcp, listing, catalog, world>>
SuspendStale ==
  /\ Wanted /\ ~McpClosed /\ mcp.suspending = 0 /\ mcp.opening = 0
  /\ mcp.client # 0 /\ catalog.scope # world.login
  /\ mcp' = Suspended /\ conn' = CloseClients({mcp.client})
  /\ UNCHANGED <<caller, listing, catalog, world>>

\* open(): one at a time; everybody who wants a connection waits for it.
OpensTwice == Wanted /\ ~McpClosed /\ mcp.suspending = 0 /\ mcp.client = 0   \* mutant
MayOpen == Wanted /\ ~McpClosed /\ mcp.suspending = 0 /\ mcp.opening = 0 /\ mcp.client = 0
Open(k) ==
  /\ MayOpen
  /\ conn[k] = "unused" /\ \A j \in Clients : j < k => conn[j] # "unused"
  /\ conn' = [conn EXCEPT ![k] = "connecting"] /\ mcp' = [mcp EXCEPT !.opening = k]
  /\ UNCHANGED <<caller, listing, catalog, world>>
Connected ==
  /\ mcp.opening # 0 /\ conn[mcp.opening] = "connecting" /\ ~McpClosed
  /\ conn' = [conn EXCEPT ![mcp.opening] = "connected"] /\ mcp' = [mcp EXCEPT !.client = mcp.opening]
  /\ List("open", mcp.opening) /\ world' = [world EXCEPT !.notice = FALSE] /\ UNCHANGED caller
\* open() lists again what changed while it listed.
ListAgain ==
  /\ listing["open"].pc = "done" /\ catalog.changed /\ List("open", mcp.opening)
  /\ UNCHANGED <<conn, mcp, caller, world>>
OpenerDone == [listing EXCEPT !["open"] = NoListing, !["discover"] = IF @.pc = "want" THEN NoListing ELSE @]
Opened ==
  /\ listing["open"].pc = "done" /\ ~catalog.changed /\ ~McpClosed
  /\ mcp' = [mcp EXCEPT !.opening = 0] /\ listing' = OpenerDone
  /\ UNCHANGED <<conn, caller, catalog, world>>
\* It fails while connecting, while listing, or because a shutdown came: its client is closed.
OpenFails ==
  /\ mcp.opening # 0
  /\ \/ conn[mcp.opening] # "connected" /\ listing["open"].pc = "none"
     \/ listing["open"].pc = "failed"
     \/ listing["open"].pc = "done" /\ McpClosed
  /\ conn' = CloseClients({mcp.opening})
  /\ mcp' = [mcp EXCEPT !.opening = 0, !.client = IF @ = mcp.opening THEN 0 ELSE @]
  /\ caller' = [c \in McpCallers |-> IF caller[c].pc = "want" THEN NoCall ELSE caller[c]]
  /\ listing' = OpenerDone /\ UNCHANGED <<catalog, world>>

-----------------------------------------------------------------------------
\* updateCatalog(): the server answers; then the result may be too late, or the login another one.
Over(l, pc) == [listing EXCEPT ![l] = IF l = "open" THEN [@ EXCEPT !.pc = pc] ELSE NoListing]
ServerLists(l) ==
  /\ listing[l].pc = "list" /\ conn[listing[l].client] = "connected"
  /\ listing' = [listing EXCEPT ![l].pc = "listed", ![l].seen = world.dir]
  /\ UNCHANGED <<conn, mcp, caller, catalog, world>>
ListingFails(l) ==
  /\ listing[l].pc \in {"list", "listed"}
  /\ listing' = Over(l, "failed")
  /\ UNCHANGED <<conn, mcp, caller, catalog, world>>
Listed(l) ==
  LET u == listing[l]
  IN  /\ u.pc = "listed" /\ ~McpClosed /\ mcp.client = u.client /\ (u.latest => u.before = world.login)
      /\ listing' = Over(l, "done")
      /\ catalog' = IF u.latest THEN [catalog EXCEPT !.dir = u.seen, !.scope = world.login, !.latest = TRUE]
                    ELSE catalog
      /\ UNCHANGED <<conn, mcp, caller, world>>

\* Mutant: a change noticed during a listing counts as listed.
NoticeMissed ==
  /\ world.notice /\ mcp.client # 0 /\ world' = [world EXCEPT !.notice = FALSE]
  /\ catalog' = [catalog EXCEPT !.changed = \A l \in Listers : listing[l].pc = "none"]
  /\ UNCHANGED <<conn, mcp, caller, listing>>
\* tools/list_changed of the current connection; while it is being opened, open() lists again.
Notice ==
  /\ world.notice /\ mcp.client # 0 /\ world' = [world EXCEPT !.notice = FALSE]
  /\ listing' = Outdated /\ catalog' = [catalog EXCEPT !.latest = FALSE, !.changed = TRUE]
  /\ UNCHANGED <<conn, mcp, caller>>
\* The loop the notice started: one listing at a time, until nothing changed.
NoticeLoop ==
  /\ catalog.changed /\ Ready /\ listing["notice"].pc = "none" /\ List("notice", mcp.client)
  /\ UNCHANGED <<conn, mcp, caller, world>>

\* /mcp refresh: the connection is retired, and closed when its last request is over; discover().
Refresh ==
  /\ ~McpClosed /\ mcp.opening = 0 /\ listing["discover"].pc = "none"
  /\ LET retired == mcp.retiring \cup ({mcp.client} \ {0})
         gone == Released(retired, caller)
     IN  /\ mcp' = [mcp EXCEPT !.client = 0, !.retiring = retired \ gone] /\ conn' = CloseClients(gone)
  /\ listing' = [listing EXCEPT !["discover"].pc = "want"]
  /\ UNCHANGED <<caller, catalog, world>>
Discover ==
  /\ Ready /\ listing["discover"].pc \in {"none", "want"} /\ List("discover", mcp.client)
  /\ UNCHANGED <<conn, mcp, caller, world>>

-----------------------------------------------------------------------------
\* currentTool(), when the call starts and again when its request leaves.
CurrentTool(r) == /\ ~McpClosed /\ mcp.client = r.client /\ catalog.latest
                  /\ catalog.scope = r.scope /\ catalog.dir = r.dir
\* A caller leaves its connection: r is what it does next, K what is retired or suspended with it.
Leave(c, r, retire, s) ==
  LET rest == [caller EXCEPT ![c] = r]
      gone == Released(mcp.retiring \cup retire, rest)
  IN  /\ caller' = rest
      /\ mcp' = [s EXCEPT !.retiring = (@ \cup retire) \ gone]
      /\ conn' = CloseClients(gone \cup ({mcp.client} \ ({s.client, 0} \cup retire)))
Dispatch(c) ==
  /\ caller[c].pc = "have" /\ CurrentTool(caller[c])
  /\ caller' = [caller EXCEPT ![c].pc = "sent"] /\ UNCHANGED <<conn, mcp, listing, catalog, world>>
CallOver(c) ==
  /\ \/ caller[c].pc = "sent"
     \/ caller[c].pc = "have" /\ ~CurrentTool(caller[c])
     \/ caller[c].pc = "want" /\ McpClosed
  /\ Leave(c, NoCall, {}, mcp) /\ UNCHANGED <<listing, catalog, world>>
\* An expired session is retired under the requests that share it; the call is made once more.
Expired(c) ==
  LET k == caller[c].client
  IN  /\ caller[c].pc = "sent" /\ ~caller[c].again /\ ~McpClosed
      /\ Leave(c, [caller[c] EXCEPT !.pc = "want", !.client = 0, !.again = TRUE], {k},
               [mcp EXCEPT !.client = IF @ = k THEN 0 ELSE @])
      /\ UNCHANGED <<listing, catalog, world>>
AuthRequired(c) ==
  /\ caller[c].pc = "sent" /\ ~McpClosed
  /\ Leave(c, NoCall, {}, Suspended) /\ catalog' = [catalog EXCEPT !.dir = 0]
  /\ UNCHANGED <<listing, world>>

\* The idle timer; authorizationChanged() before a turn.
IdleTimeout ==
  /\ ~McpClosed /\ mcp.client # 0 /\ mcp.suspending = 0 /\ mcp.opening = 0
  /\ \A c \in McpCallers : caller[c].pc = "none"
  /\ \A l \in Listers : listing[l].pc = "none"
  /\ mcp' = Suspended /\ conn' = CloseClients({mcp.client})
  /\ UNCHANGED <<caller, listing, catalog, world>>
AuthorizationChanged ==
  /\ ~McpClosed /\ catalog.scope # world.login /\ mcp.suspending = 0
  /\ mcp' = Suspended /\ conn' = CloseClients({mcp.client})
  /\ catalog' = [catalog EXCEPT !.dir = 0, !.scope = world.login]
  /\ UNCHANGED <<caller, listing, world>>

\* closeSession(): every connection is closed, the one being opened too; done when all of that is over.
Shutdown ==
  /\ mcp.shutdown = "no"
  /\ mcp' = [Suspended EXCEPT !.shutdown = "closing"]
  /\ conn' = CloseClients(mcp.retiring \cup {mcp.opening, Suspended.suspending})
  /\ UNCHANGED <<caller, listing, catalog, world>>
ShutdownDone ==
  /\ mcp.shutdown = "closing" /\ mcp.opening = 0 /\ mcp.suspending = 0
  /\ \A k \in mcp.retiring : conn[k] = "closed"
  /\ mcp' = [mcp EXCEPT !.shutdown = "done", !.retiring = {}]
  /\ UNCHANGED <<conn, caller, listing, catalog, world>>

\* The transport: a close finishes; the connection drops; the suspension ends.
Closes(k) ==
  /\ conn[k] = "closing" /\ conn' = [conn EXCEPT ![k] = "closed"]
  /\ mcp' = [mcp EXCEPT !.suspending = IF @ = k THEN 0 ELSE @]
  /\ UNCHANGED <<caller, listing, catalog, world>>
Drops ==
  /\ mcp.client # 0 /\ mcp.opening = 0 /\ conn[mcp.client] = "connected"
  /\ conn' = [conn EXCEPT ![mcp.client] = "closed"] /\ mcp' = [mcp EXCEPT !.client = 0]
  /\ UNCHANGED <<caller, listing, catalog, world>>
\* The world: the server's directory changes and says so; another process logs in.
DirChanges ==
  /\ world.dir + world.login <= MaxChanges /\ world' = [world EXCEPT !.dir = @ + 1, !.notice = TRUE]
  /\ UNCHANGED <<conn, mcp, caller, listing, catalog>>
LogsIn ==
  /\ world.dir + world.login <= MaxChanges /\ world' = [world EXCEPT !.login = @ + 1]
  /\ UNCHANGED <<conn, mcp, caller, listing, catalog>>

-----------------------------------------------------------------------------
McpInit ==
  /\ conn = [k \in Clients |-> "unused"]
  /\ mcp = [client |-> 0, opening |-> 0, suspending |-> 0, retiring |-> {}, shutdown |-> "no"]
  /\ caller = [c \in McpCallers |-> NoCall] /\ listing = [l \in Listers |-> NoListing]
  /\ catalog = [dir |-> 0, scope |-> 0, latest |-> FALSE, changed |-> FALSE]
  /\ world = [dir |-> 1, login |-> 0, notice |-> FALSE]
McpNext ==
  \/ \E c \in McpCallers : CallTool(c) \/ GetClient(c) \/ Dispatch(c) \/ CallOver(c) \/ Expired(c) \/ AuthRequired(c)
  \/ \E k \in Clients : Open(k) \/ Closes(k)
  \/ \E l \in Listers : ServerLists(l) \/ ListingFails(l) \/ Listed(l)
  \/ SuspendStale \/ Connected \/ ListAgain \/ Opened \/ OpenFails
  \/ Notice \/ NoticeLoop \/ Refresh \/ Discover \/ IdleTimeout \/ AuthorizationChanged
  \/ Shutdown \/ ShutdownDone \/ Drops \/ DirChanges \/ LogsIn
McpSpec == McpInit /\ [][McpNext]_mcpVars

-----------------------------------------------------------------------------
McpTypeOK ==
  /\ conn \in [Clients -> {"unused", "connecting", "connected", "closing", "closed"}]
  /\ mcp \in [client : 0..MaxClients, opening : 0..MaxClients, suspending : 0..MaxClients,
              retiring : SUBSET Clients, shutdown : {"no", "closing", "done"}]
  /\ caller \in [McpCallers -> [pc : {"none", "want", "have", "sent"}, client : 0..MaxClients,
                                dir : Dirs, scope : Logins, again : BOOLEAN]]
  /\ listing \in [Listers -> [pc : {"none", "want", "list", "listed", "done", "failed"}, client : 0..MaxClients,
                              before : Logins, seen : Dirs, latest : BOOLEAN]]
  /\ catalog \in [dir : Dirs, scope : Logins, latest : BOOLEAN, changed : BOOLEAN]
  /\ world \in [dir : Dirs, login : Logins, notice : BOOLEAN]

\* A finished shutdown left nothing open, whatever was being opened, retired or called when it came.
ShutdownClosesAll == mcp.shutdown = "done" => \A k \in Clients : conn[k] \in {"unused", "closing", "closed"}

\* Apart from connections that are draining, a session never holds two.
OneConnection ==
  \A j, k \in Clients \ mcp.retiring :
    {conn[j], conn[k]} \subseteq {"connecting", "connected"} => j = k

\* A catalog that calls are checked against is the server's, or a notice about the difference is
\* still to be handled: no directory change is lost between overlapping listings.
CatalogCurrent ==
  catalog.latest /\ mcp.client # 0 => catalog.dir = world.dir \/ world.notice \/ catalog.changed

\* A connection is closed under a request that uses it only by a suspension or a shutdown: a refresh
\* and an expired session let the requests that share the old connection finish.
RetiredDrains ==
  [][\A k \in Clients, c \in McpCallers :
       conn[k] = "connected" /\ conn'[k] = "closing" /\ caller'[c].client = k
         => mcp'.shutdown # "no" \/ mcp'.suspending = k]_mcpVars

\* The connections and the catalog of a session belong together through refreshes, notices,
\* expiries, suspensions and shutdown.
SessionCoherent == ShutdownClosesAll /\ OneConnection /\ CatalogCurrent
=============================================================================
