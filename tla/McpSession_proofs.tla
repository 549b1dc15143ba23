-------------------------- MODULE McpSession_proofs --------------------------
(* The connections of a session to what is outside it, for any values of the constants.

   McpSession: its connections and its catalog belong together, and a retired connection drains,
   for any callers, connections and changes.  The invariant accounts for every connection that
   lives: it is the current one, the one being opened, or retired; and it says of the listing
   whose result would be taken that what it read is the directory, or that a notice is to come.
   RemoteCompaction: a ciphertext goes only to the model and the account it was made for.
   LspSession: no language server, no child and no diagnostic outlives what asked for it.
   Curator: a review of search results is answered once, and its page, its server and its tool
   end together.                                                                                  *)
EXTENDS McpSession, RemoteCompaction, LspSession, Curator, TLAPS

Live == {"connecting", "connected"}

(* No connection lives that the session does not know; after a shutdown none does. *)
Accounted ==
  \A k \in Clients : conn[k] \in Live =>
    (mcp.client = k \/ mcp.opening = k \/ k \in mcp.retiring) /\ ~ McpClosed
(* open(): one at a time, and only while nothing is current or being suspended. *)
OpensAlone ==
  /\ mcp.opening # 0 => mcp.client \in {0, mcp.opening}
  /\ mcp.opening # 0 /\ conn[mcp.opening] = "connecting" => mcp.client = 0 /\ mcp.suspending = 0
  /\ mcp.opening # 0 /\ conn[mcp.opening] = "connected" => mcp.client = mcp.opening \/ mcp.opening \in mcp.retiring
  /\ mcp.suspending # 0 => mcp.client = 0
  /\ listing["open"].pc # "none" => mcp.opening # 0 /\ conn[mcp.opening] # "connecting"
(* A caller's connection was opened, and is not being opened; a request has one. *)
CallersOpened ==
  \A c \in McpCallers :
    /\ caller[c].client # 0 => conn[caller[c].client] # "unused" /\ caller[c].client # mcp.opening
    /\ caller[c].pc \in {"have", "sent"} => caller[c].client # 0
(* The listing that is the latest read the directory as it is, or a notice says that it changed. *)
ListingCurrent ==
  \A l \in Listers : listing[l].latest /\ listing[l].pc = "listed" =>
    listing[l].seen = world.dir \/ world.notice \/ catalog.changed
(* The number of changes bounds directories and logins. *)
WorldBounded == world.dir >= 1 /\ world.dir + world.login <= MaxChanges + 1

McpInv ==
  /\ McpTypeOK /\ Accounted /\ OpensAlone /\ CallersOpened /\ ListingCurrent /\ CatalogCurrent
  /\ WorldBounded

ConnStates == {"unused", "connecting", "connected", "closing", "closed"}
Sessions ==
  [client : 0..MaxClients, opening : 0..MaxClients, suspending : 0..MaxClients,
   retiring : SUBSET Clients, shutdown : {"no", "closing", "done"}]
Calls ==
  [pc : {"none", "want", "have", "sent"}, client : 0..MaxClients, dir : Dirs, scope : Logins, again : BOOLEAN]
Listings ==
  [pc : {"none", "want", "list", "listed", "done", "failed"}, client : 0..MaxClients,
   before : Logins, seen : Dirs, latest : BOOLEAN]
Catalogs == [dir : Dirs, scope : Logins, latest : BOOLEAN, changed : BOOLEAN]
Worlds == [dir : Dirs, login : Logins, notice : BOOLEAN]

(* What RetiredDrains says of a step. *)
DrainsNow ==
  \A k \in Clients, c \in McpCallers :
    conn[k] = "connected" /\ conn'[k] = "closing" /\ caller'[c].client = k
      => mcp'.shutdown # "no" \/ mcp'.suspending = k
(* A step keeps what is said of connections and callers, and lets requests finish. *)
ConnectionsKept == Accounted' /\ OpensAlone' /\ CallersOpened' /\ DrainsNow
(* A step keeps what is said of the catalog. *)
CatalogKept == ListingCurrent' /\ CatalogCurrent' /\ WorldBounded'

-----------------------------------------------------------------------------
LEMMA McpTypes ==
  McpTypeOK <=> /\ conn \in [Clients -> ConnStates] /\ mcp \in Sessions
                /\ caller \in [McpCallers -> Calls] /\ listing \in [Listers -> Listings]
                /\ catalog \in Catalogs /\ world \in Worlds
BY DEF McpTypeOK, ConnStates, Sessions, Calls, Listings, Catalogs, Worlds

LEMMA McpTypesNext ==
  ASSUME conn' \in [Clients -> ConnStates], mcp' \in Sessions, caller' \in [McpCallers -> Calls],
         listing' \in [Listers -> Listings], catalog' \in Catalogs, world' \in Worlds
  PROVE  McpTypeOK'
BY DEF McpTypeOK, ConnStates, Sessions, Calls, Listings, Catalogs, Worlds

(* Connections are 1, 2, ...: 0 is none of them. *)
LEMMA ClientNumbers ==
  /\ \A k \in 0..MaxClients : k # 0 => k \in Clients
  /\ \A k \in Clients : k \in 0..MaxClients /\ k # 0
  /\ 0 \in 0..MaxClients /\ 0 \in Dirs /\ 1 \in Dirs /\ 0 \in Logins
  /\ "open" \in Listers /\ "notice" \in Listers /\ "discover" \in Listers
BY McpAssumption DEF Clients, Dirs, Logins, Listers

LEMMA McpFacts ==
  ASSUME McpInv
  PROVE  /\ conn \in [Clients -> ConnStates] /\ mcp \in Sessions
         /\ caller \in [McpCallers -> Calls] /\ listing \in [Listers -> Listings]
         /\ catalog \in Catalogs /\ world \in Worlds
         /\ mcp.client \in 0..MaxClients /\ mcp.opening \in 0..MaxClients /\ mcp.suspending \in 0..MaxClients
         /\ mcp.retiring \subseteq Clients /\ mcp.shutdown \in {"no", "closing", "done"}
         /\ \A c \in McpCallers : caller[c] \in Calls /\ caller[c].client \in 0..MaxClients
         /\ \A l \in Listers : listing[l] \in Listings
         /\ \A k \in Clients : conn[k] \in ConnStates
<1>1. /\ conn \in [Clients -> ConnStates] /\ mcp \in Sessions
      /\ caller \in [McpCallers -> Calls] /\ listing \in [Listers -> Listings]
      /\ catalog \in Catalogs /\ world \in Worlds
  BY McpTypes DEF McpInv
<1>2. \A c \in McpCallers : caller[c] \in Calls
  BY <1>1
<1> QED
  BY <1>1, <1>2 DEF Sessions, Calls

(* closeClient() closes what it is given and what is not closed yet, and nothing else. *)
LEMMA ClosesWhatItIsGiven ==
  ASSUME McpInv, NEW K
  PROVE  /\ CloseClients(K) \in [Clients -> ConnStates]
         /\ \A k \in Clients :
              /\ CloseClients(K)[k] \in Live => k \notin K /\ CloseClients(K)[k] = conn[k]
              /\ CloseClients(K)[k] = "unused" => conn[k] = "unused"
              /\ conn[k] # "closing" /\ CloseClients(K)[k] = "closing" => k \in K
BY McpFacts DEF CloseClients, Live, ConnStates

(* suspend() leaves no current connection, and remembers the one that closes. *)
LEMMA SuspendedIs ==
  ASSUME McpInv
  PROVE  /\ Suspended \in Sessions /\ Suspended.client = 0 /\ Suspended.opening = mcp.opening
         /\ Suspended.retiring = mcp.retiring /\ Suspended.shutdown = mcp.shutdown
         /\ Suspended.suspending = (IF mcp.suspending # 0 THEN mcp.suspending ELSE mcp.client)
         /\ mcp.client # 0 => Suspended.suspending = mcp.client
<1>1. mcp.suspending # 0 => mcp.client = 0
  BY DEF McpInv, OpensAlone
<1>2. CASE mcp.suspending # 0
  BY <1>1, <1>2, McpFacts DEF Suspended
<1>3. CASE mcp.suspending = 0
  BY <1>3, McpFacts, ClientNumbers DEF Suspended, Sessions
<1> QED
  BY <1>2, <1>3

(* Nothing happens to the connections and their users. *)
LEMMA ConnectionsUntouched ==
  ASSUME McpInv, conn' = conn, mcp' = mcp, caller' = caller, listing'["open"].pc # "none" => listing["open"].pc # "none"
  PROVE  ConnectionsKept
<1>1. Accounted' /\ OpensAlone'
  BY DEF McpInv, Accounted, OpensAlone, McpClosed
<1>2. CallersOpened'
  BY DEF McpInv, CallersOpened
<1>3. DrainsNow
  BY DEF DrainsNow
<1> QED
  BY <1>1, <1>2, <1>3 DEF ConnectionsKept

(* A step that takes no listing into the catalog keeps it current. *)
LEMMA CatalogUntouched ==
  ASSUME McpInv, world'.dir = world.dir, world'.login = world.login, world'.notice = world.notice,
         catalog'.changed = catalog.changed,
         \A l \in Listers : listing'[l].latest /\ listing'[l].pc = "listed" =>
           listing[l].latest /\ listing[l].pc = "listed" /\ listing'[l].seen = listing[l].seen,
         catalog'.latest /\ mcp'.client # 0 =>
           catalog.latest /\ mcp.client # 0 /\ catalog'.dir = catalog.dir
  PROVE  CatalogKept
BY DEF McpInv, CatalogKept, ListingCurrent, CatalogCurrent, WorldBounded

LEMMA StepAssembled ==
  ASSUME McpTypeOK', ConnectionsKept, CatalogKept
  PROVE  McpInv' /\ DrainsNow
BY DEF McpInv, ConnectionsKept, CatalogKept

-----------------------------------------------------------------------------
(* The values actions make. *)
LEMMA McpValues ==
  ASSUME McpInv
  PROVE  /\ NoCall \in Calls /\ NoCall.pc = "none" /\ NoCall.client = 0
         /\ NoListing \in Listings /\ NoListing.pc = "none"
         /\ Outdated \in [Listers -> Listings]
         /\ \A l \in Listers : Outdated[l].latest = FALSE /\ Outdated[l].pc = listing[l].pc
<1>1. NoCall \in Calls /\ NoCall.pc = "none" /\ NoCall.client = 0
  BY ClientNumbers DEF NoCall, Calls
<1>2. NoListing \in Listings /\ NoListing.pc = "none"
  BY ClientNumbers DEF NoListing, Listings
<1>3. \A l \in Listers : [listing[l] EXCEPT !.latest = FALSE] \in Listings
  BY McpFacts DEF Listings
<1>4. Outdated \in [Listers -> Listings]
  BY <1>3 DEF Outdated
<1>5. \A l \in Listers : Outdated[l].latest = FALSE /\ Outdated[l].pc = listing[l].pc
  BY McpFacts DEF Outdated, Listings
<1> QED
  BY <1>1, <1>2, <1>4, <1>5

(* A listing that starts is the only latest one, and has read nothing yet. *)
LEMMA ListStarts ==
  ASSUME McpInv, NEW l \in Listers, NEW k \in 0..MaxClients, List(l, k), world' \in Worlds,
         world'.dir = world.dir, world'.login = world.login
  PROVE  /\ listing' \in [Listers -> Listings] /\ catalog' \in Catalogs /\ CatalogKept
         /\ \A m \in Listers : m # l => listing'[m].pc = listing[m].pc
<1> DEFINE n == [NoListing EXCEPT !.pc = "list", !.client = k, !.before = world.login, !.latest = TRUE]
<1>1. n \in Listings /\ n.pc = "list"
  BY McpFacts, McpValues DEF Listings, Worlds
<1>2. listing' = [Outdated EXCEPT ![l] = n] /\ catalog' = [catalog EXCEPT !.latest = FALSE, !.changed = FALSE]
  BY DEF List
<1> HIDE DEF n
<1>3. listing' \in [Listers -> Listings] /\ catalog' \in Catalogs /\ catalog'.latest = FALSE
  BY <1>1, <1>2, McpValues, McpFacts DEF Catalogs
<1>4. \A m \in Listers : listing'[m] = IF m = l THEN n ELSE Outdated[m]
  BY <1>2, McpValues
<1>5. \A m \in Listers : listing'[m].latest => listing'[m].pc # "listed"
  BY <1>1, <1>4, McpValues
<1>6. ListingCurrent' /\ CatalogCurrent' /\ WorldBounded'
  BY <1>3, <1>5 DEF ListingCurrent, CatalogCurrent, WorldBounded, McpInv
<1> QED
  BY <1>3, <1>4, <1>6, McpValues DEF CatalogKept

(* A listing ends, or its waiter gives up: nothing that was read is still to be taken. *)
LEMMA OverIs ==
  ASSUME McpInv, NEW l \in Listers, NEW pc \in {"done", "failed"}
  PROVE  /\ Over(l, pc) \in [Listers -> Listings]
         /\ \A m \in Listers : Over(l, pc)[m].pc = "listed" => m # l /\ Over(l, pc)[m] = listing[m]
         /\ Over(l, pc)["open"].pc # "none" => l = "open" \/ listing["open"].pc # "none"
<1> DEFINE n == IF l = "open" THEN [listing[l] EXCEPT !.pc = pc] ELSE NoListing
<1>1. n \in Listings /\ n.pc # "listed"
  BY McpFacts, McpValues DEF Listings
<1>2. Over(l, pc) = [listing EXCEPT ![l] = n]
  BY DEF Over
<1>3. \A m \in Listers : Over(l, pc)[m] = IF m = l THEN n ELSE listing[m]
  BY <1>2, McpFacts
<1> HIDE DEF n
<1> QED
  BY <1>1, <1>2, <1>3, McpFacts, ClientNumbers

LEMMA OpenerDoneIs ==
  ASSUME McpInv
  PROVE  /\ OpenerDone \in [Listers -> Listings] /\ OpenerDone["open"].pc = "none"
         /\ \A l \in Listers : OpenerDone[l].pc = "listed" => OpenerDone[l] = listing[l]
<1> DEFINE d == IF listing["discover"].pc = "want" THEN NoListing ELSE listing["discover"]
<1>1. d \in Listings /\ (d.pc = "listed" => d = listing["discover"])
  BY McpFacts, McpValues, ClientNumbers
<1>2. OpenerDone = [listing EXCEPT !["open"] = NoListing, !["discover"] = d]
  BY McpFacts, ClientNumbers DEF OpenerDone
<1> HIDE DEF d
<1>3. \A l \in Listers : OpenerDone[l] = IF l = "open" THEN NoListing ELSE IF l = "discover" THEN d ELSE listing[l]
  BY <1>2, McpFacts
<1> QED
  BY <1>1, <1>2, <1>3, McpFacts, McpValues, ClientNumbers

-----------------------------------------------------------------------------
(* Callers start, get the connection and send their request. *)
LEMMA CallToolStep ==
  ASSUME McpInv, NEW c \in McpCallers, CallTool(c)
  PROVE  McpInv' /\ DrainsNow
<1> DEFINE n == [NoCall EXCEPT !.pc = "want", !.dir = catalog.dir, !.scope = catalog.scope]
<1>1. n \in Calls /\ n.client = 0 /\ n.pc = "want"
  BY McpValues, McpFacts DEF Calls, Catalogs
<1>2. /\ caller' = [caller EXCEPT ![c] = n]
      /\ conn' = conn /\ mcp' = mcp /\ listing' = listing /\ catalog' = catalog /\ world' = world
  BY DEF CallTool
<1> HIDE DEF n
<1>3. McpTypeOK'
  BY <1>1, <1>2, McpFacts, McpTypesNext
<1>4. \A d \in McpCallers : caller'[d] = IF d = c THEN n ELSE caller[d]
  BY <1>2, McpFacts
<1>5. Accounted' /\ OpensAlone'
  BY <1>2 DEF McpInv, Accounted, OpensAlone, McpClosed
<1>6. CallersOpened'
  BY <1>1, <1>2, <1>4 DEF McpInv, CallersOpened
<1>7. DrainsNow
  BY <1>2 DEF DrainsNow
<1>8. CatalogKept
  BY <1>2, CatalogUntouched
<1> QED
  BY <1>3, <1>5, <1>6, <1>7, <1>8, StepAssembled DEF ConnectionsKept

LEMMA GetClientStep ==
  ASSUME McpInv, NEW c \in McpCallers, GetClient(c)
  PROVE  McpInv' /\ DrainsNow
<1> DEFINE n == [caller[c] EXCEPT !.pc = "have", !.client = mcp.client]
<1>1. n \in Calls /\ n.client = mcp.client /\ n.pc = "have"
  BY McpFacts DEF Calls
<1>2. /\ caller' = [caller EXCEPT ![c] = n]
      /\ conn' = conn /\ mcp' = mcp /\ listing' = listing /\ catalog' = catalog /\ world' = world
  BY McpFacts DEF GetClient
<1> HIDE DEF n
<1>3. McpTypeOK'
  BY <1>1, <1>2, McpFacts, McpTypesNext
<1>4. \A d \in McpCallers : caller'[d] = IF d = c THEN n ELSE caller[d]
  BY <1>2, McpFacts
<1>5. mcp.client # 0 /\ mcp.opening = 0 /\ conn[mcp.client] = "connected"
  BY DEF GetClient, Ready
<1>6. Accounted' /\ OpensAlone'
  BY <1>2 DEF McpInv, Accounted, OpensAlone, McpClosed
<1>7. CallersOpened'
  BY <1>1, <1>2, <1>4, <1>5 DEF McpInv, CallersOpened
<1>8. DrainsNow
  BY <1>2 DEF DrainsNow
<1>9. CatalogKept
  BY <1>2, CatalogUntouched
<1> QED
  BY <1>3, <1>6, <1>7, <1>8, <1>9, StepAssembled DEF ConnectionsKept

LEMMA DispatchStep ==
  ASSUME McpInv, NEW c \in McpCallers, Dispatch(c)
  PROVE  McpInv' /\ DrainsNow
<1> DEFINE n == [caller[c] EXCEPT !.pc = "sent"]
<1>1. n \in Calls /\ n.client = caller[c].client
  BY McpFacts DEF Calls
<1>2. /\ caller' = [caller EXCEPT ![c] = n] /\ caller[c].pc = "have"
      /\ conn' = conn /\ mcp' = mcp /\ listing' = listing /\ catalog' = catalog /\ world' = world
  BY McpFacts DEF Dispatch
<1> HIDE DEF n
<1>3. McpTypeOK'
  BY <1>1, <1>2, McpFacts, McpTypesNext
<1>4. \A d \in McpCallers : caller'[d] = IF d = c THEN n ELSE caller[d]
  BY <1>2, McpFacts
<1>5. Accounted' /\ OpensAlone'
  BY <1>2 DEF McpInv, Accounted, OpensAlone, McpClosed
<1>6. CallersOpened'
  BY <1>1, <1>2, <1>4 DEF McpInv, CallersOpened
<1>7. DrainsNow
  BY <1>2 DEF DrainsNow
<1>8. CatalogKept
  BY <1>2, CatalogUntouched
<1> QED
  BY <1>3, <1>5, <1>6, <1>7, <1>8, StepAssembled DEF ConnectionsKept

(* A caller leaves: what it leaves behind stays accounted for, and is closed only when nobody else
   uses it, or because it is suspended. *)
LEMMA LeaveKeepsConnections ==
  ASSUME McpInv, NEW c \in McpCallers, NEW r \in Calls, r.client = 0, r.pc \in {"none", "want"},
         NEW retire \in SUBSET Clients, NEW s \in Sessions,
         s.client \in {0, mcp.client}, s.opening = mcp.opening, s.retiring = mcp.retiring,
         s.shutdown = mcp.shutdown, s.suspending # 0 => s.client = 0,
         mcp.client = 0 => s.suspending = mcp.suspending,
         mcp.client # 0 /\ mcp.client # s.client /\ mcp.client \notin retire => s.suspending = mcp.client,
         Leave(c, r, retire, s), listing' = listing
  PROVE  /\ caller' \in [McpCallers -> Calls] /\ mcp' \in Sessions /\ conn' \in [Clients -> ConnStates]
         /\ mcp'.client = s.client /\ ConnectionsKept
<1> DEFINE rest == [caller EXCEPT ![c] = r]
           gone == Released(mcp.retiring \cup retire, rest)
           closed == gone \cup ({mcp.client} \ ({s.client, 0} \cup retire))
<1>1. /\ caller' = rest /\ mcp' = [s EXCEPT !.retiring = (s.retiring \cup retire) \ gone]
      /\ conn' = CloseClients(closed)
  BY DEF Leave
<1>2. /\ gone \subseteq mcp.retiring \cup retire
      /\ \A k \in gone : \A d \in McpCallers : rest[d].client # k
  BY DEF Released
<1> HIDE DEF gone
<1>3. /\ mcp' \in Sessions /\ mcp'.retiring = (mcp.retiring \cup retire) \ gone
      /\ mcp'.client = s.client /\ mcp'.opening = mcp.opening /\ mcp'.suspending = s.suspending
      /\ mcp'.shutdown = mcp.shutdown
  BY <1>1, McpFacts DEF Sessions
<1>4. caller' \in [McpCallers -> Calls] /\ \A d \in McpCallers : caller'[d] = IF d = c THEN r ELSE caller[d]
  BY <1>1, McpFacts
<1> HIDE DEF rest
<1>5. /\ conn' \in [Clients -> ConnStates]
      /\ \A k \in Clients :
           /\ conn'[k] \in Live => k \notin closed /\ conn'[k] = conn[k]
           /\ conn'[k] = "unused" => conn[k] = "unused"
           /\ conn[k] # "closing" /\ conn'[k] = "closing" => k \in closed
  BY <1>1, ClosesWhatItIsGiven
<1>6. ASSUME NEW k \in Clients, conn'[k] \in Live
      PROVE  /\ mcp.client = k => mcp'.client = k \/ k \in mcp'.retiring
             /\ k \in mcp.retiring => k \in mcp'.retiring
  <2>1. k \notin gone /\ (mcp.client = k => mcp.client \in {s.client, 0} \cup retire)
    BY <1>5, <1>6
  <2> QED
    BY <1>3, <2>1, ClientNumbers
<1>7. Accounted'
  <2>1. ASSUME NEW k \in Clients, conn'[k] \in Live
        PROVE  (mcp'.client = k \/ mcp'.opening = k \/ k \in mcp'.retiring) /\ mcp'.shutdown = "no"
    <3>1. (mcp.client = k \/ mcp.opening = k \/ k \in mcp.retiring) /\ mcp.shutdown = "no"
      BY <1>5, <2>1 DEF McpInv, Accounted, McpClosed
    <3> QED
      BY <1>3, <1>6, <2>1, <3>1
  <2> QED
    BY <2>1 DEF Accounted, McpClosed
<1>8. OpensAlone'
  <2>1. mcp'.opening # 0 => mcp'.opening \in Clients
    BY <1>3, McpFacts, ClientNumbers
  <2>2. mcp'.opening # 0 => mcp'.client \in {0, mcp'.opening}
    BY <1>3 DEF McpInv, OpensAlone
  <2>3. mcp'.opening # 0 /\ conn'[mcp'.opening] = "connecting" => mcp'.client = 0 /\ mcp'.suspending = 0
    BY <1>3, <1>5, <2>1 DEF McpInv, OpensAlone, Live
  <2>4. mcp'.opening # 0 /\ conn'[mcp'.opening] = "connected"
          => mcp'.client = mcp'.opening \/ mcp'.opening \in mcp'.retiring
    BY <1>3, <1>5, <1>6, <2>1 DEF McpInv, OpensAlone, Live
  <2>5. listing'["open"].pc # "none" => mcp'.opening # 0 /\ conn'[mcp'.opening] # "connecting"
    BY <1>3, <1>5, <2>1 DEF McpInv, OpensAlone, Live
  <2> QED
    BY <1>3, <2>2, <2>3, <2>4, <2>5 DEF OpensAlone
<1>9. CallersOpened'
  <2>1. ASSUME NEW d \in McpCallers
        PROVE  /\ caller'[d].client # 0 => conn'[caller'[d].client] # "unused" /\ caller'[d].client # mcp'.opening
               /\ caller'[d].pc \in {"have", "sent"} => caller'[d].client # 0
    <3>1. CASE d = c
      BY <1>4, <3>1
    <3>2. CASE d # c
      BY <1>3, <1>4, <1>5, <3>2, McpFacts, ClientNumbers DEF McpInv, CallersOpened
    <3> QED
      BY <3>1, <3>2
  <2> QED
    BY <2>1 DEF CallersOpened
<1>10. DrainsNow
  <2>1. ASSUME NEW k \in Clients, NEW d \in McpCallers,
               conn[k] = "connected", conn'[k] = "closing", caller'[d].client = k
        PROVE  mcp'.suspending = k
    <3>1. k \in closed /\ k \notin gone
      BY <1>1, <1>2, <1>5, <2>1
    <3>2. k = mcp.client /\ mcp.client \notin {s.client, 0} \cup retire
      BY <3>1
    <3> QED
      BY <1>3, <3>2
  <2> QED
    BY <2>1 DEF DrainsNow
<1> QED
  BY <1>3, <1>4, <1>5, <1>7, <1>8, <1>9, <1>10 DEF ConnectionsKept

(* The four ways a call leaves its connection. *)
LEMMA CallOverStep ==
  ASSUME McpInv, NEW c \in McpCallers, CallOver(c)
  PROVE  McpInv' /\ DrainsNow
<1>1. /\ Leave(c, NoCall, {}, mcp) /\ listing' = listing /\ catalog' = catalog /\ world' = world
  BY DEF CallOver
<1>2. mcp.suspending # 0 => mcp.client = 0
  BY DEF McpInv, OpensAlone
<1>3. /\ caller' \in [McpCallers -> Calls] /\ mcp' \in Sessions /\ conn' \in [Clients -> ConnStates]
      /\ mcp'.client = mcp.client /\ ConnectionsKept
  BY <1>1, <1>2, McpFacts, McpValues, LeaveKeepsConnections
<1>4. McpTypeOK'
  BY <1>1, <1>3, McpFacts, McpTypesNext
<1>5. CatalogKept
  BY <1>1, <1>3, CatalogUntouched
<1> QED
  BY <1>3, <1>4, <1>5, StepAssembled

LEMMA ExpiredStep ==
  ASSUME McpInv, NEW c \in McpCallers, Expired(c)
  PROVE  McpInv' /\ DrainsNow
<1> DEFINE k == caller[c].client
           r == [caller[c] EXCEPT !.pc = "want", !.client = 0, !.again = TRUE]
           s == [mcp EXCEPT !.client = IF mcp.client = k THEN 0 ELSE mcp.client]
<1>1. k \in Clients
  BY McpFacts, ClientNumbers DEF Expired, McpInv, CallersOpened
<1>2. r \in Calls /\ r.client = 0 /\ r.pc = "want"
  BY McpFacts, ClientNumbers DEF Calls
<1>3. /\ s \in Sessions /\ s.client = (IF mcp.client = k THEN 0 ELSE mcp.client) /\ s.opening = mcp.opening
      /\ s.retiring = mcp.retiring /\ s.shutdown = mcp.shutdown /\ s.suspending = mcp.suspending
  BY McpFacts, ClientNumbers DEF Sessions
<1>4. Leave(c, r, {k}, s) /\ listing' = listing /\ catalog' = catalog /\ world' = world
  BY DEF Expired
<1>5. mcp.suspending # 0 => mcp.client = 0
  BY DEF McpInv, OpensAlone
<1> HIDE DEF k, r, s
<1>6. /\ caller' \in [McpCallers -> Calls] /\ mcp' \in Sessions /\ conn' \in [Clients -> ConnStates]
      /\ mcp'.client = s.client /\ ConnectionsKept
  BY <1>1, <1>2, <1>3, <1>4, <1>5, LeaveKeepsConnections
<1>7. McpTypeOK'
  BY <1>4, <1>6, McpFacts, McpTypesNext
<1>8. CatalogKept
  BY <1>3, <1>4, <1>6, CatalogUntouched
<1> QED
  BY <1>6, <1>7, <1>8, StepAssembled

LEMMA AuthRequiredStep ==
  ASSUME McpInv, NEW c \in McpCallers, AuthRequired(c)
  PROVE  McpInv' /\ DrainsNow
<1>1. /\ Leave(c, NoCall, {}, Suspended) /\ listing' = listing /\ world' = world
      /\ catalog' = [catalog EXCEPT !.dir = 0]
  BY DEF AuthRequired
<1>2. /\ caller' \in [McpCallers -> Calls] /\ mcp' \in Sessions /\ conn' \in [Clients -> ConnStates]
      /\ mcp'.client = 0 /\ ConnectionsKept
  BY <1>1, McpFacts, McpValues, SuspendedIs, LeaveKeepsConnections
<1>3. catalog' \in Catalogs /\ catalog'.changed = catalog.changed
  BY <1>1, McpFacts, ClientNumbers DEF Catalogs
<1>4. McpTypeOK'
  BY <1>1, <1>2, <1>3, McpFacts, McpTypesNext
<1>5. CatalogKept
  BY <1>1, <1>2, <1>3, CatalogUntouched
<1> QED
  BY <1>2, <1>4, <1>5, StepAssembled

(* A suspension: the current connection closes, and none is current. *)
LEMMA SuspendKeepsConnections ==
  ASSUME McpInv, mcp' = Suspended, conn' = CloseClients({mcp.client}), caller' = caller, listing' = listing
  PROVE  mcp' \in Sessions /\ conn' \in [Clients -> ConnStates] /\ mcp'.client = 0 /\ ConnectionsKept
<1>1. \A k \in Clients :
        /\ conn'[k] \in Live => k # mcp.client /\ conn'[k] = conn[k]
        /\ conn'[k] = "unused" => conn[k] = "unused"
        /\ conn[k] # "closing" /\ conn'[k] = "closing" => k = mcp.client
  BY ClosesWhatItIsGiven
<1>2. Accounted'
  BY <1>1, SuspendedIs DEF McpInv, Accounted, McpClosed
<1>3. mcp.opening # 0 => mcp.opening \in Clients
  BY McpFacts, ClientNumbers
<1>4. OpensAlone'
  BY <1>1, <1>3, SuspendedIs DEF McpInv, OpensAlone, Live
<1>5. CallersOpened'
  <2>1. ASSUME NEW d \in McpCallers
        PROVE  /\ caller'[d].client # 0 => conn'[caller'[d].client] # "unused" /\ caller'[d].client # mcp'.opening
               /\ caller'[d].pc \in {"have", "sent"} => caller'[d].client # 0
    BY <1>1, SuspendedIs, McpFacts, ClientNumbers, ZenonT(60) DEF McpInv, CallersOpened
  <2> QED
    BY <2>1 DEF CallersOpened
<1>6. DrainsNow
  BY <1>1, SuspendedIs, ClientNumbers DEF DrainsNow
<1> QED
  BY <1>2, <1>4, <1>5, <1>6, SuspendedIs, ClosesWhatItIsGiven DEF ConnectionsKept

LEMMA SuspendSteps ==
  ASSUME McpInv, SuspendStale \/ IdleTimeout \/ AuthorizationChanged
  PROVE  McpInv' /\ DrainsNow
<1>1. /\ mcp' = Suspended /\ conn' = CloseClients({mcp.client}) /\ caller' = caller
      /\ listing' = listing /\ world' = world
      /\ catalog' = catalog \/ catalog' = [catalog EXCEPT !.dir = 0, !.scope = world.login]
  BY DEF SuspendStale, IdleTimeout, AuthorizationChanged
<1>2. mcp' \in Sessions /\ conn' \in [Clients -> ConnStates] /\ mcp'.client = 0 /\ ConnectionsKept
  BY <1>1, SuspendKeepsConnections
<1>3. catalog' \in Catalogs /\ catalog'.changed = catalog.changed
  BY <1>1, McpFacts, ClientNumbers DEF Catalogs, Worlds
<1>4. McpTypeOK'
  BY <1>1, <1>2, <1>3, McpFacts, McpTypesNext
<1>5. CatalogKept
  BY <1>1, <1>2, <1>3, CatalogUntouched
<1> QED
  BY <1>2, <1>4, <1>5, StepAssembled

-----------------------------------------------------------------------------
(* A connection is opened while nothing is current; it is current once it is connected. *)
LEMMA OpenStep ==
  ASSUME McpInv, NEW k \in Clients, Open(k)
  PROVE  McpInv' /\ DrainsNow
<1>1. /\ mcp.shutdown = "no" /\ mcp.suspending = 0 /\ mcp.opening = 0 /\ mcp.client = 0 /\ conn[k] = "unused"
      /\ conn' = [conn EXCEPT ![k] = "connecting"] /\ mcp' = [mcp EXCEPT !.opening = k]
      /\ caller' = caller /\ listing' = listing /\ catalog' = catalog /\ world' = world
  BY DEF Open, MayOpen, McpClosed
<1>2. /\ mcp' \in Sessions /\ mcp'.opening = k /\ mcp'.client = 0 /\ mcp'.suspending = 0
      /\ mcp'.retiring = mcp.retiring /\ mcp'.shutdown = "no"
  BY <1>1, McpFacts, ClientNumbers DEF Sessions
<1>3. /\ conn' \in [Clients -> ConnStates]
      /\ \A j \in Clients : conn'[j] = IF j = k THEN "connecting" ELSE conn[j]
  BY <1>1, McpFacts DEF ConnStates
<1>4. McpTypeOK'
  BY <1>1, <1>2, <1>3, McpFacts, McpTypesNext
<1>5. Accounted'
  BY <1>1, <1>2, <1>3, ClientNumbers DEF McpInv, Accounted, McpClosed
<1>6. OpensAlone'
  BY <1>1, <1>2, <1>3 DEF McpInv, OpensAlone
<1>7. CallersOpened'
  <2>1. ASSUME NEW d \in McpCallers
        PROVE  /\ caller'[d].client # 0 => conn'[caller'[d].client] # "unused" /\ caller'[d].client # mcp'.opening
               /\ caller'[d].pc \in {"have", "sent"} => caller'[d].client # 0
    BY <1>1, <1>2, <1>3, McpFacts, ClientNumbers DEF McpInv, CallersOpened
  <2> QED
    BY <2>1 DEF CallersOpened
<1>8. DrainsNow
  BY <1>3 DEF DrainsNow
<1>9. CatalogKept
  BY <1>1, <1>2, CatalogUntouched
<1> QED
  BY <1>4, <1>5, <1>6, <1>7, <1>8, <1>9, StepAssembled DEF ConnectionsKept

LEMMA ConnectedStep ==
  ASSUME McpInv, Connected
  PROVE  McpInv' /\ DrainsNow
<1> DEFINE k == mcp.opening
<1>1. /\ k \in Clients /\ conn[k] = "connecting" /\ mcp.shutdown = "no" /\ List("open", k)
      /\ conn' = [conn EXCEPT ![k] = "connected"] /\ mcp' = [mcp EXCEPT !.client = k]
      /\ world' = [world EXCEPT !.notice = FALSE] /\ caller' = caller
  BY McpFacts, ClientNumbers DEF Connected, McpClosed
<1>2. /\ mcp.client = 0 /\ mcp.suspending = 0 /\ listing["open"].pc = "none"
  BY <1>1, ClientNumbers DEF McpInv, OpensAlone
<1>3. /\ mcp' \in Sessions /\ mcp'.opening = k /\ mcp'.client = k /\ mcp'.suspending = 0
      /\ mcp'.retiring = mcp.retiring /\ mcp'.shutdown = "no"
  BY <1>1, <1>2, McpFacts, ClientNumbers DEF Sessions
<1>4. /\ conn' \in [Clients -> ConnStates]
      /\ \A j \in Clients : conn'[j] = IF j = k THEN "connected" ELSE conn[j]
  BY <1>1, McpFacts DEF ConnStates
<1>5. world' \in Worlds /\ world'.dir = world.dir /\ world'.login = world.login
  BY <1>1, McpFacts DEF Worlds
<1>6. listing' \in [Listers -> Listings] /\ catalog' \in Catalogs /\ CatalogKept
  BY <1>1, <1>5, ClientNumbers, ListStarts
<1>7. McpTypeOK'
  BY <1>1, <1>3, <1>4, <1>5, <1>6, McpFacts, McpTypesNext
<1>8. Accounted'
  BY <1>1, <1>2, <1>3, <1>4, ClientNumbers DEF McpInv, Accounted, McpClosed
<1>9. OpensAlone'
  BY <1>1, <1>3, <1>4, ClientNumbers DEF OpensAlone
<1>10. CallersOpened'
  <2>1. ASSUME NEW d \in McpCallers
        PROVE  /\ caller'[d].client # 0 => conn'[caller'[d].client] # "unused" /\ caller'[d].client # mcp'.opening
               /\ caller'[d].pc \in {"have", "sent"} => caller'[d].client # 0
    BY <1>1, <1>3, <1>4, McpFacts, ClientNumbers DEF McpInv, CallersOpened
  <2> QED
    BY <2>1 DEF CallersOpened
<1>11. DrainsNow
  BY <1>4 DEF DrainsNow
<1> QED
  BY <1>6, <1>7, <1>8, <1>9, <1>10, <1>11, StepAssembled DEF ConnectionsKept

LEMMA ListAgainStep ==
  ASSUME McpInv, ListAgain
  PROVE  McpInv' /\ DrainsNow
<1>1. /\ listing["open"].pc = "done" /\ List("open", mcp.opening)
      /\ conn' = conn /\ mcp' = mcp /\ caller' = caller /\ world' = world
  BY DEF ListAgain
<1>2. listing' \in [Listers -> Listings] /\ catalog' \in Catalogs /\ CatalogKept
  BY <1>1, McpFacts, ClientNumbers, ListStarts
<1>3. McpTypeOK'
  BY <1>1, <1>2, McpFacts, McpTypesNext
<1>4. ConnectionsKept
  BY <1>1, ConnectionsUntouched
<1> QED
  BY <1>2, <1>3, <1>4, StepAssembled

(* open() is over: its connection is current, retired or no longer live. *)
LEMMA OpenedStep ==
  ASSUME McpInv, Opened
  PROVE  McpInv' /\ DrainsNow
<1>1. /\ listing["open"].pc = "done" /\ mcp' = [mcp EXCEPT !.opening = 0] /\ listing' = OpenerDone
      /\ conn' = conn /\ caller' = caller /\ catalog' = catalog /\ world' = world
  BY DEF Opened
<1>2. /\ mcp' \in Sessions /\ mcp'.opening = 0 /\ mcp'.client = mcp.client /\ mcp'.suspending = mcp.suspending
      /\ mcp'.retiring = mcp.retiring /\ mcp'.shutdown = mcp.shutdown
  BY <1>1, McpFacts, ClientNumbers DEF Sessions
<1>3. /\ mcp.opening # 0 /\ conn[mcp.opening] # "connecting"
      /\ conn[mcp.opening] = "connected" => mcp.client = mcp.opening \/ mcp.opening \in mcp.retiring
  BY <1>1 DEF McpInv, OpensAlone
<1>4. McpTypeOK'
  BY <1>1, <1>2, OpenerDoneIs, McpFacts, McpTypesNext
<1>5. Accounted'
  BY <1>1, <1>2, <1>3 DEF McpInv, Accounted, McpClosed, Live
<1>6. OpensAlone'
  BY <1>1, <1>2, OpenerDoneIs DEF McpInv, OpensAlone
<1>7. CallersOpened'
  BY <1>1, <1>2 DEF McpInv, CallersOpened
<1>8. DrainsNow
  BY <1>1 DEF DrainsNow
<1>9. CatalogKept
  BY <1>1, <1>2, OpenerDoneIs, CatalogUntouched
<1> QED
  BY <1>4, <1>5, <1>6, <1>7, <1>8, <1>9, StepAssembled DEF ConnectionsKept

LEMMA OpenFailsStep ==
  ASSUME McpInv, OpenFails
  PROVE  McpInv' /\ DrainsNow
<1> DEFINE k == mcp.opening
           left == IF mcp.client = k THEN 0 ELSE mcp.client
<1>1. /\ k \in Clients /\ conn' = CloseClients({k}) /\ mcp' = [mcp EXCEPT !.opening = 0, !.client = left]
      /\ caller' = [c \in McpCallers |-> IF caller[c].pc = "want" THEN NoCall ELSE caller[c]]
      /\ listing' = OpenerDone /\ catalog' = catalog /\ world' = world
  BY McpFacts, ClientNumbers DEF OpenFails
<1>2. /\ mcp' \in Sessions /\ mcp'.opening = 0 /\ mcp'.client = left /\ mcp'.suspending = mcp.suspending
      /\ mcp'.retiring = mcp.retiring /\ mcp'.shutdown = mcp.shutdown
  BY <1>1, McpFacts, ClientNumbers DEF Sessions
<1>3. /\ conn' \in [Clients -> ConnStates]
      /\ \A j \in Clients :
           /\ conn'[j] \in Live => j # k /\ conn'[j] = conn[j]
           /\ conn'[j] = "unused" => conn[j] = "unused"
           /\ conn[j] # "closing" /\ conn'[j] = "closing" => j = k
  BY <1>1, ClosesWhatItIsGiven
<1>4. /\ caller' \in [McpCallers -> Calls]
      /\ \A c \in McpCallers : caller'[c] = NoCall \/ caller'[c] = caller[c]
  BY <1>1, McpFacts, McpValues
<1>5. McpTypeOK'
  BY <1>1, <1>2, <1>3, <1>4, OpenerDoneIs, McpFacts, McpTypesNext
<1>6. Accounted'
  BY <1>2, <1>3 DEF McpInv, Accounted, McpClosed
<1>7. OpensAlone'
  BY <1>1, <1>2, OpenerDoneIs DEF McpInv, OpensAlone
<1>8. ASSUME NEW c \in McpCallers
      PROVE  /\ caller'[c].client # 0 => conn'[caller'[c].client] # "unused" /\ caller'[c].client # k
             /\ caller'[c].pc \in {"have", "sent"} => caller'[c].client # 0
  <2>1. CASE caller'[c] = NoCall
    BY <2>1, McpValues
  <2>2. CASE caller'[c] = caller[c]
    <3>1. caller[c].client # 0 => caller[c].client \in Clients
      BY McpFacts, ClientNumbers
    <3> QED
      BY <1>3, <2>2, <3>1 DEF McpInv, CallersOpened
  <2> QED
    BY <1>4, <2>1, <2>2
<1>9. CallersOpened'
  BY <1>2, <1>8 DEF CallersOpened
<1>10. DrainsNow
  BY <1>3, <1>8, ClientNumbers DEF DrainsNow
<1>11. CatalogKept
  BY <1>1, <1>2, OpenerDoneIs, CatalogUntouched
<1> QED
  BY <1>5, <1>6, <1>7, <1>9, <1>10, <1>11, StepAssembled DEF ConnectionsKept

-----------------------------------------------------------------------------
(* The listings. *)
LEMMA ServerListsStep ==
  ASSUME McpInv, NEW l \in Listers, ServerLists(l)
  PROVE  McpInv' /\ DrainsNow
<1> DEFINE n == [listing[l] EXCEPT !.pc = "listed", !.seen = world.dir]
<1>1. n \in Listings /\ n.seen = world.dir
  BY McpFacts DEF Listings, Worlds
<1>2. /\ listing' = [listing EXCEPT ![l] = n] /\ listing[l].pc = "list"
      /\ conn' = conn /\ mcp' = mcp /\ caller' = caller /\ catalog' = catalog /\ world' = world
  BY McpFacts DEF ServerLists
<1> HIDE DEF n
<1>3. /\ listing' \in [Listers -> Listings]
      /\ \A m \in Listers : listing'[m] = IF m = l THEN n ELSE listing[m]
  BY <1>1, <1>2, McpFacts
<1>4. McpTypeOK'
  BY <1>2, <1>3, McpFacts, McpTypesNext
<1>5. ConnectionsKept
  BY <1>2, <1>3, ClientNumbers, ConnectionsUntouched
<1>6. CatalogKept
  BY <1>1, <1>2, <1>3 DEF CatalogKept, McpInv, ListingCurrent, CatalogCurrent, WorldBounded
<1> QED
  BY <1>4, <1>5, <1>6, StepAssembled

LEMMA ListingFailsStep ==
  ASSUME McpInv, NEW l \in Listers, ListingFails(l)
  PROVE  McpInv' /\ DrainsNow
<1>1. /\ listing[l].pc \in {"list", "listed"} /\ listing' = Over(l, "failed")
      /\ conn' = conn /\ mcp' = mcp /\ caller' = caller /\ catalog' = catalog /\ world' = world
  BY DEF ListingFails
<1>2. McpTypeOK'
  BY <1>1, OverIs, McpFacts, McpTypesNext
<1>3. ConnectionsKept
  BY <1>1, OverIs, ConnectionsUntouched
<1>4. \A m \in Listers : listing'[m].pc = "listed" => listing'[m] = listing[m]
  BY <1>1, OverIs
<1>5. CatalogKept
  BY <1>1, <1>4, CatalogUntouched
<1> QED
  BY <1>2, <1>3, <1>5, StepAssembled

LEMMA ListedStep ==
  ASSUME McpInv, NEW l \in Listers, Listed(l)
  PROVE  McpInv' /\ DrainsNow
<1> DEFINE u == listing[l]
           n == [catalog EXCEPT !.dir = u.seen, !.scope = world.login, !.latest = TRUE]
<1>1. /\ u.pc = "listed" /\ listing' = Over(l, "done")
      /\ catalog' = IF u.latest THEN n ELSE catalog
      /\ conn' = conn /\ mcp' = mcp /\ caller' = caller /\ world' = world
  BY DEF Listed
<1>2. n \in Catalogs /\ n.dir = u.seen /\ n.changed = catalog.changed
  BY McpFacts DEF Catalogs, Listings, Worlds
<1>3. u.latest => u.seen = world.dir \/ world.notice \/ catalog.changed
  BY <1>1 DEF McpInv, ListingCurrent
<1> HIDE DEF n
<1>4. McpTypeOK'
  BY <1>1, <1>2, OverIs, McpFacts, McpTypesNext
<1>5. ConnectionsKept
  BY <1>1, OverIs, ConnectionsUntouched
<1>6. \A m \in Listers : listing'[m].pc = "listed" => listing'[m] = listing[m]
  BY <1>1, OverIs
<1>7. ListingCurrent'
  BY <1>1, <1>2, <1>6 DEF McpInv, ListingCurrent
<1>8. CatalogCurrent' /\ WorldBounded'
  BY <1>1, <1>2, <1>3 DEF McpInv, CatalogCurrent, WorldBounded
<1> QED
  BY <1>4, <1>5, <1>7, <1>8, StepAssembled DEF CatalogKept

LEMMA NoticeStep ==
  ASSUME McpInv, Notice
  PROVE  McpInv' /\ DrainsNow
<1>1. /\ world' = [world EXCEPT !.notice = FALSE] /\ listing' = Outdated
      /\ catalog' = [catalog EXCEPT !.latest = FALSE, !.changed = TRUE]
      /\ conn' = conn /\ mcp' = mcp /\ caller' = caller
  BY DEF Notice
<1>2. world' \in Worlds /\ world'.dir = world.dir /\ world'.login = world.login
  BY <1>1, McpFacts DEF Worlds
<1>3. catalog' \in Catalogs /\ catalog'.latest = FALSE
  BY <1>1, McpFacts DEF Catalogs
<1>4. McpTypeOK'
  BY <1>1, <1>2, <1>3, McpFacts, McpValues, McpTypesNext
<1>5. ConnectionsKept
  BY <1>1, McpValues, ClientNumbers, ConnectionsUntouched
<1>6. \A l \in Listers : listing'[l].latest = FALSE
  BY <1>1, McpValues
<1>7. CatalogKept
  BY <1>2, <1>3, <1>6 DEF CatalogKept, McpInv, ListingCurrent, CatalogCurrent, WorldBounded
<1> QED
  BY <1>4, <1>5, <1>7, StepAssembled

(* A listing of the current connection, from the notice's loop or from discover(). *)
LEMMA ListStep ==
  ASSUME McpInv, NoticeLoop \/ Discover
  PROVE  McpInv' /\ DrainsNow
<1>1. PICK l \in {"notice", "discover"} :
        List(l, mcp.client) /\ conn' = conn /\ mcp' = mcp /\ caller' = caller /\ world' = world
  BY DEF NoticeLoop, Discover
<1>2. /\ listing' \in [Listers -> Listings] /\ catalog' \in Catalogs /\ CatalogKept
      /\ listing'["open"].pc = listing["open"].pc
  BY <1>1, McpFacts, ClientNumbers, ListStarts
<1>3. McpTypeOK'
  BY <1>1, <1>2, McpFacts, McpTypesNext
<1>4. ConnectionsKept
  BY <1>1, <1>2, ConnectionsUntouched
<1> QED
  BY <1>2, <1>3, <1>4, StepAssembled

(* A refresh retires the current connection: it closes once nobody uses it. *)
LEMMA RefreshStep ==
  ASSUME McpInv, Refresh
  PROVE  McpInv' /\ DrainsNow
<1> DEFINE retired == mcp.retiring \cup ({mcp.client} \ {0})
           gone == Released(retired, caller)
           n == [listing["discover"] EXCEPT !.pc = "want"]
<1>1. /\ mcp.shutdown = "no" /\ mcp.opening = 0
      /\ mcp' = [mcp EXCEPT !.client = 0, !.retiring = retired \ gone] /\ conn' = CloseClients(gone)
      /\ listing' = [listing EXCEPT !["discover"] = n]
      /\ caller' = caller /\ catalog' = catalog /\ world' = world
  BY McpFacts, ClientNumbers DEF Refresh, McpClosed
<1>2. gone \subseteq retired /\ \A k \in gone : \A c \in McpCallers : caller[c].client # k
  BY DEF Released
<1>3. retired \subseteq Clients
  BY McpFacts, ClientNumbers
<1> HIDE DEF gone
<1>4. /\ mcp' \in Sessions /\ mcp'.opening = 0 /\ mcp'.client = 0 /\ mcp'.suspending = mcp.suspending
      /\ mcp'.retiring = retired \ gone /\ mcp'.shutdown = "no"
  BY <1>1, <1>3, McpFacts, ClientNumbers DEF Sessions
<1>5. /\ conn' \in [Clients -> ConnStates]
      /\ \A k \in Clients :
           /\ conn'[k] \in Live => k \notin gone /\ conn'[k] = conn[k]
           /\ conn'[k] = "unused" => conn[k] = "unused"
           /\ conn[k] # "closing" /\ conn'[k] = "closing" => k \in gone
  BY <1>1, ClosesWhatItIsGiven
<1>6. n \in Listings /\ n.pc = "want"
  BY McpFacts, ClientNumbers DEF Listings
<1> HIDE DEF n
<1>7. /\ listing' \in [Listers -> Listings]
      /\ \A l \in Listers : listing'[l] = IF l = "discover" THEN n ELSE listing[l]
  BY <1>1, <1>6, McpFacts
<1>8. McpTypeOK'
  BY <1>1, <1>4, <1>5, <1>7, McpFacts, McpTypesNext
<1>9. Accounted'
  BY <1>1, <1>4, <1>5, ClientNumbers DEF McpInv, Accounted, McpClosed
<1>10. OpensAlone'
  BY <1>1, <1>4, <1>7, ClientNumbers DEF McpInv, OpensAlone
<1>11. CallersOpened'
  <2>1. ASSUME NEW d \in McpCallers
        PROVE  /\ caller'[d].client # 0 => conn'[caller'[d].client] # "unused" /\ caller'[d].client # mcp'.opening
               /\ caller'[d].pc \in {"have", "sent"} => caller'[d].client # 0
    BY <1>1, <1>4, <1>5, McpFacts, ClientNumbers DEF McpInv, CallersOpened
  <2> QED
    BY <2>1 DEF CallersOpened
<1>12. DrainsNow
  BY <1>1, <1>2, <1>5 DEF DrainsNow
<1>13. CatalogKept
  BY <1>1, <1>4, <1>6, <1>7, CatalogUntouched
<1> QED
  BY <1>8, <1>9, <1>10, <1>11, <1>12, <1>13, StepAssembled DEF ConnectionsKept

-----------------------------------------------------------------------------
(* closeSession() closes everything the session knows, and that is everything. *)
LEMMA ShutdownStep ==
  ASSUME McpInv, Shutdown
  PROVE  McpInv' /\ DrainsNow
<1> DEFINE K == mcp.retiring \cup {mcp.opening, Suspended.suspending}
<1>1. /\ mcp.shutdown = "no" /\ mcp' = [Suspended EXCEPT !.shutdown = "closing"] /\ conn' = CloseClients(K)
      /\ caller' = caller /\ listing' = listing /\ catalog' = catalog /\ world' = world
  BY DEF Shutdown
<1>2. /\ mcp' \in Sessions /\ mcp'.opening = mcp.opening /\ mcp'.client = 0
      /\ mcp'.suspending = Suspended.suspending
      /\ mcp'.retiring = mcp.retiring /\ mcp'.shutdown = "closing"
  BY <1>1, SuspendedIs, McpFacts DEF Sessions
<1>3. /\ conn' \in [Clients -> ConnStates]
      /\ \A k \in Clients :
           /\ conn'[k] \in Live => k \notin K /\ conn'[k] = conn[k]
           /\ conn'[k] = "unused" => conn[k] = "unused"
  BY <1>1, ClosesWhatItIsGiven
<1>4. \A k \in Clients : conn'[k] \notin Live
  <2>1. SUFFICES ASSUME NEW k \in Clients, conn'[k] \in Live PROVE FALSE
    OBVIOUS
  <2>2. conn[k] \in Live /\ k \notin K
    BY <1>3, <2>1
  <2>3. mcp.client = k
    BY <2>2 DEF McpInv, Accounted
  <2> QED
    BY <2>2, <2>3, SuspendedIs, ClientNumbers
<1>5. McpTypeOK'
  BY <1>1, <1>2, <1>3, McpFacts, McpTypesNext
<1>6. Accounted'
  BY <1>4 DEF Accounted
<1>7. mcp.opening # 0 => mcp.opening \in Clients
  BY McpFacts, ClientNumbers
<1>8. OpensAlone'
  BY <1>1, <1>2, <1>4, <1>7 DEF McpInv, OpensAlone, Live
<1>9. CallersOpened'
  <2>1. ASSUME NEW d \in McpCallers
        PROVE  /\ caller'[d].client # 0 => conn'[caller'[d].client] # "unused" /\ caller'[d].client # mcp'.opening
               /\ caller'[d].pc \in {"have", "sent"} => caller'[d].client # 0
    BY <1>1, <1>2, <1>3, McpFacts, ClientNumbers, ZenonT(60) DEF McpInv, CallersOpened
  <2> QED
    BY <2>1 DEF CallersOpened
<1>10. DrainsNow
  BY <1>2 DEF DrainsNow
<1>11. CatalogKept
  BY <1>1, <1>2, CatalogUntouched
<1> QED
  BY <1>5, <1>6, <1>8, <1>9, <1>10, <1>11, StepAssembled DEF ConnectionsKept

LEMMA ShutdownDoneStep ==
  ASSUME McpInv, ShutdownDone
  PROVE  McpInv' /\ DrainsNow
<1>1. /\ mcp.shutdown = "closing" /\ mcp.opening = 0 /\ mcp.suspending = 0
      /\ mcp' = [mcp EXCEPT !.shutdown = "done", !.retiring = {}]
      /\ conn' = conn /\ caller' = caller /\ listing' = listing /\ catalog' = catalog /\ world' = world
  BY DEF ShutdownDone
<1>2. /\ mcp' \in Sessions /\ mcp'.opening = mcp.opening /\ mcp'.client = mcp.client
      /\ mcp'.suspending = mcp.suspending
  BY <1>1, McpFacts DEF Sessions
<1>3. McpTypeOK'
  BY <1>1, <1>2, McpFacts, McpTypesNext
<1>4. \A k \in Clients : conn'[k] \notin Live
  BY <1>1 DEF McpInv, Accounted, McpClosed
<1>5. Accounted' /\ OpensAlone'
  BY <1>1, <1>2, <1>4 DEF Accounted, McpInv, OpensAlone
<1>6. CallersOpened'
  BY <1>1, <1>2 DEF McpInv, CallersOpened
<1>7. DrainsNow
  BY <1>1 DEF DrainsNow
<1>8. CatalogKept
  BY <1>1, <1>2, CatalogUntouched
<1> QED
  BY <1>3, <1>5, <1>6, <1>7, <1>8, StepAssembled DEF ConnectionsKept

(* A close finishes, or the connection drops. *)
LEMMA TransportStep ==
  ASSUME McpInv, NEW k \in Clients, conn' = [conn EXCEPT ![k] = "closed"], mcp' \in Sessions,
         conn[k] \in {"closing", "connected"}, conn[k] = "connected" => mcp.opening = 0,
         mcp'.opening = mcp.opening, mcp'.retiring = mcp.retiring, mcp'.shutdown = mcp.shutdown,
         mcp'.client = (IF mcp.client = k /\ conn[k] = "connected" THEN 0 ELSE mcp.client),
         mcp'.suspending \in {0, mcp.suspending},
         caller' = caller, listing' = listing, catalog' = catalog, world' = world
  PROVE  McpInv' /\ DrainsNow
<1>1. /\ conn' \in [Clients -> ConnStates]
      /\ \A j \in Clients : conn'[j] = IF j = k THEN "closed" ELSE conn[j]
  BY McpFacts DEF ConnStates
<1>2. McpTypeOK'
  BY <1>1, McpFacts, McpTypesNext
<1>3. Accounted'
  BY <1>1 DEF McpInv, Accounted, McpClosed, Live
<1>4. mcp.opening # 0 => mcp.opening \in Clients
  BY McpFacts, ClientNumbers
<1>5. OpensAlone'
  BY <1>1, <1>4 DEF McpInv, OpensAlone
<1>6. CallersOpened'
  <2>1. ASSUME NEW d \in McpCallers
        PROVE  /\ caller'[d].client # 0 => conn'[caller'[d].client] # "unused" /\ caller'[d].client # mcp'.opening
               /\ caller'[d].pc \in {"have", "sent"} => caller'[d].client # 0
    BY <1>1, McpFacts, ClientNumbers DEF McpInv, CallersOpened
  <2> QED
    BY <2>1 DEF CallersOpened
<1>7. DrainsNow
  BY <1>1 DEF DrainsNow
<1>8. CatalogKept
  BY ClientNumbers, CatalogUntouched
<1> QED
  BY <1>2, <1>3, <1>5, <1>6, <1>7, <1>8, StepAssembled DEF ConnectionsKept

LEMMA ClosesStep ==
  ASSUME McpInv, NEW k \in Clients, Closes(k)
  PROVE  McpInv' /\ DrainsNow
<1> DEFINE suspending == IF mcp.suspending = k THEN 0 ELSE mcp.suspending
<1>1. /\ conn[k] = "closing" /\ conn' = [conn EXCEPT ![k] = "closed"]
      /\ mcp' = [mcp EXCEPT !.suspending = suspending]
      /\ caller' = caller /\ listing' = listing /\ catalog' = catalog /\ world' = world
  BY DEF Closes
<1>2. /\ mcp' \in Sessions /\ mcp'.opening = mcp.opening /\ mcp'.retiring = mcp.retiring
      /\ mcp'.shutdown = mcp.shutdown /\ mcp'.client = mcp.client /\ mcp'.suspending = suspending
  BY <1>1, McpFacts, ClientNumbers DEF Sessions
<1> QED
  BY <1>1, <1>2, TransportStep

LEMMA DropsStep ==
  ASSUME McpInv, Drops
  PROVE  McpInv' /\ DrainsNow
<1> DEFINE k == mcp.client
<1>1. /\ k \in Clients /\ mcp.opening = 0 /\ conn[k] = "connected" /\ conn' = [conn EXCEPT ![k] = "closed"]
      /\ mcp' = [mcp EXCEPT !.client = 0]
      /\ caller' = caller /\ listing' = listing /\ catalog' = catalog /\ world' = world
  BY McpFacts, ClientNumbers DEF Drops
<1>2. /\ mcp' \in Sessions /\ mcp'.opening = mcp.opening /\ mcp'.retiring = mcp.retiring
      /\ mcp'.shutdown = mcp.shutdown /\ mcp'.client = 0 /\ mcp'.suspending = mcp.suspending
  BY <1>1, McpFacts, ClientNumbers DEF Sessions
<1> QED
  BY <1>1, <1>2, TransportStep

(* The server's directory changes, and a notice is under way; another process logs in. *)
LEMMA WorldStep ==
  ASSUME McpInv, DirChanges \/ LogsIn
  PROVE  McpInv' /\ DrainsNow
<1>1. /\ world.dir + world.login <= MaxChanges
      /\ \/ world' = [world EXCEPT !.dir = world.dir + 1, !.notice = TRUE]
         \/ world' = [world EXCEPT !.login = world.login + 1]
      /\ conn' = conn /\ mcp' = mcp /\ caller' = caller /\ listing' = listing /\ catalog' = catalog
  BY McpFacts DEF DirChanges, LogsIn, Worlds
<1>2. world.dir \in Nat /\ world.login \in Nat /\ world.dir >= 1
  BY McpFacts, McpAssumption DEF Worlds, Dirs, Logins, McpInv, WorldBounded
<1>3. /\ world' \in Worlds /\ world'.dir >= 1 /\ world'.dir + world'.login <= MaxChanges + 1
      /\ world'.notice \/ (world'.dir = world.dir /\ world'.notice = world.notice)
  <2>1. CASE world' = [world EXCEPT !.dir = world.dir + 1, !.notice = TRUE]
    <3>1. world.dir + 1 \in Dirs
      BY <1>1, <1>2, McpAssumption DEF Dirs
    <3>2. world' \in Worlds /\ world'.dir = world.dir + 1 /\ world'.login = world.login /\ world'.notice
      BY <2>1, <3>1, McpFacts, Zenon DEF Worlds
    <3> QED
      BY <1>1, <1>2, <3>2, McpAssumption
  <2>2. CASE world' = [world EXCEPT !.login = world.login + 1]
    <3>1. world.login + 1 \in Logins
      BY <1>1, <1>2, McpAssumption DEF Logins
    <3>2. /\ world' \in Worlds /\ world'.dir = world.dir /\ world'.login = world.login + 1
          /\ world'.notice = world.notice
      BY <2>2, <3>1, McpFacts DEF Worlds
    <3> QED
      BY <1>1, <1>2, <3>2, McpAssumption
  <2> QED
    BY <1>1, <2>1, <2>2
<1>4. McpTypeOK'
  BY <1>1, <1>3, McpFacts, McpTypesNext
<1>5. ConnectionsKept
  BY <1>1, ConnectionsUntouched
<1>6. CatalogKept
  BY <1>1, <1>3 DEF CatalogKept, McpInv, ListingCurrent, CatalogCurrent, WorldBounded
<1> QED
  BY <1>4, <1>5, <1>6, StepAssembled

-----------------------------------------------------------------------------
LEMMA McpInvInit ==
  ASSUME McpInit
  PROVE  McpInv
<1>1. /\ conn \in [Clients -> ConnStates] /\ \A k \in Clients : conn[k] = "unused"
  BY DEF McpInit, ConnStates
<1>2. /\ mcp \in Sessions /\ mcp.client = 0 /\ mcp.opening = 0 /\ mcp.suspending = 0
  BY ClientNumbers DEF McpInit, Sessions
<1>3. NoCall \in Calls /\ NoCall.pc = "none" /\ NoCall.client = 0
  BY ClientNumbers DEF NoCall, Calls
<1>4. NoListing \in Listings /\ NoListing.pc = "none"
  BY ClientNumbers DEF NoListing, Listings
<1>5. /\ caller \in [McpCallers -> Calls] /\ \A c \in McpCallers : caller[c] = NoCall
      /\ listing \in [Listers -> Listings] /\ \A l \in Listers : listing[l] = NoListing
  BY <1>3, <1>4 DEF McpInit
<1>6. catalog \in Catalogs /\ catalog.latest = FALSE
  BY ClientNumbers DEF McpInit, Catalogs
<1>7. world \in Worlds /\ WorldBounded
  BY ClientNumbers, McpAssumption DEF McpInit, Worlds, WorldBounded
<1>8. McpTypeOK
  BY <1>1, <1>2, <1>5, <1>6, <1>7, McpTypes
<1>9. Accounted /\ OpensAlone
  BY <1>1, <1>2, <1>4, <1>5, ClientNumbers DEF Accounted, OpensAlone, Live
<1>10. CallersOpened /\ ListingCurrent /\ CatalogCurrent
  BY <1>3, <1>4, <1>5, <1>6 DEF CallersOpened, ListingCurrent, CatalogCurrent
<1> QED
  BY <1>7, <1>8, <1>9, <1>10 DEF McpInv

LEMMA McpInvStep ==
  ASSUME McpInv, [McpNext]_mcpVars
  PROVE  McpInv' /\ DrainsNow
<1>1. CASE UNCHANGED mcpVars
  <2>1. /\ conn' = conn /\ mcp' = mcp /\ caller' = caller /\ listing' = listing
        /\ catalog' = catalog /\ world' = world
    BY <1>1 DEF mcpVars
  <2>2. McpTypeOK'
    BY <2>1, McpFacts, McpTypesNext
  <2>3. ConnectionsKept
    BY <2>1, ConnectionsUntouched
  <2>4. CatalogKept
    BY <2>1, CatalogUntouched
  <2> QED
    BY <2>2, <2>3, <2>4, StepAssembled
<1>2. ASSUME NEW c \in McpCallers,
             CallTool(c) \/ GetClient(c) \/ Dispatch(c) \/ CallOver(c) \/ Expired(c) \/ AuthRequired(c)
      PROVE  McpInv' /\ DrainsNow
  BY <1>2, CallToolStep, GetClientStep, DispatchStep, CallOverStep, ExpiredStep, AuthRequiredStep
<1>3. ASSUME NEW k \in Clients, Open(k) \/ Closes(k)
      PROVE  McpInv' /\ DrainsNow
  BY <1>3, OpenStep, ClosesStep
<1>4. ASSUME NEW l \in Listers, ServerLists(l) \/ ListingFails(l) \/ Listed(l)
      PROVE  McpInv' /\ DrainsNow
  BY <1>4, ServerListsStep, ListingFailsStep, ListedStep
<1>5. CASE SuspendStale \/ IdleTimeout \/ AuthorizationChanged
  BY <1>5, SuspendSteps
<1>6. CASE Connected \/ ListAgain \/ Opened \/ OpenFails
  BY <1>6, ConnectedStep, ListAgainStep, OpenedStep, OpenFailsStep
<1>7. CASE Notice \/ NoticeLoop \/ Refresh \/ Discover
  BY <1>7, NoticeStep, ListStep, RefreshStep
<1>8. CASE Shutdown \/ ShutdownDone \/ Drops \/ DirChanges \/ LogsIn
  BY <1>8, ShutdownStep, ShutdownDoneStep, DropsStep, WorldStep
<1> QED
  BY <1>1, <1>2, <1>3, <1>4, <1>5, <1>6, <1>7, <1>8 DEF McpNext

(* What is accounted for is what SessionCoherent speaks of. *)
LEMMA McpInvSound ==
  ASSUME McpInv
  PROVE  SessionCoherent
<1>1. ShutdownClosesAll
  BY McpFacts DEF McpInv, Accounted, McpClosed, ShutdownClosesAll, Live, ConnStates
<1>2. OneConnection
  <2>1. SUFFICES ASSUME NEW j \in Clients \ mcp.retiring, NEW k \in Clients \ mcp.retiring,
                        conn[j] \in Live, conn[k] \in Live
                 PROVE  j = k
    BY DEF OneConnection, Live
  <2>2. j \in {mcp.client, mcp.opening} /\ k \in {mcp.client, mcp.opening}
    BY <2>1 DEF McpInv, Accounted
  <2> QED
    BY <2>2, ClientNumbers DEF McpInv, OpensAlone
<1> QED
  BY <1>1, <1>2 DEF McpInv, SessionCoherent

(* After any refreshes, notices, expiries, suspensions and shutdown, for any number of callers and
   connections: a finished shutdown left nothing open, apart from what drains there is one
   connection, and the catalog calls are checked against is the server's or about to be refreshed. *)
THEOREM McpStaysCoherent == McpSpec => []SessionCoherent
<1>1. McpInit => McpInv
  BY McpInvInit
<1>2. McpInv /\ [McpNext]_mcpVars => McpInv'
  BY McpInvStep
<1>3. McpInv => SessionCoherent
  BY McpInvSound
<1> QED
  BY <1>1, <1>2, <1>3, PTL DEF McpSpec

(* A refresh or an expired session never closes a connection under a request that still uses it. *)
THEOREM RequestsDrain == McpSpec => RetiredDrains
<1>1. McpInit => McpInv
  BY McpInvInit
<1>2. McpInv /\ [McpNext]_mcpVars => McpInv'
  BY McpInvStep
<1>3. McpInv /\ [McpNext]_mcpVars => [DrainsNow]_mcpVars
  BY McpInvStep
<1>4. McpSpec => [][DrainsNow]_mcpVars
  BY <1>1, <1>2, <1>3, PTL DEF McpSpec
<1> QED
  BY <1>4, PTL DEF RetiredDrains, DrainsNow

-----------------------------------------------------------------------------
(* RemoteCompaction.  Remote compaction: a ciphertext goes to the model and the login that made it. *)
RemoteStates == {"idle", "prepared", "verifying", "confirming", "sent", "resolving", "summarising", "waiting", "authenticating", "compacting", "native"}
RemoteOps ==
  [pc : RemoteStates, checkpoint : Nat, intact : BOOLEAN, carrier : Nat, model : Models, token : Tokens \union {NoLogin}, source : Nat,
   stale : BOOLEAN, mode : {"none", "portable", "checkpoint"}, manual : BOOLEAN, via : Tokens \union {NoLogin}, from : Nat, late : BOOLEAN]
RemoteBranches == [source : Nat, checkpoint : Nat, intact : BOOLEAN, portable : SUBSET Nat]
RemoteTypes ==
  /\ op \in [Ops -> RemoteOps] /\ trunk \in RemoteBranches /\ past \in RemoteBranches
  /\ scene \in [model : Models, login : Tokens \union {NoLogin}] /\ made \in [sources : Nat, checkpoints : Nat, moves : Nat]
  /\ DOMAIN checkpoints = CheckpointIds
(* A source is counted once: what was read of a branch belongs to the branches that were made by then. *)
SourcesCount == trunk.source <= made.sources /\ past.source <= made.sources /\ \A p \in Ops : op[p].source <= made.sources
(* A request that is not overtaken, and whose source is still the branch's, has read the branch's checkpoint; only
   a checkpoint is confirmed. *)
RequestKnows ==
  LET o == op["request"]
  IN  /\ o.pc # "idle" /\ ~o.stale /\ o.source = trunk.source => o.checkpoint = trunk.checkpoint
      /\ o.pc = "confirming" => o.mode = "checkpoint"
RemoteInv == RemoteTypes /\ SourcesCount /\ RequestKnows
-----------------------------------------------------------------------------
LEMMA CheckpointIsNat ==
  ASSUME RemoteTypes
  PROVE  \A p \in Ops : op[p].checkpoint \in Nat
  BY DEF RemoteTypes, RemoteOps
(* What a request or a compaction goes on with belongs to what it has read, or it is over. *)
Follows(n, o) ==
  /\ n \in RemoteOps /\ n.pc \notin {"sent", "confirming"} /\ n.source \in {0, o.source}
  /\ n.pc # "idle" => n.checkpoint = o.checkpoint /\ n.source = o.source /\ n.stale = o.stale
LEMMA RestIsOver ==
  /\ Rest \in RemoteOps /\ Rest.pc = "idle" /\ Rest.source = 0 /\ Rest.checkpoint = 0 /\ Rest.stale = FALSE
  /\ \A o : Follows(Rest, o)
<1>1. Rest \in RemoteOps /\ Rest.pc = "idle" /\ Rest.source = 0 /\ Rest.checkpoint = 0 /\ Rest.stale = FALSE
  BY DEF Rest, RemoteOps, RemoteStates, Models, Tokens, NoLogin
<1> QED
  BY <1>1 DEF Follows
LEMMA PhaseFollows ==
  ASSUME NEW o \in RemoteOps, NEW pc \in RemoteStates, pc \notin {"sent", "confirming"}
  PROVE  Follows([o EXCEPT !.pc = pc], o)
  BY DEF Follows, RemoteOps
LEMMA ModeFollows ==
  ASSUME NEW o \in RemoteOps, NEW pc \in RemoteStates, pc \notin {"sent", "confirming"}, NEW mode \in {"none", "portable", "checkpoint"}
  PROVE  Follows([o EXCEPT !.pc = pc, !.mode = mode], o)
  BY DEF Follows, RemoteOps
LEMMA PortablyFollows ==
  ASSUME NEW o \in RemoteOps, NEW p \in Ops
  PROVE  Follows(Portably(p, o), o)
<1>1. CASE p = "request"
  BY <1>1, ModeFollows DEF Portably, RemoteStates
<1>2. CASE p = "compaction"
  <2>1. Portably(p, o) = [o EXCEPT !.pc = IF Remote(o.model) THEN "compacting" ELSE "native"]
    BY <1>2 DEF Portably
  <2>2. CASE Remote(o.model)
    BY <2>1, <2>2, PhaseFollows DEF RemoteStates
  <2>3. CASE ~Remote(o.model)
    BY <2>1, <2>3, PhaseFollows DEF RemoteStates
  <2> QED
    BY <2>2, <2>3
<1> QED
  BY <1>1, <1>2 DEF Ops
LEMMA UnportableFollows ==
  ASSUME NEW o \in RemoteOps, NEW p \in Ops
  PROVE  Follows(Unportable(p, o), o)
<1>1. CASE p = "compaction" /\ Repairable(o)
  BY <1>1, PhaseFollows DEF Unportable, RemoteStates
<1>2. CASE ~(p = "compaction" /\ Repairable(o))
  BY <1>2, RestIsOver DEF Unportable
<1> QED
  BY <1>1, <1>2
LEMMA PortableFollows ==
  ASSUME RemoteTypes, NEW o \in RemoteOps, NEW p \in Ops
  PROVE  Follows(Portable(p, o), o)
<1>1. CASE SavedPortable(o)
  BY <1>1, PortablyFollows DEF Portable, SavedPortable
<1>2. CASE ~SavedPortable(o) /\ ~o.intact
  BY <1>2, UnportableFollows DEF Portable
<1>3. CASE ~SavedPortable(o) /\ o.intact
  <2>1. Portable(p, o) = [o EXCEPT !.pc = "resolving", !.from = trunk.source, !.late = FALSE]
    BY <1>3 DEF Portable
  <2>2. trunk.source \in Nat
    BY DEF RemoteTypes, RemoteBranches
  <2> QED
    BY <2>1, <2>2 DEF Follows, RemoteOps, RemoteStates
<1> QED
  BY <1>1, <1>2, <1>3
LEMMA ReadsTells ==
  ASSUME RemoteTypes, NEW o \in RemoteOps
  PROVE  /\ Reads(o) \in RemoteOps /\ Reads(o).checkpoint = trunk.checkpoint /\ Reads(o).source = o.source
         /\ Reads(o).stale = o.stale /\ Reads(o).pc = o.pc /\ Reads(o).model = o.model /\ Reads(o).intact = Data
<1>1. trunk.checkpoint \in Nat /\ Data \in BOOLEAN
  BY DEF RemoteTypes, RemoteBranches, Data
<1> QED
  BY <1>1 DEF Reads, RemoteOps

(* A step of a request or a compaction that belongs to what was read keeps what is known, and sends nothing. *)
LEMMA FollowingKeeps ==
  ASSUME RemoteInv, NEW p \in Ops, p = "request" => op[p].pc # "idle", NEW n, Follows(n, op[p]), op' = [op EXCEPT ![p] = n],
         UNCHANGED <<scene, past, checkpoints, made>>,
         trunk' \in RemoteBranches, trunk'.source = trunk.source, trunk'.checkpoint = trunk.checkpoint
  PROVE  RemoteInv' /\ (op'["request"].pc = "sent" => op["request"].pc = "sent")
<1>1. op \in [Ops -> RemoteOps] /\ n \in RemoteOps /\ made.sources \in Nat /\ "request" \in Ops
  BY DEF RemoteInv, RemoteTypes, Follows, Ops
<1>2. \A q \in Ops : op'[q] = IF q = p THEN n ELSE op[q]
  BY <1>1
<1>3. RemoteTypes'
  BY <1>1, <1>2 DEF RemoteInv, RemoteTypes
<1>4. n.pc = "idle" \/ (n.source = op[p].source /\ n.checkpoint = op[p].checkpoint /\ n.stale = op[p].stale)
  BY DEF Follows
<1>5. RequestKnows'
  <2>1. CASE p = "request" /\ n.pc # "idle" /\ op["request"].pc # "idle"
    BY <1>1, <1>2, <1>4, <2>1 DEF RemoteInv, RequestKnows, Follows
  <2>2. CASE p # "request"
    BY <1>1, <1>2, <2>2 DEF RemoteInv, RequestKnows
  <2>3. CASE p = "request" /\ n.pc = "idle"
    BY <1>1, <1>2, <2>3 DEF RequestKnows
  <2> QED
    BY <1>1, <2>1, <2>2, <2>3
<1>6. SourcesCount'
  <2>1. trunk'.source <= made'.sources /\ past'.source <= made'.sources
    BY DEF RemoteInv, SourcesCount
  <2>2. \A q \in Ops : op'[q].source \in {0, op[q].source} /\ op[q].source \in Nat /\ op[q].source <= made.sources
    BY <1>1, <1>2 DEF RemoteInv, SourcesCount, Follows, RemoteOps
  <2>3. \A q \in Ops : op'[q].source <= made'.sources
    BY <1>1, <2>2
  <2> QED
    BY <2>1, <2>3 DEF SourcesCount
<1> QED
  BY <1>1, <1>2, <1>3, <1>5, <1>6 DEF RemoteInv, Follows

-----------------------------------------------------------------------------
(* The credential of a portable text is resolved, or there is none. *)
LEMMA PortableResolvedKeeps ==
  ASSUME RemoteInv, NEW p \in Ops, PortableResolved(p)
  PROVE  RemoteInv' /\ (op'["request"].pc = "sent" => op["request"].pc = "sent")
<1>1. op \in [Ops -> RemoteOps] /\ RemoteTypes /\ trunk \in RemoteBranches /\ p \in Ops /\ op[p] \in RemoteOps
  BY DEF RemoteInv, RemoteTypes, Ops
<1>2. op[p].pc = "resolving" /\ UNCHANGED <<scene, past, checkpoints, made>>
  BY DEF PortableResolved, Stand
<1>3. PICK n : op' = [op EXCEPT ![p] = n] /\ Follows(n, op[p])
  <2> DEFINE ok == LoggedIn /\ Unmoved(op[p]) /\ Binding(op[p].checkpoint, checkpoints[op[p].checkpoint].model, scene.login) = "valid"
             m == [op[p] EXCEPT !.pc = "summarising", !.via = scene.login]
  <2>1. scene.login \in Tokens \union {NoLogin}
    BY <1>1 DEF RemoteTypes
  <2>2. Follows(m, op[p]) /\ Follows(Unportable(p, op[p]), op[p])
    BY <1>1, <2>1, UnportableFollows, ZenonT(60) DEF Follows, RemoteOps, RemoteStates
  <2>3. op' = [op EXCEPT ![p] = IF ok THEN m ELSE Unportable(p, op[p])]
    BY DEF PortableResolved, Becomes
  <2> QED
    BY <2>2, <2>3
<1>4. trunk' \in RemoteBranches /\ trunk'.source = trunk.source /\ trunk'.checkpoint = trunk.checkpoint
  BY <1>1 DEF PortableResolved, Stand
<1> QED
  BY <1>1, <1>2, <1>3, <1>4, FollowingKeeps

(* A portable text is there, or failed. *)
LEMMA PortableEndsKeeps ==
  ASSUME RemoteInv, NEW p \in Ops, PortableEnds(p)
  PROVE  RemoteInv' /\ (op'["request"].pc = "sent" => op["request"].pc = "sent")
<1>1. op \in [Ops -> RemoteOps] /\ RemoteTypes /\ trunk \in RemoteBranches /\ p \in Ops /\ op[p] \in RemoteOps
  BY DEF RemoteInv, RemoteTypes, Ops
<1>2. op[p].pc = "summarising" /\ UNCHANGED <<scene, past, checkpoints, made>>
  BY DEF PortableEnds, Stand
<1>3. PICK n : op' = [op EXCEPT ![p] = n] /\ Follows(n, op[p])
  <2>1. Follows(Portably(p, op[p]), op[p]) /\ Follows(Unportable(p, op[p]), op[p])
    BY <1>1, PortablyFollows, UnportableFollows
  <2> QED
    BY <2>1 DEF PortableEnds, Becomes
<1>4. trunk' \in RemoteBranches /\ trunk'.source = trunk.source /\ trunk'.checkpoint = trunk.checkpoint
  BY <1>1, CheckpointIsNat DEF PortableEnds, RemoteBranches
<1> QED
  BY <1>1, <1>2, <1>3, <1>4, FollowingKeeps

(* The checkpoint of a request is valid, or its portable text is used, or nothing is. *)
LEMMA ContextVerifiedKeeps ==
  ASSUME RemoteInv, ContextVerified
  PROVE  RemoteInv' /\ (op'["request"].pc = "sent" => op["request"].pc = "sent")
<1>1. op \in [Ops -> RemoteOps] /\ RemoteTypes /\ trunk \in RemoteBranches /\ "request" \in Ops /\ op["request"] \in RemoteOps
  BY DEF RemoteInv, RemoteTypes, Ops
<1>2. op["request"].pc = "verifying" /\ UNCHANGED <<scene, past, checkpoints, made>>
  BY DEF ContextVerified, Stand
<1>3. PICK n : op' = [op EXCEPT !["request"] = n] /\ Follows(n, op["request"])
  <2> DEFINE o == op["request"]
             b == Binding(o.checkpoint, o.model, scene.login)
  <2>1. Follows([o EXCEPT !.pc = "prepared", !.mode = "checkpoint"], o) /\ Follows(Rest, o) /\ Follows(Portable("request", o), o)
    BY <1>1, ModeFollows, RestIsOver, PortableFollows DEF RemoteStates
  <2>2. \E n \in {[o EXCEPT !.pc = "prepared", !.mode = "checkpoint"], Rest, Portable("request", o)} : op' = [op EXCEPT !["request"] = n]
    <3>1. CASE LoggedIn /\ b = "valid"
      BY <3>1 DEF ContextVerified, Becomes
    <3>2. CASE (~LoggedIn \/ b = "unverified") /\ ~SavedPortable(o)
      BY <3>2 DEF ContextVerified, Becomes
    <3>3. CASE ~(LoggedIn /\ b = "valid") /\ ~((~LoggedIn \/ b = "unverified") /\ ~SavedPortable(o))
      BY <3>3 DEF ContextVerified, Becomes
    <3> QED
      BY <3>1, <3>2, <3>3
  <2> QED
    BY <2>1, <2>2
<1>4. trunk' \in RemoteBranches /\ trunk'.source = trunk.source /\ trunk'.checkpoint = trunk.checkpoint
  BY <1>1 DEF ContextVerified, Stand
<1> QED
  BY <1>1, <1>2, <1>3, <1>4, FollowingKeeps

(* The projections changed the summary, and the request is over. *)
LEMMA ContextRefusedKeeps ==
  ASSUME RemoteInv, ContextRefused
  PROVE  RemoteInv' /\ (op'["request"].pc = "sent" => op["request"].pc = "sent")
<1>1. op \in [Ops -> RemoteOps] /\ RemoteTypes /\ trunk \in RemoteBranches /\ "request" \in Ops /\ op["request"] \in RemoteOps
  BY DEF RemoteInv, RemoteTypes, Ops
<1>2. op["request"].pc = "prepared" /\ UNCHANGED <<scene, past, checkpoints, made>>
  BY DEF ContextRefused, Stand
<1>3. PICK n : op' = [op EXCEPT !["request"] = n] /\ Follows(n, op["request"])
  BY RestIsOver DEF ContextRefused, Cancelled, Becomes
<1>4. trunk' \in RemoteBranches /\ trunk'.source = trunk.source /\ trunk'.checkpoint = trunk.checkpoint
  BY <1>1 DEF ContextRefused, Stand
<1> QED
  BY <1>1, <1>2, <1>3, <1>4, FollowingKeeps

(* A request is answered. *)
LEMMA AnsweredKeeps ==
  ASSUME RemoteInv, Answered
  PROVE  RemoteInv' /\ (op'["request"].pc = "sent" => op["request"].pc = "sent")
<1>1. op \in [Ops -> RemoteOps] /\ RemoteTypes /\ trunk \in RemoteBranches /\ "request" \in Ops /\ op["request"] \in RemoteOps
  BY DEF RemoteInv, RemoteTypes, Ops
<1>2. op["request"].pc = "sent" /\ UNCHANGED <<scene, past, checkpoints, made>>
  BY DEF Answered, Stand
<1>3. PICK n : op' = [op EXCEPT !["request"] = n] /\ Follows(n, op["request"])
  BY RestIsOver DEF Answered, Cancelled, Becomes
<1>4. trunk' \in RemoteBranches /\ trunk'.source = trunk.source /\ trunk'.checkpoint = trunk.checkpoint
  BY <1>1 DEF Answered, Stand
<1> QED
  BY <1>1, <1>2, <1>3, <1>4, FollowingKeeps

(* A compaction fails. *)
LEMMA CompactionFailsKeeps ==
  ASSUME RemoteInv, CompactionFails
  PROVE  RemoteInv' /\ (op'["request"].pc = "sent" => op["request"].pc = "sent")
<1>1. op \in [Ops -> RemoteOps] /\ RemoteTypes /\ trunk \in RemoteBranches /\ "compaction" \in Ops /\ op["compaction"] \in RemoteOps
  BY DEF RemoteInv, RemoteTypes, Ops
<1>2. op["compaction"].pc # "idle" /\ UNCHANGED <<scene, past, checkpoints, made>>
  BY DEF CompactionFails, Stand
<1>3. PICK n : op' = [op EXCEPT !["compaction"] = n] /\ Follows(n, op["compaction"])
  BY RestIsOver DEF CompactionFails, Cancelled, Becomes
<1>4. trunk' \in RemoteBranches /\ trunk'.source = trunk.source /\ trunk'.checkpoint = trunk.checkpoint
  BY <1>1 DEF CompactionFails, Stand
<1> QED
  BY <1>1, <1>2, <1>3, <1>4, FollowingKeeps

(* A compaction is not a request: what it reads anew is the branch's. *)
LEMMA CompactionKeeps ==
  ASSUME RemoteInv, NEW n \in RemoteOps, n.source <= made.sources, op' = [op EXCEPT !["compaction"] = n],
         UNCHANGED <<scene, trunk, past, checkpoints, made>>
  PROVE  RemoteInv' /\ op'["request"] = op["request"]
<1>1. op \in [Ops -> RemoteOps] /\ Ops = {"request", "compaction"}
  BY DEF RemoteInv, RemoteTypes, Ops
<1>2. op' \in [Ops -> RemoteOps] /\ op'["request"] = op["request"] /\ op'["compaction"] = n
  BY <1>1
<1>3. RemoteTypes'
  BY <1>2 DEF RemoteInv, RemoteTypes
<1>4. SourcesCount'
  BY <1>1, <1>2 DEF RemoteInv, SourcesCount
<1>5. RequestKnows'
  BY <1>2 DEF RemoteInv, RequestKnows
<1> QED
  BY <1>2, <1>3, <1>4, <1>5 DEF RemoteInv

(* A compaction begins. *)
LEMMA CompactionBeginsKeeps ==
  ASSUME RemoteInv, CompactionBegins
  PROVE  RemoteInv' /\ (op'["request"].pc = "sent" => op["request"].pc = "sent")
<1>1. op["compaction"] \in RemoteOps /\ RemoteTypes /\ made.sources \in Nat /\ trunk.source \in Nat /\ trunk.source <= made.sources
      /\ trunk.checkpoint \in Nat /\ scene.model \in Models /\ "compaction" \in Ops
  BY DEF RemoteInv, RemoteTypes, RemoteBranches, SourcesCount, Ops
<1>2. UNCHANGED <<scene, trunk, past, checkpoints, made>>
  BY DEF CompactionBegins, Stand
<1>3. PICK n \in RemoteOps : op' = [op EXCEPT !["compaction"] = n] /\ n.source <= made.sources
  <2>1. PICK manual \in BOOLEAN : op' = [op EXCEPT !["compaction"] = Reads([Rest EXCEPT !.pc = "waiting", !.manual = manual])]
    BY DEF CompactionBegins, Becomes
  <2>2. PICK m : m = [Rest EXCEPT !.pc = "waiting", !.manual = manual]
    OBVIOUS
  <2>3. m \in RemoteOps /\ m.source = 0
    BY <2>2, RestIsOver DEF RemoteOps, RemoteStates
  <2>4. Reads(m) \in RemoteOps /\ Reads(m).source = 0
    BY <1>1, <2>3, ReadsTells
  <2>5. Reads(m).source <= made.sources
    BY <1>1, <2>4
  <2> QED
    BY <2>1, <2>2, <2>4, <2>5
<1> QED
  BY <1>2, <1>3, CompactionKeeps

(* The source of a compaction is captured. *)
LEMMA CompactionCapturesKeeps ==
  ASSUME RemoteInv, CompactionCaptures
  PROVE  RemoteInv' /\ (op'["request"].pc = "sent" => op["request"].pc = "sent")
<1>1. op["compaction"] \in RemoteOps /\ RemoteTypes /\ made.sources \in Nat /\ trunk.source \in Nat /\ trunk.source <= made.sources
      /\ trunk.checkpoint \in Nat /\ scene.model \in Models /\ "compaction" \in Ops
  BY DEF RemoteInv, RemoteTypes, RemoteBranches, SourcesCount, Ops
<1>2. UNCHANGED <<scene, trunk, past, checkpoints, made>>
  BY DEF CompactionCaptures, Stand
<1>3. PICK n \in RemoteOps : op' = [op EXCEPT !["compaction"] = n] /\ n.source <= made.sources
  <2>1. PICK o : o = [op["compaction"] EXCEPT !.model = scene.model, !.source = trunk.source, !.carrier = trunk.checkpoint, !.stale = FALSE]
    OBVIOUS
  <2>2. o \in RemoteOps /\ o.source = trunk.source
    BY <1>1, <2>1 DEF RemoteOps
  <2>3. Follows([o EXCEPT !.pc = "authenticating"], o) /\ Follows(Rest, o) /\ Follows(Portable("compaction", o), o)
    BY <1>1, <2>2, PhaseFollows, RestIsOver, PortableFollows DEF RemoteStates
  <2>4. \E n \in {[o EXCEPT !.pc = "authenticating"], Rest, Portable("compaction", o)} : op' = [op EXCEPT !["compaction"] = n]
    <3>1. CASE Remote(o.model)
      BY <2>1, <3>1 DEF CompactionCaptures, Becomes
    <3>2. CASE ~Remote(o.model) /\ o.checkpoint # 0
      BY <2>1, <3>2 DEF CompactionCaptures, Becomes
    <3>3. CASE ~Remote(o.model) /\ ~(o.checkpoint # 0)
      BY <2>1, <3>3 DEF CompactionCaptures, Becomes
    <3> QED
      BY <3>1, <3>2, <3>3
  <2>5. PICK n : Follows(n, o) /\ op' = [op EXCEPT !["compaction"] = n]
    BY <2>3, <2>4
  <2> QED
    <3>1. n \in RemoteOps /\ n.source <= made.sources
      BY <1>1, <2>2, <2>5 DEF Follows
    <3> QED
      BY <2>5, <3>1
<1> QED
  BY <1>2, <1>3, CompactionKeeps

(* The credential of a compaction is resolved. *)
LEMMA CompactionAuthenticatesKeeps ==
  ASSUME RemoteInv, CompactionAuthenticates
  PROVE  RemoteInv' /\ (op'["request"].pc = "sent" => op["request"].pc = "sent")
<1>1. op["compaction"] \in RemoteOps /\ RemoteTypes /\ made.sources \in Nat /\ trunk.source \in Nat /\ trunk.source <= made.sources
      /\ trunk.checkpoint \in Nat /\ scene.model \in Models /\ "compaction" \in Ops
  BY DEF RemoteInv, RemoteTypes, RemoteBranches, SourcesCount, Ops
<1>2. UNCHANGED <<scene, trunk, past, checkpoints, made>>
  BY DEF CompactionAuthenticates, Stand
<1>3. PICK n \in RemoteOps : op' = [op EXCEPT !["compaction"] = n] /\ n.source <= made.sources
  <2>1. PICK o : o = [op["compaction"] EXCEPT !.token = scene.login]
    OBVIOUS
  <2>2. o \in RemoteOps /\ o.source = op["compaction"].source /\ o.source \in Nat /\ o.source <= made.sources
    BY <1>1, <2>1 DEF RemoteOps, RemoteInv, RemoteTypes, SourcesCount
  <2>3. Follows([o EXCEPT !.pc = "compacting"], o) /\ Follows(Rest, o) /\ Follows(Portable("compaction", o), o)
    BY <1>1, <2>2, PhaseFollows, RestIsOver, PortableFollows DEF RemoteStates
  <2>4. \E n \in {[o EXCEPT !.pc = "compacting"], Rest, Portable("compaction", o)} : op' = [op EXCEPT !["compaction"] = n]
    <3> DEFINE b == Binding(o.checkpoint, o.model, scene.login)
               unsaved == o.checkpoint # 0 /\ o.intact /\ b = "unverified" /\ ~SavedPortable(o) /\ ~o.manual
    <3>1. CASE ~LoggedIn
      BY <2>1, <3>1 DEF CompactionAuthenticates, Becomes
    <3>2. CASE LoggedIn /\ o.checkpoint = 0
      BY <2>1, <3>2 DEF CompactionAuthenticates, Becomes
    <3>3. CASE LoggedIn /\ o.checkpoint # 0 /\ o.intact /\ b = "valid"
      BY <2>1, <3>3 DEF CompactionAuthenticates, Becomes
    <3>4. CASE LoggedIn /\ unsaved
      BY <2>1, <3>4 DEF CompactionAuthenticates, Becomes
    <3>5. CASE LoggedIn /\ o.checkpoint # 0 /\ ~(o.intact /\ b = "valid") /\ ~unsaved
      BY <2>1, <3>5 DEF CompactionAuthenticates, Becomes
    <3> QED
      BY <3>1, <3>2, <3>3, <3>4, <3>5
  <2>5. PICK n : Follows(n, o) /\ op' = [op EXCEPT !["compaction"] = n]
    BY <2>3, <2>4
  <2> QED
    <3>1. n \in RemoteOps /\ n.source <= made.sources
      BY <1>1, <2>2, <2>5 DEF Follows
    <3> QED
      BY <2>5, <3>1
<1> QED
  BY <1>2, <1>3, CompactionKeeps

(* A request reads the branch it stands on. *)
LEMMA RequestBeginsKeeps ==
  ASSUME RemoteInv, RequestBegins
  PROVE  RemoteInv' /\ (op'["request"].pc = "sent" => op["request"].pc = "sent")
<1>1. op \in [Ops -> RemoteOps] /\ RemoteTypes /\ made.sources \in Nat /\ trunk.source \in Nat /\ trunk.source <= made.sources
      /\ trunk.checkpoint \in Nat /\ scene.model \in Models /\ Ops = {"request", "compaction"}
  BY DEF RemoteInv, RemoteTypes, RemoteBranches, SourcesCount, Ops
<1>2. UNCHANGED <<scene, trunk, past, checkpoints, made>>
  BY DEF RequestBegins, Stand
<1>3. PICK m : m = [Rest EXCEPT !.model = scene.model, !.source = trunk.source]
  OBVIOUS
<1>4. m \in RemoteOps /\ m.source = trunk.source
  BY <1>1, <1>3, RestIsOver DEF RemoteOps
<1>5. PICK o : o = Reads(m)
  OBVIOUS
<1>6. o \in RemoteOps /\ o.source = trunk.source /\ o.checkpoint = trunk.checkpoint
  BY <1>1, <1>4, <1>5, ReadsTells
<1>7. Follows([o EXCEPT !.pc = "prepared"], o) /\ Follows([o EXCEPT !.pc = "verifying"], o) /\ Follows(Portable("request", o), o)
  BY <1>1, <1>6, PhaseFollows, PortableFollows DEF RemoteStates
<1>8. \E n \in {[o EXCEPT !.pc = "prepared"], [o EXCEPT !.pc = "verifying"], Portable("request", o)} : op' = [op EXCEPT !["request"] = n]
  <2>1. CASE ~HasCheckpoint
    BY <1>3, <1>5, <2>1 DEF RequestBegins, Becomes
  <2>2. CASE HasCheckpoint /\ Data /\ Remote(scene.model)
    BY <1>3, <1>5, <2>2 DEF RequestBegins, Becomes
  <2>3. CASE HasCheckpoint /\ ~(Data /\ Remote(scene.model))
    BY <1>3, <1>5, <2>3 DEF RequestBegins, Becomes
  <2> QED
    BY <2>1, <2>2, <2>3
<1>9. PICK n : Follows(n, o) /\ op' = [op EXCEPT !["request"] = n]
  BY <1>7, <1>8
<1>10. op' \in [Ops -> RemoteOps] /\ op'["request"] = n /\ op'["compaction"] = op["compaction"] /\ n \in RemoteOps /\ n.pc \notin {"sent", "confirming"}
  BY <1>1, <1>9 DEF Follows
<1>11. n.source <= made.sources
  BY <1>1, <1>6, <1>9 DEF Follows
<1>12. RemoteTypes'
  BY <1>2, <1>10 DEF RemoteInv, RemoteTypes
<1>13. SourcesCount'
  BY <1>1, <1>2, <1>10, <1>11 DEF RemoteInv, SourcesCount
<1>14. RequestKnows'
  BY <1>2, <1>6, <1>9, <1>10 DEF RequestKnows, Follows
<1> QED
  BY <1>10, <1>12, <1>13, <1>14 DEF RemoteInv

-----------------------------------------------------------------------------
(* What is sent has been looked at where it is sent: a payload is built, or confirmed after its authentication. *)
LEMMA SendingKeeps ==
  ASSUME RemoteInv, NEW n, n \in {[op["request"] EXCEPT !.pc = "sent"], [op["request"] EXCEPT !.pc = "confirming"], Rest},
         op["request"].pc # "idle", n.pc = "confirming" => op["request"].mode = "checkpoint", op' = [op EXCEPT !["request"] = n], UNCHANGED <<scene, trunk, past, checkpoints, made>>
  PROVE  RemoteInv'
<1>1. op \in [Ops -> RemoteOps] /\ "request" \in Ops /\ op["request"] \in RemoteOps
  BY DEF RemoteInv, RemoteTypes, Ops
<1>2. \A q \in Ops : op'[q] = IF q = "request" THEN n ELSE op[q]
  BY <1>1
<1>3. /\ n \in RemoteOps /\ n.source \in {0, op["request"].source}
      /\ n.pc # "idle" => n.mode = op["request"].mode /\ n.source = op["request"].source /\ n.checkpoint = op["request"].checkpoint /\ n.stale = op["request"].stale
  BY <1>1, RestIsOver DEF RemoteOps, RemoteStates
<1>4. op' \in [Ops -> RemoteOps]
  BY <1>1, <1>3
<1>5. RemoteTypes'
  BY <1>4 DEF RemoteInv, RemoteTypes
<1>6. made.sources \in Nat /\ \A q \in Ops : op[q].source \in Nat /\ op[q].source <= made.sources
  BY <1>1 DEF RemoteInv, RemoteTypes, SourcesCount, RemoteOps
<1>7. \A q \in Ops : op'[q].source <= made'.sources
  BY <1>2, <1>3, <1>6, <1>1
<1>8. SourcesCount'
  BY <1>7 DEF RemoteInv, SourcesCount
<1>9. RequestKnows'
  BY <1>1, <1>2, <1>3 DEF RemoteInv, RequestKnows
<1> QED
  BY <1>5, <1>8, <1>9 DEF RemoteInv
(* A payload that is sent without a confirmation carries nothing, or the portable text of the branch's own checkpoint. *)
LEMMA PayloadBuiltKeeps ==
  ASSUME RemoteInv, PayloadBuilt
  PROVE  RemoteInv' /\ SentBelongs
<1>1. op["request"] \in RemoteOps /\ op \in [Ops -> RemoteOps] /\ RemoteTypes /\ "request" \in Ops
  BY DEF RemoteInv, RemoteTypes, Ops
<1>2. op["request"].pc = "prepared" /\ UNCHANGED <<scene, trunk, past, checkpoints, made>>
  BY DEF PayloadBuilt, Stand
<1> DEFINE o == op["request"]
           s == [o EXCEPT !.pc = "sent"]
<1>3. s.mode = o.mode /\ s.checkpoint = o.checkpoint /\ s.source = o.source /\ [o EXCEPT !.pc = "confirming"].pc = "confirming" /\ Rest.pc = "idle"
  BY <1>1, RestIsOver DEF RemoteOps
<1>3a. s.pc = "sent"
  BY <1>1 DEF RemoteOps
<1>4. PICK n \in {s, [o EXCEPT !.pc = "confirming"], Rest} :
        /\ op' = [op EXCEPT !["request"] = n]
        /\ n = s => o.mode = "none" \/ (o.mode = "portable" /\ SameVersion(o) /\ Data /\ SavedPortable(Reads(o)))
        /\ n.pc = "confirming" => o.mode = "checkpoint"
  <2>0. s # [o EXCEPT !.pc = "confirming"] /\ s # Rest
    BY <1>3, <1>3a
  <2>1. CASE o.mode = "none"
    BY <1>3a, <2>1 DEF PayloadBuilt, Becomes
  <2>2. CASE o.mode = "portable"
    BY <1>3, <1>3a, <2>0, <2>2 DEF PayloadBuilt, Becomes
  <2>3. CASE o.mode \notin {"none", "portable"}
    BY <1>1, <1>3, <1>3a, <2>0, <2>3 DEF RemoteOps, PayloadBuilt, Becomes
  <2> QED
    BY <2>1, <2>2, <2>3
<1>5. RemoteInv'
  BY <1>2, <1>4, SendingKeeps
<1>6. op'["request"] = n
  BY <1>1, <1>4
<1>7. SentBelongs
  <2>1. SUFFICES ASSUME op'["request"].pc = "sent", op'["request"].mode # "none"
        PROVE  /\ trunk.checkpoint = op'["request"].checkpoint /\ trunk.intact /\ op'["request"].source = trunk.source
               /\ op'["request"].mode = "portable" /\ op'["request"].checkpoint \in trunk.portable
    BY DEF SentBelongs
  <2>2. n = s /\ o.mode = "portable" /\ SameVersion(o) /\ Data /\ SavedPortable(Reads(o))
    BY <1>3, <1>4, <1>6, <2>1
  <2>3. ~o.stale /\ o.source = trunk.source /\ trunk.intact
    BY <2>2 DEF SameVersion, Data
  <2>4. o.checkpoint = trunk.checkpoint
    BY <1>2, <2>3 DEF RemoteInv, RequestKnows
  <2>5. trunk.checkpoint \in trunk.portable
    BY <1>1, <2>2, ReadsTells DEF SavedPortable
  <2> QED
    BY <1>3, <1>6, <2>2, <2>3, <2>4, <2>5
<1> QED
  BY <1>5, <1>7
(* A checkpoint is sent with the route and the account that made it, and the history it stands for. *)
LEMMA PayloadConfirmedKeeps ==
  ASSUME RemoteInv, PayloadConfirmed
  PROVE  RemoteInv' /\ SentBelongs
<1>1. op["request"] \in RemoteOps /\ op \in [Ops -> RemoteOps] /\ RemoteTypes /\ "request" \in Ops
  BY DEF RemoteInv, RemoteTypes, Ops
<1>2. op["request"].pc = "confirming" /\ UNCHANGED <<scene, trunk, past, checkpoints, made>>
  BY DEF PayloadConfirmed, Stand
<1> DEFINE o == op["request"]
           s == [o EXCEPT !.pc = "sent"]
<1>3. s.mode = o.mode /\ s.checkpoint = o.checkpoint /\ s.source = o.source /\ Rest.pc = "idle"
  BY <1>1, RestIsOver DEF RemoteOps
<1>4. op' = [op EXCEPT !["request"] = IF StillValid(o) THEN s ELSE Rest]
  BY DEF PayloadConfirmed, Becomes
<1>5. RemoteInv'
  <2>1. s.pc = "sent"
    BY <1>1 DEF RemoteOps
  <2> QED
    BY <1>2, <1>3, <1>4, <2>1, SendingKeeps
<1>6. SentBelongs
  <2>1. SUFFICES ASSUME op'["request"].pc = "sent"
        PROVE  /\ trunk.checkpoint = op'["request"].checkpoint /\ trunk.intact /\ op'["request"].source = trunk.source
               /\ Binding(op'["request"].checkpoint, scene.model, scene.login) = "valid"
               /\ op'["request"].mode = "portable" => op'["request"].checkpoint \in trunk.portable
    BY DEF SentBelongs
  <2>2. StillValid(o) /\ op'["request"] = s
    BY <1>1, <1>3, <1>4, <2>1
  <2>3. ~o.stale /\ o.source = trunk.source /\ trunk.intact /\ scene.model = o.model /\ Binding(o.checkpoint, o.model, scene.login) = "valid"
    BY <2>2 DEF StillValid, SameVersion, Data
  <2>4. o.checkpoint = trunk.checkpoint
    BY <1>2, <2>3 DEF RemoteInv, RequestKnows
  <2> QED
    BY <1>2, <1>3, <2>2, <2>3, <2>4 DEF RemoteInv, RequestKnows
<1> QED
  BY <1>5, <1>6

-----------------------------------------------------------------------------
(* Another login, or none. *)
LEMMA LoginChangedKeeps ==
  ASSUME RemoteInv, LoginChanged
  PROVE  RemoteInv' /\ (op'["request"].pc = "sent" => op["request"].pc = "sent")
<1>1. op \in [Ops -> RemoteOps] /\ made.sources \in Nat /\ made \in [sources : Nat, checkpoints : Nat, moves : Nat] /\ trunk \in RemoteBranches
      /\ past \in RemoteBranches /\ scene \in [model : Models, login : Tokens \union {NoLogin}] /\ Ops = {"request", "compaction"}
  BY DEF RemoteInv, RemoteTypes, Ops
<1>2. trunk.source <= made.sources /\ past.source <= made.sources /\ \A p \in Ops : op[p].source \in Nat /\ op[p].source <= made.sources
  BY <1>1 DEF RemoteInv, SourcesCount, RemoteOps
<1>3. op' = op /\ trunk' = trunk /\ past' = past /\ checkpoints' = checkpoints /\ made' = [made EXCEPT !.moves = @ + 1]
  BY DEF LoginChanged, Stir
<1>4. scene' \in [model : Models, login : Tokens \union {NoLogin}]
  BY <1>1 DEF LoginChanged, Models
<1>5. made' \in [sources : Nat, checkpoints : Nat, moves : Nat] /\ made'.sources = made.sources
  BY <1>1, <1>3
<1>6. RemoteTypes'
  BY <1>3, <1>4, <1>5 DEF RemoteInv, RemoteTypes
<1>7. SourcesCount'
  BY <1>3, <1>5 DEF RemoteInv, SourcesCount
<1>8. RequestKnows'
  BY <1>3 DEF RemoteInv, RequestKnows
<1> QED
  BY <1>3, <1>6, <1>7, <1>8 DEF RemoteInv

(* The endpoint of the same model changed. *)
LEMMA EndpointChangedKeeps ==
  ASSUME RemoteInv, EndpointChanged
  PROVE  RemoteInv' /\ (op'["request"].pc = "sent" => op["request"].pc = "sent")
<1>1. op \in [Ops -> RemoteOps] /\ made.sources \in Nat /\ made \in [sources : Nat, checkpoints : Nat, moves : Nat] /\ trunk \in RemoteBranches
      /\ past \in RemoteBranches /\ scene \in [model : Models, login : Tokens \union {NoLogin}] /\ Ops = {"request", "compaction"}
  BY DEF RemoteInv, RemoteTypes, Ops
<1>2. trunk.source <= made.sources /\ past.source <= made.sources /\ \A p \in Ops : op[p].source \in Nat /\ op[p].source <= made.sources
  BY <1>1 DEF RemoteInv, SourcesCount, RemoteOps
<1>3. op' = op /\ trunk' = trunk /\ past' = past /\ checkpoints' = checkpoints /\ made' = [made EXCEPT !.moves = @ + 1]
  BY DEF EndpointChanged, Stir
<1>4. scene' \in [model : Models, login : Tokens \union {NoLogin}]
  BY <1>1 DEF EndpointChanged, Models
<1>5. made' \in [sources : Nat, checkpoints : Nat, moves : Nat] /\ made'.sources = made.sources
  BY <1>1, <1>3
<1>6. RemoteTypes'
  BY <1>3, <1>4, <1>5 DEF RemoteInv, RemoteTypes
<1>7. SourcesCount'
  BY <1>3, <1>5 DEF RemoteInv, SourcesCount
<1>8. RequestKnows'
  BY <1>3 DEF RemoteInv, RequestKnows
<1> QED
  BY <1>3, <1>6, <1>7, <1>8 DEF RemoteInv

(* Another model is selected, and what is under way is overtaken. *)
LEMMA ModelSelectKeeps ==
  ASSUME RemoteInv, ModelSelect
  PROVE  RemoteInv' /\ (op'["request"].pc = "sent" => op["request"].pc = "sent")
<1>1. op \in [Ops -> RemoteOps] /\ made.sources \in Nat /\ made \in [sources : Nat, checkpoints : Nat, moves : Nat] /\ trunk \in RemoteBranches
      /\ past \in RemoteBranches /\ scene \in [model : Models, login : Tokens \union {NoLogin}] /\ Ops = {"request", "compaction"}
  BY DEF RemoteInv, RemoteTypes, Ops
<1>2. trunk.source <= made.sources /\ past.source <= made.sources /\ \A p \in Ops : op[p].source \in Nat /\ op[p].source <= made.sources
  BY <1>1 DEF RemoteInv, SourcesCount, RemoteOps
<1>3. trunk' = trunk /\ past' = past /\ checkpoints' = checkpoints /\ made' = [made EXCEPT !.moves = @ + 1]
  BY DEF ModelSelect, Stir
<1>4. op' \in [Ops -> RemoteOps] /\ \A p \in Ops : /\ op'[p].pc = op[p].pc /\ op'[p].source = op[p].source
                                                    /\ op'[p].mode = op[p].mode /\ op'[p].stale = TRUE
  <2>1. ASSUME NEW p \in Ops
        PROVE  LET n == [op[p] EXCEPT !.stale = TRUE, !.late = TRUE]
               IN  n \in RemoteOps /\ n.pc = op[p].pc /\ n.source = op[p].source /\ n.mode = op[p].mode /\ n.stale = TRUE
    <3>1. op[p] \in RemoteOps
      BY <1>1
    <3> QED
      BY <3>1 DEF RemoteOps
  <2>2. op' = [p \in Ops |-> [op[p] EXCEPT !.stale = TRUE, !.late = TRUE]]
    BY DEF ModelSelect, Invalidate
  <2> QED
    BY <2>1, <2>2
<1>5. scene' \in [model : Models, login : Tokens \union {NoLogin}]
  BY <1>1 DEF ModelSelect, Models
<1>6. made' \in [sources : Nat, checkpoints : Nat, moves : Nat] /\ made'.sources = made.sources
  BY <1>1, <1>3
<1>7. RemoteTypes'
  BY <1>1, <1>3, <1>4, <1>5, <1>6 DEF RemoteInv, RemoteTypes
<1>8. SourcesCount'
  BY <1>2, <1>3, <1>4, <1>6 DEF SourcesCount
<1>9. RequestKnows'
  BY <1>1, <1>4 DEF RemoteInv, RequestKnows
<1> QED
  BY <1>1, <1>4, <1>7, <1>8, <1>9 DEF RemoteInv

(* Another branch of the session, and what is under way is overtaken. *)
LEMMA TreeNavigatedKeeps ==
  ASSUME RemoteInv, TreeNavigated
  PROVE  RemoteInv' /\ (op'["request"].pc = "sent" => op["request"].pc = "sent")
<1>1. op \in [Ops -> RemoteOps] /\ made.sources \in Nat /\ made \in [sources : Nat, checkpoints : Nat, moves : Nat] /\ trunk \in RemoteBranches
      /\ past \in RemoteBranches /\ scene \in [model : Models, login : Tokens \union {NoLogin}] /\ Ops = {"request", "compaction"}
  BY DEF RemoteInv, RemoteTypes, Ops
<1>2. trunk.source <= made.sources /\ past.source <= made.sources /\ \A p \in Ops : op[p].source \in Nat /\ op[p].source <= made.sources
  BY <1>1 DEF RemoteInv, SourcesCount, RemoteOps
<1>3. trunk' = past /\ past' = trunk /\ checkpoints' = checkpoints /\ made' = [made EXCEPT !.moves = @ + 1]
  BY DEF TreeNavigated, Stir
<1>4. op' \in [Ops -> RemoteOps] /\ \A p \in Ops : /\ op'[p].pc = op[p].pc /\ op'[p].source = op[p].source
                                                    /\ op'[p].mode = op[p].mode /\ op'[p].stale = TRUE
  <2>1. ASSUME NEW p \in Ops
        PROVE  LET n == [op[p] EXCEPT !.stale = TRUE, !.late = TRUE]
               IN  n \in RemoteOps /\ n.pc = op[p].pc /\ n.source = op[p].source /\ n.mode = op[p].mode /\ n.stale = TRUE
    <3>1. op[p] \in RemoteOps
      BY <1>1
    <3> QED
      BY <3>1 DEF RemoteOps
  <2>2. op' = [p \in Ops |-> [op[p] EXCEPT !.stale = TRUE, !.late = TRUE]]
    BY DEF TreeNavigated, Invalidate
  <2> QED
    BY <2>1, <2>2
<1>5. scene' \in [model : Models, login : Tokens \union {NoLogin}]
  BY <1>1 DEF TreeNavigated, Models
<1>6. made' \in [sources : Nat, checkpoints : Nat, moves : Nat] /\ made'.sources = made.sources
  BY <1>1, <1>3
<1>7. RemoteTypes'
  BY <1>1, <1>3, <1>4, <1>5, <1>6 DEF RemoteInv, RemoteTypes
<1>8. SourcesCount'
  BY <1>2, <1>3, <1>4, <1>6 DEF SourcesCount
<1>9. RequestKnows'
  BY <1>1, <1>4 DEF RemoteInv, RequestKnows
<1> QED
  BY <1>1, <1>4, <1>7, <1>8, <1>9 DEF RemoteInv

(* A native entry is a new source, which nobody has read. *)
LEMMA AppendedKeeps ==
  ASSUME RemoteInv, Appended
  PROVE  RemoteInv' /\ (op'["request"].pc = "sent" => op["request"].pc = "sent")
<1>1. op \in [Ops -> RemoteOps] /\ made.sources \in Nat /\ made \in [sources : Nat, checkpoints : Nat, moves : Nat] /\ trunk \in RemoteBranches
      /\ past \in RemoteBranches /\ scene \in [model : Models, login : Tokens \union {NoLogin}] /\ Ops = {"request", "compaction"}
  BY DEF RemoteInv, RemoteTypes, Ops
<1>2. trunk.source <= made.sources /\ past.source <= made.sources /\ \A p \in Ops : op[p].source \in Nat /\ op[p].source <= made.sources
  BY <1>1 DEF RemoteInv, SourcesCount, RemoteOps
<1>3. scene' = scene /\ past' = past /\ checkpoints' = checkpoints /\ op' = op /\ made' = [made EXCEPT !.sources = @ + 1]
  BY DEF Appended
<1>4. PICK edit \in BOOLEAN : trunk' = [trunk EXCEPT !.source = NextSource, !.intact = @ /\ ~edit]
  BY DEF Appended
<1>5. trunk' \in RemoteBranches /\ trunk'.source = made.sources + 1
  <2>1. PICK b \in BOOLEAN : b = (trunk.intact /\ ~edit)
    OBVIOUS
  <2>2. PICK n \in Nat : n = made.sources + 1
    BY <1>1
  <2>3. trunk' = [trunk EXCEPT !.source = n, !.intact = b]
    BY <1>4, <2>1, <2>2 DEF NextSource
  <2> QED
    BY <1>1, <2>2, <2>3 DEF RemoteBranches
<1>6. made' \in [sources : Nat, checkpoints : Nat, moves : Nat] /\ made'.sources = made.sources + 1
  BY <1>1, <1>3
<1>7. RemoteTypes'
  BY <1>3, <1>5, <1>6 DEF RemoteInv, RemoteTypes
<1>8. SourcesCount'
  <2>1. past.source \in Nat /\ \A x \in Nat : x <= made.sources => x <= made.sources + 1
    BY <1>1 DEF RemoteBranches
  <2> QED
    BY <1>1, <1>2, <1>3, <1>5, <1>6, <2>1 DEF SourcesCount
<1>9. RequestKnows'
  <2>1. op["request"].source # trunk'.source
    BY <1>1, <1>2, <1>5
  <2> QED
    BY <1>3, <2>1 DEF RemoteInv, RequestKnows
<1> QED
  BY <1>3, <1>7, <1>8, <1>9 DEF RemoteInv

(* The branch behind a summary is a new source. *)
LEMMA BehindTells ==
  ASSUME made.sources \in Nat, trunk \in RemoteBranches, NEW k \in Nat, NEW intact \in BOOLEAN
  PROVE  Behind(k, intact) \in RemoteBranches /\ Behind(k, intact).source = made.sources + 1
<1>1. PICK n \in Nat : n = made.sources + 1
  OBVIOUS
<1>2. Behind(k, intact) = [trunk EXCEPT !.source = n, !.checkpoint = k, !.intact = intact]
  BY <1>1 DEF Behind, NextSource
<1> QED
  BY <1>1, <1>2 DEF RemoteBranches

(* Pi's own summary replaces the history, checkpoint and all. *)
LEMMA NativeSummaryKeeps ==
  ASSUME RemoteInv, NativeSummary
  PROVE  RemoteInv' /\ (op'["request"].pc = "sent" => op["request"].pc = "sent")
<1>1. op \in [Ops -> RemoteOps] /\ made.sources \in Nat /\ made \in [sources : Nat, checkpoints : Nat, moves : Nat] /\ trunk \in RemoteBranches
      /\ past \in RemoteBranches /\ scene \in [model : Models, login : Tokens \union {NoLogin}] /\ Ops = {"request", "compaction"}
  BY DEF RemoteInv, RemoteTypes, Ops
<1>2. trunk.source <= made.sources /\ past.source <= made.sources /\ \A p \in Ops : op[p].source \in Nat /\ op[p].source <= made.sources
  BY <1>1 DEF RemoteInv, SourcesCount, RemoteOps
<1>3. scene' = scene /\ past' = past /\ checkpoints' = checkpoints /\ made' = [made EXCEPT !.sources = @ + 1] /\ trunk' = Behind(0, FALSE)
  BY DEF NativeSummary
<1>4. op' = [op EXCEPT !["compaction"] = Rest]
  BY DEF NativeSummary, Cancelled, Becomes
<1>5. op' \in [Ops -> RemoteOps] /\ op'["request"] = op["request"] /\ op'["compaction"] = Rest
  BY <1>1, <1>4, RestIsOver
<1>6. trunk' \in RemoteBranches /\ trunk'.source = made.sources + 1 /\ made' \in [sources : Nat, checkpoints : Nat, moves : Nat]
      /\ made'.sources = made.sources + 1 /\ past' \in {past, trunk}
  <2>1. made' \in [sources : Nat, checkpoints : Nat, moves : Nat] /\ made'.sources = made.sources + 1
    BY <1>1, <1>3
  <2> QED
    BY <1>1, <1>3, <2>1, BehindTells
<1>7. RemoteTypes'
  BY <1>1, <1>3, <1>5, <1>6 DEF RemoteInv, RemoteTypes
<1>8. SourcesCount'
  <2>1. \A x \in Nat : x <= made.sources => x <= made.sources + 1
    BY <1>1
  <2>2. past'.source \in Nat /\ past'.source <= made.sources
    BY <1>1, <1>2, <1>6 DEF RemoteBranches
  <2>3. \A p \in Ops : op'[p].source <= made.sources + 1
    BY <1>1, <1>2, <1>5, <2>1, RestIsOver
  <2> QED
    BY <1>1, <1>6, <2>1, <2>2, <2>3 DEF SourcesCount
<1>9. RequestKnows'
  <2>1. op["request"].source # trunk'.source
    BY <1>1, <1>2, <1>6
  <2> QED
    BY <1>5, <2>1 DEF RemoteInv, RequestKnows
<1> QED
  BY <1>5, <1>7, <1>8, <1>9 DEF RemoteInv

(* A checkpoint is published over the very source it was made from, for the account that made it. *)
LEMMA PublishedKeeps ==
  ASSUME RemoteInv, Published
  PROVE  RemoteInv' /\ op'["request"] = op["request"] /\ PublishedBelongs
<1>1. op \in [Ops -> RemoteOps] /\ made.sources \in Nat /\ made \in [sources : Nat, checkpoints : Nat, moves : Nat] /\ trunk \in RemoteBranches
      /\ past \in RemoteBranches /\ scene \in [model : Models, login : Tokens \union {NoLogin}] /\ Ops = {"request", "compaction"}
  BY DEF RemoteInv, RemoteTypes, Ops
<1>2. trunk.source <= made.sources /\ past.source <= made.sources /\ \A p \in Ops : op[p].source \in Nat /\ op[p].source <= made.sources
  BY <1>1 DEF RemoteInv, SourcesCount, RemoteOps
<1>3. scene' = scene /\ DOMAIN checkpoints = CheckpointIds
  BY DEF Published, RemoteInv, RemoteTypes
<1>4. op' = [op EXCEPT !["compaction"] = Rest]
  BY DEF Published, Cancelled, Becomes
<1>5. op' \in [Ops -> RemoteOps] /\ op'["request"] = op["request"] /\ op'["compaction"] = Rest
  BY <1>1, <1>4, RestIsOver
<1>6. CASE ~MayPublish(op["compaction"])
  <2>1. trunk' = trunk /\ past' = past /\ checkpoints' = checkpoints /\ made' = made
    BY <1>6 DEF Published
  <2>2. RemoteTypes'
    BY <1>3, <1>5, <2>1 DEF RemoteInv, RemoteTypes
  <2>3. SourcesCount'
    BY <1>1, <1>2, <1>5, <2>1, RestIsOver DEF SourcesCount
  <2>4. RequestKnows'
    BY <1>5, <2>1 DEF RemoteInv, RequestKnows
  <2> QED
    BY <1>5, <2>1, <2>2, <2>3, <2>4 DEF RemoteInv, PublishedBelongs
<1>7. CASE MayPublish(op["compaction"])
  <2> DEFINE o == op["compaction"]
             k == made.checkpoints + 1
             new == [model |-> o.model, token |-> o.token, covers |-> o.source]
  <2>1. trunk' = Behind(k, TRUE) /\ past' = trunk /\ made' = [made EXCEPT !.sources = @ + 1, !.checkpoints = k]
        /\ checkpoints' = [checkpoints EXCEPT ![k] = new]
    BY <1>7 DEF Published
  <2>2. k \in Nat
    BY <1>1
  <2>3. trunk' \in RemoteBranches /\ trunk'.source = made.sources + 1 /\ made' \in [sources : Nat, checkpoints : Nat, moves : Nat]
        /\ made'.sources = made.sources + 1 /\ past' = trunk
    <3>1. made' \in [sources : Nat, checkpoints : Nat, moves : Nat] /\ made'.sources = made.sources + 1
      <4>1. PICK n \in Nat : n = made.sources + 1
        BY <1>1
      <4>2. made' = [made EXCEPT !.sources = n, !.checkpoints = k]
        BY <2>1, <4>1
      <4> HIDE DEF k
      <4> QED
        BY <1>1, <2>2, <4>1, <4>2
    <3> HIDE DEF k
    <3> QED
      BY <1>1, <2>1, <2>2, <3>1, BehindTells
  <2>4. RemoteTypes'
    BY <1>1, <1>3, <1>5, <2>1, <2>3 DEF RemoteInv, RemoteTypes
  <2>5. \A x \in Nat : x <= made.sources => x <= made.sources + 1
    BY <1>1
  <2>6. trunk.source \in Nat /\ \A p \in Ops : op'[p].source <= made.sources + 1
    BY <1>1, <1>2, <1>5, <2>5, RestIsOver DEF RemoteBranches
  <2>7. SourcesCount'
    BY <1>1, <1>2, <2>3, <2>5, <2>6 DEF SourcesCount
  <2>8. op["request"].source # trunk'.source
    BY <1>1, <1>2, <2>3
  <2>9. RequestKnows'
    BY <1>5, <2>8 DEF RemoteInv, RequestKnows
  <2>10. o.source = trunk.source /\ SameProvider(o.token, scene.login)
    BY <1>7 DEF MayPublish, SameVersion
  <2>11. PublishedBelongs
    <3>1. SUFFICES ASSUME NEW c \in CheckpointIds, checkpoints[c] # checkpoints'[c]
                   PROVE  checkpoints'[c].covers = trunk.source /\ SameProvider(checkpoints'[c].token, scene.login)
      BY DEF PublishedBelongs
    <3>2. checkpoints'[c] = new
      BY <1>3, <2>1, <3>1
    <3>3. new.covers = o.source /\ new.token = o.token
      OBVIOUS
    <3> HIDE DEF new
    <3> QED
      BY <2>10, <3>2, <3>3
  <2> QED
    BY <1>5, <2>4, <2>7, <2>9, <2>11 DEF RemoteInv
<1> QED
  BY <1>6, <1>7

LEMMA CheckpointsStay ==
  ASSUME RemoteNext, ~Published
  PROVE  checkpoints' = checkpoints
  BY DEF RemoteNext, PortableResolved, PortableEnds, RequestBegins, ContextVerified, ContextRefused, PayloadBuilt, PayloadConfirmed,
         Answered, CompactionBegins, CompactionCaptures, CompactionAuthenticates, CompactionFails, NativeSummary, Appended,
         LoginChanged, EndpointChanged, ModelSelect, TreeNavigated, Stand

-----------------------------------------------------------------------------
(* NothingMisplaced: what leaves for the provider belongs to the session as it is, and a checkpoint replaces exactly the
   history it was made from, for the account that made it (runtime.ts: before_provider_request, session_before_compact),
   for any number of sources, checkpoints and changes under their awaits. *)
THEOREM CiphertextIsPlaced == RemoteSpec => NothingMisplaced
<1>1. ASSUME RemoteInit
      PROVE  RemoteInv
  <2>1. trunk = [source |-> 1, checkpoint |-> 0, intact |-> FALSE, portable |-> {}] /\ past = trunk /\ op = [p \in Ops |-> Rest]
        /\ made = [sources |-> 1, checkpoints |-> 0, moves |-> 0] /\ scene = [model |-> "A", login |-> "a"]
        /\ checkpoints = [k \in CheckpointIds |-> NoCheckpoint]
    BY <1>1 DEF RemoteInit
  <2>2. op \in [Ops -> RemoteOps] /\ (\A p \in Ops : op[p] = Rest) /\ "request" \in Ops
    BY <2>1, RestIsOver DEF Ops
  <2>3. RemoteTypes
    BY <2>1, <2>2 DEF RemoteTypes, RemoteBranches, Models, Tokens
  <2>4. SourcesCount
    BY <2>1, <2>2, RestIsOver DEF SourcesCount
  <2>5. RequestKnows
    BY <2>2, RestIsOver DEF RequestKnows
  <2> QED
    BY <2>3, <2>4, <2>5 DEF RemoteInv
<1>2. ASSUME RemoteInv, RemoteNext
      PROVE  RemoteInv' /\ SentBelongs
  <2>1. CASE \E p \in Ops : PortableResolved(p)
    BY <1>2, <2>1, PortableResolvedKeeps DEF SentBelongs
  <2>2. CASE \E p \in Ops : PortableEnds(p)
    BY <1>2, <2>2, PortableEndsKeeps DEF SentBelongs
  <2>3. CASE RequestBegins
    BY <1>2, <2>3, RequestBeginsKeeps DEF SentBelongs
  <2>4. CASE ContextVerified
    BY <1>2, <2>4, ContextVerifiedKeeps DEF SentBelongs
  <2>5. CASE ContextRefused
    BY <1>2, <2>5, ContextRefusedKeeps DEF SentBelongs
  <2>6. CASE PayloadBuilt
    BY <1>2, <2>6, PayloadBuiltKeeps
  <2>7. CASE PayloadConfirmed
    BY <1>2, <2>7, PayloadConfirmedKeeps
  <2>8. CASE Answered
    BY <1>2, <2>8, AnsweredKeeps DEF SentBelongs
  <2>9. CASE CompactionBegins
    BY <1>2, <2>9, CompactionBeginsKeeps DEF SentBelongs
  <2>10. CASE CompactionCaptures
    BY <1>2, <2>10, CompactionCapturesKeeps DEF SentBelongs
  <2>11. CASE CompactionAuthenticates
    BY <1>2, <2>11, CompactionAuthenticatesKeeps DEF SentBelongs
  <2>12. CASE CompactionFails
    BY <1>2, <2>12, CompactionFailsKeeps DEF SentBelongs
  <2>13. CASE Published
    BY <1>2, <2>13, PublishedKeeps DEF SentBelongs
  <2>14. CASE NativeSummary
    BY <1>2, <2>14, NativeSummaryKeeps DEF SentBelongs
  <2>15. CASE Appended
    BY <1>2, <2>15, AppendedKeeps DEF SentBelongs
  <2>16. CASE LoginChanged
    BY <1>2, <2>16, LoginChangedKeeps DEF SentBelongs
  <2>17. CASE EndpointChanged
    BY <1>2, <2>17, EndpointChangedKeeps DEF SentBelongs
  <2>18. CASE ModelSelect
    BY <1>2, <2>18, ModelSelectKeeps DEF SentBelongs
  <2>19. CASE TreeNavigated
    BY <1>2, <2>19, TreeNavigatedKeeps DEF SentBelongs
  <2> QED
    BY <1>2, <2>1, <2>2, <2>3, <2>4, <2>5, <2>6, <2>7, <2>8, <2>9, <2>10, <2>11, <2>12, <2>13, <2>14, <2>15, <2>16, <2>17, <2>18, <2>19 DEF RemoteNext
<1>3. ASSUME RemoteInv, RemoteNext
      PROVE  PublishedBelongs
  <2>1. CASE Published
    BY <1>3, <2>1, PublishedKeeps
  <2>2. CASE ~Published
    BY <1>3, <2>2, CheckpointsStay DEF PublishedBelongs
  <2> QED
    BY <2>1, <2>2
<1>4. RemoteInv /\ UNCHANGED remoteVars => RemoteInv'
  BY DEF RemoteInv, RemoteTypes, SourcesCount, RequestKnows, remoteVars
<1>5. RemoteInv /\ [RemoteNext]_remoteVars => RemoteInv' /\ [SentBelongs /\ PublishedBelongs]_remoteVars
  BY <1>2, <1>3, <1>4
<1> QED
  BY <1>1, <1>5, PTL DEF RemoteSpec, NothingMisplaced

-----------------------------------------------------------------------------
(* LspSession.  The language servers of a session: every child, call and route has its owner. *)
LspPlaces == {"none", "ended", "start", "initialize", "pull", "wait", "actions", "goodbye", "leaving", "terminating", "killing"}
LspCallRows ==
  [at : LspPlaces, scope : Nat, fix : BOOLEAN, aborted : BOOLEAN, failed : BOOLEAN, routes : Nat, wrote : {"no", "wanted", "unwanted"}]
LspClients == [state : {"none", "starting", "up", "gone"}, child : BOOLEAN, process : BOOLEAN]
LspNews == [version : Nat, last : {"none", "empty", "some"}, after : Nat, fallback : BOOLEAN, saw : BOOLEAN, settling : BOOLEAN,
            answer : {"none", "pulled", "empty", "some"}]
LspTypes ==
  /\ session \in [generation : Nat, scope : Nat, closing : BOOLEAN] /\ starts \in SUBSET Nat /\ stops \in SUBSET Nat
  /\ call \in [LspCalls -> LspCallRows] /\ client \in [LspCalls -> LspClients] /\ news \in [LspCalls -> LspNews]

(* A call has a process exactly while it is with a server: one that starts, or one that runs. *)
ServerFits(r, s) ==
  /\ r.at = "none" => s.state = "none"
  /\ r.at = "start" <=> s.state = "starting"
  /\ r.at \notin {"none", "start", "ended"} <=> s.state = "up"
  /\ s.process <=> s.state \in {"starting", "up"}
  /\ s.child => s.process
(* An aborted call works no more; what it wrote was wanted. *)
WorkFits(r) ==
  /\ r.aborted => r.at \notin {"initialize", "pull", "wait", "actions"}
  /\ r.wrote # "unwanted"
(* News counts from the publication the pull had seen; there is no answer before the diagnostics are there. *)
NewsFits(r, n) ==
  /\ n.last = "some" => n.version > 0
  /\ r.at \in {"start", "initialize"} => n.after = 0
  /\ r.at \in {"start", "initialize", "pull", "wait"} => n.answer = "none" /\ n.after <= n.version
  /\ r.at \in {"pull", "wait"} /\ n.last = "some" => n.version > n.after
  /\ n.answer = "empty" => n.last # "some"
Busy(r) == (r.at = "ended" /\ r.routes > 0 /\ ~r.failed /\ ~r.aborted) \/ r.at \notin {"none", "ended"}
CallFits(r, s, n) == ServerFits(r, s) /\ WorkFits(r) /\ NewsFits(r, n)
(* What runs is of the present scope, and is aborted once that closes. *)
ScopeFits(r) == Busy(r) => r.scope = session.scope /\ (session.closing => r.aborted)
CallsFit == \A c \in LspCalls : CallFits(call[c], client[c], news[c]) /\ ScopeFits(call[c])
(* The handlers that wait are of different events; one that is not waited for any more has drained. *)
HandlersFit ==
  /\ starts \subseteq 1..session.generation /\ stops \subseteq 1..session.generation /\ starts \intersect stops = {}
  /\ session.generation \in stops => session.closing
  /\ session.closing /\ starts = {} /\ stops = {} => \A c \in LspCalls : ~Busy(call[c])
LspInv == LspTypes /\ CallsFit /\ HandlersFit
-----------------------------------------------------------------------------

LEMMA LspSets ==
  /\ Working = {"start", "initialize", "pull", "wait", "actions"} /\ Asking = {"initialize", "pull", "actions", "goodbye"}
  /\ Leaving = {"goodbye", "leaving", "terminating", "killing"} /\ NoServer \in LspClients /\ NoNews \in LspNews /\ Spawned \in LspClients
  /\ NoServer.state = "none" /\ ~NoServer.process /\ ~NoServer.child /\ Spawned.state = "starting" /\ Spawned.process /\ Spawned.child
  /\ NoNews.version = 0 /\ NoNews.last = "none" /\ NoNews.after = 0 /\ NoNews.answer = "none"
  BY DEF Working, Asking, Leaving, NoServer, NoNews, Spawned, LspClients, LspNews
(* A call that goes on is the same call at another place. *)
Moved(q, r, at) ==
  /\ q \in LspCallRows /\ q.at = at /\ q.scope = r.scope /\ q.aborted = r.aborted /\ q.routes = r.routes /\ q.wrote = r.wrote
  /\ r.failed => q.failed
LEMMA MoveTells ==
  ASSUME NEW r \in LspCallRows, NEW at \in LspPlaces
  PROVE  Moved([r EXCEPT !.at = at], r, at)
  BY DEF Moved, LspCallRows
LEMMA CutTells ==
  ASSUME NEW s \in LspClients
  PROVE  Cut(s) \in LspClients /\ Cut(s).state = s.state /\ Cut(s).process = s.process /\ ~Cut(s).child
  BY DEF Cut, LspClients
LEMMA FarewellTells ==
  ASSUME NEW s \in LspClients
  PROVE  /\ Farewell(s) = (IF ~s.process THEN "ended" ELSE IF s.child THEN "goodbye" ELSE "terminating")
         /\ Farewell(s) \in {"ended", "goodbye", "terminating"} /\ Farewell(s) \in LspPlaces
  BY DEF Farewell, LspPlaces
(* A call whose await rejects says goodbye if it can, and is done with a server that is gone. *)
RejectedTo(r, s) ==
  IF r.at \in {"start", "initialize", "pull", "wait", "actions"} THEN Farewell(s)
  ELSE IF r.at = "goodbye" THEN (IF s.process THEN "terminating" ELSE "ended") ELSE r.at
LEMMA RejectedTells ==
  ASSUME NEW r \in LspCallRows, NEW s \in LspClients
  PROVE  /\ Moved(Rejected(r, s), r, RejectedTo(r, s)) /\ (Busy(Rejected(r, s)) => Busy(r))
         /\ r.at \in {"start", "initialize", "pull", "wait", "actions"} => Rejected(r, s).failed
<1>1. CASE r.at \in Working
  <2>1. Rejected(r, s) = [r EXCEPT !.at = Farewell(s), !.failed = TRUE]
    BY <1>1 DEF Rejected
  <2>2. RejectedTo(r, s) = Farewell(s) /\ Farewell(s) \in LspPlaces /\ r.at \in {"start", "initialize", "pull", "wait", "actions"}
    BY <1>1, FarewellTells, LspSets DEF RejectedTo
  <2>3. Moved(Rejected(r, s), r, RejectedTo(r, s)) /\ Rejected(r, s).failed
    BY <2>1, <2>2 DEF Moved, LspCallRows
  <2> QED
    BY <2>2, <2>3 DEF Busy
<1>2. CASE r.at = "goodbye"
  <2>1. Rejected(r, s) = [r EXCEPT !.at = IF s.process THEN "terminating" ELSE "ended"]
    BY <1>2, LspSets DEF Rejected
  <2>2. RejectedTo(r, s) = (IF s.process THEN "terminating" ELSE "ended") /\ RejectedTo(r, s) \in LspPlaces
    BY <1>2 DEF RejectedTo, LspPlaces
  <2>3. Moved(Rejected(r, s), r, RejectedTo(r, s))
    BY <2>1, <2>2, MoveTells
  <2> QED
    BY <1>2, <2>3 DEF Busy
<1>3. CASE r.at \notin Working /\ r.at # "goodbye"
  <2>1. Rejected(r, s) = r /\ RejectedTo(r, s) = r.at
    BY <1>3, LspSets DEF Rejected, RejectedTo
  <2> QED
    BY <1>3, <2>1, LspSets DEF Moved
<1> QED
  BY <1>1, <1>2, <1>3

(* A step of one call that fits its server, its news and its scope. *)
LEMMA OneCall ==
  ASSUME LspInv, NEW c \in LspCalls, NEW r \in LspCallRows, NEW s \in LspClients, NEW n \in LspNews,
         CallFits(r, s, n), ScopeFits(r), Busy(r) => Busy(call[c]) \/ ~session.closing,
         call' = [call EXCEPT ![c] = r] \/ (call' = call /\ r = call[c]),
         client' = [client EXCEPT ![c] = s] \/ (client' = client /\ s = client[c]),
         news' = [news EXCEPT ![c] = n] \/ (news' = news /\ n = news[c]), UNCHANGED <<session, starts, stops>>
  PROVE  LspInv'
<1>1. call \in [LspCalls -> LspCallRows] /\ client \in [LspCalls -> LspClients] /\ news \in [LspCalls -> LspNews]
  BY DEF LspInv, LspTypes
<1>2. call' \in [LspCalls -> LspCallRows] /\ \A d \in LspCalls : call'[d] = IF d = c THEN r ELSE call[d]
  BY <1>1
<1>3. client' \in [LspCalls -> LspClients] /\ \A d \in LspCalls : client'[d] = IF d = c THEN s ELSE client[d]
  BY <1>1
<1>4. news' \in [LspCalls -> LspNews] /\ \A d \in LspCalls : news'[d] = IF d = c THEN n ELSE news[d]
  BY <1>1
<1>5. LspTypes'
  BY <1>2, <1>3, <1>4 DEF LspInv, LspTypes
<1>6. CallsFit'
  <2>1. ASSUME NEW d \in LspCalls
        PROVE  CallFits(call'[d], client'[d], news'[d]) /\ (Busy(call'[d]) => call'[d].scope = session.scope /\ (session.closing => call'[d].aborted))
    <3>1. CASE d = c
      BY <1>2, <1>3, <1>4, <3>1 DEF ScopeFits
    <3>2. CASE d # c
      BY <1>2, <1>3, <1>4, <3>2 DEF LspInv, CallsFit, ScopeFits
    <3> QED
      BY <3>1, <3>2
  <2>2. session' = session
    OBVIOUS
  <2> QED
    BY <2>1, <2>2 DEF CallsFit, ScopeFits
<1>7. HandlersFit'
  <2>1. session' = session /\ starts' = starts /\ stops' = stops
    OBVIOUS
  <2>2. session.closing /\ starts = {} /\ stops = {} => \A d \in LspCalls : ~Busy(call'[d])
    BY <1>2 DEF LspInv, HandlersFit
  <2> QED
    BY <2>1, <2>2 DEF LspInv, HandlersFit
<1> QED
  BY <1>5, <1>6, <1>7 DEF LspInv

-----------------------------------------------------------------------------
(* The second grace ends. *)
LEMMA KillGraceEndsKeeps ==
  ASSUME LspInv, NEW c \in LspCalls, KillGraceEnds(c)
  PROVE  LspInv'
<1>1. /\ call[c] \in LspCallRows /\ client[c] \in LspClients /\ news[c] \in LspNews /\ session.closing \in BOOLEAN
      /\ CallFits(call[c], client[c], news[c]) /\ ScopeFits(call[c]) /\ UNCHANGED <<session, starts, stops>>
  BY DEF LspInv, LspTypes, CallsFit, KillGraceEnds
<1>2. call[c].at = "terminating" /\ client' = client /\ news' = news
  BY <1>1, LspSets DEF KillGraceEnds, CallFits, ServerFits, WorkFits, NewsFits
<1>3. PICK r : call' = [call EXCEPT ![c] = r] /\ Moved(r, call[c], "killing")
  <2>1. call' = [call EXCEPT ![c] = [call[c] EXCEPT !.at = "killing"]]
    BY DEF KillGraceEnds
  <2> QED
    BY <1>1, <2>1, MoveTells DEF LspPlaces
<1>4. PICK s : s = client[c]
  OBVIOUS
<1>5. PICK n : n = news[c]
  OBVIOUS
<1>6. CallFits(r, s, n)
  BY <1>1, <1>2, <1>3, <1>4, <1>5, LspSets DEF Moved, CallFits, ServerFits, WorkFits, NewsFits, LspNews
<1>7. (Busy(r) => Busy(call[c])) /\ ScopeFits(r)
  BY <1>1, <1>2, <1>3, <1>4, <1>5 DEF Moved, Busy, ScopeFits
<1>8. r \in LspCallRows /\ s \in LspClients /\ n \in LspNews
  BY <1>1, <1>2, <1>3, <1>4, <1>5 DEF Moved
<1> QED
  BY <1>1, <1>2, <1>3, <1>4, <1>5, <1>6, <1>7, <1>8, OneCall

(* The farewell is answered. *)
LEMMA GoodbyeKeeps ==
  ASSUME LspInv, NEW c \in LspCalls, Goodbye(c)
  PROVE  LspInv'
<1>1. /\ call[c] \in LspCallRows /\ client[c] \in LspClients /\ news[c] \in LspNews /\ session.closing \in BOOLEAN
      /\ CallFits(call[c], client[c], news[c]) /\ ScopeFits(call[c]) /\ UNCHANGED <<session, starts, stops>>
  BY DEF LspInv, LspTypes, CallsFit, Goodbye
<1>2. call[c].at = "goodbye" /\ client' = client /\ news' = news
  BY <1>1, LspSets DEF Goodbye, CallFits, ServerFits, WorkFits, NewsFits
<1>3. PICK r : call' = [call EXCEPT ![c] = r] /\ Moved(r, call[c], "leaving")
  <2>1. call' = [call EXCEPT ![c] = [call[c] EXCEPT !.at = "leaving"]]
    BY DEF Goodbye
  <2> QED
    BY <1>1, <2>1, MoveTells DEF LspPlaces
<1>4. PICK s : s = client[c]
  OBVIOUS
<1>5. PICK n : n = news[c]
  OBVIOUS
<1>6. CallFits(r, s, n)
  BY <1>1, <1>2, <1>3, <1>4, <1>5, LspSets DEF Moved, CallFits, ServerFits, WorkFits, NewsFits, LspNews
<1>7. (Busy(r) => Busy(call[c])) /\ ScopeFits(r)
  BY <1>1, <1>2, <1>3, <1>4, <1>5 DEF Moved, Busy, ScopeFits
<1>8. r \in LspCallRows /\ s \in LspClients /\ n \in LspNews
  BY <1>1, <1>2, <1>3, <1>4, <1>5 DEF Moved
<1> QED
  BY <1>1, <1>2, <1>3, <1>4, <1>5, <1>6, <1>7, <1>8, OneCall

(* The first grace ends, and the client writes nothing more. *)
LEMMA GraceEndsKeeps ==
  ASSUME LspInv, NEW c \in LspCalls, GraceEnds(c)
  PROVE  LspInv'
<1>1. /\ call[c] \in LspCallRows /\ client[c] \in LspClients /\ news[c] \in LspNews /\ session.closing \in BOOLEAN
      /\ CallFits(call[c], client[c], news[c]) /\ ScopeFits(call[c]) /\ UNCHANGED <<session, starts, stops>>
  BY DEF LspInv, LspTypes, CallsFit, GraceEnds
<1>2. call[c].at = "leaving" /\ news' = news
  BY <1>1, LspSets DEF GraceEnds, CallFits, ServerFits, WorkFits, NewsFits
<1>3. PICK r : call' = [call EXCEPT ![c] = r] /\ Moved(r, call[c], "terminating")
  <2>1. call' = [call EXCEPT ![c] = [call[c] EXCEPT !.at = "terminating"]]
    BY DEF GraceEnds
  <2> QED
    BY <1>1, <2>1, MoveTells DEF LspPlaces
<1>4. PICK s \in LspClients : client' = [client EXCEPT ![c] = s] /\ s.state = client[c].state /\ s.process = client[c].process /\ ~s.child
  BY <1>1, CutTells DEF GraceEnds
<1>5. PICK n : n = news[c]
  OBVIOUS
<1>6. CallFits(r, s, n)
  BY <1>1, <1>2, <1>3, <1>4, <1>5, LspSets DEF Moved, CallFits, ServerFits, WorkFits, NewsFits, LspNews
<1>7. (Busy(r) => Busy(call[c])) /\ ScopeFits(r)
  BY <1>1, <1>2, <1>3, <1>4, <1>5 DEF Moved, Busy, ScopeFits
<1>8. r \in LspCallRows /\ s \in LspClients /\ n \in LspNews
  BY <1>1, <1>2, <1>3, <1>4, <1>5 DEF Moved
<1> QED
  BY <1>1, <1>2, <1>3, <1>4, <1>5, <1>6, <1>7, <1>8, OneCall

(* A server exits, and what waits for it is rejected or done. *)
LEMMA ServerExitsKeeps ==
  ASSUME LspInv, NEW c \in LspCalls, ServerExits(c)
  PROVE  LspInv'
<1>1. /\ call[c] \in LspCallRows /\ client[c] \in LspClients /\ news[c] \in LspNews /\ session.closing \in BOOLEAN
      /\ CallFits(call[c], client[c], news[c]) /\ ScopeFits(call[c]) /\ UNCHANGED <<session, starts, stops>>
  BY DEF LspInv, LspTypes, CallsFit, ServerExits
<1>2. client[c].state = "up" /\ call[c].at \notin {"none", "ended", "start"} /\ news' = news
  BY <1>1, LspSets DEF ServerExits, CallFits, ServerFits, WorkFits, NewsFits
<1>3. PICK s \in LspClients : client' = [client EXCEPT ![c] = s] /\ client'[c] = s /\ s.state = "gone" /\ ~s.process /\ ~s.child
  <2>1. PICK s : s = [NoServer EXCEPT !.state = "gone"]
    OBVIOUS
  <2>2. s \in LspClients /\ s.state = "gone" /\ ~s.process /\ ~s.child
    BY <2>1 DEF NoServer, LspClients
  <2>3. client' = [client EXCEPT ![c] = s]
    BY <2>1 DEF ServerExits
  <2>4. client \in [LspCalls -> LspClients]
    BY DEF LspInv, LspTypes
  <2> QED
    BY <2>2, <2>3, <2>4
<1>4. PICK r : /\ call' = [call EXCEPT ![c] = r] /\ Moved(r, call[c], "ended")
               /\ call[c].at \in {"initialize", "pull", "wait", "actions"} => r.failed
  <2>1. CASE call[c].at \in Leaving
    <3>1. call' = [call EXCEPT ![c] = [call[c] EXCEPT !.at = "ended"]]
      BY <2>1 DEF ServerExits, AfterExit
    <3> QED
      BY <1>1, <2>1, <3>1, MoveTells, LspSets DEF LspPlaces
  <2>2. CASE call[c].at \notin Leaving
    <3>1. call' = [call EXCEPT ![c] = Rejected(call[c], s)]
      BY <1>3, <2>2 DEF ServerExits, AfterExit
    <3>2. call[c].at \in {"initialize", "pull", "wait", "actions"}
      BY <1>1, <1>2, <2>2, LspSets DEF CallFits, ServerFits, LspCallRows, LspPlaces
    <3>3. RejectedTo(call[c], s) = "ended"
      BY <1>3, <3>2, FarewellTells DEF RejectedTo
    <3> QED
      BY <1>1, <3>1, <3>2, <3>3, RejectedTells
  <2> QED
    BY <2>1, <2>2
<1>5. PICK n : n = news[c]
  OBVIOUS
<1>6. CallFits(r, s, n)
  BY <1>1, <1>2, <1>3, <1>4, <1>5, LspSets DEF Moved, CallFits, ServerFits, WorkFits, NewsFits, LspNews
<1>7. (Busy(r) => Busy(call[c])) /\ ScopeFits(r)
  BY <1>1, <1>2, <1>3, <1>4, <1>5 DEF Moved, Busy, ScopeFits
<1>8. r \in LspCallRows /\ s \in LspClients /\ n \in LspNews
  BY <1>1, <1>2, <1>3, <1>4, <1>5 DEF Moved
<1> QED
  BY <1>1, <1>2, <1>3, <1>4, <1>5, <1>6, <1>7, <1>8, OneCall

(* A request fails; a failed farewell cuts the child. *)
LEMMA RequestFailsKeeps ==
  ASSUME LspInv, NEW c \in LspCalls, RequestFails(c)
  PROVE  LspInv'
<1>1. /\ call[c] \in LspCallRows /\ client[c] \in LspClients /\ news[c] \in LspNews /\ session.closing \in BOOLEAN
      /\ CallFits(call[c], client[c], news[c]) /\ ScopeFits(call[c]) /\ UNCHANGED <<session, starts, stops>>
  BY DEF LspInv, LspTypes, CallsFit, RequestFails
<1>2. client[c].state = "up" /\ client[c].child /\ call[c].at \in {"initialize", "pull", "actions", "goodbye"} /\ news' = news
  BY <1>1, LspSets DEF RequestFails, CallFits, ServerFits, WorkFits, NewsFits
<1>3. PICK s \in LspClients : client' = [client EXCEPT ![c] = s] /\ s.state = client[c].state /\ s.process = client[c].process
  BY <1>1, CutTells DEF RequestFails
<1>4. PICK r : call' = [call EXCEPT ![c] = r] /\ Moved(r, call[c], RejectedTo(call[c], client[c])) /\ (Busy(r) => Busy(call[c]))
  BY <1>1, RejectedTells DEF RequestFails
<1>5. RejectedTo(call[c], client[c]) \in {"goodbye", "terminating"}
  BY <1>1, <1>2, FarewellTells DEF RejectedTo, CallFits, ServerFits
<1>6. s.process => s.state = "up"
  BY <1>2, <1>3
<1>7. PICK n : n = news[c]
  OBVIOUS
<1>8. CallFits(r, s, n)
  BY <1>1, <1>2, <1>3, <1>4, <1>5, <1>6, <1>7, LspSets DEF Moved, CallFits, ServerFits, WorkFits, NewsFits, LspNews
<1>9. (Busy(r) => Busy(call[c])) /\ ScopeFits(r)
  BY <1>1, <1>2, <1>3, <1>4, <1>5, <1>6, <1>7 DEF Moved, Busy, ScopeFits
<1>10. r \in LspCallRows /\ s \in LspClients /\ n \in LspNews
  BY <1>1, <1>2, <1>3, <1>4, <1>5, <1>6, <1>7 DEF Moved
<1> QED
  BY <1>1, <1>2, <1>3, <1>4, <1>5, <1>6, <1>7, <1>8, <1>9, <1>10, OneCall

(* The client fails as a whole. *)
LEMMA ClientFailsKeeps ==
  ASSUME LspInv, NEW c \in LspCalls, ClientFails(c)
  PROVE  LspInv'
<1>1. /\ call[c] \in LspCallRows /\ client[c] \in LspClients /\ news[c] \in LspNews /\ session.closing \in BOOLEAN
      /\ CallFits(call[c], client[c], news[c]) /\ ScopeFits(call[c]) /\ UNCHANGED <<session, starts, stops>>
  BY DEF LspInv, LspTypes, CallsFit, ClientFails
<1>2. client[c].state = "up" /\ client[c].child /\ call[c].at # "start" /\ news' = news
  BY <1>1, LspSets DEF ClientFails, CallFits, ServerFits, WorkFits, NewsFits
<1>3. PICK s \in LspClients : client' = [client EXCEPT ![c] = s] /\ client'[c] = s /\ s.state = client[c].state /\ s.process = client[c].process /\ ~s.child
  <2>1. client \in [LspCalls -> LspClients]
    BY DEF LspInv, LspTypes
  <2> QED
    BY <1>1, <2>1, CutTells DEF ClientFails
<1>4. PICK r : call' = [call EXCEPT ![c] = r] /\ Moved(r, call[c], RejectedTo(call[c], s)) /\ (Busy(r) => Busy(call[c]))
  BY <1>1, <1>3, RejectedTells DEF ClientFails
<1>5. RejectedTo(call[c], s) = (IF call[c].at \in {"leaving", "killing"} THEN call[c].at ELSE "terminating")
  BY <1>1, <1>2, <1>3, FarewellTells DEF RejectedTo, CallFits, ServerFits, LspCallRows, LspPlaces
<1>6. PICK n : n = news[c]
  OBVIOUS
<1>7. CallFits(r, s, n)
  BY <1>1, <1>2, <1>3, <1>4, <1>5, <1>6, LspSets DEF Moved, CallFits, ServerFits, WorkFits, NewsFits, LspNews
<1>8. (Busy(r) => Busy(call[c])) /\ ScopeFits(r)
  BY <1>1, <1>2, <1>3, <1>4, <1>5, <1>6 DEF Moved, Busy, ScopeFits
<1>9. r \in LspCallRows /\ s \in LspClients /\ n \in LspNews
  BY <1>1, <1>2, <1>3, <1>4, <1>5, <1>6 DEF Moved
<1> QED
  BY <1>1, <1>2, <1>3, <1>4, <1>5, <1>6, <1>7, <1>8, <1>9, OneCall

(* The process of a server runs, or failed to start. *)
LEMMA SpawnEndsKeeps ==
  ASSUME LspInv, NEW c \in LspCalls, SpawnEnds(c)
  PROVE  LspInv'
<1>1. /\ call[c] \in LspCallRows /\ client[c] \in LspClients /\ news[c] \in LspNews /\ session.closing \in BOOLEAN
      /\ CallFits(call[c], client[c], news[c]) /\ ScopeFits(call[c]) /\ UNCHANGED <<session, starts, stops>>
  BY DEF LspInv, LspTypes, CallsFit, SpawnEnds
<1>2. call[c].at = "start" /\ client[c].state = "starting" /\ client[c].process /\ news' = news
  BY <1>1, LspSets DEF SpawnEnds, CallFits, ServerFits, WorkFits, NewsFits
<1>3. PICK s, r :
                                 /\ s \in LspClients
                                 /\ client' = [client EXCEPT ![c] = s] /\ call' = [call EXCEPT ![c] = r]
                                 /\ \/ s.state = "up" /\ s.process /\ ~call[c].aborted /\ Moved(r, call[c], "initialize")
                                    \/ s.state = "up" /\ s.process /\ Moved(r, call[c], Farewell(client[c]))
                                    \/ s.state = "gone" /\ ~s.process /\ ~s.child /\ Moved(r, call[c], "ended") /\ r.failed
  <2>0. client \in [LspCalls -> LspClients] /\ RejectedTo(call[c], client[c]) = Farewell(client[c])
    BY <1>2 DEF LspInv, LspTypes, RejectedTo
  <2>1. ASSUME client' = [client EXCEPT ![c].state = "up"],
               call' = [call EXCEPT ![c] = IF call[c].aborted THEN Rejected(call[c], client[c]) ELSE [call[c] EXCEPT !.at = "initialize"]]
        PROVE  \E s, r :
                                        /\ s \in LspClients
                                        /\ client' = [client EXCEPT ![c] = s] /\ call' = [call EXCEPT ![c] = r] /\ s.state = "up" /\ s.process
                                        /\ \/ ~call[c].aborted /\ Moved(r, call[c], "initialize")
                                           \/ Moved(r, call[c], Farewell(client[c]))
    <3>1. PICK s \in LspClients : client' = [client EXCEPT ![c] = s] /\ s.state = "up" /\ s.process
      <4>1. PICK s : s = [client[c] EXCEPT !.state = "up"]
        OBVIOUS
      <4>2. s \in LspClients /\ s.state = "up" /\ s.process
        BY <1>1, <1>2, <4>1 DEF LspClients
      <4>3. client' = [client EXCEPT ![c] = s]
        BY <2>1, <4>1
      <4> QED
        BY <4>2, <4>3
    <3>2. CASE call[c].aborted
      BY <1>1, <2>0, <2>1, <3>1, <3>2, RejectedTells, ZenonT(60)
    <3>3. CASE ~call[c].aborted
      <4>1. Moved([call[c] EXCEPT !.at = "initialize"], call[c], "initialize")
        BY <1>1, MoveTells DEF LspPlaces
      <4> QED
        BY <2>1, <3>1, <3>3, <4>1
    <3> QED
      BY <3>2, <3>3
  <2>2. ASSUME client' = [client EXCEPT ![c] = [NoServer EXCEPT !.state = "gone"]], call' = [call EXCEPT ![c] = Rejected(call[c], client'[c])]
        PROVE  \E s, r :
                                        /\ s \in LspClients
                                        /\ client' = [client EXCEPT ![c] = s] /\ call' = [call EXCEPT ![c] = r]
                                        /\ s.state = "gone" /\ ~s.process /\ ~s.child /\ Moved(r, call[c], "ended") /\ r.failed
    <3>1. PICK s : s = [NoServer EXCEPT !.state = "gone"]
      OBVIOUS
    <3>2. s \in LspClients /\ s.state = "gone" /\ ~s.process /\ ~s.child
      BY <3>1 DEF NoServer, LspClients
    <3>3. client' = [client EXCEPT ![c] = s] /\ client'[c] = s
      BY <2>0, <2>2, <3>1
    <3>4. RejectedTo(call[c], s) = "ended"
      BY <1>2, <3>2, FarewellTells DEF RejectedTo
    <3>5. Moved(Rejected(call[c], s), call[c], "ended") /\ Rejected(call[c], s).failed
      BY <1>1, <1>2, <3>2, <3>4, RejectedTells
    <3> QED
      BY <2>2, <3>2, <3>3, <3>5
  <2> QED
    BY <2>1, <2>2 DEF SpawnEnds
<1>4. Farewell(client[c]) \in {"goodbye", "terminating"}
  BY <1>1, <1>2, FarewellTells
<1>5. r \in LspCallRows
  BY <1>3 DEF Moved
<1>6. PICK n : n = news[c]
  OBVIOUS
<1>7. CallFits(r, s, n)
  BY <1>1, <1>2, <1>3, <1>4, <1>5, <1>6, LspSets DEF Moved, CallFits, ServerFits, WorkFits, NewsFits, LspNews
<1>8. (Busy(r) => Busy(call[c])) /\ ScopeFits(r)
  BY <1>1, <1>2, <1>3, <1>4, <1>5, <1>6 DEF Moved, Busy, ScopeFits
<1>9. r \in LspCallRows /\ s \in LspClients /\ n \in LspNews
  BY <1>1, <1>2, <1>3, <1>4, <1>5, <1>6 DEF Moved
<1> QED
  BY <1>1, <1>2, <1>3, <1>4, <1>5, <1>6, <1>7, <1>8, <1>9, OneCall

-----------------------------------------------------------------------------
(* The wait for news notices a publication, and changes nothing it counts by. *)
SameNews(m, n) == m \in LspNews /\ m.version = n.version /\ m.last = n.last /\ m.after = n.after /\ m.answer = n.answer
LEMMA NoticedTells ==
  ASSUME NEW n \in LspNews
  PROVE  SameNews(Noticed(n), n)
<1>1. CASE n.version <= n.after \/ (n.fallback /\ n.last = "empty" /\ ~n.saw)
  BY <1>1 DEF Noticed, SameNews
<1>2. CASE ~(n.version <= n.after \/ (n.fallback /\ n.last = "empty" /\ ~n.saw))
  <2>1. PICK b \in BOOLEAN : b = (n.saw \/ n.last = "some")
    OBVIOUS
  <2>2. Noticed(n) = [n EXCEPT !.saw = b, !.settling = TRUE]
    BY <1>2, <2>1 DEF Noticed
  <2> QED
    BY <2>2 DEF SameNews, LspNews
<1> QED
  BY <1>1, <1>2
LEMMA WaitForTells ==
  ASSUME NEW n \in LspNews, NEW fallback \in BOOLEAN
  PROVE  SameNews(WaitFor(n, fallback), n)
<1>1. SameNews([n EXCEPT !.fallback = fallback], n)
  BY DEF SameNews, LspNews
<1> QED
  BY <1>1, NoticedTells DEF WaitFor, SameNews
LEMMA PullAfterTells ==
  ASSUME NEW n \in LspNews, n.last = "some" => n.version > 0
  PROVE  PullAfter(n) \in Nat /\ PullAfter(n) <= n.version /\ (n.last = "some" => PullAfter(n) < n.version)
  BY DEF PullAfter, LspNews
(* The diagnostics are there: the answer is kept, and the call goes on to its actions or its farewell. *)
LEMMA DiagnosedTells ==
  ASSUME LspInv, NEW c \in LspCalls, NEW answer \in {"none", "pulled", "empty", "some"}, Diagnosed(c, answer), client[c].process
  PROVE  /\ \E r : call' = [call EXCEPT ![c] = r] /\ \E at \in {"actions", "goodbye", "terminating"} : Moved(r, call[c], at)
         /\ \E n \in LspNews : /\ news' = [news EXCEPT ![c] = n] /\ n.answer = answer
                               /\ n.version = news[c].version /\ n.last = news[c].last /\ n.after = news[c].after
         /\ client' = client
<1>1. call[c] \in LspCallRows /\ client[c] \in LspClients /\ news[c] \in LspNews
  BY DEF LspInv, LspTypes
<1>2. PICK at : at = IF call[c].fix THEN "actions" ELSE Farewell(client[c])
  OBVIOUS
<1>3. at \in {"actions", "goodbye", "terminating"} /\ at \in LspPlaces
  BY <1>1, <1>2, FarewellTells DEF LspPlaces
<1>4. call' = [call EXCEPT ![c] = [call[c] EXCEPT !.at = at]]
  BY <1>2 DEF Diagnosed
<1>5. PICK n : n = [news[c] EXCEPT !.answer = answer]
  OBVIOUS
<1>6. n \in LspNews /\ n.answer = answer /\ n.version = news[c].version /\ n.last = news[c].last /\ n.after = news[c].after
  BY <1>1, <1>5 DEF LspNews
<1>7. news' = [news EXCEPT ![c] = n]
  BY <1>5 DEF Diagnosed
<1>8. Moved([call[c] EXCEPT !.at = at], call[c], at)
  BY <1>1, <1>3, MoveTells
<1> QED
  BY <1>3, <1>4, <1>6, <1>7, <1>8 DEF Diagnosed

(* A server is up to the documents: it is pulled from, or waited for. *)
LEMMA InitializedKeeps ==
  ASSUME LspInv, NEW c \in LspCalls, Initialized(c)
  PROVE  LspInv'
<1>1. /\ call[c] \in LspCallRows /\ client[c] \in LspClients /\ news[c] \in LspNews /\ session.closing \in BOOLEAN
      /\ CallFits(call[c], client[c], news[c]) /\ ScopeFits(call[c]) /\ UNCHANGED <<session, starts, stops>>
  BY DEF LspInv, LspTypes, CallsFit, Initialized
<1>2. call[c].at = "initialize" /\ client[c].state = "up" /\ client' = client /\ news[c].after = 0 /\ news[c].answer = "none"
  BY <1>1, LspSets DEF Initialized, CallFits, ServerFits, WorkFits, NewsFits
<1>3. PICK r, n : /\ call' = [call EXCEPT ![c] = r] /\ news' = [news EXCEPT ![c] = n] /\ r.at \in {"pull", "wait"} /\ Moved(r, call[c], r.at)
                  /\ n \in LspNews /\ n.version = news[c].version /\ n.last = news[c].last /\ n.answer = "none" /\ n.after <= n.version
                  /\ n.last = "some" => n.version > n.after
  <2>0. news[c].last = "some" => news[c].version > 0
    BY <1>1 DEF CallFits, NewsFits
  <2>1. ASSUME call' = [call EXCEPT ![c].at = "pull"], news' = [news EXCEPT ![c].after = PullAfter(news[c])]
        PROVE  \E r, n : /\ call' = [call EXCEPT ![c] = r] /\ news' = [news EXCEPT ![c] = n] /\ r.at = "pull" /\ Moved(r, call[c], r.at)
                         /\ n \in LspNews /\ n.version = news[c].version /\ n.last = news[c].last /\ n.answer = "none" /\ n.after <= n.version
                         /\ n.last = "some" => n.version > n.after
    <3>1. Moved([call[c] EXCEPT !.at = "pull"], call[c], "pull") /\ [call[c] EXCEPT !.at = "pull"].at = "pull"
      BY <1>1, MoveTells, ZenonT(60) DEF LspPlaces, Moved
    <3>2. PICK n : n = [news[c] EXCEPT !.after = PullAfter(news[c])]
      OBVIOUS
    <3>3. PullAfter(news[c]) \in Nat /\ PullAfter(news[c]) <= news[c].version /\ (news[c].last = "some" => PullAfter(news[c]) < news[c].version)
      BY <1>1, <2>0, PullAfterTells
    <3>4. n \in LspNews /\ n.version = news[c].version /\ n.last = news[c].last /\ n.answer = "none" /\ n.after = PullAfter(news[c]) /\ n.version \in Nat
      BY <1>1, <1>2, <3>2, <3>3 DEF LspNews
    <3>5. n.after <= n.version /\ (n.last = "some" => n.version > n.after)
      BY <3>3, <3>4
    <3>6. news' = [news EXCEPT ![c] = n] /\ call' = [call EXCEPT ![c] = [call[c] EXCEPT !.at = "pull"]]
      BY <2>1, <3>2
    <3> QED
      BY <3>1, <3>4, <3>5, <3>6
  <2>2. ASSUME call' = [call EXCEPT ![c].at = "wait"], NEW grace \in BOOLEAN, news' = [news EXCEPT ![c] = WaitFor(news[c], grace)]
        PROVE  \E r, n : /\ call' = [call EXCEPT ![c] = r] /\ news' = [news EXCEPT ![c] = n] /\ r.at = "wait" /\ Moved(r, call[c], r.at)
                         /\ n \in LspNews /\ n.version = news[c].version /\ n.last = news[c].last /\ n.answer = "none" /\ n.after <= n.version
                         /\ n.last = "some" => n.version > n.after
    <3>1. Moved([call[c] EXCEPT !.at = "wait"], call[c], "wait") /\ [call[c] EXCEPT !.at = "wait"].at = "wait"
      BY <1>1, MoveTells, ZenonT(60) DEF LspPlaces, Moved
    <3>2. PICK n : n = WaitFor(news[c], grace)
      OBVIOUS
    <3>3. n \in LspNews /\ n.version = news[c].version /\ n.last = news[c].last /\ n.answer = "none" /\ n.after = 0 /\ n.version \in Nat
      BY <1>1, <1>2, <3>2, WaitForTells DEF SameNews, LspNews
    <3>4. n.after <= n.version /\ (n.last = "some" => n.version > n.after)
      BY <2>0, <3>3
    <3>5. news' = [news EXCEPT ![c] = n] /\ call' = [call EXCEPT ![c] = [call[c] EXCEPT !.at = "wait"]]
      BY <2>2, <3>2
    <3> QED
      BY <3>1, <3>3, <3>4, <3>5
  <2> QED
    BY <2>1, <2>2 DEF Initialized
<1>4. PICK s : s = client[c]
  OBVIOUS
<1>5. CallFits(r, s, n)
  BY <1>1, <1>2, <1>3, <1>4, LspSets DEF Moved, CallFits, ServerFits, WorkFits, NewsFits, LspNews
<1>6. (Busy(r) => Busy(call[c])) /\ ScopeFits(r)
  BY <1>1, <1>2, <1>3, <1>4 DEF Moved, Busy, ScopeFits
<1>7. r \in LspCallRows /\ s \in LspClients /\ n \in LspNews
  BY <1>1, <1>2, <1>3, <1>4 DEF Moved
<1> QED
  BY <1>1, <1>2, <1>3, <1>4, <1>5, <1>6, <1>7, OneCall

(* A server publishes more. *)
LEMMA PublishedMoreKeeps ==
  ASSUME LspInv, NEW c \in LspCalls, PublishedMore(c)
  PROVE  LspInv'
<1>1. /\ call[c] \in LspCallRows /\ client[c] \in LspClients /\ news[c] \in LspNews /\ session.closing \in BOOLEAN
      /\ CallFits(call[c], client[c], news[c]) /\ ScopeFits(call[c]) /\ UNCHANGED <<session, starts, stops>>
  BY DEF LspInv, LspTypes, CallsFit, PublishedMore
<1>2. call[c].at \in {"initialize", "pull", "wait"} /\ client[c].state = "up" /\ client' = client /\ call' = call /\ news[c].answer = "none" /\ news[c].after <= news[c].version /\ (call[c].at = "initialize" => news[c].after = 0)
  BY <1>1, LspSets DEF PublishedMore, CallFits, ServerFits, WorkFits, NewsFits
<1>3. PICK n : /\ news' = [news EXCEPT ![c] = n] /\ n \in LspNews /\ n.version = news[c].version + 1 /\ n.after = news[c].after /\ n.answer = news[c].answer
  <2>1. PICK last \in {"empty", "some"} : LET m == [news[c] EXCEPT !.version = @ + 1, !.last = last]
                                           IN  news' = [news EXCEPT ![c] = IF call[c].at = "wait" THEN Noticed(m) ELSE m]
    BY DEF PublishedMore
  <2>2. PICK v \in Nat : v = news[c].version + 1
    BY <1>1 DEF LspNews
  <2>3. PICK m : m = [news[c] EXCEPT !.version = v, !.last = last]
    OBVIOUS
  <2>4. m \in LspNews /\ m.version = v /\ m.after = news[c].after /\ m.answer = news[c].answer
    BY <1>1, <2>2, <2>3 DEF LspNews
  <2>5. SameNews(m, m) /\ SameNews(Noticed(m), m)
    BY <2>4, NoticedTells DEF SameNews
  <2>6. news' = [news EXCEPT ![c] = IF call[c].at = "wait" THEN Noticed(m) ELSE m]
    BY <2>1, <2>2, <2>3
  <2>7. PICK n : n = (IF call[c].at = "wait" THEN Noticed(m) ELSE m)
    OBVIOUS
  <2>8. SameNews(n, m)
    BY <2>5, <2>7
  <2> QED
    BY <2>2, <2>4, <2>6, <2>7, <2>8 DEF SameNews
<1>4. n.version > n.after /\ n.version > 0 /\ n.after <= n.version
  BY <1>1, <1>2, <1>3 DEF LspNews
<1>5. PICK s : s = client[c]
  OBVIOUS
<1>6. PICK r : r = call[c]
  OBVIOUS
<1>7. CallFits(r, s, n)
  BY <1>1, <1>2, <1>3, <1>4, <1>5, <1>6, LspSets DEF Moved, CallFits, ServerFits, WorkFits, NewsFits, LspNews
<1>8. (Busy(r) => Busy(call[c])) /\ ScopeFits(r)
  BY <1>1, <1>2, <1>3, <1>4, <1>5, <1>6 DEF Moved, Busy, ScopeFits
<1>9. r \in LspCallRows /\ s \in LspClients /\ n \in LspNews
  BY <1>1, <1>2, <1>3, <1>4, <1>5, <1>6 DEF Moved
<1> QED
  BY <1>1, <1>2, <1>3, <1>4, <1>5, <1>6, <1>7, <1>8, <1>9, OneCall

(* What the diagnostics are taken from: never `none` while the newest are some. *)
LEMMA DiagnosedKeeps ==
  ASSUME LspInv, NEW c \in LspCalls, NEW answer \in {"none", "pulled", "empty", "some"}, Diagnosed(c, answer),
         client[c].state = "up", call[c].at \in {"pull", "wait"}, answer = "empty" => news[c].last # "some"
  PROVE  LspInv'
<1>1. /\ call[c] \in LspCallRows /\ client[c] \in LspClients /\ news[c] \in LspNews /\ session.closing \in BOOLEAN
      /\ CallFits(call[c], client[c], news[c]) /\ ScopeFits(call[c]) /\ UNCHANGED <<session, starts, stops>>
  BY DEF LspInv, LspTypes, CallsFit, Diagnosed
<1>2. client[c].process
  BY <1>1 DEF CallFits, ServerFits
<1>3. PICK r : call' = [call EXCEPT ![c] = r] /\ \E at \in {"actions", "goodbye", "terminating"} : Moved(r, call[c], at)
  BY <1>2, DiagnosedTells
<1>4. PICK at \in {"actions", "goodbye", "terminating"} : Moved(r, call[c], at)
  BY <1>3
<1>5. PICK n \in LspNews : /\ news' = [news EXCEPT ![c] = n] /\ n.answer = answer
                           /\ n.version = news[c].version /\ n.last = news[c].last /\ n.after = news[c].after
  BY <1>2, DiagnosedTells
<1>6. client' = client
  BY DEF Diagnosed
<1>7. ServerFits(r, client[c])
  BY <1>1, <1>4 DEF Moved, CallFits, ServerFits
<1>8. WorkFits(r)
  BY <1>1, <1>4 DEF Moved, CallFits, WorkFits
<1>9. NewsFits(r, n)
  BY <1>1, <1>4, <1>5 DEF Moved, CallFits, NewsFits
<1>10. (Busy(r) => Busy(call[c])) /\ ScopeFits(r) /\ CallFits(r, client[c], n) /\ r \in LspCallRows
  BY <1>1, <1>4, <1>7, <1>8, <1>9 DEF Moved, Busy, ScopeFits, CallFits
<1> QED
  BY <1>1, <1>3, <1>5, <1>6, <1>10, OneCall
(* A call whose place says that a server runs has one that runs. *)
LEMMA WaitsOnServer ==
  ASSUME LspInv, NEW c \in LspCalls, call[c].at \in {"pull", "wait"}
  PROVE  client[c].state = "up" /\ news[c].last \in {"none", "empty", "some"} /\ (news[c].last = "some" => news[c].version > news[c].after)
  BY DEF LspInv, LspTypes, CallsFit, CallFits, ServerFits, NewsFits, LspNews
LEMMA SettledKeeps ==
  ASSUME LspInv, NEW c \in LspCalls, Settled(c)
  PROVE  LspInv'
<1>1. call[c].at = "wait" /\ Diagnosed(c, news[c].last)
  BY DEF Settled
<1>2. client[c].state = "up" /\ news[c].last \in {"none", "pulled", "empty", "some"}
  BY <1>1, WaitsOnServer
<1>3. news[c].last = "empty" => news[c].last # "some"
  OBVIOUS
<1> QED
  BY <1>1, <1>2, <1>3, DiagnosedKeeps
(* What was pulled is nothing, and the server may still push. *)
LEMMA PulledWaitsKeeps ==
  ASSUME LspInv, NEW c \in LspCalls, call[c].at = "pull", call' = [call EXCEPT ![c].at = "wait"], news' = [news EXCEPT ![c] = WaitFor(news[c], TRUE)], UNCHANGED <<session, starts, stops, client>>
  PROVE  LspInv'
<1>1. /\ call[c] \in LspCallRows /\ client[c] \in LspClients /\ news[c] \in LspNews /\ session.closing \in BOOLEAN
      /\ CallFits(call[c], client[c], news[c]) /\ ScopeFits(call[c]) /\ UNCHANGED <<session, starts, stops>>
  BY DEF LspInv, LspTypes, CallsFit
<1>2. call[c].at = "pull" /\ client[c].state = "up" /\ client' = client /\ news[c].answer = "none" /\ news[c].after <= news[c].version /\ (news[c].last = "some" => news[c].version > news[c].after)
  BY <1>1, LspSets DEF CallFits, ServerFits, WorkFits, NewsFits
<1>3. PICK r : call' = [call EXCEPT ![c] = r] /\ Moved(r, call[c], "wait")
  <2>1. call' = [call EXCEPT ![c] = [call[c] EXCEPT !.at = "wait"]]
    OBVIOUS
  <2> QED
    BY <1>1, <2>1, MoveTells DEF LspPlaces
<1>4. PICK n : news' = [news EXCEPT ![c] = n] /\ SameNews(n, news[c])
  BY <1>1, WaitForTells
<1>5. n \in LspNews
  BY <1>4 DEF SameNews
<1>6. PICK s : s = client[c]
  OBVIOUS
<1>7. CallFits(r, s, n)
  BY <1>1, <1>2, <1>3, <1>4, <1>5, <1>6, LspSets DEF Moved, CallFits, ServerFits, WorkFits, NewsFits, LspNews, SameNews
<1>8. (Busy(r) => Busy(call[c])) /\ ScopeFits(r)
  BY <1>1, <1>2, <1>3, <1>4, <1>5, <1>6 DEF Moved, Busy, ScopeFits
<1>9. r \in LspCallRows /\ s \in LspClients /\ n \in LspNews
  BY <1>1, <1>2, <1>3, <1>4, <1>5, <1>6 DEF Moved
<1> QED
  BY <1>1, <1>2, <1>3, <1>4, <1>5, <1>6, <1>7, <1>8, <1>9, OneCall

LEMMA PulledKeeps ==
  ASSUME LspInv, NEW c \in LspCalls, Pulled(c)
  PROVE  LspInv'
<1>1. call[c].at = "pull" /\ client[c].state = "up"
  BY WaitsOnServer DEF Pulled
<1>2. CASE Diagnosed(c, "pulled")
  BY <1>1, <1>2, DiagnosedKeeps
<1>3. CASE ~Diagnosed(c, "pulled")
  BY <1>1, <1>3, PulledWaitsKeeps DEF Pulled
<1> QED
  BY <1>2, <1>3
(* The wait ends without news. *)
LEMMA WaitRejectsKeeps ==
  ASSUME LspInv, NEW c \in LspCalls, call[c].at = "wait", call' = [call EXCEPT ![c] = Rejected(call[c], client[c])], UNCHANGED <<session, starts, stops, client, news>>
  PROVE  LspInv'
<1>1. /\ call[c] \in LspCallRows /\ client[c] \in LspClients /\ news[c] \in LspNews /\ session.closing \in BOOLEAN
      /\ CallFits(call[c], client[c], news[c]) /\ ScopeFits(call[c]) /\ UNCHANGED <<session, starts, stops>>
  BY DEF LspInv, LspTypes, CallsFit
<1>2. call[c].at = "wait" /\ client[c].state = "up" /\ client[c].process /\ client' = client /\ news' = news
  BY <1>1, LspSets DEF CallFits, ServerFits, WorkFits, NewsFits
<1>3. PICK r : call' = [call EXCEPT ![c] = r] /\ Moved(r, call[c], RejectedTo(call[c], client[c])) /\ (Busy(r) => Busy(call[c]))
  BY <1>1, RejectedTells
<1>4. RejectedTo(call[c], client[c]) \in {"goodbye", "terminating"}
  BY <1>1, <1>2, FarewellTells DEF RejectedTo
<1>5. PICK s : s = client[c]
  OBVIOUS
<1>6. PICK n : n = news[c]
  OBVIOUS
<1>7. CallFits(r, s, n)
  BY <1>1, <1>2, <1>3, <1>4, <1>5, <1>6, LspSets DEF Moved, CallFits, ServerFits, WorkFits, NewsFits, LspNews
<1>8. (Busy(r) => Busy(call[c])) /\ ScopeFits(r)
  BY <1>1, <1>2, <1>3, <1>4, <1>5, <1>6 DEF Moved, Busy, ScopeFits
<1>9. r \in LspCallRows /\ s \in LspClients /\ n \in LspNews
  BY <1>1, <1>2, <1>3, <1>4, <1>5, <1>6 DEF Moved
<1> QED
  BY <1>1, <1>2, <1>3, <1>4, <1>5, <1>6, <1>7, <1>8, <1>9, OneCall

LEMMA WaitEndsKeeps ==
  ASSUME LspInv, NEW c \in LspCalls, WaitEnds(c)
  PROVE  LspInv'
<1>1. call[c].at = "wait" /\ client[c].state = "up" /\ news[c].last \in {"none", "pulled", "empty", "some"}
  BY WaitsOnServer DEF WaitEnds
<1>2. CASE news[c].version > news[c].after
  <2>1. Diagnosed(c, news[c].last) /\ (news[c].last = "empty" => news[c].last # "some")
    BY <1>2 DEF WaitEnds
  <2> QED
    BY <1>1, <2>1, DiagnosedKeeps
<1>3. CASE ~(news[c].version > news[c].after) /\ news[c].fallback
  <2>1. Diagnosed(c, "empty") /\ news[c].last # "some"
    BY <1>1, <1>3, WaitsOnServer DEF WaitEnds
  <2> QED
    BY <1>1, <2>1, DiagnosedKeeps
<1>4. CASE ~(news[c].version > news[c].after) /\ ~news[c].fallback
  BY <1>1, <1>4, WaitRejectsKeeps DEF WaitEnds
<1> QED
  BY <1>2, <1>3, <1>4
(* A fix is done, and wrote only what is wanted. *)
LEMMA FixedKeeps ==
  ASSUME LspInv, NEW c \in LspCalls, Fixed(c)
  PROVE  LspInv'
<1>1. /\ call[c] \in LspCallRows /\ client[c] \in LspClients /\ news[c] \in LspNews /\ session.closing \in BOOLEAN
      /\ CallFits(call[c], client[c], news[c]) /\ ScopeFits(call[c]) /\ UNCHANGED <<session, starts, stops>>
  BY DEF LspInv, LspTypes, CallsFit, Fixed, Busy
<1>2. call[c].at = "actions" /\ client[c].state = "up" /\ client[c].process /\ client' = client /\ news' = news /\ ~call[c].aborted /\ ~session.closing
  BY <1>1, LspSets DEF Fixed, Busy, ScopeFits, CallFits, ServerFits, WorkFits, NewsFits
<1>3. Farewell(client[c]) \in {"goodbye", "terminating"} /\ Farewell(client[c]) \in LspPlaces
  BY <1>1, <1>2, FarewellTells
<1>4. PICK wrote \in {"no", "wanted"} : call' = [call EXCEPT ![c] = [call[c] EXCEPT !.at = Farewell(client[c]), !.wrote = wrote]]
  BY <1>2 DEF Fixed, WriteWanted
<1>5. PICK r : r = [call[c] EXCEPT !.at = Farewell(client[c]), !.wrote = wrote]
  OBVIOUS
<1>6. /\ call' = [call EXCEPT ![c] = r] /\ r \in LspCallRows /\ r.at = Farewell(client[c]) /\ r.scope = call[c].scope /\ r.aborted = call[c].aborted
      /\ r.routes = call[c].routes /\ r.wrote # "unwanted" /\ r.failed = call[c].failed
  BY <1>1, <1>3, <1>4, <1>5 DEF LspCallRows
<1>7. PICK s : s = client[c]
  OBVIOUS
<1>8. PICK n : n = news[c]
  OBVIOUS
<1>9. CallFits(r, s, n)
  BY <1>1, <1>2, <1>3, <1>4, <1>5, <1>6, <1>7, <1>8, LspSets DEF Moved, CallFits, ServerFits, WorkFits, NewsFits, LspNews
<1>10. (Busy(r) => Busy(call[c])) /\ ScopeFits(r)
  BY <1>1, <1>2, <1>3, <1>4, <1>5, <1>6, <1>7, <1>8 DEF Moved, Busy, ScopeFits
<1>11. r \in LspCallRows /\ s \in LspClients /\ n \in LspNews
  BY <1>1, <1>2, <1>3, <1>4, <1>5, <1>6, <1>7, <1>8 DEF Moved
<1> QED
  BY <1>1, <1>2, <1>3, <1>4, <1>5, <1>6, <1>7, <1>8, <1>9, <1>10, <1>11, OneCall

-----------------------------------------------------------------------------
(* A call takes a server in an open scope, or is done with a command that is not found. *)
LEMMA LaunchKeeps ==
  ASSUME LspInv, NEW c \in LspCalls, NEW q \in LspCallRows, Launch(c, q), q.wrote # "unwanted", q.scope = session.scope, ~session.closing,
         UNCHANGED <<session, starts, stops>>
  PROVE  LspInv'
<1>1. PICK r, s : /\ call' = [call EXCEPT ![c] = r] /\ client' = [client EXCEPT ![c] = s] /\ news' = [news EXCEPT ![c] = NoNews]
                  /\ \/ r = [q EXCEPT !.at = "start"] /\ s = Spawned
                     \/ r = [q EXCEPT !.at = "ended", !.failed = TRUE] /\ s = NoServer
  BY DEF Launch
<1>2. /\ r \in LspCallRows /\ r.wrote # "unwanted" /\ r.scope = session.scope
      /\ (r.at = "start" /\ s = Spawned) \/ (r.at = "ended" /\ s = NoServer)
  BY <1>1 DEF LspCallRows, LspPlaces
<1>3. CallFits(r, s, NoNews) /\ ScopeFits(r) /\ s \in LspClients
  BY <1>2, LspSets DEF CallFits, ServerFits, WorkFits, NewsFits, ScopeFits
<1> QED
  BY <1>1, <1>2, <1>3, LspSets, OneCall
LEMMA ExecuteKeeps ==
  ASSUME LspInv, NEW c \in LspCalls, Execute(c)
  PROVE  LspInv'
<1>1. PICK fix \in BOOLEAN, routes \in 0..1 : Launch(c, [call[c] EXCEPT !.scope = session.scope, !.fix = fix, !.routes = routes])
  BY DEF Execute
<1>2. PICK q : q = [call[c] EXCEPT !.scope = session.scope, !.fix = fix, !.routes = routes]
  OBVIOUS
<1>3. call[c] \in LspCallRows /\ session.scope \in Nat /\ call[c].wrote # "unwanted" /\ routes \in Nat
  BY DEF LspInv, LspTypes, CallsFit, CallFits, WorkFits
<1>4. q \in LspCallRows /\ q.wrote # "unwanted" /\ q.scope = session.scope
  BY <1>2, <1>3 DEF LspCallRows
<1> QED
  BY <1>1, <1>2, <1>4, LaunchKeeps DEF Execute, ScopeOpen
LEMMA NextRouteKeeps ==
  ASSUME LspInv, NEW c \in LspCalls, NextRoute(c)
  PROVE  LspInv'
<1>1. PICK q : q = [call[c] EXCEPT !.routes = 0]
  OBVIOUS
<1>2. call[c] \in LspCallRows /\ Busy(call[c]) /\ ~call[c].aborted
  BY DEF LspInv, LspTypes, NextRoute, MoreRoutes, Busy
<1>3. call[c].wrote # "unwanted" /\ call[c].scope = session.scope /\ ~session.closing
  BY <1>2 DEF LspInv, CallsFit, CallFits, WorkFits, ScopeFits
<1>4. q \in LspCallRows /\ q.wrote # "unwanted" /\ q.scope = session.scope
  BY <1>1, <1>2, <1>3 DEF LspCallRows
<1> QED
  BY <1>1, <1>3, <1>4, LaunchKeeps DEF NextRoute

-----------------------------------------------------------------------------
(* An aborted call has its client cut off, and works no more. *)
LEMMA AbortedTells ==
  ASSUME NEW r \in LspCallRows, NEW s \in LspClients, NEW n \in LspNews, CallFits(r, s, n), Busy(r)
  PROVE  /\ AbortedCall(r, s) \in LspCallRows /\ Cut(s) \in LspClients /\ CallFits(AbortedCall(r, s), Cut(s), n)
         /\ AbortedCall(r, s).scope = r.scope /\ AbortedCall(r, s).aborted
<1>1. Cut(s) \in LspClients /\ Cut(s).state = s.state /\ Cut(s).process = s.process /\ ~Cut(s).child
  BY CutTells
<1>2. PICK m : m = IF r.at \in {"start", "leaving", "killing"} THEN r ELSE Rejected(r, Cut(s))
  OBVIOUS
<1>3. PICK at : at = IF r.at \in {"initialize", "pull", "wait", "actions", "goodbye"} THEN "terminating" ELSE r.at
  OBVIOUS
<1>4. Moved(m, r, at)
  <2>1. CASE r.at \in {"start", "leaving", "killing"}
    BY <1>2, <1>3, <2>1 DEF Moved
  <2>2. CASE r.at \notin {"start", "leaving", "killing"}
    <3>1. RejectedTo(r, Cut(s)) = at
      BY <1>1, <1>3, <2>2, FarewellTells DEF RejectedTo, CallFits, ServerFits
    <3> QED
      BY <1>1, <1>2, <2>2, <3>1, RejectedTells
  <2> QED
    BY <2>1, <2>2
<1>5. AbortedCall(r, s) = [m EXCEPT !.aborted = TRUE]
  BY <1>2 DEF AbortedCall
<1>6. PICK q : q = [m EXCEPT !.aborted = TRUE]
  OBVIOUS
<1>7. q \in LspCallRows /\ q.at = at /\ q.scope = r.scope /\ q.aborted /\ q.wrote = r.wrote
  BY <1>4, <1>6 DEF Moved, LspCallRows
<1>8. ServerFits(q, Cut(s)) /\ WorkFits(q) /\ NewsFits(q, n)
  BY <1>1, <1>3, <1>7 DEF CallFits, ServerFits, WorkFits, NewsFits
<1> QED
  BY <1>1, <1>5, <1>6, <1>7, <1>8 DEF CallFits
(* Aborting calls that are under way, in a session whose scope stays and lets no call run on. *)
LEMMA AbortAllKeeps ==
  ASSUME LspInv, NEW cs \in SUBSET LspCalls, \A c \in cs : Busy(call[c]), AbortAll(cs), HandlersFit',
         session' \in [generation : Nat, scope : Nat, closing : BOOLEAN], starts' \in SUBSET Nat, stops' \in SUBSET Nat,
         session'.scope = session.scope,
         session'.closing => \A c \in LspCalls \ cs : Busy(call[c]) => call[c].aborted
  PROVE  LspInv'
<1>1. call \in [LspCalls -> LspCallRows] /\ client \in [LspCalls -> LspClients] /\ news \in [LspCalls -> LspNews]
  BY DEF LspInv, LspTypes
<1>2. \A c \in LspCalls : CallFits(call[c], client[c], news[c]) /\ ScopeFits(call[c])
  BY DEF LspInv, CallsFit
<1>3. \A c \in LspCalls : call'[c] = (IF c \in cs THEN AbortedCall(call[c], client[c]) ELSE call[c])
  BY DEF AbortAll
<1>4. \A c \in LspCalls : client'[c] = (IF c \in cs THEN Cut(client[c]) ELSE client[c])
  BY DEF AbortAll
<1>5. news' = news
  BY DEF AbortAll
<1>6. \A c \in LspCalls : /\ call'[c] \in LspCallRows /\ client'[c] \in LspClients /\ CallFits(call'[c], client'[c], news'[c])
                          /\ call'[c].scope = call[c].scope /\ (c \in cs => call'[c].aborted) /\ (c \notin cs => call'[c] = call[c])
  <2> TAKE c \in LspCalls
  <2>1. CASE c \in cs
    BY <1>1, <1>2, <1>3, <1>4, <1>5, <2>1, AbortedTells
  <2>2. CASE c \notin cs
    BY <1>1, <1>2, <1>3, <1>4, <1>5, <2>2
  <2> QED
    BY <2>1, <2>2
<1>7. call' \in [LspCalls -> LspCallRows] /\ client' \in [LspCalls -> LspClients]
  <2>1. call' = [c \in LspCalls |-> call'[c]] /\ client' = [c \in LspCalls |-> client'[c]]
    BY <1>3, <1>4 DEF AbortAll
  <2> QED
    BY <1>6, <2>1
<1>8. LspTypes'
  BY <1>1, <1>5, <1>7 DEF LspTypes
<1>9. \A c \in LspCalls : Busy(call'[c]) => call'[c].scope = session'.scope /\ (session'.closing => call'[c].aborted)
  <2> TAKE c \in LspCalls
  <2>1. CASE c \in cs
    BY <1>2, <1>6, <2>1 DEF ScopeFits
  <2>2. CASE c \notin cs
    BY <1>2, <1>6, <2>2 DEF ScopeFits
  <2> QED
    BY <2>1, <2>2
<1>10. CallsFit'
  BY <1>6, <1>9 DEF CallsFit, ScopeFits
<1> QED
  BY <1>8, <1>10 DEF LspInv
(* What runs is what the scope holds. *)
LEMMA BusyOperates ==
  ASSUME LspInv, NEW c \in LspCalls
  PROVE  (Operating(c) <=> Busy(call[c])) /\ (Busy(call[c]) <=> c \in Operations)
<1>1. Operating(c) <=> Busy(call[c])
  BY DEF Operating, MoreRoutes, Busy
<1>2. Busy(call[c]) => call[c].scope = session.scope
  BY DEF LspInv, CallsFit, ScopeFits
<1> QED
  BY <1>1, <1>2 DEF Operations
LEMMA CallerAbortsKeeps ==
  ASSUME LspInv, NEW c \in LspCalls, CallerAborts(c)
  PROVE  LspInv'
<1>1. Busy(call[c]) /\ AbortAll({c}) /\ session' = session /\ starts' = starts /\ stops' = stops
  BY BusyOperates DEF CallerAborts
<1>2. \A d \in LspCalls \ {c} : Busy(call[d]) => session.scope = call[d].scope /\ (session.closing => call[d].aborted)
  BY DEF LspInv, CallsFit, ScopeFits
<1>3. session' \in [generation : Nat, scope : Nat, closing : BOOLEAN] /\ starts' \in SUBSET Nat /\ stops' \in SUBSET Nat
  BY <1>1 DEF LspInv, LspTypes
<1>4. HandlersFit'
  <2>1. ASSUME session.closing, starts = {}, stops = {}
        PROVE  \A d \in LspCalls : ~Busy(call'[d])
    BY <1>1, <2>1 DEF LspInv, HandlersFit
  <2> QED
    BY <1>1, <2>1 DEF LspInv, HandlersFit
<1> QED
  BY <1>1, <1>2, <1>3, <1>4, AbortAllKeeps
(* The scope closes: what runs is aborted, unless it was already. *)
LEMMA CloseKeeps ==
  ASSUME LspInv, CloseScope(session.generation + 1), HandlersFit', starts' \in SUBSET Nat, stops' \in SUBSET Nat
  PROVE  LspInv'
<1>1. PICK cs : cs = IF session.closing THEN {} ELSE {c \in Operations : ~call[c].aborted}
  OBVIOUS
<1>2. cs \in SUBSET LspCalls /\ \A c \in cs : Busy(call[c])
  BY <1>1, BusyOperates DEF Operations
<1>3. AbortAll(cs)
  BY <1>1 DEF CloseScope
<1>4. session \in [generation : Nat, scope : Nat, closing : BOOLEAN]
  BY DEF LspInv, LspTypes
<1>5. session' \in [generation : Nat, scope : Nat, closing : BOOLEAN] /\ session'.scope = session.scope
  <2>1. PICK g \in Nat : g = session.generation + 1
    BY <1>4
  <2>2. session' = [session EXCEPT !.generation = g, !.closing = TRUE]
    BY <2>1 DEF CloseScope
  <2> QED
    BY <1>4, <2>2
<1>6. \A c \in LspCalls \ cs : Busy(call[c]) => call[c].aborted
  <2>1. CASE session.closing
    BY <2>1 DEF LspInv, CallsFit, ScopeFits
  <2>2. CASE ~session.closing
    BY <1>1, <2>2, BusyOperates
  <2> QED
    BY <2>1, <2>2
<1> QED
  BY <1>2, <1>3, <1>5, <1>6, AbortAllKeeps
LEMMA EventCounts ==
  ASSUME LspInv, CloseScope(session.generation + 1)
  PROVE  /\ session.generation \in Nat /\ session'.generation = session.generation + 1 /\ session'.closing
         /\ starts \subseteq 1..session.generation /\ stops \subseteq 1..session.generation /\ starts \intersect stops = {}
  BY DEF LspInv, LspTypes, HandlersFit, CloseScope
LEMMA SessionStartKeeps ==
  ASSUME LspInv, SessionStart
  PROVE  LspInv'
<1>1. CloseScope(session.generation + 1) /\ starts' = starts \cup {session.generation + 1} /\ stops' = stops
  BY DEF SessionStart
<1>2. PICK g \in Nat : g = session.generation
  BY <1>1, EventCounts
<1>3. starts \subseteq 1..g /\ stops \subseteq 1..g /\ starts \intersect stops = {} /\ session'.generation = g + 1 /\ session'.closing
  BY <1>1, <1>2, EventCounts
<1>4. starts' \subseteq 1..(g + 1) /\ stops' \subseteq 1..(g + 1) /\ starts' \intersect stops' = {} /\ starts' # {} /\ starts' \in SUBSET Nat /\ stops' \in SUBSET Nat
  <2>1. PICK h \in Nat : h = g + 1
    OBVIOUS
  <2>2. h \in 1..h /\ h \notin 1..g /\ \A x \in 1..g : x \in 1..h
    BY <2>1
  <2>3. starts' = starts \cup {h} /\ stops' = stops
    BY <1>1, <1>2, <2>1
  <2>4. starts' \subseteq 1..h /\ stops' \subseteq 1..h /\ starts' \intersect stops' = {} /\ starts' # {}
    BY <1>3, <2>2, <2>3
  <2>5. \A x \in 1..h : x \in Nat
    OBVIOUS
  <2> QED
    BY <2>1, <2>4, <2>5
<1>5. HandlersFit'
  BY <1>3, <1>4 DEF HandlersFit
<1> QED
  BY <1>1, <1>4, <1>5, CloseKeeps
LEMMA SessionShutdownKeeps ==
  ASSUME LspInv, SessionShutdown
  PROVE  LspInv'
<1>1. CloseScope(session.generation + 1) /\ stops' = stops \cup {session.generation + 1} /\ starts' = starts
  BY DEF SessionShutdown
<1>2. PICK g \in Nat : g = session.generation
  BY <1>1, EventCounts
<1>3. starts \subseteq 1..g /\ stops \subseteq 1..g /\ starts \intersect stops = {} /\ session'.generation = g + 1 /\ session'.closing
  BY <1>1, <1>2, EventCounts
<1>4. starts' \subseteq 1..(g + 1) /\ stops' \subseteq 1..(g + 1) /\ starts' \intersect stops' = {} /\ stops' # {} /\ starts' \in SUBSET Nat /\ stops' \in SUBSET Nat
  <2>1. PICK h \in Nat : h = g + 1
    OBVIOUS
  <2>2. h \in 1..h /\ h \notin 1..g /\ \A x \in 1..g : x \in 1..h
    BY <2>1
  <2>3. stops' = stops \cup {h} /\ starts' = starts
    BY <1>1, <1>2, <2>1
  <2>4. starts' \subseteq 1..h /\ stops' \subseteq 1..h /\ starts' \intersect stops' = {} /\ stops' # {}
    BY <1>3, <2>2, <2>3
  <2>5. \A x \in 1..h : x \in Nat
    OBVIOUS
  <2> QED
    BY <2>1, <2>4, <2>5
<1>5. HandlersFit'
  BY <1>3, <1>4 DEF HandlersFit
<1> QED
  BY <1>1, <1>4, <1>5, CloseKeeps
(* A scope that has drained has no call under way. *)
LEMMA DrainedKeeps ==
  ASSUME LspInv, Drained, session' \in [generation : Nat, scope : Nat, closing : BOOLEAN], starts' \subseteq starts, stops' \subseteq stops,
         session'.generation = session.generation, session'.generation \in stops' => session'.closing, UNCHANGED <<call, client, news>>
  PROVE  LspInv'
<1>1. \A c \in LspCalls : ~Busy(call[c])
  BY BusyOperates DEF Drained
<1>2. LspTypes'
  BY DEF LspInv, LspTypes
<1>3. CallsFit'
  <2>1. \A c \in LspCalls : CallFits(call[c], client[c], news[c])
    BY DEF LspInv, CallsFit
  <2>2. call' = call /\ client' = client /\ news' = news
    OBVIOUS
  <2> QED
    BY <1>1, <2>1, <2>2 DEF CallsFit, ScopeFits
<1>4. HandlersFit'
  <2>1. call' = call /\ starts \subseteq 1..session.generation /\ stops \subseteq 1..session.generation /\ starts \intersect stops = {}
    BY DEF LspInv, HandlersFit
  <2>2. starts' \subseteq 1..session'.generation /\ stops' \subseteq 1..session'.generation /\ starts' \intersect stops' = {}
    BY <2>1
  <2> QED
    BY <1>1, <2>1, <2>2 DEF HandlersFit
<1> QED
  BY <1>2, <1>3, <1>4 DEF LspInv
LEMMA ReopenKeeps ==
  ASSUME LspInv, NEW g \in 1..MaxEvents, Reopen(g)
  PROVE  LspInv'
<1>1. /\ session \in [generation : Nat, scope : Nat, closing : BOOLEAN] /\ g \in starts /\ starts \in SUBSET Nat /\ starts \intersect stops = {}
      /\ session.generation \in stops => session.closing
  BY DEF LspInv, LspTypes, HandlersFit, Reopen
<1>2. starts' \subseteq starts /\ stops' = stops /\ Drained /\ call' = call /\ client' = client /\ news' = news
  BY DEF Reopen
<1>3. /\ session' \in [generation : Nat, scope : Nat, closing : BOOLEAN] /\ session'.generation = session.generation
      /\ session'.closing = session.closing \/ g = session.generation
  <2>1. CASE g = session.generation
    BY <1>1, <2>1 DEF Reopen, Newest
  <2>2. CASE g # session.generation
    BY <1>1, <2>2 DEF Reopen, Newest
  <2> QED
    BY <2>1, <2>2
<1> QED
  BY <1>1, <1>2, <1>3, DrainedKeeps
LEMMA ShutDownKeeps ==
  ASSUME LspInv, NEW g \in 1..MaxEvents, ShutDown(g)
  PROVE  LspInv'
<1>1. session \in [generation : Nat, scope : Nat, closing : BOOLEAN] /\ (session.generation \in stops => session.closing)
  BY DEF LspInv, LspTypes, HandlersFit
<1>2. stops' \subseteq stops /\ starts' = starts /\ Drained /\ session' = session /\ call' = call /\ client' = client /\ news' = news
  BY DEF ShutDown
<1> QED
  BY <1>1, <1>2, DrainedKeeps

-----------------------------------------------------------------------------
LEMMA LspStarts ==
  ASSUME LspInit
  PROVE  LspInv
<1>1. /\ session = [generation |-> 0, scope |-> 0, closing |-> FALSE] /\ starts = {} /\ stops = {}
      /\ call = [c \in LspCalls |-> [at |-> "none", scope |-> 0, fix |-> FALSE, aborted |-> FALSE, failed |-> FALSE, routes |-> 0, wrote |-> "no"]]
      /\ client = [c \in LspCalls |-> NoServer] /\ news = [c \in LspCalls |-> NoNews]
  BY DEF LspInit
<1>2. LspTypes
  BY <1>1, LspSets DEF LspTypes, LspCallRows, LspPlaces
<1>3. CallsFit
  <2> SUFFICES ASSUME NEW c \in LspCalls PROVE CallFits(call[c], client[c], news[c]) /\ ScopeFits(call[c])
    BY DEF CallsFit
  <2>1. call[c].at = "none" /\ call[c].aborted = FALSE /\ call[c].wrote = "no" /\ client[c] = NoServer /\ news[c] = NoNews
    BY <1>1
  <2> QED
    BY <2>1, LspSets DEF CallFits, ServerFits, WorkFits, NewsFits, ScopeFits, Busy
<1>4. HandlersFit
  BY <1>1 DEF HandlersFit, Busy
<1> QED
  BY <1>2, <1>3, <1>4 DEF LspInv
LEMMA LspStepKeeps ==
  ASSUME LspInv, NEW c \in LspCalls, LspStep(c)
  PROVE  LspInv'
  BY ExecuteKeeps, SpawnEndsKeeps, ServerExitsKeeps, RequestFailsKeeps, ClientFailsKeeps, GraceEndsKeeps, KillGraceEndsKeeps,
     InitializedKeeps, PublishedMoreKeeps, PulledKeeps, SettledKeeps, WaitEndsKeeps, FixedKeeps, GoodbyeKeeps, NextRouteKeeps,
     CallerAbortsKeeps DEF LspStep
LEMMA LspKeeps ==
  ASSUME LspInv, [LspNext]_lspVars
  PROVE  LspInv'
<1>1. CASE LspNext
  BY <1>1, LspStepKeeps, SessionStartKeeps, SessionShutdownKeeps, ReopenKeeps, ShutDownKeeps DEF LspNext
<1>2. CASE UNCHANGED lspVars
  BY <1>2 DEF lspVars, LspInv, LspTypes, CallsFit, HandlersFit, ScopeFits
<1> QED
  BY <1>1, <1>2
(* What fits leaves nothing behind. *)
LEMMA FitLeavesNothing ==
  ASSUME LspInv
  PROVE  NothingLeftBehind
<1>1. \A c \in LspCalls : CallFits(call[c], client[c], news[c]) /\ ScopeFits(call[c]) /\ (Operating(c) <=> Busy(call[c]))
  BY BusyOperates DEF LspInv, CallsFit
<1>2. ServersOwned
  BY <1>1 DEF ServersOwned, Alive, CallFits, ServerFits, Busy
<1>3. ScopesApart
  <2>1. session.closing /\ starts \cup stops = {} => starts = {} /\ stops = {}
    OBVIOUS
  <2>2. session.closing /\ starts \cup stops = {} => Operations = {}
    BY <2>1, BusyOperates DEF LspInv, HandlersFit, Operations
  <2> QED
    BY <1>1, <2>2 DEF ScopesApart, ScopeFits
<1>4. StaysShut
  BY DEF StaysShut, LspInv, HandlersFit
<1>5. WritesWanted /\ NewsHeard
  BY <1>1 DEF WritesWanted, NewsHeard, CallFits, WorkFits, NewsFits
<1> QED
  BY <1>2, <1>3, <1>4, <1>5 DEF NothingLeftBehind

(* The `lsp` tool leaves no process, no call, no write and no diagnostics behind (the finally
   of runner.ts:143, LspClient.shutdown, the scope of session-lifecycle.ts), for any number of
   calls, of session events and of publications. *)
THEOREM ServersAreOwned == LspSpec => []NothingLeftBehind
<1>1. LspInit => LspInv
  BY LspStarts
<1>2. LspInv /\ [LspNext]_lspVars => LspInv'
  BY LspKeeps
<1>3. LspInv => NothingLeftBehind
  BY FitLeavesNothing
<1> QED
  BY <1>1, <1>2, <1>3, PTL DEF LspSpec

-----------------------------------------------------------------------------
(* Curator.  The review of search results: each is held, answered once and ended. *)
CurationRows ==
  [host : {"tool", "command"}, at : {"none", "begun", "running", "returned"}, held : BOOLEAN, wanted : BOOLEAN,
   answer : {"none", "submit", "user", "timeout", "stale"}, answers : Nat, opening : {"none", "server", "window", "done"}, window : BOOLEAN,
   searching : Nat, adding : SUBSET Nat]
ReviewStates == {"off", "SEARCHING", "RESULT_SELECTION", "COMPLETED"}
ReviewRows ==
  [state : ReviewStates, listening : BOOLEAN, connected : BOOLEAN, idle : BOOLEAN, owes : {"none", "submit", "user", "timeout", "stale"},
   selected : SUBSET Nat, next : Nat, events : SUBSET Nat]
PageRows == [open : BOOLEAN, shown : SUBSET Nat, sent : BOOLEAN]
FoundRows == [index : Nat, of : {"initial", "added"}]
CuratorTypes ==
  /\ curation \in CurationRows /\ server \in ReviewRows /\ page \in PageRows /\ results \in SUBSET FoundRows
  /\ curation.searching <= InitialQueries
(* A curation is held from its bootstrap to its one answer; what is not held has nothing open. *)
HeldOnce(c) ==
  /\ c.answers <= 1
  /\ c.held => c.at \in {"running", "returned"} /\ c.answers = 0
  /\ c.at \in {"none", "begun"} => c.answers = 0 /\ c.opening = "none"
  /\ c.host = "tool" /\ c.at \notin {"none", "begun"} /\ ~c.held => c.answers = 1
  /\ ~c.held => ~c.window
(* The server of a held curation: it is there once opening ended, and owes its ending once completed. *)
ReviewFits(c, s) ==
  /\ ~c.held => ~s.listening
  /\ c.opening \in {"none", "server"} => s = NoServerYet
  /\ c.held /\ c.opening \in {"window", "done"} => s.state # "off"
  /\ c.held /\ s.state = "COMPLETED" => s.owes # "none"
  /\ c.held /\ c.at # "running" => (s.state \in {"SEARCHING", "RESULT_SELECTION"} /\ Watched(s)) \/ s.owes # "none"
(* Until a server is there nothing is shown and nothing added. *)
PageFits(c, p, found) ==
  c.opening \in {"none", "server"} => ~p.open /\ p.shown = {} /\ c.adding = {} /\ \A r \in found : r.of = "initial"
(* The initial answers lie below the capacity, the added ones from there to the next index. *)
IndicesFit(c, s, p, found) ==
  /\ \A r \in found : r.of = "initial" <=> r.index < ResultCapacity
  /\ \A i \in c.adding : ResultCapacity <= i /\ i < s.next
  /\ s.state # "off" => ResultCapacity <= s.next
  /\ \A i \in s.events : i < ResultCapacity
  /\ \A i \in p.shown : i < s.next
  /\ c.held => \A i \in p.shown \cup s.selected \cup s.events : \E r \in found : r.index = i
CuratorInv ==
  CuratorTypes /\ HeldOnce(curation) /\ ReviewFits(curation, server) /\ PageFits(curation, page, results) /\ IndicesFit(curation, server, page, results)
-----------------------------------------------------------------------------

LEMMA ProductFits ==
  ASSUME NEW q \in Nat, NEW p \in Nat \ {0}, NEW e \in 0..p - 1, NEW k \in 0..q - 1
  PROVE  e * q + k \in Nat /\ e * q + k < q * p
<1>1. PICK d \in Nat : p = e + 1 + d
  <2>1. p - e - 1 \in Nat /\ p = e + 1 + (p - e - 1)
    OBVIOUS
  <2> QED
    BY <2>1
<1>2. q * p = q * e + q + q * d
  BY <1>1
<1>3. q * d \in Nat /\ q * e \in Nat /\ e * q = q * e
  BY <1>1
<1> QED
  BY <1>2, <1>3
LEMMA CuratorSets ==
  /\ InitialQueries \in Nat /\ Providers \in Nat \ {0} /\ ResultCapacity \in Nat /\ Endings = {"submit", "user", "timeout", "stale"}
  /\ NoServerYet \in ReviewRows /\ NoServerYet.state = "off" /\ NoServerYet.listening = FALSE /\ NoServerYet.owes = "none"
  /\ NoServerYet.selected = {} /\ NoServerYet.events = {} /\ NoServerYet.next = 0
  /\ StartedServer \in ReviewRows /\ StartedServer.state = "SEARCHING" /\ StartedServer.listening = TRUE /\ StartedServer.owes = "none"
  /\ StartedServer.selected = {} /\ StartedServer.events = {} /\ StartedServer.next = ResultCapacity
<1>1. InitialQueries \in Nat /\ Providers \in Nat \ {0} /\ ResultCapacity \in Nat
  BY CuratorBounds DEF ResultCapacity
<1>2. NoServerYet \in ReviewRows
  BY DEF NoServerYet, ReviewRows, ReviewStates
<1>3. StartedServer \in ReviewRows
  BY <1>1, <1>2 DEF StartedServer, ReviewRows, ReviewStates
<1> QED
  BY <1>1, <1>2, <1>3 DEF NoServerYet, StartedServer, Endings
LEMMA IndexTells ==
  ASSUME NEW query \in 0..InitialQueries - 1, NEW entry \in 0..Providers - 1
  PROVE  ResultIndex(query, entry) \in Nat /\ ResultIndex(query, entry) < ResultCapacity
  BY CuratorSets, ProductFits DEF ResultIndex, ResultCapacity
(* A server is marked completed, or closed, and keeps what it holds. *)
Holds(t, s) == t.selected = s.selected /\ t.next = s.next /\ t.events = s.events
LEMMA MarkTells ==
  ASSUME NEW s \in ReviewRows, NEW e \in {"submit", "user", "timeout", "stale"}
  PROVE  /\ MarkCompleted(s, e) \in ReviewRows /\ MarkCompleted(s, e).state = "COMPLETED" /\ MarkCompleted(s, e).owes = e
         /\ MarkCompleted(s, e).listening = s.listening /\ Holds(MarkCompleted(s, e), s)
  BY DEF MarkCompleted, ReviewRows, ReviewStates, Holds
LEMMA CloseTells ==
  ASSUME NEW s \in ReviewRows
  PROVE  /\ CloseServer(s) \in ReviewRows /\ CloseServer(s).listening = FALSE /\ Holds(CloseServer(s), s)
         /\ CloseServer(s).state = "off" <=> s.state = "off"
         /\ s = NoServerYet => CloseServer(s) = NoServerYet
<1>1. PICK m : m = IF s.state \in {"SEARCHING", "RESULT_SELECTION"} THEN MarkCompleted(s, "stale") ELSE s
  OBVIOUS
<1>2. m \in ReviewRows /\ Holds(m, s) /\ (m.state = "off" <=> s.state = "off") /\ (s.state = "off" => m = s)
  BY <1>1, MarkTells DEF Holds
<1>3. CloseServer(s) = [m EXCEPT !.listening = FALSE]
  BY <1>1 DEF CloseServer
<1>4. PICK t : t = [m EXCEPT !.listening = FALSE]
  OBVIOUS
<1>5. t \in ReviewRows /\ t.listening = FALSE /\ Holds(t, m) /\ t.state = m.state
  BY <1>2, <1>4 DEF ReviewRows, Holds
<1>6. s = NoServerYet => t = NoServerYet
  <2>1. s = NoServerYet => m = NoServerYet
    BY <1>2, CuratorSets
  <2>2. [NoServerYet EXCEPT !.listening = FALSE] = NoServerYet
    <3>1. \A q \in ReviewRows : q.listening = FALSE => [q EXCEPT !.listening = FALSE] = q
      BY DEF ReviewRows
    <3> QED
      BY <3>1, CuratorSets
  <2> QED
    BY <1>4, <2>1, <2>2
<1> QED
  BY <1>2, <1>3, <1>4, <1>5, <1>6 DEF Holds
(* Answers that have their index below the capacity never move the next one. *)
LEMMA PushTells ==
  ASSUME NEW s \in ReviewRows, NEW I \in SUBSET Nat, \A i \in I : i < ResultCapacity, s.state # "off" => ResultCapacity <= s.next
  PROVE  /\ Push(s, I) \in ReviewRows /\ Push(s, I).selected = s.selected /\ Push(s, I).next = s.next /\ Push(s, I).owes = s.owes
         /\ Push(s, I).state = s.state /\ Push(s, I).listening = s.listening /\ Push(s, I).connected = s.connected
         /\ s.state \in {"SEARCHING", "RESULT_SELECTION"} => Push(s, I).events = s.events \cup I
         /\ s.state \notin {"SEARCHING", "RESULT_SELECTION"} => Push(s, I) = s
<1>1. CASE s.state \in {"SEARCHING", "RESULT_SELECTION"}
  <2>1. PICK S : S = {s.next} \cup {i + 1 : i \in I}
    OBVIOUS
  <2>2. s.next \in Nat /\ ResultCapacity <= s.next /\ ResultCapacity \in Nat
    BY <1>1, CuratorSets DEF ReviewRows
  <2>3. \A i \in I : i \in Nat /\ i + 1 <= s.next
    BY <2>2
  <2>4. s.next \in S /\ \A y \in S : y \in Nat /\ s.next >= y
    BY <2>1, <2>2, <2>3
  <2>5. \A x \in S : (\A y \in S : x >= y) => x = s.next
    BY <2>2, <2>4
  <2>6. Max(S) = s.next
    BY <2>4, <2>5 DEF Max
  <2>7. Push(s, I) = [s EXCEPT !.events = s.events \cup I, !.next = s.next]
    BY <1>1, <2>1, <2>6 DEF Push
  <2> QED
    BY <1>1, <2>2, <2>7 DEF ReviewRows
<1>2. CASE s.state \notin {"SEARCHING", "RESULT_SELECTION"}
  BY <1>2 DEF Push
<1> QED
  BY <1>1, <1>2
(* A curation that ends is answered and held no more; one that ended stays as it is. *)
SamePlace(d, c) == d.host = c.host /\ d.at = c.at /\ d.opening = c.opening /\ d.adding = c.adding /\ d.wanted = c.wanted /\ d.searching = c.searching
LEMMA RepliedTells ==
  ASSUME NEW c \in CurationRows, NEW e \in {"submit", "user", "timeout", "stale"}
  PROVE  /\ Replied(c, e) \in CurationRows /\ SamePlace(Replied(c, e), c) /\ Replied(c, e).held = c.held /\ Replied(c, e).window = c.window
         /\ Replied(c, e).answers = c.answers + 1 \/ (c.host = "command" /\ Replied(c, e).answers = c.answers)
<1>1. c.answers + 1 \in Nat
  BY DEF CurationRows
<1> QED
  BY <1>1 DEF Replied, CurationRows, SamePlace
LEMMA EndedTells ==
  ASSUME NEW c \in CurationRows, NEW e \in {"submit", "user", "timeout", "stale"}, HeldOnce(c)
  PROVE  /\ Ended(c, e) \in CurationRows /\ SamePlace(Ended(c, e), c) /\ HeldOnce(Ended(c, e)) /\ ~Ended(c, e).held
         /\ Ended(c, e).window = FALSE /\ (~c.held => Ended(c, e) = c)
<1>1. CASE c.held
  <2>1. PICK m : m = Replied(c, e)
    OBVIOUS
  <2>2. /\ m \in CurationRows /\ SamePlace(m, c)
        /\ m.answers = c.answers + 1 \/ (c.host = "command" /\ m.answers = c.answers)
    BY <2>1, RepliedTells
  <2>3. Ended(c, e) = [m EXCEPT !.held = FALSE, !.window = FALSE]
    BY <1>1, <2>1 DEF Ended, Dropped
  <2>4. /\ Ended(c, e) \in CurationRows /\ SamePlace(Ended(c, e), c) /\ Ended(c, e).answers = m.answers
        /\ Ended(c, e).held = FALSE /\ Ended(c, e).window = FALSE
    <3>1. PICK n : n = [m EXCEPT !.held = FALSE, !.window = FALSE]
      OBVIOUS
    <3>2. /\ n \in CurationRows /\ n.answers = m.answers /\ n.held = FALSE /\ n.window = FALSE
          /\ n.host = m.host /\ n.at = m.at /\ n.opening = m.opening /\ n.adding = m.adding
          /\ n.wanted = m.wanted /\ n.searching = m.searching
      BY <2>2, <3>1 DEF CurationRows
    <3>3. SamePlace(n, c)
      BY <2>2, <3>2 DEF SamePlace
    <3> QED
      BY <2>3, <3>1, <3>2, <3>3
  <2>5. HeldOnce(Ended(c, e))
    BY <1>1, <2>2, <2>4 DEF HeldOnce, SamePlace
  <2> QED
    BY <1>1, <2>4, <2>5
<1>2. CASE ~c.held
  BY <1>2 DEF Ended, SamePlace, HeldOnce, CurationRows
<1> QED
  BY <1>1, <1>2

-----------------------------------------------------------------------------
(* A curation begins. *)
LEMMA CurationBeginsKeeps ==
  ASSUME CuratorInv, CurationBegins
  PROVE  CuratorInv'
<1>1. /\ curation \in CurationRows /\ server \in ReviewRows /\ page \in PageRows /\ results \in SUBSET FoundRows
      /\ InitialQueries \in Nat /\ ResultCapacity \in Nat /\ server.next \in Nat /\ NoServerYet.state = "off"
  BY CuratorSets DEF CuratorInv, CuratorTypes, ReviewRows
<1>2. curation' \in CurationRows /\ curation.at = "none" /\ curation'.at = "begun" /\ curation'.held = curation.held /\ curation'.wanted = curation.wanted /\ curation'.answers = curation.answers /\ curation'.opening = curation.opening /\ curation'.window = curation.window /\ curation'.searching = curation.searching /\ curation'.adding = curation.adding
  BY <1>1, ZenonT(60) DEF CurationBegins, CurationRows
<1>3. UNCHANGED <<server, page, results>>
  BY DEF CurationBegins
<1>4. CuratorTypes'
  BY <1>1, <1>2, <1>3 DEF CuratorInv, CuratorTypes
<1>5. HeldOnce(curation)'
  BY <1>1, <1>2, <1>3 DEF CuratorInv, HeldOnce
<1>6. ReviewFits(curation, server)'
  BY <1>1, <1>2, <1>3 DEF CuratorInv, ReviewFits
<1>7. PageFits(curation, page, results)'
  BY <1>1, <1>2, <1>3 DEF CuratorInv, PageFits
<1>8. IndicesFit(curation, server, page, results)'
  BY <1>1, <1>2, <1>3 DEF CuratorInv, IndicesFit
<1> QED
  BY <1>4, <1>5, <1>6, <1>7, <1>8 DEF CuratorInv

(* It is held, or answered as stale at once. *)
LEMMA BootstrappedKeeps ==
  ASSUME CuratorInv, Bootstrapped
  PROVE  CuratorInv'
<1>1. /\ curation \in CurationRows /\ server \in ReviewRows /\ page \in PageRows /\ results \in SUBSET FoundRows
      /\ InitialQueries \in Nat /\ ResultCapacity \in Nat /\ server.next \in Nat /\ NoServerYet.state = "off"
  BY CuratorSets DEF CuratorInv, CuratorTypes, ReviewRows
<1>2. curation.at = "begun" /\ ~curation.held /\ ~curation.window /\ curation.answers = 0 /\ curation.opening = "none" /\ server = NoServerYet
  BY DEF Bootstrapped, CuratorInv, HeldOnce, ReviewFits
<1>3. /\ curation' \in CurationRows /\ curation'.host = curation.host /\ curation'.adding = curation.adding /\ curation'.searching = curation.searching /\ ~curation'.window
      /\ \/ curation'.at = "running" /\ curation'.held /\ curation'.opening = "server" /\ curation'.answers = 0
         \/ /\ curation'.at = "returned" /\ ~curation'.held /\ curation'.opening = "none"
            /\ curation'.answers = 1 \/ (curation.host = "command" /\ curation'.answers = 0)
  <2>1. CASE curation.wanted
    <3>1. curation' = [curation EXCEPT !.at = "running", !.held = TRUE, !.opening = "server"]
      BY <2>1 DEF Bootstrapped
    <3> QED
      BY <1>1, <1>2, <3>1 DEF CurationRows
  <2>2. CASE ~curation.wanted
    <3>1. PICK m : m = Replied(curation, "stale")
      OBVIOUS
    <3>2. /\ m \in CurationRows /\ SamePlace(m, curation) /\ m.held = curation.held /\ m.window = curation.window
          /\ m.answers = curation.answers + 1 \/ (curation.host = "command" /\ m.answers = curation.answers)
      BY <1>1, <3>1, RepliedTells
    <3>3. curation' = [m EXCEPT !.at = "returned"]
      BY <2>2, <3>1 DEF Bootstrapped
    <3> QED
      BY <1>2, <3>2, <3>3 DEF CurationRows, SamePlace
  <2> QED
    BY <2>1, <2>2
<1>4. UNCHANGED <<server, page, results>>
  BY DEF Bootstrapped
<1>5. server.events = {} /\ server.selected = {} /\ page.shown = {} /\ server.listening = FALSE
  BY <1>2, CuratorSets DEF CuratorInv, PageFits
<1>6. CuratorTypes'
  BY <1>1, <1>2, <1>3, <1>4, <1>5 DEF CuratorInv, CuratorTypes
<1>7. HeldOnce(curation)'
  BY <1>1, <1>2, <1>3, <1>4, <1>5 DEF CuratorInv, HeldOnce
<1>8. ReviewFits(curation, server)'
  BY <1>1, <1>2, <1>3, <1>4, <1>5 DEF CuratorInv, ReviewFits
<1>9. PageFits(curation, page, results)'
  BY <1>1, <1>2, <1>3, <1>4, <1>5 DEF CuratorInv, PageFits
<1>10. IndicesFit(curation, server, page, results)'
  BY <1>1, <1>2, <1>3, <1>4, <1>5 DEF CuratorInv, IndicesFit
<1> QED
  BY <1>6, <1>7, <1>8, <1>9, <1>10 DEF CuratorInv

(* The server is there for a curation that is held, and is told what was found. *)
LEMMA StartsHeldKeeps ==
  ASSUME CuratorInv, curation.opening = "server", curation.held, server' = Push(StartedServer, Found), NEW opening \in {"window", "done"},
         curation' = [curation EXCEPT !.opening = opening], UNCHANGED <<page, results>>
  PROVE  CuratorInv'
<1>1. /\ curation \in CurationRows /\ server \in ReviewRows /\ page \in PageRows /\ results \in SUBSET FoundRows
      /\ InitialQueries \in Nat /\ ResultCapacity \in Nat /\ server.next \in Nat /\ NoServerYet.state = "off"
  BY CuratorSets DEF CuratorInv, CuratorTypes, ReviewRows
<1>2. /\ server = NoServerYet /\ ~page.open /\ page.shown = {} /\ curation.adding = {} /\ server.listening = FALSE /\ server.events = {} /\ server.owes = "none" /\ server.state = "off"
      /\ \A r \in results : r.of = "initial" /\ r.index \in Nat /\ r.index < ResultCapacity
  BY <1>1, CuratorSets DEF CuratorInv, ReviewFits, PageFits, IndicesFit, FoundRows
<1>3. Found \in SUBSET Nat /\ \A i \in Found : i < ResultCapacity /\ \E r \in results : r.index = i
  BY <1>2 DEF Found
<1>4. /\ server' \in ReviewRows /\ server'.state = "SEARCHING" /\ server'.selected = {} /\ server'.next = ResultCapacity /\ server'.events = Found
      /\ server'.owes = "none"
  <2>1. ResultCapacity <= StartedServer.next
    BY CuratorSets
  <2>2. Push(StartedServer, Found) \in ReviewRows /\ Push(StartedServer, Found).events = StartedServer.events \cup Found /\ Push(StartedServer, Found).next = ResultCapacity
    BY <1>3, <2>1, CuratorSets, PushTells, ZenonT(60)
  <2>3. Push(StartedServer, Found).state = "SEARCHING" /\ Push(StartedServer, Found).selected = {} /\ Push(StartedServer, Found).owes = "none"
    BY <1>3, <2>1, CuratorSets, PushTells
  <2> QED
    BY <2>2, <2>3, CuratorSets
<1>5. curation' \in CurationRows /\ curation'.opening \in {"window", "done"} /\ curation'.host = curation.host /\ curation'.at = curation.at /\ curation'.held = curation.held /\ curation'.wanted = curation.wanted /\ curation'.answers = curation.answers /\ curation'.window = curation.window /\ curation'.searching = curation.searching /\ curation'.adding = curation.adding
  BY <1>1 DEF CurationRows
<1>6. curation.at = "running"
  BY <1>2, <1>1 DEF CuratorInv, HeldOnce, ReviewFits
<1>7. UNCHANGED <<page, results>>
  OBVIOUS
<1>8. CuratorTypes'
  BY <1>1, <1>2, <1>3, <1>4, <1>5, <1>6, <1>7 DEF CuratorInv, CuratorTypes
<1>9. HeldOnce(curation)'
  BY <1>1, <1>2, <1>3, <1>4, <1>5, <1>6, <1>7 DEF CuratorInv, HeldOnce
<1>10. ReviewFits(curation, server)'
  BY <1>1, <1>2, <1>3, <1>4, <1>5, <1>6, <1>7 DEF CuratorInv, ReviewFits
<1>11. PageFits(curation, page, results)'
  BY <1>1, <1>2, <1>3, <1>4, <1>5, <1>6, <1>7 DEF CuratorInv, PageFits
<1>12. IndicesFit(curation, server, page, results)'
  BY <1>1, <1>2, <1>3, <1>4, <1>5, <1>6, <1>7 DEF CuratorInv, IndicesFit
<1> QED
  BY <1>8, <1>9, <1>10, <1>11, <1>12 DEF CuratorInv

(* The server is there for a curation that ended, and closes. *)
LEMMA StartsDroppedKeeps ==
  ASSUME CuratorInv, curation.opening = "server", ~curation.held, server' = CloseServer(StartedServer),
         curation' = [curation EXCEPT !.opening = "done"], UNCHANGED <<page, results>>
  PROVE  CuratorInv'
<1>1. /\ curation \in CurationRows /\ server \in ReviewRows /\ page \in PageRows /\ results \in SUBSET FoundRows
      /\ InitialQueries \in Nat /\ ResultCapacity \in Nat /\ server.next \in Nat /\ NoServerYet.state = "off"
  BY CuratorSets DEF CuratorInv, CuratorTypes, ReviewRows
<1>2. /\ server = NoServerYet /\ ~page.open /\ page.shown = {} /\ curation.adding = {} /\ server.listening = FALSE /\ server.events = {} /\ server.owes = "none" /\ server.state = "off"
      /\ \A r \in results : r.of = "initial" /\ r.index \in Nat /\ r.index < ResultCapacity
  BY <1>1, CuratorSets DEF CuratorInv, ReviewFits, PageFits, IndicesFit, FoundRows
<1>3. /\ server' \in ReviewRows /\ server'.state # "off" /\ server'.selected = {} /\ server'.next = ResultCapacity /\ server'.events = {}
      /\ ~server'.listening
  BY CuratorSets, CloseTells DEF Holds
<1>4. curation' \in CurationRows /\ curation'.opening = "done" /\ curation'.host = curation.host /\ curation'.at = curation.at /\ curation'.held = curation.held /\ curation'.wanted = curation.wanted /\ curation'.answers = curation.answers /\ curation'.window = curation.window /\ curation'.searching = curation.searching /\ curation'.adding = curation.adding
  BY <1>1 DEF CurationRows
<1>5. UNCHANGED <<page, results>>
  OBVIOUS
<1>6. CuratorTypes'
  BY <1>1, <1>2, <1>3, <1>4, <1>5 DEF CuratorInv, CuratorTypes
<1>7. HeldOnce(curation)'
  BY <1>1, <1>2, <1>3, <1>4, <1>5 DEF CuratorInv, HeldOnce
<1>8. ReviewFits(curation, server)'
  BY <1>1, <1>2, <1>3, <1>4, <1>5 DEF CuratorInv, ReviewFits
<1>9. PageFits(curation, page, results)'
  BY <1>1, <1>2, <1>3, <1>4, <1>5 DEF CuratorInv, PageFits
<1>10. IndicesFit(curation, server, page, results)'
  BY <1>1, <1>2, <1>3, <1>4, <1>5 DEF CuratorInv, IndicesFit
<1> QED
  BY <1>6, <1>7, <1>8, <1>9, <1>10 DEF CuratorInv

(* The server cannot start. *)
LEMMA StartsNotKeeps ==
  ASSUME CuratorInv, curation.opening = "server", server' = server,
         curation' = [Ended(curation, "stale") EXCEPT !.opening = "done"], UNCHANGED <<page, results>>
  PROVE  CuratorInv'
<1>1. /\ curation \in CurationRows /\ server \in ReviewRows /\ page \in PageRows /\ results \in SUBSET FoundRows
      /\ InitialQueries \in Nat /\ ResultCapacity \in Nat /\ server.next \in Nat /\ NoServerYet.state = "off"
  BY CuratorSets DEF CuratorInv, CuratorTypes, ReviewRows
<1>2. /\ server = NoServerYet /\ ~page.open /\ page.shown = {} /\ curation.adding = {} /\ server.listening = FALSE /\ server.events = {} /\ server.owes = "none" /\ server.state = "off"
      /\ \A r \in results : r.of = "initial" /\ r.index \in Nat /\ r.index < ResultCapacity
  BY <1>1, CuratorSets DEF CuratorInv, ReviewFits, PageFits, IndicesFit, FoundRows
<1>3. PICK m : m = Ended(curation, "stale")
  OBVIOUS
<1>4. m \in CurationRows /\ SamePlace(m, curation) /\ HeldOnce(m) /\ ~m.held
  BY <1>1, <1>3, EndedTells DEF CuratorInv
<1>5. /\ curation' \in CurationRows /\ curation'.opening = "done" /\ curation'.host = m.host /\ curation'.at = m.at /\ ~curation'.held
      /\ curation'.answers = m.answers /\ curation'.window = m.window /\ curation'.adding = {} /\ curation'.searching = curation.searching
  BY <1>2, <1>3, <1>4 DEF CurationRows, SamePlace
<1>6. m.at \notin {"none", "begun"}
  BY <1>4 DEF CuratorInv, HeldOnce, SamePlace
<1>7. UNCHANGED <<page, results>>
  OBVIOUS
<1>8. CuratorTypes'
  BY <1>1, <1>2, <1>3, <1>4, <1>5, <1>6, <1>7 DEF CuratorInv, CuratorTypes
<1>9. HeldOnce(curation)'
  BY <1>1, <1>2, <1>3, <1>4, <1>5, <1>6, <1>7 DEF CuratorInv, HeldOnce
<1>10. ReviewFits(curation, server)'
  BY <1>1, <1>2, <1>3, <1>4, <1>5, <1>6, <1>7 DEF CuratorInv, ReviewFits
<1>11. PageFits(curation, page, results)'
  BY <1>1, <1>2, <1>3, <1>4, <1>5, <1>6, <1>7 DEF CuratorInv, PageFits
<1>12. IndicesFit(curation, server, page, results)'
  BY <1>1, <1>2, <1>3, <1>4, <1>5, <1>6, <1>7 DEF CuratorInv, IndicesFit
<1> QED
  BY <1>8, <1>9, <1>10, <1>11, <1>12 DEF CuratorInv

LEMMA ServerStartsKeeps ==
  ASSUME CuratorInv, ServerStarts
  PROVE  CuratorInv'
  BY StartsHeldKeeps, StartsDroppedKeeps, StartsNotKeeps DEF ServerStarts

(* The window opens for a curation that is held. *)
LEMMA WindowOpensKeeps ==
  ASSUME CuratorInv, WindowOpens
  PROVE  CuratorInv'
<1>1. /\ curation \in CurationRows /\ server \in ReviewRows /\ page \in PageRows /\ results \in SUBSET FoundRows
      /\ InitialQueries \in Nat /\ ResultCapacity \in Nat /\ server.next \in Nat /\ NoServerYet.state = "off"
  BY CuratorSets DEF CuratorInv, CuratorTypes, ReviewRows
<1>2. /\ curation' \in CurationRows /\ curation.opening = "window" /\ curation'.opening = "done" /\ (curation'.window => curation.held)
      /\ curation'.host = curation.host /\ curation'.at = curation.at /\ curation'.held = curation.held /\ curation'.wanted = curation.wanted /\ curation'.answers = curation.answers /\ curation'.searching = curation.searching /\ curation'.adding = curation.adding
  BY <1>1 DEF WindowOpens, WindowWanted, CurationRows
<1>3. UNCHANGED <<server, page, results>>
  BY DEF WindowOpens
<1>4. CuratorTypes'
  BY <1>1, <1>2, <1>3 DEF CuratorInv, CuratorTypes
<1>5. HeldOnce(curation)'
  BY <1>1, <1>2, <1>3 DEF CuratorInv, HeldOnce
<1>6. ReviewFits(curation, server)'
  BY <1>1, <1>2, <1>3 DEF CuratorInv, ReviewFits
<1>7. PageFits(curation, page, results)'
  BY <1>1, <1>2, <1>3 DEF CuratorInv, PageFits
<1>8. IndicesFit(curation, server, page, results)'
  BY <1>1, <1>2, <1>3 DEF CuratorInv, IndicesFit
<1> QED
  BY <1>4, <1>5, <1>6, <1>7, <1>8 DEF CuratorInv

(* A search returns its answers. *)
LEMMA SearchReturnsKeeps ==
  ASSUME CuratorInv, SearchReturns
  PROVE  CuratorInv'
<1>1. /\ curation \in CurationRows /\ server \in ReviewRows /\ page \in PageRows /\ results \in SUBSET FoundRows
      /\ InitialQueries \in Nat /\ ResultCapacity \in Nat /\ server.next \in Nat /\ NoServerYet.state = "off"
  BY CuratorSets DEF CuratorInv, CuratorTypes, ReviewRows
<1>2. /\ curation.at = "running" /\ curation.searching \in 1..InitialQueries /\ curation' \in CurationRows /\ curation'.searching <= InitialQueries
      /\ curation'.host = curation.host /\ curation'.at = curation.at /\ curation'.held = curation.held /\ curation'.wanted = curation.wanted /\ curation'.answers = curation.answers /\ curation'.opening = curation.opening /\ curation'.window = curation.window /\ curation'.adding = curation.adding
  <2>1. PICK k \in Nat : k = curation.searching
    BY <1>1 DEF CurationRows
  <2>2. k > 0 /\ k <= InitialQueries /\ k - 1 \in Nat /\ k - 1 <= InitialQueries
    BY <1>1, <2>1 DEF SearchReturns, CuratorInv, CuratorTypes
  <2>3. curation' = [curation EXCEPT !.searching = k - 1]
    BY <2>1 DEF SearchReturns
  <2> QED
    BY <1>1, <2>1, <2>2, <2>3 DEF SearchReturns, CurationRows
<1>3. PICK n \in 1..Providers : LET found == {ResultIndex(curation.searching - 1, entry) : entry \in 0..n - 1}
                               IN  IF curation.held
                                   THEN /\ results' = results \cup [index : found, of : {"initial"}]
                                        /\ server' = Push(server, found)
                                   ELSE UNCHANGED <<results, server>>
  BY DEF SearchReturns
<1>4. PICK found : found = {ResultIndex(curation.searching - 1, entry) : entry \in 0..n - 1}
  OBVIOUS
<1>5. found \in SUBSET Nat /\ \A i \in found : i < ResultCapacity
  <2>1. curation.searching - 1 \in 0..InitialQueries - 1
    BY <1>1, <1>2
  <2>2. \A entry \in 0..n - 1 : entry \in 0..Providers - 1
    BY CuratorSets
  <2>3. \A entry \in 0..n - 1 : ResultIndex(curation.searching - 1, entry) \in Nat /\ ResultIndex(curation.searching - 1, entry) < ResultCapacity
    BY <2>1, <2>2, IndexTells
  <2> QED
    BY <1>4, <2>3
<1>6. page' = page
  BY DEF SearchReturns
<1>7. /\ results' \in SUBSET FoundRows /\ results \subseteq results'
      /\ \A r \in results' : r \in results \/ (r.of = "initial" /\ r.index \in found)
      /\ curation.held => \A i \in found : \E r \in results' : r.index = i
  <2>1. CASE curation.held
    <3>1. results' = results \cup [index : found, of : {"initial"}]
      BY <1>3, <1>4, <2>1
    <3>2. \A i \in found : [index |-> i, of |-> "initial"] \in results' /\ [index |-> i, of |-> "initial"].index = i
      BY <3>1
    <3>3. \A i \in found : \E r \in results' : r.index = i
      BY <3>2
    <3> QED
      BY <1>1, <1>5, <3>1, <3>3 DEF FoundRows
  <2>2. CASE ~curation.held
    BY <1>1, <1>3, <2>2
  <2> QED
    BY <2>1, <2>2
<1>8. /\ server' \in ReviewRows /\ server'.selected = server.selected /\ server'.next = server.next /\ server'.owes = server.owes
      /\ server'.state = server.state /\ server'.listening = server.listening /\ server'.connected = server.connected
      /\ (server.state = "off" => server' = server) /\ server'.events \subseteq server.events \cup found
      /\ (~curation.held => server' = server)
  <2>1. server.state # "off" => ResultCapacity <= server.next
    BY DEF CuratorInv, IndicesFit
  <2>2. CASE curation.held
    <3>1. server' = Push(server, found)
      BY <1>3, <1>4, <2>2
    <3> QED
      BY <1>1, <1>5, <2>1, <2>2, <3>1, PushTells
  <2>3. CASE ~curation.held
    BY <1>1, <1>3, <2>3
  <2> QED
    BY <2>2, <2>3
<1>9. CuratorTypes'
  BY <1>1, <1>2, <1>3, <1>4, <1>5, <1>6, <1>7, <1>8 DEF CuratorInv, CuratorTypes, Watched
<1>10. HeldOnce(curation)'
  BY <1>1, <1>2, <1>3, <1>4, <1>5, <1>6, <1>7, <1>8 DEF CuratorInv, HeldOnce, Watched
<1>11. ReviewFits(curation, server)'
  BY <1>1, <1>2, <1>3, <1>4, <1>5, <1>6, <1>7, <1>8 DEF CuratorInv, ReviewFits, Watched
<1>12. PageFits(curation, page, results)'
  BY <1>1, <1>2, <1>3, <1>4, <1>5, <1>6, <1>7, <1>8 DEF CuratorInv, PageFits, Watched
<1>13. IndicesFit(curation, server, page, results)'
  BY <1>1, <1>2, <1>3, <1>4, <1>5, <1>6, <1>7, <1>8, ZenonT(60) DEF CuratorInv, IndicesFit, Watched
<1> QED
  BY <1>9, <1>10, <1>11, <1>12, <1>13 DEF CuratorInv

(* All searches are back, and the review becomes a selection. *)
LEMMA AllSearchedKeeps ==
  ASSUME CuratorInv, AllSearched
  PROVE  CuratorInv'
<1>1. /\ curation \in CurationRows /\ server \in ReviewRows /\ page \in PageRows /\ results \in SUBSET FoundRows
      /\ InitialQueries \in Nat /\ ResultCapacity \in Nat /\ server.next \in Nat /\ NoServerYet.state = "off"
  BY CuratorSets DEF CuratorInv, CuratorTypes, ReviewRows
<1>2. curation' \in CurationRows /\ curation.at = "running" /\ curation.opening = "done" /\ curation'.at = "returned" /\ curation'.host = curation.host /\ curation'.held = curation.held /\ curation'.wanted = curation.wanted /\ curation'.answers = curation.answers /\ curation'.opening = curation.opening /\ curation'.window = curation.window /\ curation'.searching = curation.searching /\ curation'.adding = curation.adding
  BY <1>1 DEF AllSearched, CurationRows
<1>3. /\ server' \in ReviewRows /\ server'.listening = server.listening /\ server'.owes = server.owes /\ Holds(server', server)
      /\ server'.connected = server.connected
      /\ curation.held => server'.state = IF server.state = "SEARCHING" THEN "RESULT_SELECTION" ELSE server.state
      /\ server'.state = "off" <=> server.state = "off"
  BY <1>1 DEF AllSearched, SearchesDone, ReviewRows, ReviewStates, Holds
<1>4. curation.held => server.state \in {"SEARCHING", "RESULT_SELECTION", "COMPLETED"} /\ (server.state = "COMPLETED" => server.owes # "none")
  BY <1>1, <1>2 DEF CuratorInv, ReviewFits, ReviewRows, ReviewStates
<1>5. UNCHANGED <<page, results>>
  BY DEF AllSearched
<1>6. CuratorTypes'
  BY <1>1, <1>2, <1>3, <1>4, <1>5 DEF CuratorInv, CuratorTypes, Watched, Holds
<1>7. HeldOnce(curation)'
  BY <1>1, <1>2, <1>3, <1>4, <1>5 DEF CuratorInv, HeldOnce, Watched, Holds
<1>8. ReviewFits(curation, server)'
  BY <1>1, <1>2, <1>3, <1>4, <1>5 DEF CuratorInv, ReviewFits, Watched, Holds
<1>9. PageFits(curation, page, results)'
  BY <1>1, <1>2, <1>3, <1>4, <1>5 DEF CuratorInv, PageFits, Watched, Holds
<1>10. IndicesFit(curation, server, page, results)'
  BY <1>1, <1>2, <1>3, <1>4, <1>5 DEF CuratorInv, IndicesFit, Watched, Holds
<1> QED
  BY <1>6, <1>7, <1>8, <1>9, <1>10 DEF CuratorInv

(* The caller gives up. *)
LEMMA CallerGivesUpKeeps ==
  ASSUME CuratorInv, CallerGivesUp
  PROVE  CuratorInv'
<1>1. /\ curation \in CurationRows /\ server \in ReviewRows /\ page \in PageRows /\ results \in SUBSET FoundRows
      /\ InitialQueries \in Nat /\ ResultCapacity \in Nat /\ server.next \in Nat /\ NoServerYet.state = "off"
  BY CuratorSets DEF CuratorInv, CuratorTypes, ReviewRows
<1>2. PICK m : m = Ended(curation, "stale")
  OBVIOUS
<1>3. m \in CurationRows /\ SamePlace(m, curation) /\ HeldOnce(m) /\ ~m.held
  BY <1>1, <1>2, EndedTells DEF CuratorInv
<1>4. /\ curation' \in CurationRows /\ HeldOnce(curation') /\ curation'.at = curation.at /\ curation'.opening = curation.opening /\ curation'.adding = curation.adding
      /\ curation'.searching = curation.searching /\ ~curation'.held
  <2>1. curation' = [m EXCEPT !.wanted = FALSE]
    BY <1>2 DEF CallerGivesUp
  <2> QED
    BY <1>3, <2>1 DEF CurationRows, SamePlace, HeldOnce
<1>5. /\ server' \in ReviewRows /\ ~server'.listening /\ Holds(server', server) /\ (server.state = "off" <=> server'.state = "off")
      /\ server = NoServerYet => server' = NoServerYet
  BY <1>1, CloseTells DEF CallerGivesUp, Holds, CuratorInv, ReviewFits
<1>6. UNCHANGED <<page, results>>
  BY DEF CallerGivesUp
<1>7. CuratorTypes'
  BY <1>1, <1>2, <1>3, <1>4, <1>5, <1>6 DEF CuratorInv, CuratorTypes, Holds
<1>8. HeldOnce(curation)'
  BY <1>1, <1>2, <1>3, <1>4, <1>5, <1>6 DEF CuratorInv, HeldOnce, Holds
<1>9. ReviewFits(curation, server)'
  BY <1>1, <1>2, <1>3, <1>4, <1>5, <1>6 DEF CuratorInv, ReviewFits, Holds
<1>10. PageFits(curation, page, results)'
  BY <1>1, <1>2, <1>3, <1>4, <1>5, <1>6 DEF CuratorInv, PageFits, Holds
<1>11. IndicesFit(curation, server, page, results)'
  BY <1>1, <1>2, <1>3, <1>4, <1>5, <1>6 DEF CuratorInv, IndicesFit, Holds
<1> QED
  BY <1>7, <1>8, <1>9, <1>10, <1>11 DEF CuratorInv

(* The user closes the window. *)
LEMMA WindowClosesKeeps ==
  ASSUME CuratorInv, WindowCloses
  PROVE  CuratorInv'
<1>1. /\ curation \in CurationRows /\ server \in ReviewRows /\ page \in PageRows /\ results \in SUBSET FoundRows
      /\ InitialQueries \in Nat /\ ResultCapacity \in Nat /\ server.next \in Nat /\ NoServerYet.state = "off"
  BY CuratorSets DEF CuratorInv, CuratorTypes, ReviewRows
<1>2. PICK m : m = Ended(curation, "stale")
  OBVIOUS
<1>3. m \in CurationRows /\ SamePlace(m, curation) /\ HeldOnce(m) /\ ~m.held
  BY <1>1, <1>2, EndedTells DEF CuratorInv
<1>4. /\ curation' \in CurationRows /\ HeldOnce(curation') /\ curation'.at = curation.at /\ curation'.opening = curation.opening /\ curation'.adding = curation.adding
      /\ curation'.searching = curation.searching /\ ~curation'.held
  <2>1. curation' = m
    BY <1>2 DEF WindowCloses, CloseCuration
  <2> QED
    BY <1>3, <2>1 DEF CurationRows, SamePlace, HeldOnce
<1>5. /\ server' \in ReviewRows /\ ~server'.listening /\ Holds(server', server) /\ (server.state = "off" <=> server'.state = "off")
      /\ server = NoServerYet => server' = NoServerYet
  BY <1>1, CloseTells DEF WindowCloses, CloseCuration, Holds, CuratorInv, ReviewFits
<1>6. UNCHANGED <<page, results>>
  BY DEF WindowCloses, CloseCuration
<1>7. CuratorTypes'
  BY <1>1, <1>2, <1>3, <1>4, <1>5, <1>6 DEF CuratorInv, CuratorTypes, Holds
<1>8. HeldOnce(curation)'
  BY <1>1, <1>2, <1>3, <1>4, <1>5, <1>6 DEF CuratorInv, HeldOnce, Holds
<1>9. ReviewFits(curation, server)'
  BY <1>1, <1>2, <1>3, <1>4, <1>5, <1>6 DEF CuratorInv, ReviewFits, Holds
<1>10. PageFits(curation, page, results)'
  BY <1>1, <1>2, <1>3, <1>4, <1>5, <1>6 DEF CuratorInv, PageFits, Holds
<1>11. IndicesFit(curation, server, page, results)'
  BY <1>1, <1>2, <1>3, <1>4, <1>5, <1>6 DEF CuratorInv, IndicesFit, Holds
<1> QED
  BY <1>7, <1>8, <1>9, <1>10, <1>11 DEF CuratorInv

(* The session ends. *)
LEMMA EndSessionKeeps ==
  ASSUME CuratorInv, EndSession
  PROVE  CuratorInv'
<1>1. /\ curation \in CurationRows /\ server \in ReviewRows /\ page \in PageRows /\ results \in SUBSET FoundRows
      /\ InitialQueries \in Nat /\ ResultCapacity \in Nat /\ server.next \in Nat /\ NoServerYet.state = "off"
  BY CuratorSets DEF CuratorInv, CuratorTypes, ReviewRows
<1>2. PICK m : m = Ended(curation, "stale")
  OBVIOUS
<1>3. m \in CurationRows /\ SamePlace(m, curation) /\ HeldOnce(m) /\ ~m.held
  BY <1>1, <1>2, EndedTells DEF CuratorInv
<1>4. /\ curation' \in CurationRows /\ HeldOnce(curation') /\ curation'.at = curation.at /\ curation'.opening = curation.opening /\ curation'.adding = curation.adding
      /\ curation'.searching = curation.searching /\ ~curation'.held
  <2>1. curation' = [m EXCEPT !.wanted = FALSE]
    BY <1>2 DEF EndSession
  <2> QED
    BY <1>3, <2>1 DEF CurationRows, SamePlace, HeldOnce
<1>5. /\ server' \in ReviewRows /\ ~server'.listening /\ Holds(server', server) /\ (server.state = "off" <=> server'.state = "off")
      /\ server = NoServerYet => server' = NoServerYet
  BY <1>1, CloseTells DEF EndSession, Holds, CuratorInv, ReviewFits
<1>6. UNCHANGED <<page, results>>
  BY DEF EndSession
<1>7. CuratorTypes'
  BY <1>1, <1>2, <1>3, <1>4, <1>5, <1>6 DEF CuratorInv, CuratorTypes, Holds
<1>8. HeldOnce(curation)'
  BY <1>1, <1>2, <1>3, <1>4, <1>5, <1>6 DEF CuratorInv, HeldOnce, Holds
<1>9. ReviewFits(curation, server)'
  BY <1>1, <1>2, <1>3, <1>4, <1>5, <1>6 DEF CuratorInv, ReviewFits, Holds
<1>10. PageFits(curation, page, results)'
  BY <1>1, <1>2, <1>3, <1>4, <1>5, <1>6 DEF CuratorInv, PageFits, Holds
<1>11. IndicesFit(curation, server, page, results)'
  BY <1>1, <1>2, <1>3, <1>4, <1>5, <1>6 DEF CuratorInv, IndicesFit, Holds
<1> QED
  BY <1>7, <1>8, <1>9, <1>10, <1>11 DEF CuratorInv

(* The host is told of the ending. *)
LEMMA CalledKeeps ==
  ASSUME CuratorInv, Called
  PROVE  CuratorInv'
<1>1. /\ curation \in CurationRows /\ server \in ReviewRows /\ page \in PageRows /\ results \in SUBSET FoundRows
      /\ InitialQueries \in Nat /\ ResultCapacity \in Nat /\ server.next \in Nat /\ NoServerYet.state = "off"
  BY CuratorSets DEF CuratorInv, CuratorTypes, ReviewRows
<1>2. server.owes \in {"submit", "user", "timeout", "stale"} /\ server # NoServerYet
  BY <1>1, CuratorSets DEF Called, ReviewRows
<1>3. /\ curation' \in CurationRows /\ SamePlace(curation', curation) /\ HeldOnce(curation') /\ ~curation'.held
  BY <1>1, <1>2, EndedTells DEF CuratorInv, Called
<1>4. PICK m : m = IF curation.held THEN CloseServer(server) ELSE server
  OBVIOUS
<1>5. m \in ReviewRows /\ ~m.listening /\ Holds(m, server) /\ (server.state = "off" <=> m.state = "off")
  BY <1>1, <1>4, CloseTells DEF Holds, CuratorInv, ReviewFits
<1>6. server' \in ReviewRows /\ ~server'.listening /\ Holds(server', server) /\ (server.state = "off" <=> server'.state = "off")
  <2>1. server' = [m EXCEPT !.owes = "none"]
    BY <1>4 DEF Called
  <2> QED
    BY <1>5, <2>1 DEF ReviewRows, Holds
<1>7. curation'.opening \notin {"none", "server"}
  BY <1>2, <1>3 DEF CuratorInv, ReviewFits, SamePlace
<1>8. UNCHANGED <<page, results>>
  BY DEF Called
<1>9. CuratorTypes'
  BY <1>1, <1>2, <1>3, <1>4, <1>5, <1>6, <1>7, <1>8 DEF CuratorInv, CuratorTypes, Holds, SamePlace
<1>10. HeldOnce(curation)'
  BY <1>1, <1>2, <1>3, <1>4, <1>5, <1>6, <1>7, <1>8 DEF CuratorInv, HeldOnce, Holds, SamePlace
<1>11. ReviewFits(curation, server)'
  BY <1>1, <1>2, <1>3, <1>4, <1>5, <1>6, <1>7, <1>8 DEF CuratorInv, ReviewFits, Holds, SamePlace
<1>12. PageFits(curation, page, results)'
  BY <1>1, <1>2, <1>3, <1>4, <1>5, <1>6, <1>7, <1>8 DEF CuratorInv, PageFits, Holds, SamePlace
<1>13. IndicesFit(curation, server, page, results)'
  BY <1>1, <1>2, <1>3, <1>4, <1>5, <1>6, <1>7, <1>8 DEF CuratorInv, IndicesFit, Holds, SamePlace
<1> QED
  BY <1>9, <1>10, <1>11, <1>12, <1>13 DEF CuratorInv

(* The watchdog ends the review. *)
LEMMA WatchdogKeeps ==
  ASSUME CuratorInv, Watchdog
  PROVE  CuratorInv'
<1>1. /\ curation \in CurationRows /\ server \in ReviewRows /\ page \in PageRows /\ results \in SUBSET FoundRows
      /\ InitialQueries \in Nat /\ ResultCapacity \in Nat /\ server.next \in Nat /\ NoServerYet.state = "off"
  BY CuratorSets DEF CuratorInv, CuratorTypes, ReviewRows
<1>2. /\ server' \in ReviewRows /\ server'.state = "COMPLETED" /\ server'.owes # "none" /\ server'.listening = server.listening /\ Holds(server', server)
      /\ server.state \in {"SEARCHING", "RESULT_SELECTION"}
  <2>1. PICK e \in {"submit", "user", "timeout", "stale"} : server' = MarkCompleted(server, e)
    BY DEF Watchdog
  <2> QED
    BY <1>1, <2>1, MarkTells DEF Watchdog, Reviewing
<1>3. UNCHANGED <<curation, page, results>>
  BY DEF Watchdog
<1>4. server # NoServerYet
  BY <1>1, <1>2
<1>5. CuratorTypes'
  BY <1>1, <1>2, <1>3, <1>4 DEF CuratorInv, CuratorTypes, Holds
<1>6. HeldOnce(curation)'
  BY <1>1, <1>2, <1>3, <1>4 DEF CuratorInv, HeldOnce, Holds
<1>7. ReviewFits(curation, server)'
  BY <1>1, <1>2, <1>3, <1>4 DEF CuratorInv, ReviewFits, Holds
<1>8. PageFits(curation, page, results)'
  BY <1>1, <1>2, <1>3, <1>4 DEF CuratorInv, PageFits, Holds
<1>9. IndicesFit(curation, server, page, results)'
  BY <1>1, <1>2, <1>3, <1>4 DEF CuratorInv, IndicesFit, Holds
<1> QED
  BY <1>5, <1>6, <1>7, <1>8, <1>9 DEF CuratorInv

(* The page loads. *)
LEMMA LoadKeeps ==
  ASSUME CuratorInv, Load
  PROVE  CuratorInv'
<1>1. /\ curation \in CurationRows /\ server \in ReviewRows /\ page \in PageRows /\ results \in SUBSET FoundRows
      /\ InitialQueries \in Nat /\ ResultCapacity \in Nat /\ server.next \in Nat /\ NoServerYet.state = "off"
  BY CuratorSets DEF CuratorInv, CuratorTypes, ReviewRows
<1>2. server.listening /\ server # NoServerYet /\ curation.held /\ curation.opening \notin {"none", "server"}
  BY CuratorSets DEF Load, CuratorInv, ReviewFits
<1>3. page' \in PageRows /\ page'.shown = {}
  BY DEF Load, PageRows
<1>4. server' \in ReviewRows /\ server'.connected /\ server'.state = server.state /\ server'.listening = server.listening /\ server'.idle = server.idle /\ server'.owes = server.owes /\ server'.selected = server.selected /\ server'.next = server.next /\ server'.events = server.events
  BY <1>1 DEF Load, ReviewRows
<1>5. UNCHANGED <<curation, results>>
  BY DEF Load
<1>6. CuratorTypes'
  BY <1>1, <1>2, <1>3, <1>4, <1>5 DEF CuratorInv, CuratorTypes, Watched
<1>7. HeldOnce(curation)'
  BY <1>1, <1>2, <1>3, <1>4, <1>5 DEF CuratorInv, HeldOnce, Watched
<1>8. ReviewFits(curation, server)'
  BY <1>1, <1>2, <1>3, <1>4, <1>5 DEF CuratorInv, ReviewFits, Watched
<1>9. PageFits(curation, page, results)'
  BY <1>1, <1>2, <1>3, <1>4, <1>5 DEF CuratorInv, PageFits, Watched
<1>10. IndicesFit(curation, server, page, results)'
  BY <1>1, <1>2, <1>3, <1>4, <1>5 DEF CuratorInv, IndicesFit, Watched
<1> QED
  BY <1>6, <1>7, <1>8, <1>9, <1>10 DEF CuratorInv

(* The page sees what was pushed. *)
LEMMA SeesKeeps ==
  ASSUME CuratorInv, Sees
  PROVE  CuratorInv'
<1>1. /\ curation \in CurationRows /\ server \in ReviewRows /\ page \in PageRows /\ results \in SUBSET FoundRows
      /\ InitialQueries \in Nat /\ ResultCapacity \in Nat /\ server.next \in Nat /\ NoServerYet.state = "off"
  BY CuratorSets DEF CuratorInv, CuratorTypes, ReviewRows
<1>2. server.listening /\ server # NoServerYet /\ curation.held /\ curation.opening \notin {"none", "server"}
  BY CuratorSets DEF Sees, CuratorInv, ReviewFits
<1>3. page' \in PageRows /\ page'.shown = page.shown \cup server.events /\ server.state # "off"
  BY <1>1 DEF Sees, PageRows, ReviewRows, Reviewing
<1>4. UNCHANGED <<curation, server, results>>
  BY DEF Sees
<1>5. \A i \in server.events : i \in Nat /\ i < server.next
  <2>1. \A i \in server.events : i \in Nat
    BY <1>1 DEF ReviewRows
  <2> QED
    BY <1>1, <1>3, <2>1 DEF CuratorInv, IndicesFit
<1>6. CuratorTypes'
  BY <1>1, <1>2, <1>3, <1>4, <1>5 DEF CuratorInv, CuratorTypes
<1>7. HeldOnce(curation)'
  BY <1>1, <1>2, <1>3, <1>4, <1>5 DEF CuratorInv, HeldOnce
<1>8. ReviewFits(curation, server)'
  BY <1>1, <1>2, <1>3, <1>4, <1>5 DEF CuratorInv, ReviewFits
<1>9. PageFits(curation, page, results)'
  BY <1>1, <1>2, <1>3, <1>4, <1>5 DEF CuratorInv, PageFits
<1>10. IndicesFit(curation, server, page, results)'
  BY <1>1, <1>2, <1>3, <1>4, <1>5 DEF CuratorInv, IndicesFit
<1> QED
  BY <1>6, <1>7, <1>8, <1>9, <1>10 DEF CuratorInv

(* A heartbeat tells of the user's idleness, and may end the review. *)
LEMMA HeartbeatKeeps ==
  ASSUME CuratorInv, Heartbeat
  PROVE  CuratorInv'
<1>1. /\ curation \in CurationRows /\ server \in ReviewRows /\ page \in PageRows /\ results \in SUBSET FoundRows
      /\ InitialQueries \in Nat /\ ResultCapacity \in Nat /\ server.next \in Nat /\ NoServerYet.state = "off"
  BY CuratorSets DEF CuratorInv, CuratorTypes, ReviewRows
<1>2. server.listening /\ server # NoServerYet /\ curation.held /\ curation.opening \notin {"none", "server"}
  BY CuratorSets DEF Heartbeat, CuratorInv, ReviewFits
<1>3. server.state \in {"SEARCHING", "RESULT_SELECTION"}
  BY DEF Heartbeat, Reviewing
<1>4. /\ server' \in ReviewRows /\ server'.listening = server.listening /\ Holds(server', server)
      /\ \/ server'.state = "COMPLETED" /\ server'.owes # "none"
         \/ server'.state = server.state /\ server'.owes = server.owes /\ server'.connected = server.connected
  <2>1. PICK idle \in BOOLEAN : LET s == [server EXCEPT !.idle = idle]
                               IN  server' = IF TimesOutIdle(s) THEN MarkCompleted(s, "timeout") ELSE s
    BY DEF Heartbeat
  <2>2. PICK s : s = [server EXCEPT !.idle = idle]
    OBVIOUS
  <2>3. s \in ReviewRows /\ s.listening = server.listening /\ Holds(s, server) /\ s.state = server.state /\ s.owes = server.owes /\ s.connected = server.connected
    BY <1>1, <2>2 DEF ReviewRows, Holds
  <2>4. server' = IF TimesOutIdle(s) THEN MarkCompleted(s, "timeout") ELSE s
    BY <2>1, <2>2
  <2> QED
    BY <2>3, <2>4, MarkTells DEF Holds
<1>5. UNCHANGED <<curation, page, results>>
  BY DEF Heartbeat
<1>6. CuratorTypes'
  BY <1>1, <1>2, <1>3, <1>4, <1>5 DEF CuratorInv, CuratorTypes, Watched, Holds
<1>7. HeldOnce(curation)'
  BY <1>1, <1>2, <1>3, <1>4, <1>5 DEF CuratorInv, HeldOnce, Watched, Holds
<1>8. ReviewFits(curation, server)'
  BY <1>1, <1>2, <1>3, <1>4, <1>5 DEF CuratorInv, ReviewFits, Watched, Holds
<1>9. PageFits(curation, page, results)'
  BY <1>1, <1>2, <1>3, <1>4, <1>5 DEF CuratorInv, PageFits, Watched, Holds
<1>10. IndicesFit(curation, server, page, results)'
  BY <1>1, <1>2, <1>3, <1>4, <1>5 DEF CuratorInv, IndicesFit, Watched, Holds
<1> QED
  BY <1>6, <1>7, <1>8, <1>9, <1>10 DEF CuratorInv

(* The user adds a search, which takes the next index. *)
LEMMA AddSearchKeeps ==
  ASSUME CuratorInv, AddSearch
  PROVE  CuratorInv'
<1>1. /\ curation \in CurationRows /\ server \in ReviewRows /\ page \in PageRows /\ results \in SUBSET FoundRows
      /\ InitialQueries \in Nat /\ ResultCapacity \in Nat /\ server.next \in Nat /\ NoServerYet.state = "off"
  BY CuratorSets DEF CuratorInv, CuratorTypes, ReviewRows
<1>2. server.listening /\ server # NoServerYet /\ curation.held /\ curation.opening \notin {"none", "server"}
  BY CuratorSets DEF AddSearch, CuratorInv, ReviewFits
<1>3. curation' \in CurationRows /\ curation'.adding = curation.adding \cup {server.next} /\ curation'.host = curation.host /\ curation'.at = curation.at /\ curation'.held = curation.held /\ curation'.wanted = curation.wanted /\ curation'.answers = curation.answers /\ curation'.opening = curation.opening /\ curation'.window = curation.window /\ curation'.searching = curation.searching
  BY <1>1 DEF AddSearch, CurationRows
<1>4. server' \in ReviewRows /\ server'.next = server.next + 1 /\ server.state # "off" /\ server'.state = server.state /\ server'.listening = server.listening /\ server'.connected = server.connected /\ server'.idle = server.idle /\ server'.owes = server.owes /\ server'.selected = server.selected /\ server'.events = server.events
  <2>1. PICK k \in Nat : k = server.next + 1
    BY <1>1
  <2>2. server' = [server EXCEPT !.next = k]
    BY <2>1 DEF AddSearch
  <2> QED
    BY <1>1, <2>1, <2>2 DEF AddSearch, Reviewing, ReviewRows
<1>5. UNCHANGED <<page, results>>
  BY DEF AddSearch
<1>6. \A i \in curation.adding \cup page.shown : i \in Nat
  BY <1>1 DEF CurationRows, PageRows
<1>7. CuratorTypes'
  BY <1>1, <1>2, <1>3, <1>4, <1>5, <1>6 DEF CuratorInv, CuratorTypes, Watched
<1>8. HeldOnce(curation)'
  BY <1>1, <1>2, <1>3, <1>4, <1>5, <1>6 DEF CuratorInv, HeldOnce, Watched
<1>9. ReviewFits(curation, server)'
  BY <1>1, <1>2, <1>3, <1>4, <1>5, <1>6 DEF CuratorInv, ReviewFits, Watched
<1>10. PageFits(curation, page, results)'
  BY <1>1, <1>2, <1>3, <1>4, <1>5, <1>6 DEF CuratorInv, PageFits, Watched
<1>11. IndicesFit(curation, server, page, results)'
  BY <1>1, <1>2, <1>3, <1>4, <1>5, <1>6 DEF CuratorInv, IndicesFit, Watched
<1> QED
  BY <1>7, <1>8, <1>9, <1>10, <1>11 DEF CuratorInv

(* An added search returns: its index, and those that come next. *)
LEMMA AddedReturnsKeeps ==
  ASSUME CuratorInv, NEW i \in Indices, AddedReturns(i)
  PROVE  CuratorInv'
<1>1. /\ curation \in CurationRows /\ server \in ReviewRows /\ page \in PageRows /\ results \in SUBSET FoundRows
      /\ InitialQueries \in Nat /\ ResultCapacity \in Nat /\ server.next \in Nat /\ NoServerYet.state = "off"
  BY CuratorSets DEF CuratorInv, CuratorTypes, ReviewRows
<1>2. i \in curation.adding /\ i \in Nat /\ ResultCapacity <= i /\ i < server.next
  BY <1>1 DEF AddedReturns, CuratorInv, IndicesFit, CurationRows
<1>3. curation.opening \notin {"none", "server"}
  BY <1>2 DEF CuratorInv, PageFits
<1>4. curation' \in CurationRows /\ curation'.adding = curation.adding \ {i} /\ curation'.host = curation.host /\ curation'.at = curation.at /\ curation'.held = curation.held /\ curation'.wanted = curation.wanted /\ curation'.answers = curation.answers /\ curation'.opening = curation.opening /\ curation'.window = curation.window /\ curation'.searching = curation.searching
  BY <1>1 DEF AddedReturns, CurationRows
<1>5. PICK n \in Nat : LET found == {i} \cup server.next..server.next + n - 1
                      IN /\ server' = [server EXCEPT !.next = @ + n]
                         /\ results' = IF curation.held THEN results \cup [index : found, of : {"added"}] ELSE results
                         /\ page' = IF page.open THEN [page EXCEPT !.shown = @ \cup found] ELSE page
  <2>1. Providers - 1 \in Nat
    BY CuratorSets
  <2>2. \A n \in 0..(IF curation.held THEN Providers - 1 ELSE 0) : n \in Nat
    OBVIOUS
  <2> QED
    BY <2>2 DEF AddedReturns
<1>6. PICK found : found = {i} \cup server.next..server.next + n - 1
  OBVIOUS
<1>7. PICK k \in Nat : k = server.next + n
  BY <1>1
<1>8. found \in SUBSET Nat /\ \A j \in found : ResultCapacity <= j /\ j < k
  BY <1>1, <1>2, <1>6, <1>7
<1>9. server' \in ReviewRows /\ server'.next = k /\ server.next <= k /\ server'.state = server.state /\ server'.listening = server.listening /\ server'.connected = server.connected /\ server'.idle = server.idle /\ server'.owes = server.owes /\ server'.selected = server.selected /\ server'.events = server.events
  <2>1. server' = [server EXCEPT !.next = k]
    BY <1>5, <1>7
  <2> QED
    BY <1>1, <1>7, <2>1 DEF ReviewRows
<1>10.
      /\ results' \in SUBSET FoundRows /\ results \subseteq results'
      /\ \A r \in results' : r \in results \/ (r.of = "added" /\ r.index \in found)
      /\ curation.held => \A j \in found : \E r \in results' : r.index = j
  <2>1. CASE curation.held
    <3>1. results' = results \cup [index : found, of : {"added"}]
      BY <1>5, <1>6, <2>1
    <3>2. \A j \in found : [index |-> j, of |-> "added"] \in results' /\ [index |-> j, of |-> "added"].index = j
      BY <3>1
    <3>3. \A j \in found : \E r \in results' : r.index = j
      BY <3>2
    <3> QED
      BY <1>1, <1>8, <3>1, <3>3 DEF FoundRows
  <2>2. CASE ~curation.held
    BY <1>1, <1>5, <2>2
  <2> QED
    BY <2>1, <2>2
<1>11. page' \in PageRows /\ page.shown \subseteq page'.shown /\ page'.shown \subseteq page.shown \cup found
  <2>1. page' = IF page.open THEN [page EXCEPT !.shown = page.shown \cup found] ELSE page
    BY <1>5, <1>6
  <2> QED
    BY <1>1, <1>8, <2>1 DEF PageRows
<1>12. \A j \in curation.adding \cup page.shown : j \in Nat
  BY <1>1 DEF CurationRows, PageRows
<1>13. CuratorTypes'
  BY <1>1, <1>2, <1>3, <1>4, <1>5, <1>6, <1>7, <1>8, <1>9, <1>10, <1>11, <1>12 DEF CuratorInv, CuratorTypes, Watched, FoundRows
<1>14. HeldOnce(curation)'
  BY <1>1, <1>2, <1>3, <1>4, <1>5, <1>6, <1>7, <1>8, <1>9, <1>10, <1>11, <1>12 DEF CuratorInv, HeldOnce, Watched, FoundRows
<1>15. ReviewFits(curation, server)'
  BY <1>1, <1>2, <1>3, <1>4, <1>5, <1>6, <1>7, <1>8, <1>9, <1>10, <1>11, <1>12 DEF CuratorInv, ReviewFits, Watched, FoundRows
<1>16. PageFits(curation, page, results)'
  BY <1>1, <1>2, <1>3, <1>4, <1>5, <1>6, <1>7, <1>8, <1>9, <1>10, <1>11, <1>12 DEF CuratorInv, PageFits, Watched, FoundRows
<1>17. IndicesFit(curation, server, page, results)'
  <2>1. \A r \in results' : r.of = "initial" <=> r.index < ResultCapacity
    <3> TAKE r \in results'
    <3>1. CASE r \in results
      BY <3>1 DEF CuratorInv, IndicesFit
    <3>2. CASE r.of = "added" /\ r.index \in found
      <4>1. PICK x \in Nat : x = r.index /\ ResultCapacity <= x
        BY <1>8, <3>2
      <4>2. ~(x < ResultCapacity)
        BY <1>1, <4>1
      <4> QED
        BY <3>2, <4>1, <4>2
    <3> QED
      BY <1>10, <3>1, <3>2
  <2>2. \A j \in curation'.adding : ResultCapacity <= j /\ j < server'.next
    BY <1>1, <1>4, <1>7, <1>9, <1>12 DEF CuratorInv, IndicesFit
  <2>3. server'.state # "off" => ResultCapacity <= server'.next
    BY <1>1, <1>7, <1>9 DEF CuratorInv, IndicesFit
  <2>4. \A j \in server'.events : j < ResultCapacity
    BY <1>9 DEF CuratorInv, IndicesFit
  <2>5. \A j \in page'.shown : j < server'.next
    <3> TAKE j \in page'.shown
    <3>1. CASE j \in page.shown
      BY <1>1, <1>7, <1>9, <1>12, <3>1 DEF CuratorInv, IndicesFit
    <3>2. CASE j \in found
      BY <1>8, <1>9, <3>2
    <3> QED
      BY <1>11, <3>1, <3>2
  <2>6. ASSUME curation'.held, NEW j \in page'.shown \cup server'.selected \cup server'.events
        PROVE  \E r \in results' : r.index = j
    <3>1. CASE j \in found
      BY <1>4, <1>10, <2>6, <3>1
    <3>2. CASE j \in page.shown \cup server.selected \cup server.events
      BY <1>4, <1>10, <2>6, <3>2 DEF CuratorInv, IndicesFit
    <3> QED
      BY <1>9, <1>11, <2>6, <3>1, <3>2
  <2> QED
    BY <2>1, <2>2, <2>3, <2>4, <2>5, <2>6 DEF IndicesFit
<1> QED
  BY <1>13, <1>14, <1>15, <1>16, <1>17 DEF CuratorInv

(* The page submits what it selected. *)
LEMMA SubmitKeeps ==
  ASSUME CuratorInv, Submit
  PROVE  CuratorInv'
<1>1. /\ curation \in CurationRows /\ server \in ReviewRows /\ page \in PageRows /\ results \in SUBSET FoundRows
      /\ InitialQueries \in Nat /\ ResultCapacity \in Nat /\ server.next \in Nat /\ NoServerYet.state = "off"
  BY CuratorSets DEF CuratorInv, CuratorTypes, ReviewRows
<1>2. server.listening /\ server # NoServerYet /\ curation.held /\ curation.opening \notin {"none", "server"}
  BY CuratorSets DEF Submit, CuratorInv, ReviewFits
<1>3. page' \in PageRows /\ page'.shown = page.shown /\ page'.open = page.open
  BY <1>1 DEF Submit, PageRows
<1>4. PICK selected \in SUBSET page.shown : server' = IF Reviewing THEN [MarkCompleted(server, "submit") EXCEPT !.selected = selected] ELSE server
  BY DEF Submit
<1>5. /\ server' \in ReviewRows /\ server'.listening = server.listening /\ server'.next = server.next /\ server'.events = server.events
      /\ \/ server' = server
         \/ server'.state = "COMPLETED" /\ server'.owes # "none" /\ server'.selected = selected /\ server.state # "off"
  <2>1. CASE Reviewing
    <3>1. PICK m : m = MarkCompleted(server, "submit")
      OBVIOUS
    <3>2. m \in ReviewRows /\ m.state = "COMPLETED" /\ m.owes = "submit" /\ m.listening = server.listening /\ Holds(m, server)
      BY <1>1, <3>1, MarkTells
    <3>3. selected \in SUBSET Nat
      BY <1>1 DEF PageRows
    <3>4. server' = [m EXCEPT !.selected = selected]
      BY <1>4, <2>1, <3>1
    <3> QED
      BY <2>1, <3>2, <3>3, <3>4 DEF ReviewRows, Holds, Reviewing
  <2>2. CASE ~Reviewing
    BY <1>1, <1>4, <2>2
  <2> QED
    BY <2>1, <2>2
<1>6. UNCHANGED <<curation, results>>
  BY DEF Submit
<1>7. CuratorTypes'
  BY <1>1, <1>2, <1>3, <1>4, <1>5, <1>6 DEF CuratorInv, CuratorTypes
<1>8. HeldOnce(curation)'
  BY <1>1, <1>2, <1>3, <1>4, <1>5, <1>6 DEF CuratorInv, HeldOnce
<1>9. ReviewFits(curation, server)'
  BY <1>1, <1>2, <1>3, <1>4, <1>5, <1>6 DEF CuratorInv, ReviewFits
<1>10. PageFits(curation, page, results)'
  BY <1>1, <1>2, <1>3, <1>4, <1>5, <1>6 DEF CuratorInv, PageFits
<1>11. IndicesFit(curation, server, page, results)'
  BY <1>1, <1>2, <1>3, <1>4, <1>5, <1>6 DEF CuratorInv, IndicesFit
<1> QED
  BY <1>7, <1>8, <1>9, <1>10, <1>11 DEF CuratorInv

(* The page skips. *)
LEMMA SkipKeeps ==
  ASSUME CuratorInv, Skip
  PROVE  CuratorInv'
<1>1. /\ curation \in CurationRows /\ server \in ReviewRows /\ page \in PageRows /\ results \in SUBSET FoundRows
      /\ InitialQueries \in Nat /\ ResultCapacity \in Nat /\ server.next \in Nat /\ NoServerYet.state = "off"
  BY CuratorSets DEF CuratorInv, CuratorTypes, ReviewRows
<1>2. server.listening /\ server # NoServerYet /\ curation.held /\ curation.opening \notin {"none", "server"}
  BY CuratorSets DEF Skip, CuratorInv, ReviewFits
<1>3. page' \in PageRows /\ page'.shown = page.shown /\ page'.open = page.open
  BY <1>1 DEF Skip, PageRows
<1>4. \/ server' = server
      \/ /\ server' \in ReviewRows /\ server'.state = "COMPLETED" /\ server'.owes # "none" /\ server'.listening = server.listening
         /\ Holds(server', server) /\ server.state # "off"
  <2>1. PICK reason \in {"submit", "user", "timeout", "stale"} : server' = IF Reviewing THEN MarkCompleted(server, reason) ELSE server
    BY DEF Skip
  <2> QED
    BY <1>1, <2>1, MarkTells DEF Reviewing
<1>5. UNCHANGED <<curation, results>>
  BY DEF Skip
<1>6. CuratorTypes'
  BY <1>1, <1>2, <1>3, <1>4, <1>5 DEF CuratorInv, CuratorTypes, Holds
<1>7. HeldOnce(curation)'
  BY <1>1, <1>2, <1>3, <1>4, <1>5 DEF CuratorInv, HeldOnce, Holds
<1>8. ReviewFits(curation, server)'
  BY <1>1, <1>2, <1>3, <1>4, <1>5 DEF CuratorInv, ReviewFits, Holds
<1>9. PageFits(curation, page, results)'
  BY <1>1, <1>2, <1>3, <1>4, <1>5 DEF CuratorInv, PageFits, Holds
<1>10. IndicesFit(curation, server, page, results)'
  BY <1>1, <1>2, <1>3, <1>4, <1>5 DEF CuratorInv, IndicesFit, Holds
<1> QED
  BY <1>6, <1>7, <1>8, <1>9, <1>10 DEF CuratorInv

(* The page is closed. *)
LEMMA PageClosesKeeps ==
  ASSUME CuratorInv, PageCloses
  PROVE  CuratorInv'
<1>1. /\ curation \in CurationRows /\ server \in ReviewRows /\ page \in PageRows /\ results \in SUBSET FoundRows
      /\ InitialQueries \in Nat /\ ResultCapacity \in Nat /\ server.next \in Nat /\ NoServerYet.state = "off"
  BY CuratorSets DEF CuratorInv, CuratorTypes, ReviewRows
<1>2. page' \in PageRows /\ page'.shown = {} /\ ~page'.open
  BY <1>1 DEF PageCloses, PageRows
<1>3. UNCHANGED <<curation, server, results>>
  BY DEF PageCloses
<1>4. CuratorTypes'
  BY <1>1, <1>2, <1>3 DEF CuratorInv, CuratorTypes
<1>5. HeldOnce(curation)'
  BY <1>1, <1>2, <1>3 DEF CuratorInv, HeldOnce
<1>6. ReviewFits(curation, server)'
  BY <1>1, <1>2, <1>3 DEF CuratorInv, ReviewFits
<1>7. PageFits(curation, page, results)'
  BY <1>1, <1>2, <1>3 DEF CuratorInv, PageFits
<1>8. IndicesFit(curation, server, page, results)'
  BY <1>1, <1>2, <1>3 DEF CuratorInv, IndicesFit
<1> QED
  BY <1>4, <1>5, <1>6, <1>7, <1>8 DEF CuratorInv

-----------------------------------------------------------------------------
LEMMA CuratorStarts ==
  ASSUME CuratorInit
  PROVE  CuratorInv
<1>1. /\ curation = [host |-> "tool", at |-> "none", held |-> FALSE, wanted |-> TRUE, answer |-> "none", answers |-> 0, opening |-> "none",
                     window |-> FALSE, searching |-> InitialQueries, adding |-> {}]
      /\ server = NoServerYet /\ page = [open |-> FALSE, shown |-> {}, sent |-> FALSE] /\ results = {}
  BY DEF CuratorInit
<1>2. CuratorTypes
  BY <1>1, CuratorSets DEF CuratorTypes, CurationRows, PageRows
<1> QED
  BY <1>1, <1>2, CuratorSets DEF CuratorInv, HeldOnce, ReviewFits, PageFits, IndicesFit
LEMMA CuratorKeeps ==
  ASSUME CuratorInv, [CuratorNext]_curatorVars
  PROVE  CuratorInv'
<1>1. CASE CuratorNext
  BY <1>1, CurationBeginsKeeps, BootstrappedKeeps, ServerStartsKeeps, WindowOpensKeeps, SearchReturnsKeeps, AllSearchedKeeps, CalledKeeps,
     CallerGivesUpKeeps, WindowClosesKeeps, EndSessionKeeps, WatchdogKeeps, LoadKeeps, SeesKeeps, HeartbeatKeeps, AddSearchKeeps,
     AddedReturnsKeeps, SubmitKeeps, SkipKeeps, PageClosesKeeps DEF CuratorNext
<1>2. CASE UNCHANGED curatorVars
  BY <1>2 DEF curatorVars, CuratorInv, CuratorTypes, HeldOnce, ReviewFits, PageFits, IndicesFit
<1> QED
  BY <1>1, <1>2
LEMMA CurationIsSound ==
  ASSUME CuratorInv
  PROVE  CurationSound
<1>1. curation \in CurationRows /\ server \in ReviewRows /\ results \in SUBSET FoundRows
  BY DEF CuratorInv, CuratorTypes
<1>2. StillEnds
  BY <1>1 DEF StillEnds, Reviewing, CuratorInv, HeldOnce, ReviewFits
<1>3. AnsweredOnce
  BY <1>1 DEF AnsweredOnce, Tool, CuratorInv, HeldOnce
<1>4. NothingOpen
  BY DEF NothingOpen, CuratorInv, HeldOnce, ReviewFits
<1>5. ASSUME NEW r \in results, NEW q \in results, r.index = q.index
      PROVE  r = q
  <2>1. r.of = q.of
    BY <1>1, <1>5 DEF CuratorInv, IndicesFit, FoundRows
  <2> QED
    BY <1>1, <1>5, <2>1 DEF FoundRows
<1>6. curation.held => page.shown \cup server.selected \subseteq Found
  BY DEF CuratorInv, IndicesFit, Found
<1>7. IndicesTold
  BY <1>5, <1>6 DEF IndicesTold, CuratorInv, IndicesFit
<1> QED
  BY <1>2, <1>3, <1>4, <1>7 DEF CurationSound

(* A curated search still ends without the user, is answered once, leaves nothing open and
   returns what it showed (curator-server.ts, openCuratorBrowser of index.ts), for any number
   of queries, of providers and of added searches. *)
THEOREM CurationsEnd == CuratorSpec => []CurationSound
<1>1. CuratorInit => CuratorInv
  BY CuratorStarts
<1>2. CuratorInv /\ [CuratorNext]_curatorVars => CuratorInv'
  BY CuratorKeeps
<1>3. CuratorInv => CurationSound
  BY CurationIsSound
<1> QED
  BY <1>1, <1>2, <1>3, PTL DEF CuratorSpec
=============================================================================
