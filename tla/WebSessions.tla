---------------------------- MODULE WebSessions ----------------------------
(* What the web tools keep for the sessions of one process (pi-web-access: index.ts, storage.ts,
   github-extract.ts): results in memory, held by the sessions that own them, and the clones of
   repositories, whose paths fetched pages name.

   One repository (one cache key): clones of different repositories share only the runtime
   directory. Each fetch makes at most one result and starts at most one clone, and names both. A
   clone's lastUsedAt is the set of the sessions that had started by then. A turn's own fetches
   end before Pi announces a session event; fetches in the background do not.                   *)
EXTENDS Naturals, FiniteSets

CONSTANTS
  Hosts,                     \* extension instances
  MaxFetches, MaxStarts      \* fetches, and session starts, in a behaviour
Fetches == 1..MaxFetches
Runtimes == 1..MaxStarts
NoClone == 0
NoHost == 0
ASSUME WebAssumption == MaxFetches \in Nat /\ MaxStarts \in Nat \ {0} /\ IsFiniteSet(Hosts)

VARIABLES
  live,      \* liveInstances
  starts,    \* sessions started
  fetch,     \* [pc, host, background, pending, current, on]: pending while its signal is not
             \* aborted, current while, until it is stored, the session that began it lasts
  clone,     \* [run, at, since]
  cache,     \* cloneCache: the clone of the repository, if any
  runtime,   \* cloneRuntime: [made, open]
  disk,      \* the clone whose files are at the repository's path in each runtime directory
  mem,       \* storedResults: absent, with content, or by reference to the fetch cache
  holders,   \* resultHolders
  owned,     \* ownedResults
  whole,     \* per instance: owned results its session has had with content in memory
  given,     \* per instance: clones whose paths its session was given
  dropped    \* clones another clone's failure took out of the cache

webVars == <<live, starts, fetch, clone, cache, runtime, disk, mem, holders, owned, whole, given, dropped>>

resultVars == <<mem, holders, owned, whole>>
cloneVars == <<clone, cache, runtime, disk, dropped>>

-----------------------------------------------------------------------------
NoFetch == [pc |-> "new", host |-> NoHost, background |-> FALSE,
            pending |-> FALSE, current |-> FALSE, on |-> NoClone]
Publishable == {f \in Fetches : fetch[f].pc = "published"}
HeldBy(h, rs) == [r \in Fetches |-> IF r \in rs \ owned[h] THEN holders[r] + 1 ELSE holders[r]]
\* releaseResults, on counts and memory as they are.
LastHold(r) == holders[r] <= 1
HoldsWithout(rs) == [r \in Fetches |-> IF r \notin rs THEN holders[r] ELSE IF LastHold(r) THEN 0 ELSE holders[r] - 1]
LetGoOf(rs) == [r \in Fetches |-> IF r \in rs /\ LastHold(r) THEN "none" ELSE mem[r]]
Touched(c, hosts) == IF c = NoClone THEN clone ELSE [clone EXCEPT ![c].since = hosts]

-----------------------------------------------------------------------------
\* extractGitHub, from its first look at the cache.
Found(f, c) == [pc |-> IF clone[c].run = "ok" THEN "found" ELSE "waiting", on |-> c]
Gives(h, c) == given' = IF clone[c].run = "ok" THEN [given EXCEPT ![h] = @ \union {c}] ELSE given
BeginFetch(f, h, background) ==
  /\ fetch[f].pc = "new" /\ h \in live /\ \A g \in 1..(f - 1) : fetch[g].pc # "new"
  /\ LET began == [pc |-> "sizing", host |-> h, background |-> background, pending |-> TRUE,
                   current |-> TRUE, on |-> NoClone]
     IN IF cache # NoClone
        THEN /\ clone' = Touched(cache, live) /\ Gives(h, cache)
             /\ fetch' = [fetch EXCEPT ![f] = [began EXCEPT !.pc = Found(f, cache).pc, !.on = cache]]
        ELSE fetch' = [fetch EXCEPT ![f] = began] /\ UNCHANGED <<clone, given>>
  /\ UNCHANGED <<live, starts, cache, runtime, disk, dropped>> /\ UNCHANGED resultVars
\* The size is known: another fetch may have begun the clone in the meantime.
Rechecked == NoClone   \* mutant: it does not look again
Cached == cache
CloneOrWait(f) ==
  /\ fetch[f].pc = "sizing" /\ fetch[f].pending
  /\ IF Cached # NoClone
     THEN /\ fetch' = [fetch EXCEPT ![f].pc = Found(f, cache).pc, ![f].on = cache]
          /\ clone' = Touched(cache, live) /\ Gives(fetch[f].host, cache) /\ UNCHANGED <<cache, runtime, disk>>
     ELSE /\ runtime' = IF runtime.open THEN runtime ELSE [made |-> runtime.made + 1, open |-> TRUE]
          /\ clone' = [clone EXCEPT ![f] = [run |-> "running", at |-> runtime'.made, since |-> live]]
          /\ disk' = [disk EXCEPT ![runtime'.made] = NoClone]
          /\ cache' = f /\ fetch' = [fetch EXCEPT ![f].pc = "waiting", ![f].on = f] /\ UNCHANGED given
  /\ UNCHANGED <<live, starts, dropped>> /\ UNCHANGED resultVars
\* An oversized repository, an aborted fetch, or no destination: no clone; the API may answer.
NoCloneFor(f) ==
  /\ fetch[f].pc = "sizing" /\ fetch' = [fetch EXCEPT ![f].pc = IF fetch[f].pending THEN "found" ELSE "over"]
  /\ UNCHANGED <<live, starts, given>> /\ UNCHANGED resultVars /\ UNCHANGED cloneVars
\* The clone's command ends: done, failed, timed out or killed; every fetch that waits goes on.
Awaiting(c) == {f \in Fetches : fetch[f].pc = "waiting" /\ fetch[f].on = c}
CloneEnds(c, ok) ==
  /\ clone[c].run = "running" /\ clone' = [clone EXCEPT ![c].run = IF ok THEN "ok" ELSE "failed"]
  /\ disk' = [disk EXCEPT ![clone[c].at] = IF ok THEN c ELSE NoClone]
  /\ fetch' = [f \in Fetches |-> IF f \notin Awaiting(c) THEN fetch[f]
                                 ELSE [fetch[f] EXCEPT !.pc = IF fetch[f].pending THEN "found" ELSE "over",
                                                       !.on = IF ok THEN c ELSE NoClone]]
  /\ given' = [h \in Hosts |-> IF ok /\ \E f \in Awaiting(c) : fetch[f].host = h /\ fetch[f].pending
                               THEN given[h] \union {c} ELSE given[h]]
  /\ IF ok THEN UNCHANGED <<cache, dropped>>
     ELSE cache' = NoClone /\ dropped' = dropped \union ({cache} \ {c, NoClone})
  /\ UNCHANGED <<live, starts, runtime>> /\ UNCHANGED resultVars
AbortTurn(f) ==
  /\ fetch[f].pc \in {"sizing", "waiting"} /\ ~fetch[f].background /\ fetch[f].pending
  /\ fetch' = [fetch EXCEPT ![f].pending = FALSE]
  /\ UNCHANGED <<live, starts, given>> /\ UNCHANGED resultVars /\ UNCHANGED cloneVars

-----------------------------------------------------------------------------
\* The page is stored, and owned by the session that asked, if that is still there.
WhileActive(f) == fetch[f].host \in live   \* mutant: the check is for a session, not for this fetch
MayStore(f) == fetch[f].background => fetch[f].host \in live /\ fetch[f].pending
Publish(f) ==
  /\ fetch[f].pc = "found"
  /\ LET h == fetch[f].host
     IN IF MayStore(f)
        THEN /\ mem' = [mem EXCEPT ![f] = "whole"] /\ holders' = HeldBy(h, {f})
             /\ owned' = [owned EXCEPT ![h] = @ \union {f}] /\ whole' = [whole EXCEPT ![h] = @ \union {f}]
             /\ fetch' = [fetch EXCEPT ![f].pc = "published"]
        ELSE fetch' = [fetch EXCEPT ![f].pc = "over"] /\ UNCHANGED resultVars
  /\ UNCHANGED <<live, starts, given>> /\ UNCHANGED cloneVars
\* deleteHeldResult, from the /search dialog.
DeletesForAll(r) == TRUE   \* mutant
DeletesOutright(r) == holders[r] <= 1
DeleteResult(h, r) ==
  /\ r \in owned[h]
  /\ IF DeletesOutright(r) THEN mem' = [mem EXCEPT ![r] = "none"] /\ holders' = [holders EXCEPT ![r] = 0]
     ELSE mem' = LetGoOf({r}) /\ holders' = HoldsWithout({r})
  /\ owned' = [owned EXCEPT ![h] = @ \ {r}] /\ whole' = [whole EXCEPT ![h] = @ \ {r}]
  /\ UNCHANGED <<live, starts, fetch, given>> /\ UNCHANGED cloneVars

-----------------------------------------------------------------------------
\* endSession: its background fetches are aborted, its results and, if no live session can have been
\* given their paths, the finished clones are let go.
TurnOver(h) == \A f \in Fetches : fetch[f].host = h /\ ~fetch[f].background => fetch[f].pc \in {"new", "published", "over"}
SessionOver(h) == [f \in Fetches |-> IF fetch[f].host # h THEN fetch[f]
                               ELSE [fetch[f] EXCEPT !.pending = FALSE, !.current = @ /\ fetch[f].pc = "published"]]
Others(h) == live \ {h}
UnusedByThis(h) == clone[cache].run # "running"   \* mutant: what this session leaves, nobody else uses
UnusedClone(h) == clone[cache].run # "running" /\ clone[cache].since \intersect Others(h) = {}
\* The clones after the session of h: [cache, disk, runtime].
After(h) ==
  IF Others(h) = {}
  THEN [cache |-> NoClone, disk |-> [r \in Runtimes |-> IF runtime.open /\ r = runtime.made THEN NoClone ELSE disk[r]],
        runtime |-> [runtime EXCEPT !.open = FALSE]]
  ELSE IF cache # NoClone /\ UnusedClone(h)
  THEN [cache |-> NoClone, disk |-> [disk EXCEPT ![clone[cache].at] = NoClone], runtime |-> runtime]
  ELSE [cache |-> cache, disk |-> disk, runtime |-> runtime]
LeaveSession(h) == h \in live /\ TurnOver(h) /\ fetch' = SessionOver(h) /\ UNCHANGED dropped
EndSession(h) ==
  /\ LeaveSession(h) /\ live' = Others(h)
  /\ mem' = LetGoOf(owned[h]) /\ holders' = HoldsWithout(owned[h])
  /\ owned' = [owned EXCEPT ![h] = {}] /\ whole' = [whole EXCEPT ![h] = {}]
  /\ given' = [given EXCEPT ![h] = {}] /\ clone' = [c \in Fetches |-> [clone[c] EXCEPT !.since = @ \ {h}]]
  /\ cache' = After(h).cache /\ disk' = After(h).disk /\ runtime' = After(h).runtime
  /\ UNCHANGED starts
\* startSession, which ends the last one first: the session's journal has some of the results
\* published, by reference; those in memory are taken as they are.
Reloaded(kept, r) == "ref"   \* mutant: the journal's copy replaces the one in memory
Loaded(kept, r) == IF kept[r] = "none" THEN "ref" ELSE kept[r]
Untouched(h, c) == clone[c].since \ {h}   \* mutant
Retouched(h, c) == Others(h) \union {h}
StartSession(h, journal) ==
  /\ (h \in live => TurnOver(h)) /\ starts < MaxStarts /\ starts' = starts + 1
  /\ fetch' = SessionOver(h) /\ live' = live \union {h}
  /\ LET kept == LetGoOf(owned[h])
         held == HoldsWithout(owned[h])
         from == After(h)
         now  == [r \in Fetches |-> IF r \in journal THEN Loaded(kept, r) ELSE kept[r]]
         used == from.cache # NoClone /\ \E r \in journal : fetch[r].on # NoClone
     IN /\ mem' = now /\ holders' = [r \in Fetches |-> held[r] + IF r \in journal THEN 1 ELSE 0]
        /\ owned' = [owned EXCEPT ![h] = journal]
        /\ whole' = [whole EXCEPT ![h] = {r \in journal : now[r] = "whole"}]
        /\ cache' = from.cache /\ disk' = from.disk /\ runtime' = from.runtime
        /\ clone' = [c \in Fetches |-> [clone[c] EXCEPT !.since = IF used /\ c = from.cache THEN Retouched(h, c) ELSE @ \ {h}]]
        /\ given' = [given EXCEPT ![h] = {c \in {fetch[r].on : r \in journal} : c # NoClone /\ c = from.cache /\ clone[c].run = "ok"}]
  /\ UNCHANGED dropped
\* getResult: a result known by reference is read back from the fetch cache.
ReadBack(h, r) ==
  /\ r \in owned[h] /\ mem[r] = "ref" /\ mem' = [mem EXCEPT ![r] = "whole"]
  /\ whole' = [whole EXCEPT ![h] = @ \union {r}]
  /\ UNCHANGED <<live, starts, fetch, holders, owned, given>> /\ UNCHANGED cloneVars

-----------------------------------------------------------------------------
WebInit ==
  /\ live = {} /\ starts = 0
  /\ fetch = [f \in Fetches |-> NoFetch]
  /\ clone = [c \in Fetches |-> [run |-> "none", at |-> 1, since |-> {}]]
  /\ cache = NoClone /\ runtime = [made |-> 0, open |-> FALSE] /\ disk = [r \in Runtimes |-> NoClone]
  /\ mem = [r \in Fetches |-> "none"] /\ holders = [r \in Fetches |-> 0]
  /\ owned = [h \in Hosts |-> {}] /\ whole = [h \in Hosts |-> {}] /\ given = [h \in Hosts |-> {}]
  /\ dropped = {}

WebNext ==
  \/ \E f \in Fetches, h \in Hosts, background \in BOOLEAN : BeginFetch(f, h, background)
  \/ \E f \in Fetches : CloneOrWait(f)
  \/ \E f \in Fetches : NoCloneFor(f)
  \/ \E f \in Fetches : AbortTurn(f)
  \/ \E f \in Fetches : Publish(f)
  \/ \E c \in Fetches, ok \in BOOLEAN : CloneEnds(c, ok)
  \/ \E h \in Hosts, r \in Fetches : DeleteResult(h, r)
  \/ \E h \in Hosts, r \in Fetches : ReadBack(h, r)
  \/ \E h \in Hosts : EndSession(h)
  \/ \E h \in Hosts, journal \in SUBSET Publishable : StartSession(h, journal)

WebSpec == WebInit /\ [][WebNext]_webVars

-----------------------------------------------------------------------------
WebTypeOK ==
  /\ live \subseteq Hosts /\ starts \in 0..MaxStarts
  /\ \A f \in Fetches :
       /\ fetch[f].pc \in {"new", "sizing", "waiting", "found", "published", "over"}
       /\ fetch[f].host \in Hosts \union {NoHost} /\ fetch[f].on \in Fetches \union {NoClone}
       /\ clone[f].run \in {"none", "running", "ok", "failed"}
       /\ clone[f].at \in Runtimes /\ clone[f].since \subseteq live
       /\ mem[f] \in {"none", "ref", "whole"} /\ holders[f] \in 0..Cardinality(Hosts)
  /\ cache \in Fetches \union {NoClone} /\ runtime.made \in 0..MaxStarts
  /\ disk \in [Runtimes -> Fetches \union {NoClone}]
  /\ \A h \in Hosts : owned[h] \subseteq Fetches /\ whole[h] \subseteq Fetches /\ given[h] \subseteq Fetches
  /\ dropped \subseteq Fetches

(* A clone stays on disk while a live session has its path (index.ts:282, startSession's touchClones,
   releaseClonesUnusedSince). Left out: the directory of a clone that the late failure of an older one,
   killed when its session ended, dropped from the cache, since extractGitHub deletes by key.           *)
PathOf(c) == clone[c].at
ClonesKept == \A h \in Hosts : \A c \in given[h] : (\A d \in dropped : PathOf(d) # PathOf(c)) => disk[PathOf(c)] = c
\* Each live session that owns a result is counted once, and no other; what is owned is in memory,
\* and content that a session has had there is not replaced by a reference another one restored.
HoldsExact ==
  \A r \in Fetches :
    /\ holders[r] = Cardinality({h \in Hosts : r \in owned[h]})
    /\ (\E h \in Hosts : r \in owned[h]) <=> mem[r] # "none"
    /\ (\E h \in Hosts : r \in whole[h]) => mem[r] = "whole"
\* A session that ends, restarts or moves in its tree gets no page that an earlier one asked for.
OwnPagesOnly == \A f \in Fetches : fetch[f].pc = "published" => fetch[f].current
WebSound == ClonesKept /\ HoldsExact /\ OwnPagesOnly
=============================================================================
