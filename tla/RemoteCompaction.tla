-------------------------- MODULE RemoteCompaction --------------------------
(* Remote compaction (src/remote-compaction/runtime.ts): the provider turns the history of a
   branch into an encrypted checkpoint, bound to the route and the account that made it. A
   request carries the checkpoint where it is valid, a portable text of it elsewhere, and is
   cancelled when neither can be proved; a compaction that cannot finish is cancelled too.

   A login is a token: known accounts keep theirs apart, opaque ones cannot. The second
   credential of the hybrid mode, legacy bindings, payloads and diagnostics are left out.
   `pending` is left out: it aborts early what its operation finds stale at its end anyway.

   External (Pi): the branch, the model and the login. Pi reports that a model was selected,
   not that the endpoint of the same model changed, and appends at once what a hook returns. *)
EXTENDS Naturals, FiniteSets

CONSTANTS
  MaxSources,      \* native entries, each of them a new version of the source
  MaxCheckpoints,  \* checkpoints published
  MaxMoves         \* changes of login, endpoint, model or branch

ASSUME RemoteAssumption == {MaxSources, MaxCheckpoints} \subseteq Nat \ {0} /\ MaxMoves \in Nat

VARIABLES
  scene,        \* the model and the login of the session
  trunk,        \* the branch: its last native entry, its checkpoint, whether that is unedited,
                \* and the checkpoints it has a portable summary of
  past,         \* the branch to navigate to: the one before the last checkpoint
  checkpoints,  \* those made: their model, the token they were made with and the source they cover
  made,         \* sources, checkpoints and moves so far
  op            \* the request and the compaction being prepared
remoteVars == <<scene, trunk, past, checkpoints, made, op>>

Models == {"A", "A2", "P"}                \* A2: the endpoint of A changed; P: not remote
Remote(m) == m # "P"
Tokens == {"a", "a2", "h1", "h2"}         \* a2: a's account, refreshed; h1 and h2 are opaque
NoLogin == "none"                         \* no login, or a broker that fails
AccountOf(t) == IF t \in {"a", "a2"} THEN "a" ELSE "opaque"
CheckpointIds == 1..MaxCheckpoints

\* bindingState(): an undefined account equals another one, the backend has the last word.
Binding(k, m, t) ==
  CASE checkpoints[k].model # m -> "incompatible"
    [] checkpoints[k].model = m /\ AccountOf(checkpoints[k].token) # AccountOf(t) -> "unverified"
    [] OTHER -> "valid"
\* sameProvider(): of a known account any token will do, of an opaque one only the same.
SameProvider(t, u) == t = u \/ (AccountOf(t) = "a" /\ AccountOf(u) = "a")

NoCheckpoint == [model |-> "P", token |-> "none", covers |-> 0]
Rest == [pc |-> "idle", checkpoint |-> 0, intact |-> FALSE, carrier |-> 0, model |-> "P", token |-> "none", source |-> 0,
         stale |-> FALSE, mode |-> "none", manual |-> FALSE, via |-> "none", from |-> 0, late |-> FALSE]
Ops == {"request", "compaction"}
Becomes(p, o) == op' = [op EXCEPT ![p] = o]
Cancelled(p) == Becomes(p, Rest)

\* active(): the branch has a checkpoint; its data are gone once it, or what it covers, was edited.
HasCheckpoint == trunk.checkpoint # 0
Data == HasCheckpoint /\ trunk.intact
\* savedPortable(): the branch has a summary of the checkpoint that was read, with its data.
SavedPortable(o) == o.intact /\ o.checkpoint \in trunk.portable
Reads(o) == [o EXCEPT !.checkpoint = trunk.checkpoint, !.intact = Data]
LoggedIn == scene.login # NoLogin
Stand == UNCHANGED <<scene, trunk, past, checkpoints, made>>

-----------------------------------------------------------------------------
(* portableProjection(), within the request or the compaction p: a saved text, or a new one from
   the checkpoint's own model, kept only if nothing moved meanwhile.                           *)
\* What p goes on with: the portable text, or without it. A compaction asked for by the user may
\* then rebuild the checkpoint of its own route from the raw history.
Portably(p, o) ==
  CASE p = "request" -> [o EXCEPT !.pc = "prepared", !.mode = "portable"]
    [] p = "compaction" -> [o EXCEPT !.pc = IF Remote(o.model) THEN "compacting" ELSE "native"]
Repairable(o) ==
  /\ o.manual /\ Remote(o.model) /\ checkpoints[o.checkpoint].model = o.model
  /\ ~o.intact \/ Binding(o.checkpoint, o.model, o.token) # "valid"
Unportable(p, o) ==
  IF p = "compaction" /\ Repairable(o) THEN [o EXCEPT !.pc = "compacting"] ELSE Rest
Portable(p, o) ==
  CASE SavedPortable(o) -> Portably(p, o)
    [] ~o.intact -> Unportable(p, o)
    [] OTHER -> [o EXCEPT !.pc = "resolving", !.from = trunk.source, !.late = FALSE]
Unmoved(o) == ~o.late /\ o.from = trunk.source
\* The credential for the checkpoint's model is resolved, and has to be the checkpoint's.
PortableResolved(p) ==
  /\ op[p].pc = "resolving" /\ Stand
  /\ LET o == op[p]
         ok == /\ LoggedIn /\ Unmoved(o)
               /\ Binding(o.checkpoint, checkpoints[o.checkpoint].model, scene.login) = "valid"
     IN  Becomes(p, IF ok THEN [o EXCEPT !.pc = "summarising", !.via = scene.login] ELSE Unportable(p, o))
\* The text is there, or failed; the credential is resolved again before it is kept.
MayKeep(o) == LoggedIn /\ SameProvider(o.via, scene.login) /\ Unmoved(o)
PortableEnds(p) ==
  /\ op[p].pc = "summarising"
  /\ \/ Becomes(p, Unportable(p, op[p])) /\ UNCHANGED trunk
     \/ /\ MayKeep(op[p])
        /\ trunk' = [trunk EXCEPT !.portable = @ \cup {op[p].checkpoint}]
        /\ Becomes(p, Portably(p, op[p]))
  /\ UNCHANGED <<scene, past, checkpoints, made>>

-----------------------------------------------------------------------------
(* A request: context, context_with_system, before_provider_request. *)
RequestBegins ==
  /\ op["request"].pc = "idle" /\ op["compaction"].pc = "idle" /\ Stand
  /\ LET o == Reads([Rest EXCEPT !.model = scene.model, !.source = trunk.source])
     IN  Becomes("request",
           CASE ~HasCheckpoint -> [o EXCEPT !.pc = "prepared"]
             [] HasCheckpoint /\ Data /\ Remote(scene.model) -> [o EXCEPT !.pc = "verifying"]
             [] OTHER -> Portable("request", o))
\* The credential is resolved: the checkpoint is valid, or its portable text is used, or nothing is.
ContextVerified ==
  /\ op["request"].pc = "verifying" /\ Stand
  /\ LET o == op["request"]
         b == Binding(o.checkpoint, o.model, scene.login)
     IN  Becomes("request",
           CASE LoggedIn /\ b = "valid" -> [o EXCEPT !.pc = "prepared", !.mode = "checkpoint"]
             [] (~LoggedIn \/ b = "unverified") /\ ~SavedPortable(o) -> Rest
             [] OTHER -> Portable("request", o))
\* The projections of the other extensions changed the summary, or the input is too large.
ContextRefused ==
  /\ op["request"].pc = "prepared" /\ op["request"].mode = "portable" /\ Cancelled("request") /\ Stand
SameVersion(o) == ~o.stale /\ o.source = trunk.source
ResolvedValid(o) == LoggedIn /\ Binding(o.checkpoint, o.model, scene.login) = "valid"   \* mutant
StillValid(o) ==
  SameVersion(o) /\ scene.model = o.model /\ LoggedIn /\ Data /\ Binding(o.checkpoint, o.model, scene.login) = "valid"
PayloadBuilt ==
  /\ op["request"].pc = "prepared" /\ Stand
  /\ LET o == op["request"]
     IN  Becomes("request",
           CASE o.mode = "none" -> [o EXCEPT !.pc = "sent"]
             [] o.mode = "portable" ->
                  IF SameVersion(o) /\ Data /\ SavedPortable(Reads(o)) THEN [o EXCEPT !.pc = "sent"] ELSE Rest
             [] OTHER -> IF SameVersion(o) /\ scene.model = o.model /\ Data THEN [o EXCEPT !.pc = "confirming"] ELSE Rest)
\* Authentication may yield to edits, appends and switches, so all of it is looked at again.
PayloadConfirmed ==
  /\ op["request"].pc = "confirming" /\ Stand
  /\ Becomes("request", IF StillValid(op["request"]) THEN [op["request"] EXCEPT !.pc = "sent"] ELSE Rest)
Answered == op["request"].pc = "sent" /\ Cancelled("request") /\ Stand

-----------------------------------------------------------------------------
(* A compaction: session_before_compact. *)
CompactionBegins ==
  /\ op["request"].pc = "idle" /\ op["compaction"].pc = "idle" /\ (Remote(scene.model) \/ HasCheckpoint) /\ Stand
  /\ \E manual \in BOOLEAN :
       Becomes("compaction", Reads([Rest EXCEPT !.pc = "waiting", !.manual = manual]))
\* The extensions that were asked to wait are done, and the source is captured.
CompactionCaptures ==
  /\ op["compaction"].pc = "waiting" /\ Stand
  /\ LET o == [op["compaction"] EXCEPT !.model = scene.model, !.source = trunk.source,
                                      !.carrier = trunk.checkpoint, !.stale = FALSE]
     IN  Becomes("compaction",
           CASE Remote(o.model) -> [o EXCEPT !.pc = "authenticating"]
             [] ~Remote(o.model) /\ o.checkpoint # 0 -> Portable("compaction", o)
             [] OTHER -> Rest)
CompactionAuthenticates ==
  /\ op["compaction"].pc = "authenticating" /\ Stand
  /\ LET o == [op["compaction"] EXCEPT !.token = scene.login]
         b == Binding(o.checkpoint, o.model, scene.login)
     IN  Becomes("compaction",
           CASE ~LoggedIn -> Rest
             [] LoggedIn /\ o.checkpoint = 0 -> [o EXCEPT !.pc = "compacting"]
             [] LoggedIn /\ o.checkpoint # 0 /\ o.intact /\ b = "valid" ->       \* its marker must be there
                  IF o.carrier = o.checkpoint THEN [o EXCEPT !.pc = "compacting"] ELSE Rest
             [] LoggedIn /\ o.checkpoint # 0 /\ o.intact /\ b = "unverified" /\ ~SavedPortable(o) /\ ~o.manual -> Rest
             [] OTHER -> Portable("compaction", o))
CompactionFails ==
  /\ op["compaction"].pc \in {"waiting", "compacting", "native"} /\ Cancelled("compaction") /\ Stand
\* The encrypted checkpoint is complete, and still belongs to what it was made from.
PublishesForLogin(o) == LoggedIn /\ SameProvider(o.token, scene.login) /\ ~o.stale   \* mutant
MayPublish(o) == LoggedIn /\ SameProvider(o.token, scene.login) /\ SameVersion(o)
NextSource == made.sources + 1
Behind(k, intact) == [trunk EXCEPT !.source = NextSource, !.checkpoint = k, !.intact = intact]
Published ==
  /\ op["compaction"].pc = "compacting" /\ made.checkpoints < MaxCheckpoints /\ made.sources < MaxSources
  /\ LET o == op["compaction"]
         k == made.checkpoints + 1
     IN  IF MayPublish(o)
         THEN /\ checkpoints' = [checkpoints EXCEPT ![k] = [model |-> o.model, token |-> o.token, covers |-> o.source]]
              /\ trunk' = Behind(k, TRUE) /\ past' = trunk
              /\ made' = [made EXCEPT !.sources = @ + 1, !.checkpoints = k]
         ELSE UNCHANGED <<trunk, past, checkpoints, made>>
  /\ Cancelled("compaction") /\ UNCHANGED scene
\* Pi's own summary of the portable text, for a model that is not remote.
NativeSummary ==
  /\ op["compaction"].pc = "native" /\ made.sources < MaxSources
  /\ trunk' = Behind(0, FALSE) /\ made' = [made EXCEPT !.sources = @ + 1]
  /\ Cancelled("compaction") /\ UNCHANGED <<scene, past, checkpoints>>

-----------------------------------------------------------------------------
(* The session meanwhile. *)
Stir == made.moves < MaxMoves /\ made' = [made EXCEPT !.moves = @ + 1]
\* invalidate(): the generation of everything under way is over.
Invalidate == op' = [p \in Ops |-> [op[p] EXCEPT !.stale = TRUE, !.late = TRUE]]
\* A native entry is appended: it may be an edit of the checkpoint or of what it covers.
Appended ==
  /\ made.sources < MaxSources /\ made' = [made EXCEPT !.sources = @ + 1]
  /\ \E edit \in BOOLEAN :
       /\ edit => Data
       /\ trunk' = [trunk EXCEPT !.source = NextSource, !.intact = @ /\ ~edit]
  /\ UNCHANGED <<scene, past, checkpoints, op>>
LoginChanged ==
  /\ Stir /\ \E t \in Tokens \cup {NoLogin} : t # scene.login /\ scene' = [scene EXCEPT !.login = t]
  /\ UNCHANGED <<trunk, past, checkpoints, op>>
EndpointChanged ==
  /\ Stir /\ Remote(scene.model) /\ scene' = [scene EXCEPT !.model = IF @ = "A" THEN "A2" ELSE "A"]
  /\ UNCHANGED <<trunk, past, checkpoints, op>>
ModelSelect ==
  /\ Stir /\ \E m \in {"A", "P"} : m # scene.model /\ scene' = [scene EXCEPT !.model = m]
  /\ Invalidate /\ UNCHANGED <<trunk, past, checkpoints>>
\* Another branch of the session, with the portable summaries that are on it.
TreeNavigated ==
  /\ Stir /\ trunk' = past /\ past' = trunk /\ Invalidate /\ UNCHANGED <<scene, checkpoints>>

RemoteInit ==
  /\ scene = [model |-> "A", login |-> "a"]
  /\ trunk = [source |-> 1, checkpoint |-> 0, intact |-> FALSE, portable |-> {}] /\ past = trunk
  /\ checkpoints = [k \in CheckpointIds |-> NoCheckpoint] /\ made = [sources |-> 1, checkpoints |-> 0, moves |-> 0]
  /\ op = [p \in Ops |-> Rest]
RemoteNext ==
  \/ \E p \in Ops : PortableResolved(p) \/ PortableEnds(p)
  \/ RequestBegins \/ ContextVerified \/ ContextRefused \/ PayloadBuilt \/ PayloadConfirmed \/ Answered
  \/ CompactionBegins \/ CompactionCaptures \/ CompactionAuthenticates \/ CompactionFails \/ Published \/ NativeSummary
  \/ Appended \/ LoginChanged \/ EndpointChanged \/ ModelSelect \/ TreeNavigated
RemoteSpec == RemoteInit /\ [][RemoteNext]_remoteVars

-----------------------------------------------------------------------------
Branches == [source : 1..MaxSources, checkpoint : 0..MaxCheckpoints, intact : BOOLEAN, portable : SUBSET CheckpointIds]
RemoteTypeOK ==
  /\ scene \in [model : Models, login : Tokens \cup {NoLogin}] /\ {trunk, past} \subseteq Branches
  /\ checkpoints \in [CheckpointIds -> [model : Models, token : Tokens \cup {NoLogin}, covers : 0..MaxSources]]
  /\ made \in [sources : 1..MaxSources, checkpoints : 0..MaxCheckpoints, moves : 0..MaxMoves]
  /\ \A p \in Ops : op[p].checkpoint \in 0..MaxCheckpoints /\ op[p].model \in Models

\* What leaves for the provider belongs to the session as it is: the ciphertext only to the account
\* and the route that made it, and it, or its portable text, only with the history it stands for.
SentBelongs ==
  LET o == op'["request"]
  IN  op["request"].pc # "sent" /\ o.pc = "sent" /\ o.mode # "none" =>
        /\ trunk.checkpoint = o.checkpoint /\ trunk.intact /\ o.source = trunk.source
        /\ o.mode = "checkpoint" => Binding(o.checkpoint, scene.model, scene.login) = "valid"
        /\ o.mode = "portable" => o.checkpoint \in trunk.portable
\* A checkpoint replaces exactly the history it was made from, for the account that made it.
PublishedBelongs ==
  \A k \in CheckpointIds : checkpoints[k] # checkpoints'[k] =>
    /\ checkpoints'[k].covers = trunk.source /\ SameProvider(checkpoints'[k].token, scene.login)
\* Logins, endpoints, models and branches change under every await of a request or a compaction;
\* what is sent and what is recorded belongs together all the same.
NothingMisplaced == [][SentBelongs /\ PublishedBelongs]_remoteVars
=============================================================================
