----------------------------- MODULE ScopeIndex -----------------------------
(* One semantic search over files that are edited while it runs (semantic/src/main.rs, corpus.rs,
   source_snapshot.rs, scope_index.rs and its reuse.rs): answered from the stored index of the scope, if
   the files are still those it was built from, and else from the files, which leaves a new index.

   A text stands for a file's bytes and their digest; every file has one chunk. A look at the directory
   (rg) and a read of a file are steps of their own. What the mapped index holds may turn out corrupt at
   every use, and a stored index may be unreadable, leased out or refused admission, as IndexCache models.
   Left out: what the model and the ranking compute, binary and ignored files, and rg matches given
   besides a scope, which are checked as those given instead of one.                               *)
EXTENDS Naturals, FiniteSets

CONSTANTS
  Requests,                 \* searches that may run at a time
  FileCount, Texts, NoText,     \* files of the scope; what one may hold; absent, or not read yet
  MaxEdits, MaxRequests     \* bounds: edits of the files, searches begun
Paths == 1..FileCount
Trees == [Paths -> Texts \union {NoText}]
Nothing == [p \in Paths |-> NoText]
NoIndex == [snapshot |-> Nothing, records |-> Nothing]
FirstTree == [p \in Paths |-> CHOOSE text \in Texts : TRUE]
ASSUME ScopeAssumption == {FileCount, MaxEdits, MaxRequests} \subseteq Nat /\ NoText \notin Texts /\ Texts # {}

VARIABLES
  tree,      \* what the files hold now
  past,      \* per file, what it has held
  returned,  \* a file held again what it had held before
  edits,     \* edits so far
  index,     \* the stored index: the snapshot it was built from, the text of its records
  begun,     \* searches begun
  asked,     \* per search: see NoRequest
  trees      \* per search, every state of the files since it began

scopeVars == <<tree, past, returned, edits, index, begun, asked, trees>>

-----------------------------------------------------------------------------
Present(t) == {p \in Paths : t[p] # NoText}
Pairs(t) == {<<p, t[p]>> : p \in Present(t)}
Least(ps) == CHOOSE p \in ps : \A q \in ps : p <= q

\* search: an attempt of a request, with what search_once keeps.
NoRequest == [at |-> "idle", kind |-> "scope", attempt |-> 0,
         started |-> 0, calm |-> FALSE,   \* edits before the attempt; an earlier attempt saw none
         todo |-> {},          \* files left in this pass
         snapshot |-> Nothing, seen |-> Nothing,   \* the source snapshot, the capture that verifies it
         used |-> {},          \* texts the answer is made from
         cached |-> FALSE, previous |-> NoIndex,   \* answering from the opened index; the index at hand
         writing |-> FALSE, records |-> Nothing]   \* the transaction of a new index
Attempt(kind, n, calm) ==
  [NoRequest EXCEPT !.at = IF kind = "stdin" THEN "list" ELSE "open", !.kind = kind, !.attempt = n,
               !.started = edits, !.calm = calm]
Closed(r, status) == [NoRequest EXCEPT !.at = status, !.calm = asked[r].calm]
AnswerSearch(r) == [NoRequest EXCEPT !.at = "answered", !.kind = asked[r].kind, !.snapshot = asked[r].snapshot,
                          !.used = asked[r].used]
Searching(r) == asked[r].at \notin {"idle", "answered", "changed", "failed"}
Go(r, q) == asked' = [asked EXCEPT ![r] = q]
\* SourceChanged: the complete request is tried once more, unless the input can be read only once.
Changed(r) ==
  LET calm == asked[r].calm \/ asked[r].started = edits IN
  IF asked[r].attempt = 0 /\ asked[r].kind # "stdin" THEN Attempt(asked[r].kind, 1, calm)
  ELSE [Closed(r, "changed") EXCEPT !.calm = calm]

\* An editor, a build or git changes, creates or deletes a file.
Edit(p, text) ==
  /\ edits < MaxEdits /\ text # tree[p]
  /\ tree' = [tree EXCEPT ![p] = text]
  /\ past' = [past EXCEPT ![p] = @ \union {text}]
  /\ returned' = (returned \/ text \in past[p])
  /\ edits' = edits + 1
  /\ trees' = [r \in Requests |-> IF Searching(r) THEN trees[r] \union {tree'} ELSE trees[r]]
  /\ UNCHANGED <<index, begun, asked>>

sourceVars == <<tree, past, returned, edits>>
BeginRequest(r, kind) ==
  /\ asked[r].at = "idle" /\ begun < MaxRequests
  /\ begun' = begun + 1
  /\ Go(r, Attempt(kind, 0, FALSE))
  /\ trees' = [trees EXCEPT ![r] = {tree}]
  /\ UNCHANGED <<sourceVars, index>>
InPhase(r, at) == asked[r].at = at /\ UNCHANGED <<sourceVars, index, begun, trees>>

\* ScopeIndex::open and search. A corrupt record is a miss and ends the use of the index; so does one
\* that cannot be opened.
OpenIndex(r) ==
  /\ InPhase(r, "open")
  /\ \/ index # NoIndex /\ Go(r, [asked[r] EXCEPT !.at = "hit", !.previous = index])
     \/ Go(r, [asked[r] EXCEPT !.at = "list"])
SearchIndex(r) ==
  /\ InPhase(r, "hit")
  /\ LET held == asked[r].previous IN
     \/ Go(r, [asked[r] EXCEPT !.at = "relist", !.cached = TRUE, !.snapshot = held.snapshot,
                                 !.used = Pairs(held.records)])
     \/ Go(r, [asked[r] EXCEPT !.at = "list", !.previous = NoIndex])

\* Corpus::scan: the files of the scope, or those the given matches name, one after another.
List(r) ==
  /\ InPhase(r, "list")
  /\ \E names \in IF asked[r].kind = "stdin" THEN SUBSET Present(tree) ELSE {Present(tree)} :
       Go(r, [asked[r] EXCEPT !.at = "scan", !.snapshot = Nothing, !.todo = names])
ReadFile(r) ==
  /\ InPhase(r, "scan") /\ asked[r].todo # {}
  /\ LET p == Least(asked[r].todo) IN
     Go(r, IF tree[p] # NoText
           THEN [asked[r] EXCEPT !.snapshot[p] = tree[p], !.todo = @ \ {p}]
           ELSE IF asked[r].kind = "stdin" THEN Closed(r, "failed") ELSE Changed(r))
\* ScopeIndexWriter::begin and reuse_unchanged_records; an empty corpus stores nothing.
BeginScoring(r) ==
  /\ InPhase(r, "scan") /\ asked[r].todo = {}
  /\ IF asked[r].snapshot = Nothing THEN Go(r, [asked[r] EXCEPT !.at = "relist", !.previous = NoIndex])
     ELSE \E admitted \in IF asked[r].kind = "stdin" THEN {FALSE} ELSE BOOLEAN,
             previous \in {asked[r].previous, NoIndex} :
            Go(r, [asked[r] EXCEPT !.at = "score", !.todo = Present(asked[r].snapshot),
                                     !.previous = previous, !.writing = admitted])

\* ChunkReader: a file that is read again must still be the one the snapshot names.
TrustsTheScan(r, p) == tree[p] # NoText   \* mutant: a second read is not compared
Unchanged(r, p) == tree[p] = asked[r].snapshot[p]
\* UnchangedRecords: of files with the same digest, and of the same content.
ReusesByPath(r, p) == asked[r].previous.snapshot[p] # NoText   \* mutant: the name is enough
SameRecord(r, p) ==
  /\ asked[r].previous.snapshot[p] = asked[r].snapshot[p]
  /\ asked[r].previous.records[p] = tree[p]
\* A record that cannot be written gives the index up; scoring goes on.
FailureKeepsOutput(r, p, text, written) ==   \* mutant: the failed record is left out of the index
  IF written THEN [asked[r] EXCEPT !.records[p] = text] ELSE asked[r]
AfterRecord(r, p, text, written) ==
  IF asked[r].writing /\ written THEN [asked[r] EXCEPT !.records[p] = text]
  ELSE [asked[r] EXCEPT !.records = Nothing, !.writing = FALSE]
ScoreChunk(r) ==
  /\ InPhase(r, "score") /\ asked[r].todo # {}
  /\ LET p == Least(asked[r].todo)
         text == IF SameRecord(r, p) THEN asked[r].previous.records[p] ELSE tree[p] IN
     IF ~Unchanged(r, p) THEN Go(r, Changed(r))
     ELSE \E written \in BOOLEAN :
            Go(r, [AfterRecord(r, p, text, written) EXCEPT !.todo = @ \ {p}, !.used = @ \union {<<p, text>>}])
\* rank reads the best chunks once more.
Rank(r) ==
  /\ InPhase(r, "score") /\ asked[r].todo = {}
  /\ \E best \in SUBSET Present(asked[r].snapshot) :
       IF \A p \in best : Unchanged(r, p)
       THEN Go(r, [asked[r] EXCEPT !.at = "relist", !.used = @ \union {<<p, tree[p]>> : p \in best}])
       ELSE Go(r, Changed(r))

\* SourceSnapshot::verify: a complete new capture, whose files may be read in parallel; verify_provided
\* reads the files that were given.
VerifiesWhatItHas(r) == Present(asked[r].snapshot)   \* mutant: new files go unnoticed
ToVerify(r) == IF asked[r].kind = "stdin" THEN Present(asked[r].snapshot) ELSE Present(tree)
Relist(r) ==
  /\ InPhase(r, "relist")
  /\ Go(r, [asked[r] EXCEPT !.at = "verify", !.seen = Nothing, !.todo = ToVerify(r)])
\* A hit that is out of date is a miss, and its records may be reused.
StaleIsAnError(r) == Changed(r)   \* mutant
Stale(r) ==
  IF asked[r].cached THEN [asked[r] EXCEPT !.at = "list", !.cached = FALSE, !.used = {}, !.seen = Nothing, !.todo = {}]
  ELSE Changed(r)
VerifyFile(r, p) ==
  /\ InPhase(r, "verify") /\ p \in asked[r].todo
  /\ Go(r, IF tree[p] = NoText THEN Stale(r)
           ELSE [asked[r] EXCEPT !.seen[p] = tree[p], !.todo = @ \ {p}])
SkipsVerification(r) == TRUE   \* mutant
Matches(r) == asked[r].seen = asked[r].snapshot
VerifyDone(r) ==
  /\ InPhase(r, "verify") /\ asked[r].todo = {}
  /\ Go(r, IF ~Matches(r) THEN Stale(r)
           ELSE IF asked[r].cached THEN AnswerSearch(r) ELSE [asked[r] EXCEPT !.at = "finish"])
\* finish and publish; the answer does not depend on it.
FinishIndex(r) ==
  /\ asked[r].at = "finish"
  /\ \/ asked[r].writing /\ index' = [snapshot |-> asked[r].snapshot, records |-> asked[r].records]
     \/ UNCHANGED index
  /\ Go(r, AnswerSearch(r))
  /\ UNCHANGED <<sourceVars, begun, trees>>
\* Cancelled, out of time, or an error that is none of the above.
Fail(r) ==
  /\ Searching(r)
  /\ Go(r, Closed(r, "failed"))
  /\ UNCHANGED <<sourceVars, index, begun, trees>>
HandOver(r) ==   \* the caller has its answer
  /\ asked[r].at \in {"answered", "changed", "failed"}
  /\ Go(r, NoRequest)
  /\ trees' = [trees EXCEPT ![r] = {}]
  /\ UNCHANGED <<sourceVars, index, begun>>

ScopeInit ==
  /\ tree = FirstTree /\ past = [p \in Paths |-> {FirstTree[p]}] /\ returned = FALSE /\ edits = 0
  /\ index = NoIndex /\ begun = 0
  /\ asked = [r \in Requests |-> NoRequest] /\ trees = [r \in Requests |-> {}]
ScopeNext ==
  \/ \E p \in Paths, text \in Texts \union {NoText} : Edit(p, text)
  \/ \E r \in Requests, kind \in {"scope", "stdin"} : BeginRequest(r, kind)
  \/ \E r \in Requests : OpenIndex(r)
  \/ \E r \in Requests : SearchIndex(r)
  \/ \E r \in Requests : List(r)
  \/ \E r \in Requests : ReadFile(r)
  \/ \E r \in Requests : BeginScoring(r)
  \/ \E r \in Requests : ScoreChunk(r)
  \/ \E r \in Requests : Rank(r)
  \/ \E r \in Requests : Relist(r)
  \/ \E r \in Requests, p \in Paths : VerifyFile(r, p)
  \/ \E r \in Requests : VerifyDone(r)
  \/ \E r \in Requests : FinishIndex(r)
  \/ \E r \in Requests : Fail(r)
  \/ \E r \in Requests : HandOver(r)
ScopeSpec == ScopeInit /\ [][ScopeNext]_scopeVars

-----------------------------------------------------------------------------
IndexType == [snapshot : Trees, records : Trees]
RequestType == [at : {"idle", "open", "hit", "list", "scan", "score", "relist", "verify", "finish", "answered",
                      "changed", "failed"},
                kind : {"scope", "stdin"}, attempt : 0..1, started : 0..MaxEdits, calm : BOOLEAN,
                todo : SUBSET Paths, snapshot : Trees, seen : Trees, used : SUBSET (Paths \X Texts),
                cached : BOOLEAN, previous : IndexType, writing : BOOLEAN, records : Trees]
ScopeTypeOK ==
  /\ tree \in Trees /\ past \in [Paths -> SUBSET (Texts \union {NoText})] /\ returned \in BOOLEAN
  /\ edits \in 0..MaxEdits /\ begun \in 0..MaxRequests
  /\ index \in IndexType
  /\ asked \in [Requests -> RequestType] /\ trees \in [Requests -> SUBSET Trees]

\* An answer is made from the texts its snapshot names, and from all of them, whether they came from an
\* index, from records reused or from the files; each file held that text while the request ran, and
\* unless a file ever returned to what it had held before, all files held them at one instant of it.
AskedFor(r) == IF asked[r].kind = "stdin" THEN Present(asked[r].snapshot) ELSE Paths
AnswerIsOneState ==
  \A r \in Requests : asked[r].at = "answered" =>
    /\ asked[r].used = Pairs(asked[r].snapshot)
    /\ \A p \in AskedFor(r) : \E t \in trees[r] : t[p] = asked[r].snapshot[p]
    /\ returned \/ \E t \in trees[r] : \A p \in AskedFor(r) : t[p] = asked[r].snapshot[p]
\* A request is refused as changed only if the files were edited during each of its attempts.
RefusalIsEarned == \A r \in Requests : asked[r].at = "changed" => ~asked[r].calm
\* The stored index has a record of every file of its snapshot, with the text it had.
IndexIsComplete == index.records = index.snapshot
\* Searches over files that change (main.rs, corpus.rs, source_snapshot.rs): every answer reflects the
\* files at one instant of the request, a refusal is earned, and what is stored is complete.
ScopeSound ==
  /\ AnswerIsOneState
  /\ RefusalIsEarned
  /\ IndexIsComplete
=============================================================================
