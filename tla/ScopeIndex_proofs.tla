-------------------------- MODULE ScopeIndex_proofs --------------------------
(* Every answer of a semantic search is one state of the files, a refusal is earned and the stored
   index is complete, for any files, texts, edits and searches.

   The inductive invariant says, of every search that runs, what it may rely on in its phase: what
   its snapshot has of the files' past, what its output and its records have of the snapshot, what
   a quiet attempt (no edit since it began) knows of the files, and, while it verifies, the tree at
   the start of the verification, which the answer reflects.                                     *)
EXTENDS ScopeIndex, WellFoundedInduction, TLAPS

Early == {"open", "hit", "list", "scan"}
Late == {"relist", "verify", "finish"}
(* AskedFor, of a search as it is. *)
Wanted(q) == IF q.kind = "stdin" THEN Present(q.snapshot) ELSE Paths

(* An attempt sees the files from its start on; no earlier one was quiet. *)
Started(q, ts) ==
  q.at \in Early \cup {"score"} \cup Late => tree \in ts /\ q.started <= edits /\ ~ q.calm
(* Which phases use the stored index, and which write a new one. *)
HoldsIndex(q) ==
  /\ q.at \in Early => ~ q.cached /\ ~ q.writing /\ q.used = {} /\ q.records = Nothing
  /\ q.at = "score" => ~ q.cached
  /\ q.cached => ~ q.writing /\ q.records = Nothing
  /\ q.at \in {"open", "hit"} \/ q.cached \/ q.writing => q.kind = "scope"
  /\ q.at = "hit" => /\ q.previous.records = q.previous.snapshot
                     /\ \A p \in Paths : q.previous.snapshot[p] \in past[p]
(* What the files are, if nothing was edited since the attempt began. *)
SameFile(q, p) == q.snapshot[p] = tree[p] \/ (q.kind = "stdin" /\ q.snapshot[p] = NoText)
Quiet(q) ==
  q.started = edits =>
    /\ q.at = "scan" => \A p \in Paths : IF p \in q.todo THEN tree[p] # NoText ELSE SameFile(q, p)
    /\ q.at \in {"score", "relist", "verify"} /\ ~ q.cached => \A p \in Paths : SameFile(q, p)
    /\ q.at = "verify" /\ ~ q.cached =>
         \A p \in Paths : IF p \in q.todo THEN q.snapshot[p] # NoText ELSE q.seen[p] = q.snapshot[p]
(* The output and the records are made from the snapshot, file after file. *)
Done(q) == Present(q.snapshot) \ q.todo
MadeFromSnapshot(q) ==
  /\ q.at = "score" =>
       /\ q.todo \subseteq Present(q.snapshot)
       /\ q.used = {<<p, q.snapshot[p]>> : p \in Done(q)}
       /\ q.writing => \A p \in Paths : q.records[p] = IF p \in Done(q) THEN q.snapshot[p] ELSE NoText
  /\ q.at \in Late \cup {"answered"} => q.used = Pairs(q.snapshot)
  /\ q.at \in Late /\ q.writing => q.records = q.snapshot
(* The snapshot has what the files held at some time. *)
FromThePast(q) ==
  /\ q.at = "scan" => \A p \in Wanted(q) \ q.todo : q.snapshot[p] \in past[p]
  /\ q.at \in {"score"} \cup Late => \A p \in Wanted(q) : q.snapshot[p] \in past[p]
(* The verification: t is the tree when it began.  A file that differed from the snapshot then is
   found to differ, unless it returned to what it had held. *)
Verifies(q, ts) ==
  q.at = "verify" =>
    /\ \A p \in Wanted(q) \ q.todo : \E t \in ts : t[p] = q.seen[p]
    /\ returned \/ \E t \in ts : \A p \in Wanted(q) :
         \/ t[p] = q.snapshot[p]
         \/ IF p \in q.todo THEN tree[p] # q.snapshot[p] ELSE q.seen[p] # q.snapshot[p]
OneState(q, ts) ==
  /\ \A p \in Wanted(q) : \E t \in ts : t[p] = q.snapshot[p]
  /\ returned \/ \E t \in ts : \A p \in Wanted(q) : t[p] = q.snapshot[p]
Answers(q, ts) == q.at \in {"finish", "answered"} => OneState(q, ts)
Earned(q) == q.at = "changed" => ~ q.calm

SearchFits(q, ts) ==
  /\ Started(q, ts) /\ HoldsIndex(q) /\ Quiet(q) /\ MadeFromSnapshot(q) /\ FromThePast(q)
  /\ Verifies(q, ts) /\ Answers(q, ts) /\ Earned(q)
IndexFits == index = NoIndex \/ \A p \in Paths : index.snapshot[p] \in past[p]
ScopeInv ==
  /\ ScopeTypeOK /\ IndexIsComplete /\ IndexFits
  /\ \A p \in Paths : tree[p] \in past[p]
  /\ \A r \in Requests : SearchFits(asked[r], trees[r])

-----------------------------------------------------------------------------
LEMMA NothingIsATree == Nothing \in Trees /\ NoIndex \in IndexType
BY DEF Nothing, Trees, NoIndex, IndexType

LEMMA NoRequestIsARequest == NoRequest \in RequestType
BY NothingIsATree, ScopeAssumption DEF NoRequest, RequestType

(* The file read next is one of those left. *)
LEMMA LeastIsLeft ==
  ASSUME NEW S, S \subseteq Paths, S # {}
  PROVE  Least(S) \in S
<1>1. S \subseteq Nat
  BY ScopeAssumption DEF Paths
<1>2. PICK x \in S : \A y \in S : ~ (<<y, x>> \in OpToRel(<, Nat))
  BY <1>1, NatLessThanWellFounded, WFMin
<1>3. ASSUME NEW y \in S
      PROVE  x <= y
  <2>1. y < x => <<y, x>> \in OpToRel(<, Nat)
    BY <1>1 DEF OpToRel
  <2>2. ~ (y < x)
    BY <1>2, <2>1, Zenon
  <2> QED
    BY <1>1, <2>2
<1> QED
  BY <1>3 DEF Least

(* A step of one search that changes nothing else keeps the invariant, if what the search
   becomes fits. *)
LEMMA SearchStepFits ==
  ASSUME ScopeInv, NEW r \in Requests, NEW q \in RequestType, Go(r, q),
         UNCHANGED <<sourceVars, index, begun, trees>>, SearchFits(q, trees[r])
  PROVE  ScopeInv'
<1>1. /\ asked'[r] = q /\ \A s \in Requests : s # r => asked'[s] = asked[s]
      /\ asked' \in [Requests -> RequestType]
  BY DEF Go, ScopeInv, ScopeTypeOK
<1>2. ScopeTypeOK' /\ IndexIsComplete' /\ IndexFits' /\ \A p \in Paths : (tree[p] \in past[p])'
  BY <1>1 DEF ScopeInv, ScopeTypeOK, IndexIsComplete, IndexFits, sourceVars
<1>3. ASSUME NEW s \in Requests
      PROVE  SearchFits(asked[s], trees[s])'
  <2>1. SearchFits(asked'[s], trees[s])
    BY <1>1 DEF ScopeInv
  <2> QED
    BY <2>1 DEF SearchFits, Started, HoldsIndex, Quiet, SameFile, MadeFromSnapshot, FromThePast,
       Verifies, OneState, Answers, Earned, Wanted, sourceVars
<1> QED
  BY <1>2, <1>3 DEF ScopeInv

(* An attempt begins with nothing. *)
LEMMA AttemptFits ==
  ASSUME ScopeInv, NEW ts \in SUBSET Trees, tree \in ts,
         NEW kind \in {"scope", "stdin"}, NEW n \in 0..1
  PROVE  Attempt(kind, n, FALSE) \in RequestType /\ SearchFits(Attempt(kind, n, FALSE), ts)
<1> DEFINE q == Attempt(kind, n, FALSE)
<1>1. q \in RequestType
  BY ZenonT(40), NoRequestIsARequest DEF Attempt, ScopeInv, ScopeTypeOK, RequestType
<1>2. /\ q.at = IF kind = "stdin" THEN "list" ELSE "open"
      /\ q.kind = kind /\ q.started = edits /\ q.calm = FALSE /\ q.used = {}
      /\ q.cached = FALSE /\ q.writing = FALSE /\ q.records = Nothing
  BY DEF Attempt, NoRequest
<1>3. edits <= edits
  BY ScopeAssumption DEF ScopeInv, ScopeTypeOK
<1> QED
  BY <1>1, <1>2, <1>3 DEF SearchFits, Started, HoldsIndex, Quiet, MadeFromSnapshot, FromThePast,
     Verifies, Answers, Earned, Early, Late

(* A search that failed has nothing to answer for. *)
LEMMA ClosedFits ==
  ASSUME ScopeInv, NEW r \in Requests
  PROVE  /\ Closed(r, "failed") \in RequestType
         /\ SearchFits(Closed(r, "failed"), trees[r])
<1> DEFINE q == Closed(r, "failed")
<1>1. q \in RequestType
  BY NoRequestIsARequest DEF Closed, ScopeInv, ScopeTypeOK, RequestType
<1>2. q.at = "failed" /\ q.cached = FALSE /\ q.writing = FALSE
  BY DEF Closed, NoRequest
<1> QED
  BY <1>1, <1>2 DEF SearchFits, Started, HoldsIndex, Quiet, MadeFromSnapshot, FromThePast,
     Verifies, Answers, Earned, Early, Late

(* An attempt that was not quiet is repeated, or refused with reason. *)
LEMMA ChangedFits ==
  ASSUME ScopeInv, NEW r \in Requests, asked[r].at \in Early \cup {"score"} \cup Late,
         asked[r].started # edits
  PROVE  Changed(r) \in RequestType /\ SearchFits(Changed(r), trees[r])
<1>1. asked[r] \in RequestType /\ trees[r] \in SUBSET Trees
  BY DEF ScopeInv, ScopeTypeOK
<1>2. tree \in trees[r] /\ asked[r].calm = FALSE
  BY <1>1 DEF ScopeInv, SearchFits, Started, RequestType
<1>3. CASE asked[r].attempt = 0 /\ asked[r].kind # "stdin"
  <2>1. Changed(r) = Attempt(asked[r].kind, 1, FALSE)
    BY <1>2, <1>3 DEF Changed
  <2>2. asked[r].kind \in {"scope", "stdin"} /\ 1 \in 0..1
    BY <1>1 DEF RequestType
  <2> QED
    BY <1>1, <1>2, <2>1, <2>2, AttemptFits
<1>4. CASE ~ (asked[r].attempt = 0 /\ asked[r].kind # "stdin")
  <2> DEFINE q == [Closed(r, "changed") EXCEPT !.calm = FALSE]
  <2>1. Changed(r) = q
    BY <1>2, <1>4 DEF Changed
  <2>2. q \in RequestType
    BY NoRequestIsARequest, <1>1 DEF Closed, RequestType
  <2>3. q.at = "changed" /\ q.cached = FALSE /\ q.writing = FALSE /\ q.calm = FALSE
    BY DEF Closed, NoRequest
  <2> HIDE DEF q
  <2> QED
    BY <2>1, <2>2, <2>3 DEF SearchFits, Started, HoldsIndex, Quiet, MadeFromSnapshot, FromThePast,
       Verifies, Answers, Earned, Early, Late
<1> QED
  BY <1>3, <1>4

(* A search whose answer is one state of the files is answered. *)
LEMMA AnswerFits ==
  ASSUME ScopeInv, NEW r \in Requests, OneState(asked[r], trees[r]),
         asked[r].used = Pairs(asked[r].snapshot)
  PROVE  AnswerSearch(r) \in RequestType /\ SearchFits(AnswerSearch(r), trees[r])
<1> DEFINE q == AnswerSearch(r)
<1>1. asked[r] \in RequestType
  BY DEF ScopeInv, ScopeTypeOK
<1>2. q \in RequestType
  BY NoRequestIsARequest, <1>1 DEF AnswerSearch, RequestType
<1>3. /\ q.at = "answered" /\ q.kind = asked[r].kind /\ q.snapshot = asked[r].snapshot
      /\ q.used = asked[r].used /\ q.cached = FALSE /\ q.writing = FALSE
  BY DEF AnswerSearch, NoRequest
<1>4. OneState(q, trees[r])
  BY <1>3 DEF OneState, Wanted
<1> QED
  BY <1>2, <1>3, <1>4 DEF SearchFits, Started, HoldsIndex, Quiet, MadeFromSnapshot, FromThePast,
     Verifies, Answers, Earned, Early, Late

-----------------------------------------------------------------------------
(* What a search that runs may rely on, from the invariant. *)
LEMMA SearchFacts ==
  ASSUME ScopeInv, NEW r \in Requests
  PROVE  /\ asked[r] \in RequestType /\ trees[r] \in SUBSET Trees
         /\ SearchFits(asked[r], trees[r]) /\ tree \in Trees
BY DEF ScopeInv, ScopeTypeOK

(* The stored index is opened, or the files are listed. *)
LEMMA OpenIndexFits ==
  ASSUME ScopeInv, NEW r \in Requests, OpenIndex(r)
  PROVE  ScopeInv'
<1> DEFINE q == asked[r]
<1>0. q \in RequestType /\ q.at = "open" /\ SearchFits(q, trees[r])
  BY SearchFacts DEF OpenIndex, InPhase
<1>1. q.kind = "scope" /\ Started(q, trees[r]) /\ HoldsIndex(q)
  BY <1>0 DEF SearchFits, HoldsIndex
<1>2. CASE index # NoIndex /\ Go(r, [q EXCEPT !.at = "hit", !.previous = index])
  <2> DEFINE n == [q EXCEPT !.at = "hit", !.previous = index]
  <2>1. n \in RequestType
    BY <1>0 DEF RequestType, ScopeInv, ScopeTypeOK
  <2>2. /\ n.at = "hit" /\ n.previous = index /\ n.kind = "scope" /\ n.started = q.started
        /\ n.calm = q.calm /\ n.cached = q.cached /\ n.writing = q.writing /\ n.used = q.used
        /\ n.records = q.records
    BY <1>0, <1>1 DEF RequestType
  <2>3. index.records = index.snapshot /\ \A p \in Paths : index.snapshot[p] \in past[p]
    BY <1>2 DEF ScopeInv, IndexFits, IndexIsComplete
  <2> HIDE DEF n
  <2>4. SearchFits(n, trees[r])
    BY <1>0, <1>1, <2>2, <2>3 DEF SearchFits, Started, HoldsIndex, Quiet, MadeFromSnapshot,
       FromThePast, Verifies, Answers, Earned, Early, Late
  <2> QED
    BY <1>2, <2>1, <2>4, SearchStepFits DEF OpenIndex, InPhase, n
<1>3. CASE Go(r, [q EXCEPT !.at = "list"])
  <2> DEFINE n == [q EXCEPT !.at = "list"]
  <2>1. n \in RequestType
    BY <1>0 DEF RequestType
  <2>2. /\ n.at = "list" /\ n.kind = "scope" /\ n.started = q.started /\ n.calm = q.calm
        /\ n.cached = q.cached /\ n.writing = q.writing /\ n.used = q.used /\ n.records = q.records
    BY <1>0, <1>1 DEF RequestType
  <2> HIDE DEF n
  <2>3. SearchFits(n, trees[r])
    BY <1>0, <1>1, <2>2 DEF SearchFits, Started, HoldsIndex, Quiet, MadeFromSnapshot,
       FromThePast, Verifies, Answers, Earned, Early, Late
  <2> QED
    BY <1>3, <2>1, <2>3, SearchStepFits DEF OpenIndex, InPhase, n
<1> QED
  BY <1>2, <1>3 DEF OpenIndex

(* The answer is made from the opened index, or a corrupt record ends its use. *)
LEMMA SearchIndexFits ==
  ASSUME ScopeInv, NEW r \in Requests, SearchIndex(r)
  PROVE  ScopeInv'
<1> DEFINE q == asked[r]
           held == q.previous
<1>0. q \in RequestType /\ q.at = "hit" /\ SearchFits(q, trees[r])
  BY SearchFacts DEF SearchIndex, InPhase
<1>1. /\ q.kind = "scope" /\ Started(q, trees[r]) /\ q.writing = FALSE /\ q.cached = FALSE
      /\ held.records = held.snapshot /\ \A p \in Paths : held.snapshot[p] \in past[p]
      /\ q.used = {} /\ q.records = Nothing
      /\ held \in IndexType
  BY <1>0 DEF SearchFits, HoldsIndex, RequestType, Early
<1>2. CASE Go(r, [q EXCEPT !.at = "relist", !.cached = TRUE, !.snapshot = held.snapshot,
                           !.used = Pairs(held.records)])
  <2> DEFINE n == [q EXCEPT !.at = "relist", !.cached = TRUE, !.snapshot = held.snapshot,
                            !.used = Pairs(held.records)]
  <2>1. n \in RequestType
    <3>1. Pairs(held.records) \in SUBSET (Paths \X Texts) /\ held.snapshot \in Trees
      BY <1>1 DEF Pairs, Present, IndexType, Trees
    <3> QED
      BY <1>0, <3>1 DEF RequestType
  <2>2. /\ n.at = "relist" /\ n.kind = "scope" /\ n.started = q.started /\ n.calm = q.calm
        /\ n.cached = TRUE /\ n.writing = FALSE /\ n.used = Pairs(held.snapshot)
        /\ n.snapshot = held.snapshot /\ n.records = Nothing
    BY <1>0, <1>1 DEF RequestType
  <2> HIDE DEF n
  <2>3. SearchFits(n, trees[r])
    BY <1>0, <1>1, <2>2 DEF SearchFits, Started, HoldsIndex, Quiet, MadeFromSnapshot,
       FromThePast, Verifies, Answers, Earned, Early, Late, Wanted
  <2> QED
    BY <1>2, <2>1, <2>3, SearchStepFits DEF SearchIndex, InPhase, n
<1>3. CASE Go(r, [q EXCEPT !.at = "list", !.previous = NoIndex])
  <2> DEFINE n == [q EXCEPT !.at = "list", !.previous = NoIndex]
  <2>1. n \in RequestType
    BY <1>0, NothingIsATree DEF RequestType
  <2>2. /\ n.at = "list" /\ n.kind = "scope" /\ n.started = q.started /\ n.calm = q.calm
        /\ n.cached = FALSE /\ n.writing = FALSE /\ n.used = {} /\ n.records = Nothing
    BY <1>0, <1>1 DEF RequestType
  <2> HIDE DEF n
  <2>3. SearchFits(n, trees[r])
    BY <1>0, <1>1, <2>2 DEF SearchFits, Started, HoldsIndex, Quiet, MadeFromSnapshot,
       FromThePast, Verifies, Answers, Earned, Early, Late
  <2> QED
    BY <1>3, <2>1, <2>3, SearchStepFits DEF SearchIndex, InPhase, n
<1> QED
  BY <1>2, <1>3 DEF SearchIndex

(* The files of the scope, or those the given matches name, are listed. *)
LEMMA ListFits ==
  ASSUME ScopeInv, NEW r \in Requests, List(r)
  PROVE  ScopeInv'
<1> DEFINE q == asked[r]
<1>0. q \in RequestType /\ q.at = "list" /\ SearchFits(q, trees[r]) /\ tree \in Trees
  BY SearchFacts DEF List, InPhase
<1>1. /\ Started(q, trees[r]) /\ q.writing = FALSE /\ q.cached = FALSE /\ q.used = {}
      /\ q.records = Nothing /\ q.kind \in {"scope", "stdin"}
  BY <1>0 DEF SearchFits, HoldsIndex, RequestType, Early
<1>2. PICK names \in IF q.kind = "stdin" THEN SUBSET Present(tree) ELSE {Present(tree)} :
        Go(r, [q EXCEPT !.at = "scan", !.snapshot = Nothing, !.todo = names])
  BY DEF List
<1> DEFINE n == [q EXCEPT !.at = "scan", !.snapshot = Nothing, !.todo = names]
<1>3. names \in SUBSET Paths /\ names \subseteq Present(tree) /\ (q.kind = "scope" => names = Present(tree))
  BY <1>2 DEF Present
<1>4. n \in RequestType
  BY <1>0, <1>3, NothingIsATree DEF RequestType
<1>5. /\ n.at = "scan" /\ n.kind = q.kind /\ n.started = q.started /\ n.calm = q.calm
      /\ n.cached = FALSE /\ n.writing = FALSE /\ n.used = {} /\ n.records = Nothing
      /\ n.snapshot = Nothing /\ n.todo = names
  BY <1>0, <1>1 DEF RequestType
<1> HIDE DEF n
<1>6. \A p \in Paths : n.snapshot[p] = NoText
  BY <1>5 DEF Nothing
<1>7. Quiet(n)
  BY <1>1, <1>3, <1>5, <1>6 DEF Quiet, SameFile, Present
<1>8. FromThePast(n)
  <2> SUFFICES ASSUME NEW p \in Wanted(n) \ names
               PROVE  NoText \in past[p]
    BY <1>5, <1>6 DEF FromThePast, Late, Wanted, Present
  <2>1. q.kind = "scope" /\ p \in Paths /\ tree[p] = NoText
    BY <1>1, <1>3, <1>5, <1>6 DEF Wanted, Present
  <2> QED
    BY <2>1 DEF ScopeInv
<1>9. SearchFits(n, trees[r])
  BY <1>0, <1>1, <1>5, <1>7, <1>8 DEF SearchFits, Started, HoldsIndex, MadeFromSnapshot,
     Verifies, Answers, Earned, Early, Late
<1> QED
  BY <1>2, <1>4, <1>9, SearchStepFits DEF List, InPhase, n

(* A listed file is read, or it is gone. *)
LEMMA ReadFileFits ==
  ASSUME ScopeInv, NEW r \in Requests, ReadFile(r)
  PROVE  ScopeInv'
<1> DEFINE q == asked[r]
           p == Least(q.todo)
<1>0. q \in RequestType /\ q.at = "scan" /\ SearchFits(q, trees[r]) /\ tree \in Trees
  BY SearchFacts DEF ReadFile, InPhase
<1>1. /\ Started(q, trees[r]) /\ q.writing = FALSE /\ q.cached = FALSE /\ q.used = {}
      /\ q.records = Nothing /\ q.kind \in {"scope", "stdin"}
  BY <1>0 DEF SearchFits, HoldsIndex, RequestType, Early
<1>2. p \in q.todo /\ p \in Paths
  BY <1>0, LeastIsLeft DEF ReadFile, RequestType
<1>3. UNCHANGED <<sourceVars, index, begun, trees>>
  BY DEF ReadFile, InPhase
<1>4. CASE tree[p] # NoText
  <2> DEFINE n == [q EXCEPT !.snapshot[p] = tree[p], !.todo = @ \ {p}]
  <2>1. Go(r, n)
    BY <1>4 DEF ReadFile
  <2>2. [q.snapshot EXCEPT ![p] = tree[p]] \in Trees
    BY <1>0, <1>2 DEF RequestType, Trees
  <2>3. n = [q EXCEPT !.snapshot = [q.snapshot EXCEPT ![p] = tree[p]], !.todo = q.todo \ {p}]
    BY <1>0 DEF RequestType
  <2>4. n \in RequestType
    BY <1>0, <2>2, <2>3 DEF RequestType
  <2>5. /\ n.at = "scan" /\ n.kind = q.kind /\ n.started = q.started /\ n.calm = q.calm
        /\ n.cached = FALSE /\ n.writing = FALSE /\ n.used = {} /\ n.records = Nothing
        /\ n.snapshot = [q.snapshot EXCEPT ![p] = tree[p]] /\ n.todo = q.todo \ {p}
    BY <1>0, <1>1, <2>3 DEF RequestType
  <2> HIDE DEF n
  <2>6. n.snapshot[p] = tree[p] /\ \A s \in Paths : s # p => n.snapshot[s] = q.snapshot[s]
    BY <1>0, <1>2, <2>5 DEF RequestType, Trees
  <2>7. Quiet(n)
    BY <1>0, <1>2, <2>5, <2>6 DEF Quiet, SameFile, SearchFits
  <2>8. FromThePast(n)
    BY <1>0, <1>2, <2>5, <2>6 DEF FromThePast, Wanted, Present, SearchFits, ScopeInv, Late
  <2>9. SearchFits(n, trees[r])
    BY <1>0, <1>1, <2>5, <2>7, <2>8 DEF SearchFits, Started, HoldsIndex, MadeFromSnapshot,
       Verifies, Answers, Earned, Early, Late
  <2> QED
    BY <1>3, <2>1, <2>4, <2>9, SearchStepFits
<1>5. CASE tree[p] = NoText /\ q.kind = "stdin"
  <2>1. Go(r, Closed(r, "failed"))
    BY <1>5 DEF ReadFile
  <2> QED
    BY <1>3, <2>1, ClosedFits, SearchStepFits
<1>6. CASE tree[p] = NoText /\ q.kind # "stdin"
  <2>1. Go(r, Changed(r))
    BY <1>6 DEF ReadFile
  <2>2. q.started # edits
    BY <1>0, <1>2, <1>6 DEF SearchFits, Quiet
  <2> QED
    BY <1>0, <1>3, <2>1, <2>2, ChangedFits, SearchStepFits DEF Early
<1> QED
  BY <1>4, <1>5, <1>6

(* Scoring begins; an empty corpus goes to its verification. *)
LEMMA BeginScoringFits ==
  ASSUME ScopeInv, NEW r \in Requests, BeginScoring(r)
  PROVE  ScopeInv'
<1> DEFINE q == asked[r]
<1>0. q \in RequestType /\ q.at = "scan" /\ SearchFits(q, trees[r]) /\ tree \in Trees
  BY SearchFacts DEF BeginScoring, InPhase
<1>1. /\ Started(q, trees[r]) /\ q.writing = FALSE /\ q.cached = FALSE /\ q.used = {}
      /\ q.records = Nothing /\ q.kind \in {"scope", "stdin"} /\ q.todo = {}
  BY <1>0 DEF SearchFits, HoldsIndex, RequestType, Early, BeginScoring
<1>2. UNCHANGED <<sourceVars, index, begun, trees>>
  BY DEF BeginScoring, InPhase
<1>3. /\ q.started = edits => \A p \in Paths : SameFile(q, p)
      /\ \A p \in Wanted(q) : q.snapshot[p] \in past[p]
  BY <1>0, <1>1 DEF SearchFits, Quiet, FromThePast
<1>4. CASE q.snapshot = Nothing
  <2> DEFINE n == [q EXCEPT !.at = "relist", !.previous = NoIndex]
  <2>1. n \in RequestType
    BY <1>0, NothingIsATree DEF RequestType
  <2>2. /\ n.at = "relist" /\ n.kind = q.kind /\ n.started = q.started /\ n.calm = q.calm
        /\ n.cached = FALSE /\ n.writing = FALSE /\ n.used = {} /\ n.snapshot = q.snapshot
    BY <1>0, <1>1 DEF RequestType
  <2> HIDE DEF n
  <2>3. Pairs(n.snapshot) = {}
    BY <1>4, <2>2 DEF Pairs, Present, Nothing
  <2>4. Quiet(n) /\ FromThePast(n)
    BY <1>3, <2>2 DEF Quiet, SameFile, FromThePast, Wanted, Late
  <2>5. SearchFits(n, trees[r])
    BY <1>1, <2>2, <2>3, <2>4 DEF SearchFits, Started, HoldsIndex, MadeFromSnapshot,
       Verifies, Answers, Earned, Early, Late
  <2> QED
    BY <1>2, <1>4, <2>1, <2>5, SearchStepFits DEF BeginScoring, n
<1>5. CASE q.snapshot # Nothing
  <2>1. PICK admitted \in IF q.kind = "stdin" THEN {FALSE} ELSE BOOLEAN,
             previous \in {q.previous, NoIndex} :
          Go(r, [q EXCEPT !.at = "score", !.todo = Present(q.snapshot), !.previous = previous,
                          !.writing = admitted])
    BY <1>5 DEF BeginScoring
  <2> DEFINE n == [q EXCEPT !.at = "score", !.todo = Present(q.snapshot), !.previous = previous,
                            !.writing = admitted]
  <2>2. /\ previous \in IndexType /\ admitted \in BOOLEAN /\ (admitted => q.kind = "scope")
        /\ Present(q.snapshot) \in SUBSET Paths
    BY <1>0, <1>1, <2>1, NothingIsATree DEF RequestType, Present
  <2>3. n \in RequestType
    BY <1>0, <2>2 DEF RequestType
  <2>4. /\ n.at = "score" /\ n.kind = q.kind /\ n.started = q.started /\ n.calm = q.calm
        /\ n.cached = FALSE /\ n.writing = admitted /\ n.used = {} /\ n.snapshot = q.snapshot
        /\ n.records = Nothing /\ n.todo = Present(q.snapshot)
    BY <1>0, <1>1 DEF RequestType
  <2> HIDE DEF n
  <2>5. Quiet(n) /\ FromThePast(n)
    BY <1>3, <2>4 DEF Quiet, SameFile, FromThePast, Wanted, Late
  <2>6. MadeFromSnapshot(n)
    BY <2>4 DEF MadeFromSnapshot, Done, Nothing, Late
  <2>7. Started(n, trees[r]) /\ HoldsIndex(n)
    <3>1. n.writing => n.kind = "scope"
      BY <2>2, <2>4, Zenon
    <3>2. n.at = "score" /\ n.cached = FALSE
      BY <2>4
    <3>3. HoldsIndex(n)
      BY <3>1, <3>2 DEF HoldsIndex, Early
    <3>4. Started(n, trees[r])
      BY <1>0, <1>1, <2>4 DEF Started, Early
    <3> QED
      BY <3>3, <3>4
  <2>8. SearchFits(n, trees[r])
    BY <2>4, <2>5, <2>6, <2>7 DEF SearchFits, Verifies, Answers, Earned
  <2> QED
    BY <1>2, <2>1, <2>3, <2>8, SearchStepFits DEF n
<1> QED
  BY <1>4, <1>5

(* One chunk is scored, from a reused record or from its file, and recorded if it can be. *)
LEMMA ScoreChunkFits ==
  ASSUME ScopeInv, NEW r \in Requests, ScoreChunk(r)
  PROVE  ScopeInv'
<1> DEFINE q == asked[r]
           p == Least(q.todo)
<1>0. q \in RequestType /\ q.at = "score" /\ SearchFits(q, trees[r]) /\ tree \in Trees
  BY SearchFacts DEF ScoreChunk, InPhase
<1>1. /\ Started(q, trees[r]) /\ q.cached = FALSE /\ q.kind \in {"scope", "stdin"}
      /\ q.writing => q.kind = "scope"
      /\ q.todo \subseteq Present(q.snapshot)
      /\ q.used = {<<s, q.snapshot[s]>> : s \in Done(q)}
      /\ q.writing => \A s \in Paths : q.records[s] = IF s \in Done(q) THEN q.snapshot[s] ELSE NoText
  BY <1>0 DEF SearchFits, HoldsIndex, RequestType, MadeFromSnapshot
<1>2. p \in q.todo /\ p \in Paths /\ p \in Present(q.snapshot)
  BY <1>0, <1>1, LeastIsLeft DEF ScoreChunk, RequestType
<1>3. UNCHANGED <<sourceVars, index, begun, trees>>
  BY DEF ScoreChunk, InPhase
<1>4. CASE ~ Unchanged(r, p)
  <2>1. Go(r, Changed(r))
    BY <1>4 DEF ScoreChunk
  <2>2. q.started # edits
    BY <1>0, <1>1, <1>2, <1>4 DEF SearchFits, Quiet, SameFile, Unchanged, Present
  <2> QED
    BY <1>0, <1>3, <2>1, <2>2, ChangedFits, SearchStepFits
<1>5. CASE Unchanged(r, p)
  <2> DEFINE text == IF SameRecord(r, p) THEN q.previous.records[p] ELSE tree[p]
  <2>1. PICK written \in BOOLEAN :
          Go(r, [AfterRecord(r, p, text, written) EXCEPT !.todo = @ \ {p}, !.used = @ \union {<<p, text>>}])
    BY <1>5 DEF ScoreChunk
  <2>2. text = q.snapshot[p] /\ text \in Texts
    BY <1>0, <1>2, <1>5 DEF Unchanged, SameRecord, Present, RequestType, Trees
  <2> DEFINE n == [AfterRecord(r, p, text, written) EXCEPT !.todo = @ \ {p}, !.used = @ \union {<<p, text>>}]
             keeps == q.writing /\ written
             records == IF keeps THEN [q.records EXCEPT ![p] = text] ELSE Nothing
  <2>3. records \in Trees
    BY <1>0, <1>2, <2>2, NothingIsATree DEF RequestType, Trees
  <2> HIDE DEF text
  <2>4. n = [q EXCEPT !.records = records, !.writing = keeps, !.todo = q.todo \ {p},
                      !.used = q.used \cup {<<p, text>>}]
    BY <1>0 DEF AfterRecord, RequestType
  <2>5. n \in RequestType
    <3>1. q.used \cup {<<p, text>>} \in SUBSET (Paths \X Texts) /\ q.todo \ {p} \in SUBSET Paths
      BY <1>0, <1>2, <2>2 DEF RequestType
    <3>2. keeps \in BOOLEAN
      BY <1>0 DEF RequestType
    <3> HIDE DEF records, keeps, n
    <3> QED
      BY <1>0, <2>3, <2>4, <3>1, <3>2 DEF RequestType
  <2>6. /\ n.at = "score" /\ n.kind = q.kind /\ n.started = q.started /\ n.calm = q.calm
        /\ n.cached = FALSE /\ n.writing = keeps /\ n.used = q.used \cup {<<p, text>>}
        /\ n.snapshot = q.snapshot /\ n.records = records /\ n.todo = q.todo \ {p}
    BY <1>0, <1>1, <2>4 DEF RequestType
  <2>7. keeps => \A s \in Paths : records[s] = IF s = p THEN text ELSE q.records[s]
    BY <1>0 DEF RequestType, Trees
  <2> HIDE DEF n, records
  <2>8. Done(n) = Done(q) \cup {p}
    BY <1>2, <2>6 DEF Done
  <2>9. Quiet(n) /\ FromThePast(n)
    BY <1>0, <1>1, <2>6 DEF SearchFits, Quiet, SameFile, FromThePast, Wanted, Late
  <2>10. MadeFromSnapshot(n)
    <3>1. n.used = {<<s, n.snapshot[s]>> : s \in Done(n)}
      BY <1>1, <2>2, <2>6, <2>8
    <3>2. n.writing => \A s \in Paths : n.records[s] = IF s \in Done(n) THEN n.snapshot[s] ELSE NoText
      BY <1>1, <2>2, <2>6, <2>7, <2>8
    <3> QED
      BY <1>1, <2>6, <3>1, <3>2 DEF MadeFromSnapshot, Late
  <2>11. Started(n, trees[r]) /\ HoldsIndex(n)
    <3>1. n.writing => n.kind = "scope"
      BY <1>1, <2>6, Zenon
    <3>2. n.at = "score" /\ n.cached = FALSE
      BY <2>6
    <3>3. HoldsIndex(n)
      BY <3>1, <3>2 DEF HoldsIndex, Early
    <3>4. Started(n, trees[r])
      BY <1>0, <1>1, <2>6 DEF Started
    <3> QED
      BY <3>3, <3>4
  <2>12. SearchFits(n, trees[r])
    BY <2>6, <2>9, <2>10, <2>11 DEF SearchFits, Verifies, Answers, Earned
  <2> QED
    BY <1>3, <2>1, <2>5, <2>12, SearchStepFits DEF n
<1> QED
  BY <1>4, <1>5

(* The best chunks are read once more. *)
LEMMA RankFits ==
  ASSUME ScopeInv, NEW r \in Requests, Rank(r)
  PROVE  ScopeInv'
<1> DEFINE q == asked[r]
<1>0. q \in RequestType /\ q.at = "score" /\ SearchFits(q, trees[r]) /\ tree \in Trees
  BY SearchFacts DEF Rank, InPhase
<1>1. /\ Started(q, trees[r]) /\ q.cached = FALSE /\ q.kind \in {"scope", "stdin"}
      /\ q.writing => q.kind = "scope"
      /\ q.todo = {} /\ q.used = Pairs(q.snapshot)
      /\ q.writing => \A s \in Paths : q.records[s] = q.snapshot[s]
  BY <1>0 DEF SearchFits, HoldsIndex, RequestType, MadeFromSnapshot, Rank, Done, Pairs, Present
<1>2. UNCHANGED <<sourceVars, index, begun, trees>>
  BY DEF Rank, InPhase
<1>3. PICK best \in SUBSET Present(q.snapshot) :
        IF \A p \in best : Unchanged(r, p)
        THEN Go(r, [q EXCEPT !.at = "relist", !.used = @ \union {<<p, tree[p]>> : p \in best}])
        ELSE Go(r, Changed(r))
  BY DEF Rank
<1>4. CASE \A p \in best : Unchanged(r, p)
  <2> DEFINE n == [q EXCEPT !.at = "relist", !.used = @ \union {<<p, tree[p]>> : p \in best}]
  <2>1. q.used \union {<<p, tree[p]>> : p \in best} = q.used
    BY <1>1, <1>4 DEF Unchanged, Pairs
  <2>2. n = [q EXCEPT !.at = "relist"]
    BY <1>0, <2>1 DEF RequestType
  <2>3. n \in RequestType
    BY <1>0, <2>2 DEF RequestType
  <2>4. /\ n.at = "relist" /\ n.kind = q.kind /\ n.started = q.started /\ n.calm = q.calm
        /\ n.cached = FALSE /\ n.writing = q.writing /\ n.used = q.used
        /\ n.snapshot = q.snapshot /\ n.records = q.records
    BY <1>0, <1>1, <2>2 DEF RequestType
  <2>5. q.writing => q.records = q.snapshot
    BY <1>0, <1>1 DEF RequestType, Trees
  <2> HIDE DEF n
  <2>6. Quiet(n) /\ FromThePast(n)
    BY <1>0, <1>1, <2>4 DEF SearchFits, Quiet, SameFile, FromThePast, Wanted, Late
  <2>7. Started(n, trees[r]) /\ HoldsIndex(n)
    BY <1>0, <1>1, <2>4 DEF SearchFits, Started, HoldsIndex, Early, Late
  <2>8. MadeFromSnapshot(n)
    BY <1>0, <1>1, <2>4, <2>5 DEF MadeFromSnapshot, Late
  <2>9. SearchFits(n, trees[r])
    BY <2>4, <2>6, <2>7, <2>8 DEF SearchFits, Verifies, Answers, Earned
  <2> QED
    BY <1>2, <1>3, <1>4, <2>3, <2>9, SearchStepFits DEF n
<1>5. CASE ~ \A p \in best : Unchanged(r, p)
  <2>1. q.started # edits
    BY <1>0, <1>1, <1>5 DEF SearchFits, Quiet, SameFile, Unchanged, Present
  <2> QED
    BY <1>0, <1>2, <1>3, <1>5, <2>1, ChangedFits, SearchStepFits
<1> QED
  BY <1>4, <1>5

(* The verification begins: it will read every file that is there, or every one given. *)
LEMMA RelistFits ==
  ASSUME ScopeInv, NEW r \in Requests, Relist(r)
  PROVE  ScopeInv'
<1> DEFINE q == asked[r]
           n == [q EXCEPT !.at = "verify", !.seen = Nothing, !.todo = ToVerify(r)]
<1>0. q \in RequestType /\ q.at = "relist" /\ SearchFits(q, trees[r]) /\ tree \in Trees
  BY SearchFacts DEF Relist, InPhase
<1>1. UNCHANGED <<sourceVars, index, begun, trees>> /\ Go(r, n)
  BY DEF Relist, InPhase
<1>2. n \in RequestType
  BY <1>0, NothingIsATree DEF RequestType, ToVerify, Present
<1>3. /\ n.at = "verify" /\ n.kind = q.kind /\ n.started = q.started /\ n.calm = q.calm
      /\ n.cached = q.cached /\ n.writing = q.writing /\ n.used = q.used
      /\ n.snapshot = q.snapshot /\ n.records = q.records
      /\ n.seen = Nothing /\ n.todo = ToVerify(r)
  BY <1>0 DEF RequestType
<1>4. /\ n.todo = IF q.kind = "stdin" THEN Present(q.snapshot) ELSE Present(tree)
      /\ \A p \in Paths : n.seen[p] = NoText
      /\ q.kind \in {"scope", "stdin"} /\ tree \in trees[r]
  BY <1>0, <1>3 DEF ToVerify, Nothing, RequestType, SearchFits, Started, Late
<1> HIDE DEF n
<1>5. Quiet(n) /\ FromThePast(n)
  BY <1>0, <1>3, <1>4 DEF SearchFits, Quiet, SameFile, FromThePast, Wanted, Late, Present
<1>6. Verifies(n, trees[r])
  <2>1. \A p \in Wanted(n) \ n.todo : \E t \in trees[r] : t[p] = n.seen[p]
    BY <1>3, <1>4 DEF Wanted, Present
  <2>2. \A p \in Wanted(n) : \/ tree[p] = n.snapshot[p]
                             \/ IF p \in n.todo THEN tree[p] # n.snapshot[p] ELSE n.seen[p] # n.snapshot[p]
    BY <1>3, <1>4 DEF Wanted, Present
  <2> QED
    BY <1>4, <2>1, <2>2 DEF Verifies
<1>7. SearchFits(n, trees[r])
  BY <1>0, <1>3, <1>5, <1>6 DEF SearchFits, Started, HoldsIndex, MadeFromSnapshot, Answers, Earned,
     Early, Late
<1> QED
  BY <1>1, <1>2, <1>7, SearchStepFits

(* What is found out of date is a miss of the index, or changed. *)
LEMMA StaleFits ==
  ASSUME ScopeInv, NEW r \in Requests, asked[r].at \in Late,
         ~ asked[r].cached => asked[r].started # edits,
         Go(r, Stale(r)), UNCHANGED <<sourceVars, index, begun, trees>>
  PROVE  ScopeInv'
<1> DEFINE q == asked[r]
<1>0. q \in RequestType /\ SearchFits(q, trees[r])
  BY SearchFacts
<1>1. CASE q.cached
  <2> DEFINE n == [q EXCEPT !.at = "list", !.cached = FALSE, !.used = {}, !.seen = Nothing, !.todo = {}]
  <2>1. n \in RequestType
    BY <1>0, NothingIsATree DEF RequestType
  <2>2. /\ n.at = "list" /\ n.kind = q.kind /\ n.started = q.started /\ n.calm = q.calm
        /\ n.cached = FALSE /\ n.writing = q.writing /\ n.used = {} /\ n.records = q.records
    BY <1>0 DEF RequestType
  <2>3. Go(r, n)
    BY <1>1 DEF Stale
  <2>4. n.kind = "scope" /\ n.writing = FALSE /\ n.records = Nothing
    BY <1>0, <1>1, <2>2 DEF SearchFits, HoldsIndex, RequestType
  <2> HIDE DEF n
  <2>5. Started(n, trees[r]) /\ HoldsIndex(n)
    BY <1>0, <2>2, <2>4 DEF SearchFits, Started, HoldsIndex, Early, Late
  <2>6. SearchFits(n, trees[r])
    BY <2>2, <2>5 DEF SearchFits, Quiet, MadeFromSnapshot, FromThePast, Verifies, Answers, Earned, Late
  <2> QED
    BY <2>1, <2>3, <2>6, SearchStepFits
<1>2. CASE ~ q.cached
  <2>1. Go(r, Changed(r))
    BY <1>2 DEF Stale
  <2> QED
    BY <1>2, <2>1, ChangedFits, SearchStepFits
<1> QED
  BY <1>1, <1>2

(* One file is compared with the snapshot: read, or found gone. *)
LEMMA VerifyFileFits ==
  ASSUME ScopeInv, NEW r \in Requests, NEW p \in Paths, VerifyFile(r, p)
  PROVE  ScopeInv'
<1> DEFINE q == asked[r]
<1>0. q \in RequestType /\ q.at = "verify" /\ SearchFits(q, trees[r]) /\ tree \in Trees
      /\ trees[r] \in SUBSET Trees /\ p \in q.todo
  BY SearchFacts DEF VerifyFile, InPhase
<1>1. UNCHANGED <<sourceVars, index, begun, trees>>
  BY DEF VerifyFile, InPhase
<1>2. tree \in trees[r] /\ q.kind \in {"scope", "stdin"}
  BY <1>0 DEF SearchFits, Started, Late, RequestType
<1>3. CASE tree[p] # NoText
  <2> DEFINE n == [q EXCEPT !.seen[p] = tree[p], !.todo = @ \ {p}]
  <2>1. Go(r, n)
    BY <1>3 DEF VerifyFile
  <2>2. [q.seen EXCEPT ![p] = tree[p]] \in Trees
    BY <1>0 DEF RequestType, Trees
  <2>3. n = [q EXCEPT !.seen = [q.seen EXCEPT ![p] = tree[p]], !.todo = q.todo \ {p}]
    BY <1>0 DEF RequestType
  <2>4. n \in RequestType
    BY <1>0, <2>2, <2>3 DEF RequestType
  <2>5. /\ n.at = "verify" /\ n.kind = q.kind /\ n.started = q.started /\ n.calm = q.calm
        /\ n.cached = q.cached /\ n.writing = q.writing /\ n.used = q.used
        /\ n.snapshot = q.snapshot /\ n.records = q.records
        /\ n.seen = [q.seen EXCEPT ![p] = tree[p]] /\ n.todo = q.todo \ {p}
    BY <1>0, <2>3 DEF RequestType
  <2> HIDE DEF n
  <2>6. n.seen[p] = tree[p] /\ \A s \in Paths : s # p => n.seen[s] = q.seen[s]
    BY <1>0, <2>5 DEF RequestType, Trees
  <2>7. Wanted(n) = Wanted(q) /\ Wanted(q) \subseteq Paths
    BY <2>5 DEF Wanted, Present
  <2>8. Quiet(n) /\ FromThePast(n)
    BY <1>0, <2>5, <2>6, <2>7 DEF SearchFits, Quiet, SameFile, FromThePast, Late
  <2>9. Verifies(n, trees[r])
    <3>1. \A s \in Wanted(n) \ n.todo : \E t \in trees[r] : t[s] = n.seen[s]
      BY <1>0, <1>2, <2>5, <2>6, <2>7 DEF SearchFits, Verifies
    <3>2. ASSUME ~ returned
          PROVE  \E t \in trees[r] : \A s \in Wanted(n) :
                   \/ t[s] = n.snapshot[s]
                   \/ IF s \in n.todo THEN tree[s] # n.snapshot[s] ELSE n.seen[s] # n.snapshot[s]
      <4>1. PICK t \in trees[r] : \A s \in Wanted(q) :
                   \/ t[s] = q.snapshot[s]
                   \/ IF s \in q.todo THEN tree[s] # q.snapshot[s] ELSE q.seen[s] # q.snapshot[s]
        BY <1>0, <3>2 DEF SearchFits, Verifies
      <4>2. \A s \in Wanted(n) :
                   \/ t[s] = n.snapshot[s]
                   \/ IF s \in n.todo THEN tree[s] # n.snapshot[s] ELSE n.seen[s] # n.snapshot[s]
        BY <1>0, <2>5, <2>6, <2>7, <4>1
      <4> QED
        BY <4>2
    <3> QED
      BY <3>1, <3>2 DEF Verifies
  <2>10. Started(n, trees[r]) /\ HoldsIndex(n) /\ MadeFromSnapshot(n)
    BY <1>0, <2>5 DEF SearchFits, Started, HoldsIndex, MadeFromSnapshot, Early, Late
  <2>11. SearchFits(n, trees[r])
    BY <2>5, <2>8, <2>9, <2>10 DEF SearchFits, Answers, Earned
  <2> QED
    BY <1>1, <2>1, <2>4, <2>11, SearchStepFits
<1>4. CASE tree[p] = NoText
  <2>1. Go(r, Stale(r))
    BY <1>4 DEF VerifyFile
  <2>2. ~ q.cached => q.started # edits
    BY <1>0, <1>4 DEF SearchFits, Quiet, SameFile
  <2> QED
    BY <1>0, <1>1, <2>1, <2>2, StaleFits DEF Late
<1> QED
  BY <1>3, <1>4

(* The verification ends: the answer holds, or the attempt is repeated or refused. *)
LEMMA VerifyDoneFits ==
  ASSUME ScopeInv, NEW r \in Requests, VerifyDone(r)
  PROVE  ScopeInv'
<1> DEFINE q == asked[r]
<1>0. q \in RequestType /\ q.at = "verify" /\ SearchFits(q, trees[r]) /\ tree \in Trees
      /\ trees[r] \in SUBSET Trees /\ q.todo = {}
  BY SearchFacts DEF VerifyDone, InPhase
<1>1. UNCHANGED <<sourceVars, index, begun, trees>>
  BY DEF VerifyDone, InPhase
<1>2. CASE ~ Matches(r)
  <2>1. Go(r, Stale(r))
    BY <1>2 DEF VerifyDone
  <2>2. ~ q.cached => q.started # edits
    <3> SUFFICES ASSUME ~ q.cached, q.started = edits
                 PROVE  q.seen = q.snapshot
      BY <1>2 DEF Matches
    <3>1. \A p \in Paths : q.seen[p] = q.snapshot[p]
      BY <1>0 DEF SearchFits, Quiet
    <3> QED
      BY <1>0, <3>1 DEF RequestType, Trees
  <2> QED
    BY <1>0, <1>1, <2>1, <2>2, StaleFits DEF Late
<1>3. CASE Matches(r)
  <2>1. OneState(q, trees[r])
    BY <1>0, <1>3 DEF SearchFits, Verifies, OneState, Matches
  <2>2. q.used = Pairs(q.snapshot)
    BY <1>0 DEF SearchFits, MadeFromSnapshot, Late
  <2>3. CASE q.cached
    <3>1. Go(r, AnswerSearch(r))
      BY <1>3, <2>3, <1>0 DEF VerifyDone
    <3> QED
      BY <1>1, <2>1, <2>2, <3>1, AnswerFits, SearchStepFits
  <2>4. CASE ~ q.cached
    <3> DEFINE n == [q EXCEPT !.at = "finish"]
    <3>1. Go(r, n)
      BY <1>3, <2>4 DEF VerifyDone
    <3>2. n \in RequestType
      BY <1>0 DEF RequestType
    <3>3. /\ n.at = "finish" /\ n.kind = q.kind /\ n.started = q.started /\ n.calm = q.calm
          /\ n.cached = q.cached /\ n.writing = q.writing /\ n.used = q.used
          /\ n.snapshot = q.snapshot /\ n.records = q.records
      BY <1>0 DEF RequestType
    <3> HIDE DEF n
    <3>4. Started(n, trees[r]) /\ HoldsIndex(n) /\ MadeFromSnapshot(n)
      BY <1>0, <3>3 DEF SearchFits, Started, HoldsIndex, MadeFromSnapshot, Early, Late
    <3>5. FromThePast(n) /\ Answers(n, trees[r])
      BY <1>0, <2>1, <3>3 DEF SearchFits, FromThePast, Answers, OneState, Wanted, Late
    <3>6. SearchFits(n, trees[r])
      BY <3>3, <3>4, <3>5 DEF SearchFits, Quiet, Verifies, Earned
    <3> QED
      BY <1>1, <3>1, <3>2, <3>6, SearchStepFits
  <2> QED
    BY <2>3, <2>4
<1> QED
  BY <1>2, <1>3

(* The new index is published, or not; the search is answered. *)
LEMMA FinishIndexFits ==
  ASSUME ScopeInv, NEW r \in Requests, FinishIndex(r)
  PROVE  ScopeInv'
<1> DEFINE q == asked[r]
           n == AnswerSearch(r)
<1>0. q \in RequestType /\ q.at = "finish" /\ SearchFits(q, trees[r])
  BY SearchFacts DEF FinishIndex
<1>1. n \in RequestType /\ SearchFits(n, trees[r])
  BY <1>0, AnswerFits DEF SearchFits, Answers, MadeFromSnapshot, Late
<1>2. UNCHANGED <<sourceVars, begun, trees>> /\ Go(r, n)
  BY DEF FinishIndex
<1>3. \/ index' = index
      \/ /\ q.writing /\ index' = [snapshot |-> q.snapshot, records |-> q.records]
         /\ q.records = q.snapshot /\ \A p \in Paths : q.snapshot[p] \in past[p]
         /\ q.snapshot \in Trees
  BY <1>0 DEF FinishIndex, SearchFits, MadeFromSnapshot, FromThePast, HoldsIndex, Wanted, Late,
     RequestType
<1>4. IndexIsComplete' /\ IndexFits' /\ index' \in IndexType
  BY <1>2, <1>3 DEF ScopeInv, ScopeTypeOK, IndexIsComplete, IndexFits, IndexType, sourceVars
<1>5. /\ asked'[r] = n /\ \A s \in Requests : s # r => asked'[s] = asked[s]
      /\ asked' \in [Requests -> RequestType]
  BY <1>1, <1>2 DEF Go, ScopeInv, ScopeTypeOK
<1>6. ScopeTypeOK' /\ \A p \in Paths : (tree[p] \in past[p])'
  BY <1>2, <1>4, <1>5 DEF ScopeInv, ScopeTypeOK, sourceVars
<1>7. ASSUME NEW s \in Requests
      PROVE  SearchFits(asked[s], trees[s])'
  <2>1. SearchFits(asked'[s], trees[s])
    BY <1>1, <1>5 DEF ScopeInv
  <2> QED
    BY <1>2, <2>1 DEF SearchFits, Started, HoldsIndex, Quiet, SameFile, MadeFromSnapshot,
       FromThePast, Verifies, OneState, Answers, Earned, Wanted, sourceVars
<1> QED
  BY <1>4, <1>6, <1>7 DEF ScopeInv

(* A search begins, or its caller has its answer: its trees are set. *)
LEMMA RequestSetFits ==
  ASSUME ScopeInv, NEW r \in Requests, NEW n \in RequestType, NEW ts \in SUBSET Trees,
         Go(r, n), trees' = [trees EXCEPT ![r] = ts], UNCHANGED <<sourceVars, index>>,
         begun' \in 0..MaxRequests, SearchFits(n, ts)
  PROVE  ScopeInv'
<1>1. /\ asked'[r] = n /\ \A s \in Requests : s # r => asked'[s] = asked[s] /\ trees'[s] = trees[s]
      /\ trees'[r] = ts
      /\ asked' \in [Requests -> RequestType] /\ trees' \in [Requests -> SUBSET Trees]
  BY DEF Go, ScopeInv, ScopeTypeOK
<1>2. ScopeTypeOK' /\ IndexIsComplete' /\ IndexFits' /\ \A p \in Paths : (tree[p] \in past[p])'
  BY <1>1 DEF ScopeInv, ScopeTypeOK, IndexIsComplete, IndexFits, sourceVars
<1>3. ASSUME NEW s \in Requests
      PROVE  SearchFits(asked[s], trees[s])'
  <2>1. SearchFits(asked'[s], trees'[s])
    BY <1>1 DEF ScopeInv
  <2> QED
    BY <2>1 DEF SearchFits, Started, HoldsIndex, Quiet, SameFile, MadeFromSnapshot,
       FromThePast, Verifies, OneState, Answers, Earned, Wanted, sourceVars
<1> QED
  BY <1>2, <1>3 DEF ScopeInv

(* A search begins. *)
LEMMA BeginRequestFits ==
  ASSUME ScopeInv, NEW r \in Requests, NEW kind \in {"scope", "stdin"}, BeginRequest(r, kind)
  PROVE  ScopeInv'
<1>1. tree \in {tree} /\ {tree} \in SUBSET Trees /\ 0 \in 0..1
  BY DEF ScopeInv, ScopeTypeOK
<1>2. begun' \in 0..MaxRequests
  BY ScopeAssumption DEF BeginRequest, ScopeInv, ScopeTypeOK
<1> QED
  BY <1>1, <1>2, AttemptFits, RequestSetFits DEF BeginRequest

(* The caller has its answer. *)
LEMMA HandOverFits ==
  ASSUME ScopeInv, NEW r \in Requests, HandOver(r)
  PROVE  ScopeInv'
<1>1. NoRequest.at = "idle" /\ NoRequest.cached = FALSE /\ NoRequest.writing = FALSE
  BY DEF NoRequest
<1>2. SearchFits(NoRequest, {})
  BY <1>1 DEF SearchFits, Started, HoldsIndex, Quiet, MadeFromSnapshot, FromThePast, Verifies,
     Answers, Earned, Early, Late
<1>3. begun' \in 0..MaxRequests
  BY DEF HandOver, ScopeInv, ScopeTypeOK
<1> QED
  BY <1>2, <1>3, NoRequestIsARequest, RequestSetFits DEF HandOver

(* A search is cancelled or fails. *)
LEMMA FailFits ==
  ASSUME ScopeInv, NEW r \in Requests, Fail(r)
  PROVE  ScopeInv'
BY ClosedFits, SearchStepFits DEF Fail

-----------------------------------------------------------------------------
(* A file is edited under the searches that run.  No attempt is quiet any more; a text that a
   verification looks for comes back only if the file returned to what it had held. *)
LEMMA EditFits ==
  ASSUME ScopeInv, NEW p \in Paths, NEW text \in Texts \cup {NoText}, Edit(p, text)
  PROVE  ScopeInv'
<1>1. /\ tree' \in Trees /\ tree'[p] = text /\ \A s \in Paths : s # p => tree'[s] = tree[s]
      /\ past' \in [Paths -> SUBSET (Texts \cup {NoText})]
      /\ \A s \in Paths : past[s] \subseteq past'[s]
      /\ text \in past'[p]
      /\ (returned' = (returned \/ text \in past[p])) /\ returned' \in BOOLEAN
      /\ edits' = edits + 1 /\ edits \in Nat /\ edits' \in 0..MaxEdits
      /\ index' = index /\ asked' = asked /\ begun' = begun
  <2>1. edits \in Nat /\ edits' = edits + 1 /\ edits' \in 0..MaxEdits
    BY ScopeAssumption DEF Edit, ScopeInv, ScopeTypeOK
  <2>2. returned' \in BOOLEAN /\ (returned' = (returned \/ text \in past[p]))
    BY Zenon DEF Edit, ScopeInv, ScopeTypeOK
  <2>3. /\ tree' \in Trees /\ tree'[p] = text /\ \A s \in Paths : s # p => tree'[s] = tree[s]
    BY DEF Edit, ScopeInv, ScopeTypeOK, Trees
  <2>4. /\ past' \in [Paths -> SUBSET (Texts \cup {NoText})]
        /\ \A s \in Paths : past[s] \subseteq past'[s]
        /\ text \in past'[p]
    BY DEF Edit, ScopeInv, ScopeTypeOK
  <2> QED
    BY <2>1, <2>2, <2>3, <2>4 DEF Edit
<1>2. trees' \in [Requests -> SUBSET Trees]
  BY <1>1 DEF Edit, ScopeInv, ScopeTypeOK
<1>3. \A s \in Paths : tree'[s] \in past'[s]
  BY <1>1 DEF ScopeInv
<1>4. ScopeTypeOK' /\ IndexIsComplete' /\ IndexFits'
  BY <1>1, <1>2 DEF ScopeInv, ScopeTypeOK, IndexIsComplete, IndexFits
<1>5. ASSUME NEW r \in Requests
      PROVE  SearchFits(asked[r], trees[r])'
  <2> DEFINE q == asked[r]
             ts == trees[r]
             us == trees'[r]
  <2>0. q \in RequestType /\ asked'[r] = q
    BY <1>1 DEF ScopeInv, ScopeTypeOK
  <2>1. SearchFits(q, ts) /\ ts \subseteq us
    BY DEF ScopeInv, Edit, ScopeTypeOK
  <2>2. q.at \in Early \cup {"score"} \cup Late => tree' \in us /\ ~ (q.started = edits') /\ q.started <= edits'
    <3> SUFFICES ASSUME q.at \in Early \cup {"score"} \cup Late
                 PROVE  tree' \in us /\ ~ (q.started = edits') /\ q.started <= edits'
      OBVIOUS
    <3>1. Searching(r)
      BY DEF Searching, Early, Late
    <3>2. tree' \in us
      BY <3>1 DEF Edit, ScopeInv, ScopeTypeOK
    <3>3. q.started <= edits /\ q.started \in 0..MaxEdits
      BY <2>0, <2>1 DEF SearchFits, Started, RequestType
    <3> QED
      BY <1>1, <3>2, <3>3, ScopeAssumption
  <2>3. (Started(asked[r], trees[r]))'
    BY <2>0, <2>1, <2>2 DEF SearchFits, Started
  <2>4. (HoldsIndex(asked[r]))'
    BY <1>1, <2>0, <2>1 DEF SearchFits, HoldsIndex
  <2>5. (Quiet(asked[r]))'
    BY <2>0, <2>2 DEF Quiet, Early, Late
  <2>6. (MadeFromSnapshot(asked[r]))'
    BY <2>0, <2>1 DEF SearchFits, MadeFromSnapshot
  <2>7. (FromThePast(asked[r]))'
    BY <1>1, <2>0, <2>1 DEF SearchFits, FromThePast, Wanted, Present
  <2>8. (Verifies(asked[r], trees[r]))'
    <3> SUFFICES ASSUME q.at = "verify"
                 PROVE  /\ \A s \in Wanted(q) \ q.todo : \E t \in us : t[s] = q.seen[s]
                        /\ returned' \/ \E t \in us : \A s \in Wanted(q) :
                             \/ t[s] = q.snapshot[s]
                             \/ IF s \in q.todo THEN tree'[s] # q.snapshot[s] ELSE q.seen[s] # q.snapshot[s]
      BY <2>0 DEF Verifies, Wanted
    <3>1. \A s \in Wanted(q) \ q.todo : \E t \in us : t[s] = q.seen[s]
      BY <2>1 DEF SearchFits, Verifies
    <3>2. ASSUME ~ returned'
          PROVE  \E t \in us : \A s \in Wanted(q) :
                             \/ t[s] = q.snapshot[s]
                             \/ IF s \in q.todo THEN tree'[s] # q.snapshot[s] ELSE q.seen[s] # q.snapshot[s]
      <4>1. ~ returned /\ text \notin past[p]
        BY <1>1, <3>2
      <4>2. PICK t \in ts : \A s \in Wanted(q) :
                             \/ t[s] = q.snapshot[s]
                             \/ IF s \in q.todo THEN tree[s] # q.snapshot[s] ELSE q.seen[s] # q.snapshot[s]
        BY <2>1, <4>1 DEF SearchFits, Verifies
      <4>3. \A s \in Wanted(q) : q.snapshot[s] \in past[s] /\ s \in Paths
        BY <2>1 DEF SearchFits, FromThePast, Late, Wanted, Present
      <4> QED
        BY <1>1, <2>1, <4>1, <4>2, <4>3
    <3> QED
      BY <3>1, <3>2
  <2>9. (Answers(asked[r], trees[r]))'
    <3> SUFFICES ASSUME OneState(q, ts)
                 PROVE  /\ \A s \in Wanted(q) : \E t \in us : t[s] = q.snapshot[s]
                        /\ returned' \/ \E t \in us : \A s \in Wanted(q) : t[s] = q.snapshot[s]
      BY <2>0, <2>1 DEF SearchFits, Answers, OneState, Wanted
    <3> QED
      BY <1>1, <2>1 DEF OneState
  <2>10. (Earned(asked[r]))'
    BY <2>0, <2>1 DEF SearchFits, Earned
  <2> QED
    BY <2>3, <2>4, <2>5, <2>6, <2>7, <2>8, <2>9, <2>10 DEF SearchFits
<1> QED
  BY <1>3, <1>4, <1>5 DEF ScopeInv

(* The invariant holds before the first search. *)
LEMMA ScopeInvInit == ScopeInit => ScopeInv
<1> SUFFICES ASSUME ScopeInit
             PROVE  ScopeInv
  OBVIOUS
<1>1. FirstTree \in Trees /\ \A p \in Paths : FirstTree[p] \in Texts
  BY ScopeAssumption DEF FirstTree, Trees
<1>2. ScopeTypeOK
  <2>1. edits \in 0..MaxEdits /\ begun \in 0..MaxRequests
    BY ScopeAssumption DEF ScopeInit
  <2>2. past \in [Paths -> SUBSET (Texts \cup {NoText})]
    BY <1>1 DEF ScopeInit
  <2>3. asked \in [Requests -> RequestType] /\ trees \in [Requests -> SUBSET Trees]
    BY NoRequestIsARequest DEF ScopeInit
  <2> QED
    BY <1>1, <2>1, <2>2, <2>3, NothingIsATree DEF ScopeInit, ScopeTypeOK
<1>3. IndexIsComplete /\ IndexFits /\ \A p \in Paths : tree[p] \in past[p]
  BY DEF ScopeInit, IndexIsComplete, IndexFits, NoIndex
<1>4. NoRequest.at = "idle" /\ NoRequest.cached = FALSE /\ NoRequest.writing = FALSE
  BY DEF NoRequest
<1>5. \A r \in Requests : SearchFits(asked[r], trees[r])
  BY <1>4 DEF ScopeInit, SearchFits, Started, HoldsIndex, Quiet, MadeFromSnapshot, FromThePast,
     Verifies, Answers, Earned, Early, Late
<1> QED
  BY <1>2, <1>3, <1>5 DEF ScopeInv

(* The invariant is inductive. *)
LEMMA ScopeInvStep == ScopeInv /\ [ScopeNext]_scopeVars => ScopeInv'
<1> SUFFICES ASSUME ScopeInv, [ScopeNext]_scopeVars
             PROVE  ScopeInv'
  OBVIOUS
<1>1. CASE UNCHANGED scopeVars
  BY <1>1 DEF scopeVars, ScopeInv, ScopeTypeOK, IndexIsComplete, IndexFits, SearchFits, Started,
     HoldsIndex, Quiet, SameFile, MadeFromSnapshot, FromThePast, Verifies, OneState, Answers, Earned,
     Wanted
<1> QED
  BY <1>1, EditFits, BeginRequestFits, OpenIndexFits, SearchIndexFits, ListFits, ReadFileFits,
     BeginScoringFits, ScoreChunkFits, RankFits, RelistFits, VerifyFileFits, VerifyDoneFits,
     FinishIndexFits, FailFits, HandOverFits DEF ScopeNext

(* Every answer reflects the files at one instant of the request (if none of them ever returned to
   what it had held), a refusal is earned and the stored index is complete: the property the run
   "services" checks, for every value of the constants. *)
THEOREM AnswersAreOneState == ScopeSpec => []ScopeSound
<1>1. ScopeInv => ScopeSound
  <2> SUFFICES ASSUME ScopeInv
               PROVE  ScopeSound
    OBVIOUS
  <2>1. AnswerIsOneState
    <3> SUFFICES ASSUME NEW r \in Requests, asked[r].at = "answered"
                 PROVE  asked[r].used = Pairs(asked[r].snapshot) /\ OneState(asked[r], trees[r])
      BY DEF AnswerIsOneState, AskedFor, OneState, Wanted
    <3> QED
      BY DEF ScopeInv, SearchFits, MadeFromSnapshot, Answers
  <2>2. RefusalIsEarned /\ IndexIsComplete
    BY DEF ScopeInv, SearchFits, Earned, RefusalIsEarned
  <2> QED
    BY <2>1, <2>2 DEF ScopeSound
<1> QED
  BY <1>1, ScopeInvInit, ScopeInvStep, PTL DEF ScopeSpec
=============================================================================
