---------------------- MODULE AttentionDelivery_proofs ----------------------
(* For every set of notices, calls, frontends and receipts: the types, the watcher that is
   never missed, and the refinement of Attention.  What carries the refinement is that a
   receipt in a message names no row but the message's own (ReceiptsFit), and that a notice
   nobody asked for is in one place at a time (AtMostOnce): offered, claimed by the frontend,
   kept for the end of a sampling, handed to Pi, or saved.                                  *)
EXTENDS AttentionDelivery, TLAPS

Offerable == {"absent", "pending", "superseded"}

\* What the operation at the head of the chain has claimed and not used.
InUse(h) == IF h.pc \in {"got", "release"} THEN h.message.events ELSE {}
InConversation == Events(outbox) \cup Events(saved)

Known == outbox \cup saved \cup {host.message, host.sampling} \cup {call[c].message : c \in Calls}

ReceiptsFit ==
  /\ \A n \in Notices : row[n].receipt <= issued
  /\ \A m \in Known : m.receipts \subseteq 1..issued /\ With(row, m.receipts) \subseteq m.events
  /\ \A r \in releases : r <= issued /\ With(row, {r}) \subseteq Asked
  /\ \A n \in Notices : row[n].state = "pi_waiting" =>
       row[n].receipt # 0 /\ With(row, {row[n].receipt}) = {n} /\ n \in Asked
  /\ \A c \in Calls : call[c].pc \in {"new", "asked"} => call[c].message = NoMessage

Once(n) ==
  /\ row[n].state \in Offerable => n \notin InConversation \cup host.sampling.events \cup InUse(host)
  /\ n \in Events(outbox) => n \notin Events(saved)
  /\ \A m \in outbox, k \in outbox : n \in m.events \cap k.events => m = k
  /\ n \in host.sampling.events => n \notin InConversation
  /\ n \in InUse(host) => n \notin InConversation \cup host.sampling.events
AtMostOnce == \A n \in Notices \ Asked : Once(n)

Alive(h) == h.open /\ h.sync = "active" => h.watch # "off"
\* An operation that has not claimed yet, or has put away its claim, holds no message.
Tidy(h) ==
  /\ h.op = "none" => h.pc = "free"
  /\ h.pc \in {"free", "observe", "claim", "doubt"} => h.message = NoMessage
Frontend(h) == h \in HostType /\ Alive(h) /\ Tidy(h)

DeliveryInv == AttentionTypeOK /\ Frontend(host) /\ ReceiptsFit /\ AtMostOnce

------------------------------------------------------------------------------
(* The frontend: what a step may do to the messages it holds. *)

Drops(h, k) ==
  /\ k.message \in {h.message, NoMessage} /\ k.sampling \in {h.sampling, NoMessage}
  /\ InUse(k) \subseteq InUse(h)
Quiet(h, k) == Frontend(k) /\ Drops(h, k)
\* Nothing that matters for the messages changes.
Same(h, k) ==
  /\ Frontend(k) /\ k.message = h.message /\ k.sampling = h.sampling /\ k.pc = h.pc /\ k.open = h.open
  /\ k.id = h.id /\ k.op = h.op

LEMMA NoMessageType == NoMessage \in Message
BY DEF NoMessage, Message

LEMMA WatchingValue ==
  ASSUME NEW h \in HostType
  PROVE  /\ Watching(h) \in HostType /\ Watching(h).message = h.message /\ Watching(h).sampling = h.sampling
         /\ Watching(h).pc = h.pc /\ Watching(h).open = h.open /\ Watching(h).id = h.id /\ Watching(h).sync = h.sync
         /\ Watching(h).op = h.op /\ Alive(Watching(h))
<1>1. CASE h.watch = "off" /\ CanSync(h)
  BY <1>1 DEF Watching, HostType, Alive
<1>2. CASE ~ (h.watch = "off" /\ CanSync(h))
  BY <1>2 DEF Watching, HostType, Alive, CanSync
<1> QED
  BY <1>1, <1>2

LEMMA ResumeValue ==
  ASSUME NEW h \in HostType, Tidy(h)
  PROVE  Same(h, Resume(h))
<1> DEFINE k == [h EXCEPT !.sync = "active", !.stale = TRUE, !.watchStale = TRUE]
<1>1. k \in HostType /\ k.message = h.message /\ k.sampling = h.sampling /\ k.pc = h.pc /\ k.open = h.open
      /\ k.id = h.id /\ k.op = h.op
  BY DEF HostType
<1>2. Resume(h) = Watching(k)
  BY DEF Resume
<1> HIDE DEF k
<1> QED
  BY <1>1, <1>2, WatchingValue DEF Same, Frontend, Tidy

LEMMA FrontendValues ==
  ASSUME NEW h, Frontend(h)
  PROVE  /\ Same(h, h) /\ Same(h, ResumeUnlessFailed(h)) /\ Same(h, Failed(h))
         /\ \A s \in BOOLEAN : Same(h, Parked(h, s))
         /\ Frontend(Ended(h)) /\ Ended(h).message = NoMessage /\ Ended(h).sampling = h.sampling
         /\ Ended(h).pc = "free"
<1>1. Same(h, h) /\ Same(h, ResumeUnlessFailed(h))
  BY ResumeValue DEF ResumeUnlessFailed, Same, Frontend
<1>2. Same(h, Failed(h))
  BY DEF Failed, Same, Frontend, HostType, Alive, Tidy
<1>3. ASSUME NEW s \in BOOLEAN
      PROVE  Same(h, Parked(h, s))
  BY <1>1 DEF Parked, Same, Frontend, HostType, Alive, Tidy
<1>4. Frontend(Ended(h)) /\ Ended(h).message = NoMessage /\ Ended(h).sampling = h.sampling /\ Ended(h).pc = "free"
  <2>1. h \in HostType /\ Alive(h)
    BY DEF Frontend
  <2>2. Ended(h) \in HostType
    BY <2>1, NoMessageType DEF Ended, HostType
  <2>3. /\ Ended(h).message = NoMessage /\ Ended(h).sampling = h.sampling /\ Ended(h).pc = "free"
        /\ Ended(h).open = h.open /\ Ended(h).sync = h.sync /\ Ended(h).watch = h.watch
    BY <2>1 DEF Ended, HostType
  <2> QED
    BY <2>1, <2>2, <2>3 DEF Frontend, Alive, Tidy
<1> QED
  BY <1>1, <1>2, <1>3, <1>4

LEMMA QuietValues ==
  ASSUME NEW h, Frontend(h), NEW k, Same(h, k)
  PROVE  Quiet(h, k) /\ Quiet(h, Ended(k))
<1>1. Quiet(h, k)
  BY DEF Quiet, Drops, Same, InUse
<1>2. Quiet(h, Ended(k))
  BY FrontendValues DEF Quiet, Drops, Same, InUse
<1> QED
  BY <1>1, <1>2

LEMMA HostChain ==
  ASSUME AttentionTypeOK, Frontend(host),
         (\E r \in Receipts : Reconcile(r) \/ Doubt(r)) \/ Reconciled \/ PassiveFails \/ Doubted \/ ReleaseClaim
  PROVE  Quiet(host, host')
<1>0. host \in HostType
  BY DEF Frontend
<1>1. ASSUME NEW r \in Receipts, Reconcile(r)
      PROVE  Quiet(host, host')
  <2> DEFINE h == [host EXCEPT !.observed = @ \cup {r}]
  <2>1. Same(host, h)
    BY <1>0 DEF Same, HostType, Frontend, Alive, Tidy
  <2>2. Same(host, Resume(h))
    BY <2>1, ResumeValue DEF Same, Frontend
  <2>3. host' = h \/ host' = Resume(h) \/ host' = Ended(Failed(host))
    BY <1>1 DEF Reconcile
  <2> HIDE DEF h
  <2> QED
    BY <2>1, <2>2, <2>3, QuietValues, FrontendValues
<1>2. ASSUME NEW r \in Receipts, Doubt(r)
      PROVE  Quiet(host, host')
  <2> DEFINE h == [host EXCEPT !.claims = @ \ {r}]
  <2>1. Same(host, h)
    BY <1>0 DEF Same, HostType, Frontend, Alive, Tidy
  <2>2. host' = h \/ host' = Ended(Failed(host))
    BY <1>2 DEF Doubt
  <2> HIDE DEF h
  <2> QED
    BY <2>1, <2>2, QuietValues, FrontendValues
<1>3. CASE Reconciled
  <2> DEFINE h == Confirmed(host)
  <2>1. Same(host, h)
    BY <1>0 DEF Same, HostType, Frontend, Alive, Tidy, Confirmed
  <2>2. \/ host' = Ended(h)
        \/ host.pc = "observe" /\ host' = [h EXCEPT !.pc = "doubt", !.sampling = NoMessage]
        \/ host.pc = "observe" /\ host' = [h EXCEPT !.pc = "claim"]
    <3>1. CASE host.pc = "confirm" \/ host.op = "reconcile"
      BY <1>3, <3>1 DEF Reconciled
    <3>2. CASE host.pc = "observe" /\ host.op # "reconcile"
      BY <1>3, <3>2 DEF Reconciled
    <3> QED
      BY <1>3, <3>1, <3>2 DEF Reconciled, AllObserved
  <2> HIDE DEF h
  <2>3. CASE host.pc = "observe" /\ host' = [h EXCEPT !.pc = "doubt", !.sampling = NoMessage]
    BY <2>1, <2>3, NoMessageType DEF Same, Frontend, HostType, Alive, Tidy, Quiet, Drops, InUse
  <2>4. CASE host.pc = "observe" /\ host' = [h EXCEPT !.pc = "claim"]
    BY <2>1, <2>4, NoMessageType DEF Same, Frontend, HostType, Alive, Tidy, Quiet, Drops, InUse
  <2> QED
    BY <2>1, <2>2, <2>3, <2>4, QuietValues
<1>4. CASE PassiveFails
  <2>1. host.stale \in BOOLEAN
    BY <1>0 DEF HostType
  <2> QED
    BY <1>4, <2>1, QuietValues, FrontendValues DEF PassiveFails
<1>5. CASE Doubted
  <2> DEFINE h == IF host.sync = "parked" THEN Resume(host) ELSE host
  <2>1. Same(host, h)
    BY ResumeValue, FrontendValues DEF Frontend
  <2>2. host.pc = "doubt" /\ (host' = [h EXCEPT !.op = "idle", !.pc = "observe"] \/ host' = Ended(h))
    BY <1>5 DEF Doubted
  <2> HIDE DEF h
  <2>3. CASE host' = [h EXCEPT !.op = "idle", !.pc = "observe"]
    <3>1. h \in HostType /\ Alive(h) /\ h.message = NoMessage /\ h.sampling = host.sampling /\ h.pc = "doubt"
      BY <2>1, <2>2 DEF Same, Frontend, Tidy
    <3>2. host' \in HostType
      BY <2>3, <3>1 DEF HostType
    <3>3. /\ host'.message = NoMessage /\ host'.sampling = host.sampling /\ host'.pc = "observe" /\ host'.op = "idle"
          /\ host'.open = h.open /\ host'.sync = h.sync /\ host'.watch = h.watch
      BY <2>3, <3>1 DEF HostType
    <3> QED
      BY <3>1, <3>2, <3>3 DEF Frontend, Alive, Tidy, Quiet, Drops, InUse
  <2> QED
    BY <2>1, <2>2, <2>3, QuietValues
<1>6. CASE ReleaseClaim
  <2> DEFINE h == [host EXCEPT !.claims = @ \ host.message.receipts]
  <2>1. Same(host, h)
    BY <1>0 DEF Same, HostType, Frontend, Alive, Tidy
  <2>2. host' = Ended(h) \/ host' = Ended(Failed(host))
    BY <1>6 DEF ReleaseClaim
  <2> HIDE DEF h
  <2> QED
    BY <2>1, <2>2, QuietValues, FrontendValues
<1> QED
  BY <1>1, <1>2, <1>3, <1>4, <1>5, <1>6

LEMMA HostRest ==
  ASSUME AttentionTypeOK, Frontend(host),
         WatchStep \/ TurnStarts \/ Take \/ BoundaryFailed \/ TurnSettles \/ Settled \/ Open \/ Close
  PROVE  Quiet(host, host')
<1>0. host \in HostType
  BY DEF Frontend
<1>1. CASE Watch
  <2>0. host.watchStale \in BOOLEAN
    BY <1>0 DEF HostType
  <2> DEFINE p == Parked(host, host.watchStale)
  <2>1. Same(host, p) /\ Same(host, Failed(host))
    BY <2>0, FrontendValues
  <2>2. \/ host' = [p EXCEPT !.watch = "park"] \/ host' = [Failed(host) EXCEPT !.watch = "park"]
        \/ \E b \in BOOLEAN, w \in {"notified", "poll"} :
              host' = [host EXCEPT !.attention = b, !.watchStale = FALSE, !.watch = w]
    BY <1>1 DEF Watch
  <2> HIDE DEF p
  <2>3. ASSUME NEW h, Same(host, h)
        PROVE  Same(host, [h EXCEPT !.watch = "park"])
    BY <2>3 DEF Same, Frontend, HostType, Alive, Tidy
  <2>4. ASSUME NEW b \in BOOLEAN, NEW w \in {"notified", "poll"}
        PROVE  Same(host, [host EXCEPT !.attention = b, !.watchStale = FALSE, !.watch = w])
    <3> DEFINE k == [host EXCEPT !.attention = b, !.watchStale = FALSE, !.watch = w]
    <3>1. k \in HostType
      BY <1>0, <2>4 DEF HostType
    <3>2. /\ k.message = host.message /\ k.sampling = host.sampling /\ k.pc = host.pc /\ k.open = host.open
          /\ k.id = host.id /\ k.op = host.op /\ k.watch = w
      BY <1>0 DEF HostType
    <3>3. w # "off" /\ Tidy(host)
      BY <2>4 DEF Frontend
    <3> HIDE DEF k
    <3>4. Frontend(k)
      BY <3>1, <3>2, <3>3 DEF Frontend, Alive, Tidy
    <3>5. Same(host, k)
      BY <3>2, <3>4 DEF Same
    <3> QED
      BY <3>5 DEF k
  <2> QED
    BY <2>1, <2>2, <2>3, <2>4, QuietValues
<1>2. CASE WatchStops
  BY <1>0, <1>2 DEF WatchStops, Quiet, Drops, InUse, Frontend, HostType, Alive, Tidy
<1>3. CASE WatchDelivers
  BY <1>0, <1>3 DEF WatchDelivers, Quiet, Drops, InUse, Frontend, HostType, Alive, Tidy
<1>4. CASE WatchEnds
  <2> DEFINE h == [host EXCEPT !.watch = "off"]
  <2>1. h \in HostType /\ h.sync = host.sync /\ h.message = host.message /\ h.sampling = host.sampling
        /\ h.pc = host.pc /\ h.open = host.open /\ h.id = host.id /\ h.op = host.op
    BY <1>0 DEF HostType
  <2>2. host' = IF h.sync = "active" THEN Watching(h) ELSE h
    BY <1>4 DEF WatchEnds
  <2> HIDE DEF h
  <2>3. Same(host, host')
    BY <2>1, <2>2, WatchingValue DEF Same, Frontend, Alive, Tidy
  <2> QED
    BY <2>3, QuietValues
<1>5. CASE TurnStarts
  BY <1>0, <1>5 DEF TurnStarts, Quiet, Drops, InUse, Frontend, HostType, Alive, Tidy
<1>6. CASE Take \/ BoundaryFailed
  <2>1. host.op = "none" /\ \E o \in {"take", "reconcile"} : host' = [host EXCEPT !.op = o, !.pc = "observe", !.stale = FALSE]
    BY <1>6 DEF Take, BoundaryFailed, Begin
  <2>2. host.pc = "free" /\ host.message = NoMessage /\ Alive(host)
    BY <2>1 DEF Frontend, Tidy
  <2>3. host' \in HostType
    BY ZenonT(40), <1>0, <2>1 DEF HostType
  <2>4. /\ host'.message = NoMessage /\ host'.sampling = host.sampling /\ host'.pc = "observe"
        /\ host'.op \in {"take", "reconcile"}
        /\ host'.open = host.open /\ host'.sync = host.sync /\ host'.watch = host.watch
    BY <1>0, <2>1, <2>2 DEF HostType
  <2> QED
    BY <2>2, <2>3, <2>4 DEF Quiet, Drops, InUse, Frontend, Alive, Tidy
<1>7. CASE TurnSettles
  BY <1>0, <1>7 DEF TurnSettles, Quiet, Drops, InUse, Frontend, HostType, Alive, Tidy
<1>8. CASE Settled
  BY <1>0, <1>8 DEF Settled, Quiet, Drops, InUse, Frontend, HostType, Alive, Tidy
<1>9. CASE Open
  <2>1. host.id + 1 \in 0..MaxFrontends
    BY <1>0, <1>9, AttentionAssumption DEF Open, HostType
  <2>2. host' \in HostType
    BY <1>0, <1>9, <2>1, NoMessageType DEF Open, HostType
  <2>3. /\ host'.message = NoMessage /\ host'.sampling \in {NoMessage, host.sampling}
        /\ host'.pc = "observe" /\ host'.op = "reconcile" /\ host'.watch = "poll"
    BY <1>0, <1>9 DEF Open, HostType
  <2> QED
    BY <2>2, <2>3 DEF Quiet, Drops, InUse, Frontend, Alive, Tidy
<1>10. CASE Close
  <2> DEFINE h == Ended(host)
  <2>1. h \in HostType /\ h.message = NoMessage /\ h.sampling = host.sampling /\ h.pc = "free"
    BY FrontendValues DEF Frontend
  <2>2. host' = [h EXCEPT !.open = FALSE, !.watch = "off", !.settling = FALSE]
    BY <1>10 DEF Close
  <2> HIDE DEF h
  <2>3. host' \in HostType
    BY <2>1, <2>2 DEF HostType
  <2>4. host'.open = FALSE /\ host'.message = NoMessage /\ host'.sampling = host.sampling /\ host'.pc = "free"
    BY <2>1, <2>2 DEF HostType
  <2> QED
    BY <2>3, <2>4 DEF Quiet, Drops, InUse, Frontend, Alive, Tidy
<1> QED
  BY <1>1, <1>2, <1>3, <1>4, <1>5, <1>6, <1>7, <1>8, <1>9, <1>10 DEF WatchStep

(* The steps in which the frontend takes or gives away a message. *)
LEMMA HostClaim ==
  ASSUME AttentionTypeOK, Frontend(host), Claim
  PROVE  \/ Quiet(host, host') /\ UNCHANGED <<row, issued>>
         \/ /\ issued' = issued + 1 /\ issued' \in Receipts /\ Bound
            /\ row' = [n \in Notices |-> IF n \in Pending
                         THEN [state |-> "pi_claimed", receipt |-> issued', owner |-> lease] ELSE row[n]]
            /\ Frontend(host') /\ host'.pc = "got" /\ host'.sampling = host.sampling
            /\ host'.message = [receipts |-> {issued'}, events |-> Pending]
            /\ InUse(host) = {} /\ host.message = NoMessage
<1>0. host \in HostType /\ host.message = NoMessage /\ host.op # "none"
  BY DEF Frontend, Tidy, Claim
<1>1. CASE ~ Bound
  BY <1>1, QuietValues, FrontendValues DEF Claim
<1>2. CASE Bound /\ Pending = {}
  <2>1. host' = [host EXCEPT !.pc = "got"] /\ UNCHANGED <<row, issued>>
    BY <1>2 DEF Claim
  <2> QED
    BY <1>0, <2>1 DEF Quiet, Drops, InUse, Frontend, HostType, Alive, Tidy, NoMessage
<1>3. CASE Bound /\ Pending # {}
  <2> DEFINE m == [receipts |-> {issued'}, events |-> Pending]
  <2>1. /\ issued < MaxReceipts /\ issued' = issued + 1 /\ host' = [host EXCEPT !.pc = "got", !.message = m]
        /\ row' = [n \in Notices |-> IF n \in Pending
                     THEN [state |-> "pi_claimed", receipt |-> issued', owner |-> lease] ELSE row[n]]
    BY <1>3 DEF Claim
  <2>2. issued' \in Receipts
    BY <2>1, AttentionAssumption DEF AttentionTypeOK, Receipts
  <2>3. m \in Message
    BY <2>2 DEF Message, Pending
  <2> HIDE DEF m
  <2>4. Frontend(host') /\ host'.pc = "got" /\ host'.sampling = host.sampling /\ host'.message = m
    BY <1>0, <2>1, <2>3 DEF Frontend, HostType, Alive, Tidy
  <2>5. InUse(host) = {}
    BY DEF InUse, Claim
  <2> QED
    BY <1>0, <1>3, <2>1, <2>2, <2>4, <2>5 DEF m
<1> QED
  BY <1>1, <1>2, <1>3

LEMMA ClaimedValue ==
  ASSUME NEW h, Frontend(h)
  PROVE  Same(h, Claimed(h))
<1> DEFINE C == h.claims \cup h.message.receipts
           g == [h EXCEPT !.attention = FALSE, !.claims = C]
<1>0. C \in SUBSET Receipts
  BY DEF Frontend, HostType, Message
<1>2. Claimed(h) \in {g, ResumeUnlessFailed(g)}
  BY DEF Claimed
<1> HIDE DEF C
<1>3. h \in HostType
  BY DEF Frontend
<1>4. /\ g \in HostType /\ g.message = h.message /\ g.sampling = h.sampling /\ g.pc = h.pc /\ g.open = h.open
      /\ g.id = h.id /\ g.op = h.op /\ g.sync = h.sync /\ g.watch = h.watch
  BY <1>0, <1>3 DEF HostType
<1>1. Same(h, g)
  BY <1>4 DEF Same, Frontend, Alive, Tidy
<1> HIDE DEF g
<1> QED
  BY <1>1, <1>2, FrontendValues DEF Same

LEMMA HostUse ==
  ASSUME AttentionTypeOK, Frontend(host), Use
  PROVE  \/ Quiet(host, host') /\ UNCHANGED outbox
         \/ /\ Frontend(host') /\ InUse(host) = host.message.events /\ InUse(host') = {}
            /\ host'.sampling = host.message /\ host'.message = NoMessage /\ UNCHANGED outbox
         \/ /\ Frontend(host') /\ InUse(host) = host.message.events /\ InUse(host') = {}
            /\ host'.sampling = host.sampling /\ host'.message \in {host.message, NoMessage}
            /\ outbox' = outbox \cup {host.message}
<1> DEFINE h == Claimed(host)
<1>1. Same(host, h) /\ Frontend(h) /\ Frontend(Ended(h))
  BY ClaimedValue, FrontendValues DEF Same
<1>2. /\ Ended(h).message = NoMessage /\ Ended(h).sampling = host.sampling /\ Ended(h).pc = "free"
      /\ h.message = host.message /\ h.sampling = host.sampling /\ h.pc = "got" /\ host.pc = "got"
  BY <1>1, FrontendValues DEF Same, Use
<1>3. \/ host' = Ended(h) /\ UNCHANGED outbox
      \/ host' = [Ended(h) EXCEPT !.sampling = host.message] /\ UNCHANGED outbox
      \/ host' = Ended(h) /\ outbox' = outbox \cup {host.message}
      \/ host' = [h EXCEPT !.pc = "release"] /\ UNCHANGED outbox
      \/ host' = [h EXCEPT !.pc = "confirm", !.idle = FALSE] /\ outbox' = outbox \cup {host.message}
  BY DEF Use
<1> HIDE DEF h
<1>4. CASE host' = Ended(h) /\ UNCHANGED outbox
  BY <1>1, <1>4, QuietValues
<1>5. CASE host' = [Ended(h) EXCEPT !.sampling = host.message] /\ UNCHANGED outbox
  <2>1. host.message \in Message
    BY DEF Frontend, HostType
  <2>2. Frontend(host') /\ host'.sampling = host.message /\ host'.message = NoMessage /\ host'.pc = "free"
    BY <1>1, <1>2, <1>5, <2>1 DEF Frontend, HostType, Alive, Tidy
  <2> QED
    BY <1>2, <1>5, <2>2 DEF InUse
<1>6. CASE host' = Ended(h) /\ outbox' = outbox \cup {host.message}
  BY <1>1, <1>2, <1>6 DEF InUse
<1>7. CASE host' = [h EXCEPT !.pc = "release"] /\ UNCHANGED outbox
  <2>1. Frontend(host') /\ host'.sampling = host.sampling /\ host'.message = host.message /\ host'.pc = "release"
    BY <1>1, <1>2, <1>7 DEF Frontend, HostType, Alive, Tidy
  <2> QED
    BY <1>2, <1>7, <2>1 DEF InUse, Quiet, Drops
<1>8. CASE host' = [h EXCEPT !.pc = "confirm", !.idle = FALSE] /\ outbox' = outbox \cup {host.message}
  <2>1. h \in HostType /\ Alive(h) /\ (h.op = "none" => h.pc = "free")
    BY <1>1 DEF Frontend, Tidy
  <2>2. host' \in HostType
    BY <1>8, <2>1 DEF HostType
  <2>3. /\ host'.sampling = host.sampling /\ host'.message = host.message /\ host'.pc = "confirm"
        /\ host'.open = h.open /\ host'.sync = h.sync /\ host'.watch = h.watch /\ host'.op = h.op
    BY <1>2, <1>8, <2>1 DEF HostType
  <2>4. Frontend(host')
    BY <1>2, <2>1, <2>2, <2>3 DEF Frontend, Alive, Tidy
  <2> QED
    BY <1>2, <1>8, <2>3, <2>4 DEF InUse
<1> QED
  BY <1>3, <1>4, <1>5, <1>6, <1>7, <1>8

LEMMA HostUseFails ==
  ASSUME AttentionTypeOK, Frontend(host), UseFails
  PROVE  Quiet(host, host')
<1> DEFINE g == Claimed(host)
           h == [g EXCEPT !.claims = @ \ host.message.receipts]
<1>1. Same(host, g)
  BY ClaimedValue
<1>2. host' = Ended(Failed(h))
  BY DEF UseFails
<1> HIDE DEF g
<1>3. Same(host, h)
  BY <1>1 DEF Same, Frontend, HostType, Alive, Tidy
<1> HIDE DEF h
<1> QED
  BY <1>2, <1>3, FrontendValues, QuietValues DEF Same

LEMMA HostBoundary ==
  ASSUME AttentionTypeOK, Frontend(host), Boundary
  PROVE  \/ Quiet(host, host') /\ UNCHANGED outbox
         \/ /\ Frontend(host') /\ host'.sampling = NoMessage /\ host'.message = host.message
            /\ InUse(host) = {} /\ InUse(host') = {} /\ outbox' = outbox \cup {host.sampling}
<1>0. host \in HostType
  BY DEF Frontend
<1>1. CASE host.sampling = NoMessage
  <2>1. host.op = "none" /\ host' = [host EXCEPT !.op = "boundary", !.pc = "observe", !.stale = FALSE] /\ UNCHANGED outbox
    BY <1>1 DEF Boundary, Begin
  <2> QED
    BY <1>0, <2>1 DEF Quiet, Drops, InUse, Frontend, HostType, Alive, Tidy
<1>2. CASE host.sampling # NoMessage
  <2>1. host.op = "none" /\ host' = [host EXCEPT !.sampling = NoMessage] /\ outbox' = outbox \cup {host.sampling}
    BY <1>2 DEF Boundary
  <2>2. Frontend(host') /\ host'.sampling = NoMessage /\ host'.message = host.message /\ host.pc = "free" /\ host'.pc = "free"
    BY <1>0, <2>1, NoMessageType DEF Frontend, HostType, Alive, Tidy
  <2> QED
    BY <2>1, <2>2 DEF InUse
<1> QED
  BY <1>1, <1>2

------------------------------------------------------------------------------
(* Types *)

LEMMA SetStateType ==
  ASSUME NEW rs \in [Notices -> RowType], NEW S,
         NEW s \in {"absent", "pending", "pi_waiting", "pi_claimed", "unknown", "observed", "superseded"}
  PROVE  /\ SetState(rs, S, s) \in [Notices -> RowType]
         /\ \A n \in Notices : /\ SetState(rs, S, s)[n].receipt = rs[n].receipt
                               /\ SetState(rs, S, s)[n].state = IF n \in S THEN s ELSE rs[n].state
BY DEF SetState, RowType

\* What the daemon and the frontend write into the ledger and the calls is of its type.
LEMMA RowTypes ==
  ASSUME AttentionTypeOK, AttentionDeliveryNext
  PROVE  row' \in [Notices -> RowType]
<1>0. row \in [Notices -> RowType] /\ lease \in 0..MaxFrontends
  BY DEF AttentionTypeOK
<1> USE <1>0
<1>1. ASSUME NEW n \in Notices, Raise(n) \/ Supersede(n)
      PROVE  row' \in [Notices -> RowType]
  BY <1>1, SetStateType DEF Raise, Supersede
<1>2. CASE Wake \/ Open \/ Detach \/ UseFails
  BY <1>2, SetStateType DEF Wake, Open, Detach, UseFails, Doubtful, Settle
<1>3. ASSUME NEW r \in Receipts, ReleaseArrives(r) \/ Reconcile(r) \/ Doubt(r)
      PROVE  row' \in [Notices -> RowType]
  BY <1>3, SetStateType DEF ReleaseArrives, Reconcile, Doubt, Settle, Observed
<1>4. CASE Claim
  <2>1. row' = row \/ (issued' \in Receipts /\ row' = [n \in Notices |-> IF n \in Pending
                         THEN [state |-> "pi_claimed", receipt |-> issued', owner |-> lease] ELSE row[n]])
    BY <1>4, AttentionAssumption DEF Claim, AttentionTypeOK, Receipts
  <2> QED
    BY <2>1, AttentionAssumption DEF RowType, Receipts
<1>5. CASE ReleaseClaim
  BY <1>5, SetStateType DEF ReleaseClaim, Settle
<1>6. ASSUME NEW c \in Calls, NEW n \in Notices, Answer(c, n)
      PROVE  row' \in [Notices -> RowType]
  <2>1. PICK r \in 0..MaxReceipts : row' = [row EXCEPT ![n] = [state |-> "pi_waiting", receipt |-> r, owner |-> lease]]
    <3>1. CASE Reusable(n)
      BY <1>6, <3>1 DEF Answer, RowType
    <3>2. CASE ~ Reusable(n)
      <4>1. issued' \in 0..MaxReceipts
        BY <1>6, <3>2, AttentionAssumption DEF Answer, AttentionTypeOK
      <4> QED
        BY <1>6, <3>2, <4>1 DEF Answer
    <3> QED
      BY <3>1, <3>2
  <2> QED
    BY <2>1 DEF RowType
<1>7. CASE UNCHANGED row
  BY <1>7
<1> QED
  BY <1>1, <1>2, <1>3, <1>4, <1>5, <1>6, <1>7
  DEF AttentionDeliveryNext, ChainStep, WatchStep, PiStep, Reconciled, PassiveFails, Use, Doubted, Watch, WatchStops,
      WatchDelivers, WatchEnds, TurnSettles, Settled, Save, Lose, DaemonEnds, Close, TurnStarts, Take, Boundary,
      BoundaryFailed, Ask, Reply, ReplyTooLate, ResultSaved, ResultChanged, ledger

LEMMA LedgerTypes ==
  ASSUME AttentionTypeOK, AttentionDeliveryNext
  PROVE  /\ lease' \in 0..MaxFrontends /\ daemon' \in BOOLEAN /\ issued' \in 0..MaxReceipts
         /\ issued' = issued \/ (issued' = issued + 1 /\ issued' \in Receipts)
<1>1. CASE Open
  BY <1>1, AttentionAssumption DEF Open, AttentionTypeOK, HostType
<1>2. CASE UNCHANGED <<lease, issued>> /\ daemon' \in BOOLEAN
  BY <1>2 DEF AttentionTypeOK
<1>3. CASE Claim
  BY <1>3, AttentionAssumption DEF Claim, AttentionTypeOK, Receipts
<1>4. ASSUME NEW c \in Calls, NEW n \in Notices, Answer(c, n)
      PROVE  /\ lease' \in 0..MaxFrontends /\ daemon' \in BOOLEAN /\ issued' \in 0..MaxReceipts
             /\ issued' = issued \/ (issued' = issued + 1 /\ issued' \in Receipts)
  BY <1>4, AttentionAssumption DEF Answer, AttentionTypeOK, Receipts
<1>5. CASE Detach
  BY <1>5, AttentionAssumption DEF Detach, AttentionTypeOK
<1>6. CASE \E n \in Notices : Raise(n) \/ Supersede(n)
  BY <1>2, <1>6 DEF Raise, Supersede, AttentionTypeOK
<1>7. CASE DaemonEnds \/ Wake \/ Close \/ UseFails \/ TurnStarts \/ Take \/ Boundary \/ BoundaryFailed
  BY <1>2, <1>7 DEF DaemonEnds, Wake, Close, UseFails, TurnStarts, Take, Boundary, BoundaryFailed, ledger, AttentionTypeOK
<1>8. CASE WatchStep \/ PiStep
  BY <1>2, <1>8 DEF WatchStep, PiStep, Watch, WatchStops, WatchDelivers, WatchEnds, TurnSettles, Settled, Save, ledger, AttentionTypeOK
<1>9. CASE (\E r \in Receipts : Reconcile(r) \/ Doubt(r) \/ ReleaseArrives(r)) \/ Reconciled \/ PassiveFails \/ Use
           \/ ReleaseClaim \/ Doubted
  BY <1>2, <1>9 DEF Reconcile, Doubt, ReleaseArrives, Reconciled, PassiveFails, Use, ReleaseClaim, Doubted, ledger, AttentionTypeOK
<1>10. CASE \E m \in Message : Lose(m)
  BY <1>2, <1>10 DEF Lose, ledger, AttentionTypeOK
<1>11. ASSUME NEW c \in Calls,
              (\E S \in SUBSET Notices : Ask(c, S)) \/ Reply(c) \/ ReplyTooLate(c) \/ ResultSaved(c) \/ ResultChanged(c)
       PROVE  UNCHANGED <<lease, issued>> /\ daemon' \in BOOLEAN
  BY <1>11 DEF ledger, AttentionTypeOK, Ask, Reply, ReplyTooLate, ResultSaved, ResultChanged
<1> QED
  BY <1>1, <1>2, <1>3, <1>4, <1>5, <1>6, <1>7, <1>8, <1>9, <1>10, <1>11
  DEF AttentionDeliveryNext, ChainStep

\* A call keeps its message; only the one that is answered gets one.
CallsKept ==
  \A c \in Calls : /\ call'[c].message = call[c].message
                   /\ call'[c].pc \in {"new", "asked"} => call[c].pc \in {"new", "asked"}

LEMMA CallPc ==
  ASSUME AttentionTypeOK, NEW C, NEW s \in {"answered", "held", "altered", "done", "cancelled"},
         call' = [c \in Calls |-> IF c \in C THEN [call[c] EXCEPT !.pc = s] ELSE call[c]]
  PROVE  call' \in [Calls -> CallType] /\ CallsKept
<1>1. call \in [Calls -> CallType]
  BY DEF AttentionTypeOK
<1>2. ASSUME NEW c \in Calls
      PROVE  /\ call'[c] \in CallType /\ call'[c].message = call[c].message
             /\ call'[c].pc = s \/ call'[c].pc = call[c].pc
  BY <1>1 DEF CallType
<1>3. call' \in [Calls -> CallType]
  BY <1>2
<1> QED
  BY <1>2, <1>3 DEF CallsKept

LEMMA CallOne ==
  ASSUME AttentionTypeOK, NEW c \in Calls, NEW s \in {"answered", "held", "altered", "done", "cancelled"},
         call' = [call EXCEPT ![c].pc = s]
  PROVE  call' \in [Calls -> CallType] /\ CallsKept
<1>1. call' = [d \in Calls |-> IF d \in {c} THEN [call[d] EXCEPT !.pc = s] ELSE call[d]]
  BY DEF AttentionTypeOK
<1> QED
  BY <1>1, CallPc

LEMMA CallSame ==
  ASSUME AttentionTypeOK, UNCHANGED call
  PROVE  call' \in [Calls -> CallType] /\ CallsKept
BY DEF AttentionTypeOK, CallsKept

LEMMA CallTypes ==
  ASSUME AttentionTypeOK, ReceiptsFit, AttentionDeliveryNext
  PROVE  call' \in [Calls -> CallType] /\ (CallsKept \/ \E c \in Calls, n \in Notices : Answer(c, n))
<1>0. call \in [Calls -> CallType]
  BY DEF AttentionTypeOK
<1>1. CASE UNCHANGED call
  BY <1>1, CallSame
<1>2. CASE DaemonEnds
  <2> DEFINE C == {c \in Calls : call[c].pc = "asked"}
  <2>1. call' = [c \in Calls |-> IF c \in C THEN [call[c] EXCEPT !.pc = "cancelled"] ELSE call[c]]
    BY <1>2 DEF DaemonEnds
  <2> HIDE DEF C
  <2> QED
    BY <2>1, CallPc
<1>3. CASE Close
  <2> DEFINE C == {c \in Calls : call[c].pc # "new"}
  <2>1. call' = [c \in Calls |-> IF c \in C THEN [call[c] EXCEPT !.pc = "done"] ELSE call[c]]
    BY <1>3 DEF Close
  <2> HIDE DEF C
  <2> QED
    BY <2>1, CallPc
<1>4. CASE Reconciled
  <2> DEFINE C == {c \in Calls : c \in Delivered /\ call[c].message.receipts \subseteq host.observed}
  <2>1. call' = [c \in Calls |-> IF c \in C THEN [call[c] EXCEPT !.pc = "done"] ELSE call[c]]
    BY <1>4 DEF Reconciled, Forgotten
  <2> HIDE DEF C
  <2> QED
    BY <2>1, CallPc
<1>5. ASSUME NEW r \in Receipts, Doubt(r)
      PROVE  call' \in [Calls -> CallType] /\ CallsKept
  <2> DEFINE C == {c \in Calls : c \in Delivered /\ r \in call[c].message.receipts}
  <2>1. UNCHANGED call \/ call' = [c \in Calls |-> IF c \in C THEN [call[c] EXCEPT !.pc = "done"] ELSE call[c]]
    BY <1>5 DEF Doubt
  <2> HIDE DEF C
  <2> QED
    BY <2>1, CallPc, CallSame
<1>6. ASSUME NEW c \in Calls, NEW S \in SUBSET Notices, Ask(c, S)
      PROVE  call' \in [Calls -> CallType] /\ CallsKept
  <2> DEFINE v == [pc |-> "asked", wants |-> S, message |-> NoMessage]
  <2>1. call' = [call EXCEPT ![c] = v] /\ call[c].pc = "new"
    BY <1>6 DEF Ask
  <2>2. v \in CallType /\ v.message = NoMessage
    BY NoMessageType DEF CallType
  <2> HIDE DEF v
  <2>3. call[c].message = NoMessage
    BY <2>1 DEF ReceiptsFit
  <2> QED
    BY <1>0, <2>1, <2>2, <2>3 DEF CallsKept
<1>7. ASSUME NEW c \in Calls, Reply(c) \/ ReplyTooLate(c) \/ ResultSaved(c) \/ ResultChanged(c)
      PROVE  call' \in [Calls -> CallType] /\ CallsKept
  <2>1. UNCHANGED call \/ \E s \in {"held", "cancelled", "done", "altered"} : call' = [call EXCEPT ![c].pc = s]
    BY <1>7 DEF Reply, ReplyTooLate, ResultSaved, ResultChanged
  <2> QED
    BY <2>1, CallOne, CallSame
<1>8. ASSUME NEW c \in Calls, NEW n \in Notices, Answer(c, n)
      PROVE  call' \in [Calls -> CallType]
  <2>1. PICK r \in Receipts : call' = [call EXCEPT ![c].pc = "answered", ![c].message = [receipts |-> {r}, events |-> {n}]]
    <3>1. CASE Reusable(n)
      <4>1. row[n].receipt \in Receipts
        <5>1. row[n].receipt \in 0..MaxReceipts
          BY DEF AttentionTypeOK, RowType
        <5>2. row[n].receipt # 0
          BY <3>1 DEF Reusable, ReceiptsFit
        <5> QED
          BY <5>1, <5>2, AttentionAssumption DEF Receipts
      <4> QED
        BY <1>8, <3>1, <4>1 DEF Answer
    <3>2. CASE ~ Reusable(n)
      <4>1. issued' \in Receipts
        BY <1>8, <3>2, AttentionAssumption DEF Answer, AttentionTypeOK, Receipts
      <4> QED
        BY <1>8, <3>2, <4>1 DEF Answer
    <3> QED
      BY <3>1, <3>2
  <2>2. [receipts |-> {r}, events |-> {n}] \in Message
    BY DEF Message
  <2> QED
    BY <1>0, <2>1, <2>2 DEF CallType
<1> QED
  BY <1>1, <1>2, <1>3, <1>4, <1>5, <1>6, <1>7, <1>8
  DEF AttentionDeliveryNext, ChainStep, WatchStep, PiStep, PassiveFails, Use, Doubted, Watch, WatchStops, WatchDelivers,
      WatchEnds, TurnSettles, Settled, Save, Lose, TurnStarts, Take, Boundary, BoundaryFailed, Raise, Supersede, Wake,
      Detach, Open, UseFails, ReleaseArrives, Reconcile, Claim, ReleaseClaim

LEMMA HostTypes ==
  ASSUME AttentionTypeOK, Frontend(host), AttentionDeliveryNext
  PROVE  Frontend(host')
<1>1. Quiet(host, host') => Frontend(host')
  BY DEF Quiet
<1>2. ASSUME NEW c \in Calls, Reply(c)
      PROVE  Frontend(host')
  BY <1>2, ResumeValue DEF Reply, Frontend, Same
<1>3. CASE UNCHANGED host
  BY <1>3
<1> QED
  BY <1>1, <1>2, <1>3, HostChain, HostRest, HostClaim, HostUse, HostUseFails, HostBoundary
  DEF AttentionDeliveryNext, ChainStep, PiStep, Save, Lose, Raise, Supersede, DaemonEnds, Wake, Detach, ReleaseArrives,
      Ask, Answer, ReplyTooLate, ResultSaved, ResultChanged

LEMMA SessionTypes ==
  ASSUME AttentionTypeOK, Frontend(host), AttentionDeliveryNext
  PROVE  releases' \subseteq Receipts /\ detaching' \in 0..MaxFrontends /\ outbox' \subseteq Message /\ saved' \subseteq Message
<1>0. /\ releases \subseteq Receipts /\ detaching \in 0..MaxFrontends /\ outbox \subseteq Message /\ saved \subseteq Message
      /\ host.message \in Message /\ host.sampling \in Message /\ host.id \in 0..MaxFrontends
      /\ 0 \in 0..MaxFrontends /\ \A c \in Calls : call[c].message \in Message /\ call[c].message.receipts \subseteq Receipts
  BY AttentionAssumption DEF AttentionTypeOK, Frontend, HostType, CallType, Message
<1>1. CASE UNCHANGED <<releases, detaching, outbox, saved>>
  BY <1>0, <1>1
<1>2. CASE Detach \/ Close
  BY <1>0, <1>2 DEF Detach, Close, session
<1>3. CASE Use \/ Boundary
  BY <1>0, <1>3 DEF Use, Boundary
<1>4. ASSUME NEW m \in Message, Save(m) \/ Lose(m)
      PROVE  releases' \subseteq Receipts /\ detaching' \in 0..MaxFrontends /\ outbox' \subseteq Message /\ saved' \subseteq Message
  BY <1>0, <1>4 DEF Save, Lose
<1>5. ASSUME NEW r \in Receipts, ReleaseArrives(r)
      PROVE  releases' \subseteq Receipts /\ detaching' \in 0..MaxFrontends /\ outbox' \subseteq Message /\ saved' \subseteq Message
  BY <1>0, <1>5 DEF ReleaseArrives, session
<1>6. ASSUME NEW c \in Calls, ReplyTooLate(c) \/ ResultSaved(c) \/ ResultChanged(c)
      PROVE  releases' \subseteq Receipts /\ detaching' \in 0..MaxFrontends /\ outbox' \subseteq Message /\ saved' \subseteq Message
  BY <1>0, <1>6 DEF ReplyTooLate, ResultSaved, ResultChanged, session
<1> QED
  BY <1>1, <1>2, <1>3, <1>4, <1>5, <1>6
  DEF AttentionDeliveryNext, ChainStep, WatchStep, PiStep, Reconcile, Reconciled, Claim, ReleaseClaim, Doubt, PassiveFails,
      Doubted, Watch, WatchStops, WatchDelivers, WatchEnds, TurnSettles, Settled, TurnStarts, Take, BoundaryFailed,
      Raise, Supersede, DaemonEnds, Wake, Open, UseFails, Ask, Answer, Reply, session

LEMMA TypeStep ==
  ASSUME AttentionTypeOK, Frontend(host), ReceiptsFit, AttentionDeliveryNext
  PROVE  AttentionTypeOK' /\ Frontend(host)'
<1>1. Frontend(host')
  BY HostTypes
<1> QED
  BY <1>1, RowTypes, LedgerTypes, CallTypes, SessionTypes DEF AttentionTypeOK, Frontend

------------------------------------------------------------------------------
(* ReceiptsFit and AtMostOnce: steps that hand out no receipt and submit nothing. *)

LEMMA NothingInNoMessage ==
  /\ NoMessage.receipts = {} /\ NoMessage.events = {} /\ \A rs : With(rs, NoMessage.receipts) = {}
BY DEF NoMessage, With

LEMMA InEvents ==
  ASSUME NEW S, NEW n
  PROVE  n \in Events(S) <=> \E m \in S : n \in m.events
BY DEF Events

LEMMA InAsked ==
  ASSUME NEW n
  PROVE  n \in Asked <=> \E c \in Calls : n \in call[c].message.events
BY DEF Asked, Events

LEMMA AskedSame ==
  ASSUME CallsKept
  PROVE  Asked' = Asked
BY DEF Asked, Events, CallsKept

ReceiptsKept ==
  /\ issued' = issued
  /\ \A n \in Notices : row'[n].receipt = row[n].receipt
  /\ \A n \in Notices : row'[n].state = "pi_waiting" => row[n].state = "pi_waiting"

LEMMA FitKept ==
  ASSUME AttentionTypeOK, ReceiptsFit, CallsKept, ReceiptsKept,
         host'.message \in Known \cup {NoMessage}, host'.sampling \in Known \cup {NoMessage},
         outbox' \subseteq Known, saved' \subseteq Known,
         \A r \in releases' : r \in releases \/ \E c \in Calls : r \in call[c].message.receipts
  PROVE  ReceiptsFit'
<1>1. Asked' = Asked
  BY AskedSame
<1>2. ASSUME NEW R
      PROVE  With(row', R) = With(row, R)
  <2>1. \A n \in Notices : row'[n].receipt \in R <=> row[n].receipt \in R
    BY DEF ReceiptsKept
  <2> QED
    BY <2>1 DEF With
<1>3. \A m \in Known' : m \in Known \cup {NoMessage}
  BY DEF Known, CallsKept
<1>4. ASSUME NEW m \in Known'
      PROVE  m.receipts \subseteq 1..issued' /\ With(row', m.receipts) \subseteq m.events
  BY <1>2, <1>3, NothingInNoMessage DEF ReceiptsFit, ReceiptsKept
<1>5. ASSUME NEW r \in releases'
      PROVE  r <= issued' /\ With(row', {r}) \subseteq Asked'
  <2>1. CASE r \in releases
    BY <1>1, <1>2, <2>1 DEF ReceiptsFit, ReceiptsKept
  <2>2. ASSUME NEW c \in Calls, r \in call[c].message.receipts
        PROVE  r <= issued' /\ With(row', {r}) \subseteq Asked'
    <3>1. call[c].message.receipts \subseteq 1..issued /\ With(row, call[c].message.receipts) \subseteq call[c].message.events
      BY DEF ReceiptsFit, Known
    <3>2. With(row, {r}) \subseteq With(row, call[c].message.receipts) /\ r \in 1..issued
      BY <2>2, <3>1 DEF With
    <3>3. call[c].message.events \subseteq Asked
      BY InAsked
    <3>4. issued' = issued /\ issued \in Nat
      BY AttentionAssumption DEF ReceiptsKept, AttentionTypeOK
    <3>5. With(row, {r}) \subseteq Asked
      BY <3>1, <3>2, <3>3
    <3>6. r <= issued
      BY <3>2, <3>4
    <3> QED
      BY <1>1, <1>2, <3>4, <3>5, <3>6
  <2> QED
    BY <2>1, <2>2
<1>6. ASSUME NEW n \in Notices
      PROVE  row'[n].receipt <= issued'
  <2>1. row'[n].receipt = row[n].receipt /\ issued' = issued /\ row[n].receipt <= issued
    BY DEF ReceiptsKept, ReceiptsFit
  <2> QED
    BY <2>1
<1>7. ASSUME NEW n \in Notices, row'[n].state = "pi_waiting"
      PROVE  row'[n].receipt # 0 /\ With(row', {row'[n].receipt}) = {n} /\ n \in Asked'
  <2>1. row'[n].receipt = row[n].receipt /\ row[n].state = "pi_waiting"
    BY <1>7 DEF ReceiptsKept
  <2>2. row[n].receipt # 0 /\ With(row, {row[n].receipt}) = {n} /\ n \in Asked
    BY <2>1 DEF ReceiptsFit
  <2> QED
    BY <1>1, <1>2, <2>1, <2>2
<1>8. \A c \in Calls : call'[c].pc \in {"new", "asked"} => call'[c].message = NoMessage
  BY DEF CallsKept, ReceiptsFit
<1> QED
  BY <1>4, <1>5, <1>6, <1>7, <1>8 DEF ReceiptsFit

\* A row is offered only if it was before, or its notice is nowhere else.
Offers(n) ==
  row'[n].state \in Offerable =>
    row[n].state \in Offerable \/ n \notin InConversation \cup host'.sampling.events \cup InUse(host')

LEMMA OnceKept ==
  ASSUME AtMostOnce, CallsKept, Drops(host, host'), outbox' \subseteq outbox, UNCHANGED saved,
         \A n \in Notices \ Asked : Offers(n)
  PROVE  AtMostOnce'
<1>1. Asked' = Asked
  BY AskedSame
<1>2. Events(outbox') \subseteq Events(outbox) /\ Events(saved') = Events(saved)
  BY DEF Events
<1>3. host'.sampling.events \subseteq host.sampling.events /\ InUse(host') \subseteq InUse(host)
  BY NothingInNoMessage DEF Drops
<1>4. ASSUME NEW n \in Notices \ Asked
      PROVE  Once(n)'
  <2>1. Once(n) /\ Offers(n)
    BY DEF AtMostOnce
  <2> QED
    BY <1>2, <1>3, <2>1 DEF Once, Offers, InConversation
<1> QED
  BY <1>1, <1>4 DEF AtMostOnce

(* Both at once, for a step that leaves the messages alone. *)
LEMMA Kept ==
  ASSUME AttentionTypeOK, ReceiptsFit, AtMostOnce, CallsKept, Drops(host, host'), outbox' \subseteq outbox, UNCHANGED saved,
         ReceiptsKept, \A n \in Notices \ Asked : Offers(n),
         \A r \in releases' : r \in releases \/ \E c \in Calls : r \in call[c].message.receipts
  PROVE  ReceiptsFit' /\ AtMostOnce'
<1>1. /\ host'.message \in Known \cup {NoMessage} /\ host'.sampling \in Known \cup {NoMessage}
      /\ outbox' \subseteq Known /\ saved' \subseteq Known
  BY DEF Drops, Known
<1> QED
  BY <1>1, FitKept, OnceKept

LEMMA DropsSame ==
  ASSUME UNCHANGED host
  PROVE  Drops(host, host')
BY DEF Drops

\* A row moves without a new receipt.
LEMMA RowsMove ==
  ASSUME AttentionTypeOK, NEW S, NEW s \in {"pending", "unknown", "observed", "superseded"},
         row' = SetState(row, S, s), UNCHANGED issued
  PROVE  ReceiptsKept /\ \A n \in Notices : row'[n].state = IF n \in S THEN s ELSE row[n].state
<1>1. row \in [Notices -> RowType]
  BY DEF AttentionTypeOK
<1> QED
  BY <1>1, SetStateType DEF ReceiptsKept

LEMMA RowsDoubted ==
  ASSUME AttentionTypeOK, NEW S, NEW s \in {"unknown", "observed"}, row' = SetState(row, S, s), UNCHANGED issued
  PROVE  ReceiptsKept /\ \A n \in Notices : Offers(n)
BY RowsMove DEF Offers, Offerable

LEMMA RowsSame ==
  ASSUME UNCHANGED <<row, issued>>
  PROVE  ReceiptsKept /\ \A n \in Notices : Offers(n)
BY DEF ReceiptsKept, Offers

(* The ledger by itself, the release that arrives, and the end of a daemon or a frontend. *)
LEMMA LedgerSteps ==
  ASSUME AttentionTypeOK, Frontend(host), ReceiptsFit, AtMostOnce, CallsKept,
         \/ \E n \in Notices : Raise(n) \/ Supersede(n)
         \/ DaemonEnds \/ Wake \/ Detach \/ Open \/ Close \/ \E r \in Receipts : ReleaseArrives(r)
  PROVE  ReceiptsFit' /\ AtMostOnce'
<1>1. ASSUME NEW n \in Notices, Raise(n)
      PROVE  ReceiptsFit' /\ AtMostOnce'
  <2>1. row' = SetState(row, {n}, "pending") /\ row[n].state = "absent" /\ UNCHANGED <<issued, host, releases, outbox, saved>>
    BY <1>1 DEF Raise, session
  <2>2. ReceiptsKept /\ \A k \in Notices : row'[k].state = IF k \in {n} THEN "pending" ELSE row[k].state
    BY <2>1, RowsMove
  <2>3. \A k \in Notices : Offers(k)
    BY <2>1, <2>2 DEF Offers, Offerable
  <2> QED
    BY <2>1, <2>2, <2>3, Kept, DropsSame
<1>2. ASSUME NEW n \in Notices, Supersede(n)
      PROVE  ReceiptsFit' /\ AtMostOnce'
  <2>1. row' = SetState(row, {n}, "superseded") /\ row[n].state = "pending" /\ UNCHANGED <<issued, host, releases, outbox, saved>>
    BY <1>2 DEF Supersede, session
  <2>2. ReceiptsKept /\ \A k \in Notices : row'[k].state = IF k \in {n} THEN "superseded" ELSE row[k].state
    BY <2>1, RowsMove
  <2>3. \A k \in Notices : Offers(k)
    BY <2>1, <2>2 DEF Offers, Offerable
  <2> QED
    BY <2>1, <2>2, <2>3, Kept, DropsSame
<1>3. CASE DaemonEnds
  BY <1>3, RowsSame, Kept, DropsSame DEF DaemonEnds, session
<1>4. CASE Wake
  BY <1>4, RowsDoubted, Kept, DropsSame DEF Wake, Doubtful, session
<1>5. CASE Detach
  <2>1. UNCHANGED <<row, issued>> \/ (row' = SetState(row, Held(row, lease), "unknown") /\ UNCHANGED issued)
    BY <1>5 DEF Detach
  <2> QED
    BY <1>5, <2>1, RowsSame, RowsDoubted, Kept, DropsSame DEF Detach, session
<1>6. CASE Open
  <2>1. Drops(host, host')
    BY <1>6, HostRest DEF Quiet
  <2> QED
    BY <1>6, <2>1, RowsDoubted, Kept DEF Open, Doubtful, session
<1>7. CASE Close
  <2>1. Drops(host, host')
    BY <1>7, HostRest DEF Quiet
  <2> QED
    BY <1>7, <2>1, RowsSame, Kept DEF Close, ledger
<1>8. ASSUME NEW r \in Receipts, ReleaseArrives(r)
      PROVE  ReceiptsFit' /\ AtMostOnce'
  <2>1. releases' \subseteq releases /\ r \in releases /\ UNCHANGED <<issued, host, outbox, saved>>
    BY <1>8 DEF ReleaseArrives, session
  <2>2. CASE row' = row
    BY <2>1, <2>2, RowsSame, Kept, DropsSame
  <2>3. CASE row' # row
    <3> DEFINE S == With(row, {r}) \cap Held(row, lease)
    <3>1. row' = SetState(row, S, "pending") /\ S \subseteq Asked
      BY <1>8, <2>1, <2>3 DEF ReleaseArrives, Settle, ReceiptsFit
    <3> HIDE DEF S
    <3>2. ReceiptsKept /\ \A n \in Notices : row'[n].state = IF n \in S THEN "pending" ELSE row[n].state
      BY <2>1, <3>1, RowsMove
    <3>3. \A n \in Notices \ Asked : Offers(n)
      BY <3>1, <3>2 DEF Offers
    <3> QED
      BY <2>1, <3>2, <3>3, Kept, DropsSame
  <2> QED
    BY <2>2, <2>3
<1> QED
  BY <1>1, <1>2, <1>3, <1>4, <1>5, <1>6, <1>7, <1>8

(* The chain, but for its claims and what it does with them. *)
LEMMA ChainSteps ==
  ASSUME AttentionTypeOK, Frontend(host), ReceiptsFit, AtMostOnce, CallsKept,
         (\E r \in Receipts : Reconcile(r) \/ Doubt(r)) \/ Reconciled \/ PassiveFails \/ Doubted \/ ReleaseClaim \/ UseFails
  PROVE  ReceiptsFit' /\ AtMostOnce'
<1>0. Drops(host, host')
  BY HostChain, HostUseFails DEF Quiet
<1>1. ASSUME NEW r \in Receipts, Reconcile(r)
      PROVE  ReceiptsFit' /\ AtMostOnce'
  <2>1. UNCHANGED <<issued, releases, outbox, saved>> /\ (row' = row \/ row' = SetState(row, With(row, {r}), "observed"))
    BY <1>1 DEF Reconcile, Observed, session
  <2> QED
    BY <1>0, <2>1, RowsSame, RowsDoubted, Kept
<1>2. ASSUME NEW r \in Receipts, Doubt(r)
      PROVE  ReceiptsFit' /\ AtMostOnce'
  <2>1. /\ UNCHANGED <<issued, releases, outbox, saved>>
        /\ row' = row \/ row' = SetState(row, With(row, {r}) \cap Held(row, lease), "unknown")
    BY <1>2 DEF Doubt, Settle, session
  <2> QED
    BY <1>0, <2>1, RowsSame, RowsDoubted, Kept
<1>3. CASE Reconciled \/ PassiveFails \/ Doubted
  <2>1. UNCHANGED <<row, issued, releases, outbox, saved>>
    BY <1>3 DEF Reconciled, PassiveFails, Doubted, ledger, session
  <2> QED
    BY <1>0, <2>1, RowsSame, Kept
<1>4. CASE UseFails
  <2>1. UNCHANGED <<issued, releases, outbox, saved>>
        /\ row' = SetState(row, With(row, host.message.receipts) \cap Held(row, lease), "unknown")
    BY <1>4 DEF UseFails, Settle, session
  <2> QED
    BY <1>0, <2>1, RowsDoubted, Kept
<1>5. CASE ReleaseClaim
  <2>1. UNCHANGED <<issued, releases, outbox, saved>>
    BY <1>5 DEF ReleaseClaim, session
  <2>2. CASE row' = row
    BY <1>0, <2>1, <2>2, RowsSame, Kept
  <2>3. CASE row' # row
    <3> DEFINE S == With(row, host.message.receipts) \cap Held(row, lease)
               h == [host EXCEPT !.claims = @ \ host.message.receipts]
    <3>1. row' = SetState(row, S, "pending") /\ host' = Ended(h) /\ host.pc = "release"
      BY <1>5, <2>3 DEF ReleaseClaim, Settle
    <3>2. S \subseteq InUse(host) /\ S \subseteq Notices
      BY <3>1 DEF InUse, ReceiptsFit, Known, With
    <3>3. Same(host, h)
      BY DEF Same, Frontend, HostType, Alive, Tidy
    <3> HIDE DEF S, h
    <3>4. ReceiptsKept /\ \A n \in Notices : row'[n].state = IF n \in S THEN "pending" ELSE row[n].state
      BY <2>1, <3>1, RowsMove
    <3>5. InUse(host') = {} /\ host'.sampling = host.sampling
      BY <3>1, <3>3, FrontendValues DEF Same, InUse
    <3>6. ASSUME NEW n \in Notices \ Asked
          PROVE  Offers(n)
      <4>1. CASE n \in S
        BY <3>2, <3>5, <4>1 DEF AtMostOnce, Once, Offers
      <4>2. CASE n \notin S
        BY <3>4, <4>2 DEF Offers
      <4> QED
        BY <4>1, <4>2
    <3> QED
      BY <1>0, <2>1, <3>4, <3>6, Kept
  <2> QED
    BY <2>2, <2>3
<1> QED
  BY <1>1, <1>2, <1>3, <1>4, <1>5

(* The watcher and Pi's turns, and a call that is asked, answered late or changed. *)
LEMMA PiSteps ==
  ASSUME AttentionTypeOK, Frontend(host), ReceiptsFit, AtMostOnce, CallsKept,
         \/ WatchStep \/ TurnStarts \/ Take \/ BoundaryFailed \/ TurnSettles \/ Settled
         \/ \E m \in Message : Lose(m)
         \/ \E c \in Calls : (\E S \in SUBSET Notices : Ask(c, S)) \/ Reply(c) \/ ReplyTooLate(c) \/ ResultChanged(c)
  PROVE  ReceiptsFit' /\ AtMostOnce'
<1>1. CASE WatchStep \/ TurnStarts \/ Take \/ BoundaryFailed \/ TurnSettles \/ Settled
  <2>1. Drops(host, host')
    BY <1>1, HostRest DEF Quiet
  <2>2. UNCHANGED <<row, issued, releases, outbox, saved>>
    BY <1>1 DEF WatchStep, Watch, WatchStops, WatchDelivers, WatchEnds, TurnStarts, Take, BoundaryFailed, TurnSettles,
                Settled, ledger, session
  <2> QED
    BY <2>1, <2>2, RowsSame, Kept
<1>2. ASSUME NEW m \in Message, Lose(m)
      PROVE  ReceiptsFit' /\ AtMostOnce'
  BY <1>2, RowsSame, Kept, DropsSame DEF Lose, ledger
<1>3. ASSUME NEW c \in Calls, (\E S \in SUBSET Notices : Ask(c, S)) \/ ReplyTooLate(c) \/ ResultChanged(c)
      PROVE  ReceiptsFit' /\ AtMostOnce'
  <2>1. UNCHANGED <<row, issued, host, outbox, saved>>
    BY <1>3 DEF Ask, ReplyTooLate, ResultChanged, ledger, session
  <2>2. releases' \subseteq releases \cup call[c].message.receipts
    BY <1>3 DEF Ask, ReplyTooLate, ResultChanged
  <2> QED
    BY <2>1, <2>2, RowsSame, Kept, DropsSame
<1>4. ASSUME NEW c \in Calls, Reply(c)
      PROVE  ReceiptsFit' /\ AtMostOnce'
  <2>1. Drops(host, host')
    BY <1>4, ResumeValue, QuietValues DEF Reply, Frontend, Quiet
  <2> QED
    BY <1>4, <2>1, RowsSame, Kept DEF Reply, ledger, session
<1> QED
  BY <1>1, <1>2, <1>3, <1>4

------------------------------------------------------------------------------
(* ... and the steps that do: a claim, an answer, a submission, and what is saved. *)

FreshFor(N) ==
  /\ issued' = issued + 1
  /\ \A n \in N : row'[n].receipt = issued'
  /\ \A n \in Notices \ N : row'[n] = row[n]

LEMMA FreshReceipt ==
  ASSUME AttentionTypeOK, ReceiptsFit, NEW N \in SUBSET Notices, FreshFor(N)
  PROVE  /\ \A R : R \subseteq 1..issued => With(row', R) \subseteq With(row, R)
         /\ With(row', {issued'}) = N
         /\ \A n \in Notices : row'[n].receipt <= issued'
         /\ issued \in Nat /\ issued' \in Nat
<1>0. issued \in Nat /\ issued' = issued + 1 /\ \A n \in Notices : row[n].receipt \in Nat /\ row[n].receipt <= issued
  BY AttentionAssumption DEF AttentionTypeOK, RowType, ReceiptsFit, FreshFor
<1>1. ASSUME NEW R, R \subseteq 1..issued, NEW n \in With(row', R)
      PROVE  n \in With(row, R)
  <2>1. n \in Notices /\ row'[n].receipt \in 1..issued /\ row'[n].receipt \in R
    BY <1>1 DEF With
  <2>2. n \notin N
    BY <1>0, <2>1 DEF FreshFor
  <2> QED
    BY <2>1, <2>2 DEF With, FreshFor
<1>2. ASSUME NEW n \in Notices
      PROVE  row'[n].receipt = issued' <=> n \in N
  <2>1. CASE n \in N
    BY <2>1 DEF FreshFor
  <2>2. CASE n \notin N
    <3>1. row'[n].receipt = row[n].receipt
      BY <2>2 DEF FreshFor
    <3> QED
      BY <1>0, <2>2, <3>1
  <2> QED
    BY <2>1, <2>2
<1>3. ASSUME NEW n \in Notices
      PROVE  row'[n].receipt <= issued'
  <2>1. CASE n \in N
    BY <1>0, <2>1 DEF FreshFor
  <2>2. CASE n \notin N
    <3>1. row'[n].receipt = row[n].receipt
      BY <2>2 DEF FreshFor
    <3> QED
      BY <1>0, <3>1
  <2> QED
    BY <2>1, <2>2
<1>4. With(row', {issued'}) = N
  BY <1>2 DEF With
<1> QED
  BY <1>0, <1>1, <1>3, <1>4

LEMMA FitFresh ==
  ASSUME AttentionTypeOK, ReceiptsFit, NEW N \in SUBSET Notices, FreshFor(N),
         Known' \subseteq Known \cup {[receipts |-> {issued'}, events |-> N]},
         UNCHANGED releases, Asked \subseteq Asked',
         \A n \in N : row'[n].state = "pi_waiting" => N = {n} /\ n \in Asked',
         \A c \in Calls : call'[c].pc \in {"new", "asked"} => call'[c].message = NoMessage
  PROVE  ReceiptsFit'
<1>0. issued \in Nat /\ issued' = issued + 1
  BY FreshReceipt DEF FreshFor
<1>1. ASSUME NEW m \in Known'
      PROVE  m.receipts \subseteq 1..issued' /\ With(row', m.receipts) \subseteq m.events
  <2>1. CASE m \in Known
    <3>1. m.receipts \subseteq 1..issued /\ With(row, m.receipts) \subseteq m.events
      BY <2>1 DEF ReceiptsFit
    <3>2. 1..issued \subseteq 1..issued'
      BY <1>0
    <3> QED
      BY <3>1, <3>2, FreshReceipt
  <2>2. CASE m = [receipts |-> {issued'}, events |-> N]
    <3>1. m.receipts = {issued'} /\ m.events = N /\ issued' \in 1..issued'
      BY <1>0, <2>2
    <3> QED
      BY <3>1, FreshReceipt
  <2> QED
    BY <2>1, <2>2
<1>2. ASSUME NEW r \in releases
      PROVE  r <= issued' /\ With(row', {r}) \subseteq Asked'
  <2>1. r \in Receipts /\ r <= issued /\ With(row, {r}) \subseteq Asked
    BY DEF AttentionTypeOK, ReceiptsFit
  <2>2. {r} \subseteq 1..issued /\ r <= issued'
    BY <1>0, <2>1 DEF Receipts
  <2> QED
    BY <2>1, <2>2, FreshReceipt
<1>3. ASSUME NEW n \in Notices, row'[n].state = "pi_waiting"
      PROVE  row'[n].receipt # 0 /\ With(row', {row'[n].receipt}) = {n} /\ n \in Asked'
  <2>1. CASE n \in N
    <3>1. row'[n].receipt = issued' /\ N = {n} /\ n \in Asked' /\ issued' # 0
      BY <1>0, <1>3, <2>1 DEF FreshFor
    <3>2. With(row', {issued'}) = N
      BY FreshReceipt
    <3> QED
      BY <3>1, <3>2
  <2>2. CASE n \notin N
    <3>1. row'[n] = row[n]
      BY <2>2 DEF FreshFor
    <3>2. row[n].receipt # 0 /\ With(row, {row[n].receipt}) = {n} /\ n \in Asked /\ row[n].receipt <= issued
          /\ row[n].receipt \in Nat
      <4>1. row[n].state = "pi_waiting" /\ row[n].receipt \in 0..MaxReceipts
        BY <1>3, <3>1 DEF AttentionTypeOK, RowType
      <4>2. /\ \A k \in Notices : row[k].receipt <= issued
            /\ \A k \in Notices : row[k].state = "pi_waiting" =>
                 row[k].receipt # 0 /\ With(row, {row[k].receipt}) = {k} /\ k \in Asked
        BY DEF ReceiptsFit
      <4> QED
        BY <4>1, <4>2, AttentionAssumption
    <3>3. {row[n].receipt} \subseteq 1..issued
      BY <1>0, <3>2
    <3>4. With(row', {row[n].receipt}) \subseteq {n}
      BY <3>2, <3>3, FreshReceipt
    <3>5. n \in With(row', {row[n].receipt})
      BY <3>1 DEF With
    <3> QED
      BY <3>1, <3>2, <3>4, <3>5
  <2> QED
    BY <2>1, <2>2
<1> QED
  BY <1>1, <1>2, <1>3, FreshReceipt DEF ReceiptsFit

LEMMA StepClaim ==
  ASSUME AttentionTypeOK, Frontend(host), ReceiptsFit, AtMostOnce, CallsKept, Claim
  PROVE  ReceiptsFit' /\ AtMostOnce'
<1>0. UNCHANGED <<call, releases, outbox, saved>> /\ Asked' = Asked
  BY AskedSame DEF Claim, session
<1>1. CASE Quiet(host, host') /\ UNCHANGED <<row, issued>>
  BY <1>0, <1>1, RowsSame, Kept DEF Quiet
<1>2. ASSUME issued' = issued + 1, host'.sampling = host.sampling, host'.pc = "got",
             host'.message = [receipts |-> {issued'}, events |-> Pending],
             row' = [n \in Notices |-> IF n \in Pending
                       THEN [state |-> "pi_claimed", receipt |-> issued', owner |-> lease] ELSE row[n]]
      PROVE  ReceiptsFit' /\ AtMostOnce'
  <2> DEFINE N == Pending
  <2>1. N \in SUBSET Notices /\ \A n \in N : row[n].state = "pending"
    BY DEF Pending
  <2>2. FreshFor(N) /\ \A n \in N : row'[n].state = "pi_claimed"
    BY <1>2, <2>1 DEF FreshFor
  <2>3. host'.message = [receipts |-> {issued'}, events |-> N] /\ InUse(host') = N
    BY <1>2 DEF InUse
  <2>4. Known' \subseteq Known \cup {[receipts |-> {issued'}, events |-> N]}
    BY <1>0, <1>2, <2>3 DEF Known
  <2>5. \A c \in Calls : call'[c].pc \in {"new", "asked"} => call'[c].message = NoMessage
    BY <1>0 DEF ReceiptsFit
  <2> HIDE DEF N
  <2>6. ReceiptsFit'
    BY <1>0, <2>1, <2>2, <2>4, <2>5, FitFresh
  <2>7. ASSUME NEW n \in Notices \ Asked
        PROVE  Once(n)'
    <3>1. Once(n)
      BY DEF AtMostOnce
    <3>2. CASE n \in N
      BY <1>0, <1>2, <2>1, <2>2, <3>1, <3>2 DEF Once, Offerable, InConversation
    <3>3. CASE n \notin N
      BY <1>0, <1>2, <2>2, <2>3, <3>1, <3>3 DEF Once, InConversation, FreshFor
    <3> QED
      BY <3>2, <3>3
  <2> QED
    BY <1>0, <2>6, <2>7 DEF AtMostOnce
<1> QED
  BY <1>1, <1>2, HostClaim

(* A message is handed to Pi: nobody else has what it is about. *)
LEMMA Submits ==
  ASSUME AttentionTypeOK, AtMostOnce, CallsKept, NEW m, outbox' = outbox \cup {m}, UNCHANGED <<row, saved>>,
         host'.sampling.events \subseteq host.sampling.events, InUse(host') \subseteq InUse(host),
         \A n \in Notices \ Asked : n \in m.events =>
           /\ row[n].state \notin Offerable
           /\ n \notin InConversation \cup host'.sampling.events \cup InUse(host')
  PROVE  AtMostOnce'
<1>1. Asked' = Asked
  BY AskedSame
<1>2. ASSUME NEW n \in Notices \ Asked
      PROVE  Once(n)'
  <2>1. Once(n)
    BY DEF AtMostOnce
  <2>2. n \in Events(outbox') <=> n \in Events(outbox) \/ n \in m.events
    BY DEF Events
  <2>3. CASE n \in m.events
    <3>1. \A k \in outbox : n \notin k.events
      BY <2>3 DEF InConversation, Events
    <3> QED
      BY <2>1, <2>2, <2>3, <3>1 DEF Once, InConversation
  <2>4. CASE n \notin m.events
    BY <2>1, <2>2, <2>4 DEF Once, InConversation
  <2> QED
    BY <2>3, <2>4
<1> QED
  BY <1>1, <1>2 DEF AtMostOnce

LEMMA StepUse ==
  ASSUME AttentionTypeOK, Frontend(host), ReceiptsFit, AtMostOnce, CallsKept, Use
  PROVE  ReceiptsFit' /\ AtMostOnce'
<1>0. UNCHANGED <<row, issued, releases, saved>>
  BY DEF Use, ledger
<1>1. CASE Quiet(host, host') /\ UNCHANGED outbox
  BY <1>0, <1>1, RowsSame, Kept DEF Quiet
<1>2. ASSUME InUse(host) = host.message.events, InUse(host') = {}, host'.sampling = host.message,
             host'.message = NoMessage, UNCHANGED outbox
      PROVE  ReceiptsFit' /\ AtMostOnce'
  <2>1. ReceiptsFit'
    BY <1>0, <1>2, RowsSame, FitKept DEF Known
  <2>2. ASSUME NEW n \in Notices \ Asked
        PROVE  Once(n)'
    <3>1. Once(n)
      BY DEF AtMostOnce
    <3> QED
      BY <1>0, <1>2, <3>1 DEF Once, InConversation
  <2> QED
    BY <2>1, <2>2, AskedSame DEF AtMostOnce
<1>3. ASSUME InUse(host) = host.message.events, InUse(host') = {}, host'.sampling = host.sampling,
             host'.message \in {host.message, NoMessage}, outbox' = outbox \cup {host.message}
      PROVE  ReceiptsFit' /\ AtMostOnce'
  <2>1. ReceiptsFit'
    BY <1>0, <1>3, RowsSame, FitKept DEF Known
  <2>2. \A n \in Notices \ Asked : n \in host.message.events =>
          /\ row[n].state \notin Offerable
          /\ n \notin InConversation \cup host'.sampling.events \cup InUse(host')
    BY <1>3 DEF AtMostOnce, Once
  <2> QED
    BY <1>0, <1>3, <2>1, <2>2, Submits
<1> QED
  BY <1>1, <1>2, <1>3, HostUse

LEMMA StepBoundary ==
  ASSUME AttentionTypeOK, Frontend(host), ReceiptsFit, AtMostOnce, CallsKept, Boundary
  PROVE  ReceiptsFit' /\ AtMostOnce'
<1>0. UNCHANGED <<row, issued, releases, saved>>
  BY DEF Boundary, ledger
<1>1. CASE Quiet(host, host') /\ UNCHANGED outbox
  BY <1>0, <1>1, RowsSame, Kept DEF Quiet
<1>2. ASSUME host'.sampling = NoMessage, host'.message = host.message, InUse(host) = {}, InUse(host') = {},
             outbox' = outbox \cup {host.sampling}
      PROVE  ReceiptsFit' /\ AtMostOnce'
  <2>1. ReceiptsFit'
    BY <1>0, <1>2, RowsSame, FitKept DEF Known
  <2>2. \A n \in Notices \ Asked : n \in host.sampling.events =>
          /\ row[n].state \notin Offerable
          /\ n \notin InConversation \cup host'.sampling.events \cup InUse(host')
    BY <1>2, NothingInNoMessage DEF AtMostOnce, Once
  <2> QED
    BY <1>0, <1>2, <2>1, <2>2, Submits, NothingInNoMessage
<1> QED
  BY <1>1, <1>2, HostBoundary

LEMMA StepSave ==
  ASSUME AttentionTypeOK, Frontend(host), ReceiptsFit, AtMostOnce, CallsKept, NEW m \in Message, Save(m)
  PROVE  ReceiptsFit' /\ AtMostOnce'
<1>0. UNCHANGED <<row, issued, releases, host>> /\ m \in outbox /\ outbox' = outbox \ {m} /\ saved' = saved \cup {m}
  BY DEF Save, ledger
<1>1. ReceiptsFit'
  BY <1>0, RowsSame, FitKept DEF Known
<1>2. ASSUME NEW n \in Notices \ Asked
      PROVE  Once(n)'
  <2>1. Once(n)
    BY DEF AtMostOnce
  <2>2. (n \in Events(saved') <=> n \in Events(saved) \/ n \in m.events) /\ (n \in m.events => n \in Events(outbox))
        /\ (n \in Events(outbox') => n \in Events(outbox))
    BY <1>0 DEF Events
  <2>3. n \in m.events => n \notin Events(outbox')
    BY <1>0, <2>1 DEF Events, Once
  <2> QED
    BY <1>0, <2>1, <2>2, <2>3 DEF Once, InConversation
<1> QED
  BY <1>1, <1>2, AskedSame DEF AtMostOnce

LEMMA StepResultSaved ==
  ASSUME AttentionTypeOK, Frontend(host), ReceiptsFit, AtMostOnce, CallsKept, NEW c \in Calls, ResultSaved(c)
  PROVE  ReceiptsFit' /\ AtMostOnce'
<1>0. UNCHANGED <<row, issued, releases, host, outbox>> /\ saved' = saved \cup {call[c].message}
  BY DEF ResultSaved, ledger
<1>1. ReceiptsFit'
  BY <1>0, RowsSame, FitKept DEF Known
<1>2. ASSUME NEW n \in Notices \ Asked
      PROVE  Once(n)'
  <2>1. Once(n)
    BY DEF AtMostOnce
  <2>2. n \in Events(saved') <=> n \in Events(saved)
    BY <1>0, InAsked DEF Events
  <2> QED
    BY <1>0, <2>1, <2>2 DEF Once, InConversation
<1> QED
  BY <1>1, <1>2, AskedSame DEF AtMostOnce

LEMMA StepAnswer ==
  ASSUME AttentionTypeOK, Frontend(host), ReceiptsFit, AtMostOnce, NEW c \in Calls, NEW n \in Notices, Answer(c, n)
  PROVE  ReceiptsFit' /\ AtMostOnce' /\ Asked' = Asked \cup {n}
<1> DEFINE r == IF Reusable(n) THEN row[n].receipt ELSE issued'
           m == [receipts |-> {r}, events |-> {n}]
<1>0. /\ UNCHANGED <<lease, daemon, host, releases, outbox, saved>>
      /\ row' = [row EXCEPT ![n] = [state |-> "pi_waiting", receipt |-> r, owner |-> lease]]
      /\ call' = [call EXCEPT ![c].pc = "answered", ![c].message = m]
      /\ IF Reusable(n) THEN UNCHANGED issued ELSE issued' = issued + 1
  BY DEF Answer, session
<1>1. row \in [Notices -> RowType] /\ call \in [Calls -> CallType] /\ call[c].message = NoMessage
  BY DEF AttentionTypeOK, Answer, ReceiptsFit
<1>2. m.receipts = {r} /\ m.events = {n}
  OBVIOUS
<1>3. /\ row'[n].state = "pi_waiting" /\ row'[n].receipt = r
      /\ \A k \in Notices \ {n} : row'[k] = row[k]
  BY <1>0, <1>1
<1>4. Reusable(n) => r = row[n].receipt /\ row[n].state = "pi_waiting"
  BY DEF Reusable
<1>5. ~ Reusable(n) => r = issued' /\ m = [receipts |-> {issued'}, events |-> {n}]
  OBVIOUS
<1> HIDE DEF r
<1>6. call'[c].message = m /\ call'[c].pc = "answered" /\ \A d \in Calls \ {c} : call'[d] = call[d]
  BY <1>0, <1>1 DEF CallType
<1> HIDE DEF m
<1>7. Asked' = Asked \cup {n}
  <2>1. ASSUME NEW k
        PROVE  (\E d \in Calls : k \in call'[d].message.events) <=> (\E d \in Calls : k \in call[d].message.events) \/ k = n
    BY <1>1, <1>2, <1>6, NothingInNoMessage
  <2> QED
    BY <2>1 DEF Asked, Events
<1>8. Known' \subseteq Known \cup {m}
  BY <1>0, <1>6 DEF Known
<1>9. \A d \in Calls : call'[d].pc \in {"new", "asked"} => call'[d].message = NoMessage
  BY <1>6 DEF ReceiptsFit
<1>10. ASSUME ~ Reusable(n)
       PROVE  ReceiptsFit'
  <2>1. FreshFor({n})
    BY <1>0, <1>3, <1>5, <1>10 DEF FreshFor
  <2>2. Known' \subseteq Known \cup {[receipts |-> {issued'}, events |-> {n}]}
    BY <1>5, <1>8, <1>10
  <2>3. \A k \in {n} : row'[k].state = "pi_waiting" => {n} = {k} /\ k \in Asked'
    BY <1>7
  <2>4. {n} \in SUBSET Notices /\ UNCHANGED releases /\ Asked \subseteq Asked'
    BY <1>0, <1>7
  <2> QED
    BY <1>9, <2>1, <2>2, <2>3, <2>4, FitFresh
<1>11. ASSUME Reusable(n)
       PROVE  ReceiptsFit'
  <2>1. ReceiptsKept
    BY <1>0, <1>3, <1>4, <1>11 DEF ReceiptsKept
  <2>2. \A k \in Notices : row'[k].receipt = row[k].receipt
    BY <2>1 DEF ReceiptsKept
  <2>3. ASSUME NEW R
        PROVE  With(row', R) = With(row, R)
    BY <2>2 DEF With
  <2>4. issued' = issued /\ issued \in Nat
    BY <1>0, <1>11, AttentionAssumption DEF AttentionTypeOK
  <2>5. r # 0 /\ r <= issued /\ r \in Nat /\ With(row, {r}) = {n}
    BY <1>1, <1>4, <1>11, AttentionAssumption DEF ReceiptsFit, RowType
  <2>6. ASSUME NEW k \in Known'
        PROVE  k.receipts \subseteq 1..issued' /\ With(row', k.receipts) \subseteq k.events
    <3>1. CASE k = m
      <4>1. {r} \subseteq 1..issued'
        BY <2>4, <2>5
      <4> QED
        BY <1>2, <2>3, <2>5, <3>1, <4>1
    <3>2. CASE k \in Known
      BY <2>3, <2>4, <3>2 DEF ReceiptsFit
    <3> QED
      BY <1>8, <3>1, <3>2
  <2>7. ASSUME NEW q \in releases'
        PROVE  q <= issued' /\ With(row', {q}) \subseteq Asked'
    <3>1. q <= issued /\ With(row, {q}) \subseteq Asked
      BY <1>0 DEF ReceiptsFit
    <3> QED
      BY <1>7, <2>3, <2>4, <3>1
  <2>8. ASSUME NEW k \in Notices, row'[k].state = "pi_waiting"
        PROVE  row'[k].receipt # 0 /\ With(row', {row'[k].receipt}) = {k} /\ k \in Asked'
    <3>1. row[k].state = "pi_waiting"
      BY <2>1, <2>8 DEF ReceiptsKept
    <3>2. row[k].receipt # 0 /\ With(row, {row[k].receipt}) = {k} /\ k \in Asked
      BY <3>1 DEF ReceiptsFit
    <3> QED
      BY <1>7, <2>2, <2>3, <3>2
  <2>9. \A k \in Notices : row'[k].receipt <= issued'
    <3>1. \A k \in Notices : row[k].receipt <= issued
      BY DEF ReceiptsFit
    <3> QED
      BY <2>2, <2>4, <3>1
  <2> QED
    BY <1>9, <2>6, <2>7, <2>8, <2>9 DEF ReceiptsFit
<1>12. ASSUME NEW k \in Notices \ Asked'
       PROVE  Once(k)'
  <2>1. k # n /\ Once(k)
    BY <1>7 DEF AtMostOnce
  <2> QED
    BY <1>0, <1>3, <2>1 DEF Once, InConversation
<1> QED
  BY <1>7, <1>10, <1>11, <1>12 DEF AtMostOnce

------------------------------------------------------------------------------
(* The invariant *)

LEMMA InvInit == AttentionDeliveryInit => DeliveryInv
<1> SUFFICES ASSUME AttentionDeliveryInit
             PROVE  DeliveryInv
  OBVIOUS
<1>1. AttentionTypeOK /\ Frontend(host)
  <2>1. host \in HostType
    BY AttentionAssumption, NoMessageType DEF AttentionDeliveryInit, HostType
  <2>2. Alive(host) /\ Tidy(host)
    BY DEF AttentionDeliveryInit, Alive, Tidy
  <2>3. row \in [Notices -> RowType]
    BY AttentionAssumption DEF AttentionDeliveryInit, RowType
  <2>4. call \in [Calls -> CallType]
    BY NoMessageType DEF AttentionDeliveryInit, CallType
  <2>5. /\ lease \in 0..MaxFrontends /\ daemon \in BOOLEAN /\ issued \in 0..MaxReceipts
        /\ releases \subseteq Receipts /\ detaching \in 0..MaxFrontends
        /\ outbox \subseteq Message /\ saved \subseteq Message
    BY AttentionAssumption DEF AttentionDeliveryInit
  <2> QED
    BY <2>1, <2>2, <2>3, <2>4, <2>5 DEF AttentionTypeOK, Frontend
<1>0. host.message = NoMessage /\ host.sampling = NoMessage /\ host.pc = "free" /\ outbox = {} /\ saved = {}
  BY DEF AttentionDeliveryInit
<1>2. Known = {NoMessage} \cup {call[c].message : c \in Calls}
  BY <1>0 DEF Known
<1>3. \A m \in Known : m = NoMessage
  BY <1>2 DEF AttentionDeliveryInit
<1>4. ReceiptsFit
  <2>1. \A n \in Notices : row[n].receipt = 0 /\ row[n].state = "absent"
    BY DEF AttentionDeliveryInit
  <2>2. issued = 0 /\ releases = {} /\ \A c \in Calls : call[c].message = NoMessage
    BY DEF AttentionDeliveryInit
  <2>3. \A m \in Known : m.receipts \subseteq 1..issued /\ With(row, m.receipts) \subseteq m.events
    BY <1>3, NothingInNoMessage DEF With
  <2> QED
    BY <2>1, <2>2, <2>3 DEF ReceiptsFit
<1>5. Events(outbox) = {} /\ Events(saved) = {} /\ InUse(host) = {} /\ host.sampling.events = {} /\ outbox = {}
  BY <1>0, NothingInNoMessage DEF Events, InUse
<1>6. AtMostOnce
  BY <1>5 DEF AtMostOnce, Once, InConversation
<1> QED
  BY <1>1, <1>4, <1>6 DEF DeliveryInv

LEMMA InvNext ==
  ASSUME DeliveryInv, AttentionDeliveryNext
  PROVE  DeliveryInv'
<1> USE DEF DeliveryInv
<1>1. CASE CallsKept
  <2>1. ReceiptsFit' /\ AtMostOnce'
    BY <1>1, LedgerSteps, ChainSteps, PiSteps, StepClaim, StepUse, StepBoundary, StepSave, StepResultSaved, StepAnswer
    DEF AttentionDeliveryNext, ChainStep, PiStep
  <2> QED
    BY <2>1, TypeStep
<1>2. CASE \E c \in Calls, n \in Notices : Answer(c, n)
  BY <1>2, StepAnswer, TypeStep
<1> QED
  BY <1>1, <1>2, CallTypes

LEMMA InvStep ==
  ASSUME DeliveryInv, [AttentionDeliveryNext]_attentionVars
  PROVE  DeliveryInv'
<1>1. CASE UNCHANGED attentionVars
  <2>1. UNCHANGED <<row, lease, daemon, issued, host, call, releases, detaching, outbox, saved>>
    BY <1>1 DEF attentionVars, ledger, session
  <2>2. Known' = Known /\ Asked' = Asked /\ InConversation' = InConversation
    BY <2>1 DEF Known, Asked, Events, InConversation
  <2> QED
    BY <2>1, <2>2 DEF DeliveryInv, AttentionTypeOK, ReceiptsFit, AtMostOnce, Once, Frontend, Alive, Tidy, InUse
<1> QED
  BY <1>1, InvNext

(* An active frontend has a watcher, whoever resumed it while the last one was on its way
   out (startWatching, resume in host/session.ts): no wake-up is lost. *)
THEOREM WatcherIsAlive == AttentionDeliverySpec => []WatcherAlive
<1>1. DeliveryInv => WatcherAlive
  BY DEF DeliveryInv, Frontend, Alive, WatcherAlive
<1> QED
  BY <1>1, InvInit, InvStep, PTL DEF AttentionDeliverySpec

------------------------------------------------------------------------------
(* The refinement *)

Stand(s) ==
  CASE s = "absent" -> "none"
    [] s = "pending" -> "eligible"
    [] s = "pi_claimed" -> "claimed"
    [] s = "pi_waiting" -> "reading"
    [] s = "unknown" -> "uncertain"
    [] s = "observed" -> "consumed"
    [] OTHER -> "dropped"

LEMMA StandValues ==
  /\ Stand("absent") = "none" /\ Stand("pending") = "eligible" /\ Stand("pi_claimed") = "claimed"
  /\ Stand("pi_waiting") = "reading" /\ Stand("unknown") = "uncertain" /\ Stand("observed") = "consumed"
  /\ Stand("superseded") = "dropped"
BY DEF Stand

LEMMA StandingIs == Standing = [n \in Notices |-> Stand(row[n].state)]
BY DEF Standing, Stand

LEMMA StandingNext == Standing' = [n \in Notices |-> Stand(row'[n].state)]
BY DEF Standing, Stand

LEMMA EventsType ==
  ASSUME NEW S \in SUBSET Message
  PROVE  Events(S) \in SUBSET Notices
BY DEF Events, Message

LEMMA Moves ==
  ASSUME NEW S \in SUBSET Notices, NEW s, UNCHANGED <<outbox, saved>>,
         \A n \in Notices : row'[n].state = IF n \in S THEN s ELSE row[n].state
  PROVE  Promise!Move(S, Stand(s))
<1>1. Standing' = [n \in Notices |-> IF n \in S THEN Stand(s) ELSE Standing[n]]
  BY StandingIs, StandingNext
<1>2. UNCHANGED <<Events(outbox), Events(saved)>>
  BY DEF Events
<1> QED
  BY <1>1, <1>2 DEF Promise!Move

\* The ledger moves rows that are where the promise has them.
LEMMA MovesStep ==
  ASSUME AttentionTypeOK, CallsKept, NEW S \in SUBSET Notices, NEW s, NEW Q, UNCHANGED <<outbox, saved>>,
         \A n \in Notices : row'[n].state = IF n \in S THEN s ELSE row[n].state,
         \A n \in S : row[n].state \in Q,
         \/ s = "pending" /\ Q \in {{"absent"}, InHand}
         \/ s = "pi_claimed" /\ Q = {"pending"}
         \/ s = "unknown" /\ Q = InHand
         \/ s = "superseded" /\ Q = {"pending"}
  PROVE  Promise!AttentionNext
<1>1. Promise!Move(S, Stand(s)) /\ Asked' = Asked
  BY Moves, AskedSame
<1>2. \A n \in S : Standing[n] = Stand(row[n].state)
  BY StandingIs
<1>3. \/ Promise!Raised(S) \/ Promise!Released(S) \/ Promise!Claimed(S) \/ Promise!Doubted(S) \/ Promise!Dropped(S)
  <2>1. CASE s = "pending" /\ Q = {"absent"}
    BY <1>1, <1>2, <2>1, StandValues DEF Promise!Raised, Promise!In
  <2>2. CASE s = "pending" /\ Q = InHand
    BY <1>1, <1>2, <2>2, StandValues DEF Promise!Released, Promise!In, Promise!Reserved, InHand
  <2>3. CASE s = "pi_claimed" /\ Q = {"pending"}
    BY <1>1, <1>2, <2>3, StandValues DEF Promise!Claimed, Promise!In
  <2>4. CASE s = "unknown" /\ Q = InHand
    BY <1>1, <1>2, <2>4, StandValues DEF Promise!Doubted, Promise!In, Promise!Reserved, InHand
  <2>5. CASE s = "superseded" /\ Q = {"pending"}
    BY <1>1, <1>2, <2>5, StandValues DEF Promise!Dropped, Promise!In
  <2> QED
    BY <2>1, <2>2, <2>3, <2>4, <2>5
<1> QED
  BY <1>1, <1>3 DEF Promise!AttentionNext

\* Rows and calls stay, and Pi may lose messages.
LEMMA LosesStep ==
  ASSUME AttentionTypeOK, CallsKept, UNCHANGED <<row, saved>>, outbox' \subseteq outbox
  PROVE  Promise!AttentionNext
<1> DEFINE S == Events(outbox) \ Events(outbox')
<1>1. S \in SUBSET Notices
  BY EventsType DEF AttentionTypeOK
<1>2. Events(outbox') = Events(outbox) \ S /\ Events(saved') = Events(saved)
  BY DEF Events
<1>3. Standing' = Standing
  BY StandingIs, StandingNext
<1>4. Promise!Lost(S)
  BY <1>2, <1>3 DEF Promise!Lost, Events
<1> QED
  BY <1>1, <1>4, AskedSame DEF Promise!AttentionNext

LEMMA SetStep ==
  ASSUME AttentionTypeOK, CallsKept, UNCHANGED <<outbox, saved>>, NEW S \in SUBSET Notices,
         \/ row' = SetState(row, S, "pending") /\ (\A n \in S : row[n].state = "absent")
         \/ row' = SetState(row, S, "pending") /\ (\A n \in S : row[n].state \in InHand)
         \/ row' = SetState(row, S, "unknown") /\ (\A n \in S : row[n].state \in InHand)
         \/ row' = SetState(row, S, "superseded") /\ (\A n \in S : row[n].state = "pending")
  PROVE  Promise!AttentionNext
<1>0. row \in [Notices -> RowType]
  BY DEF AttentionTypeOK
<1>1. ASSUME NEW s \in {"pending", "unknown", "superseded"}, row' = SetState(row, S, s)
      PROVE  \A n \in Notices : row'[n].state = IF n \in S THEN s ELSE row[n].state
  BY <1>0, <1>1, SetStateType
<1>2. CASE row' = SetState(row, S, "pending") /\ \A n \in S : row[n].state \in {"absent"}
  BY <1>1, <1>2, MovesStep
<1>3. CASE row' = SetState(row, S, "pending") /\ \A n \in S : row[n].state \in InHand
  BY <1>1, <1>3, MovesStep
<1>4. CASE row' = SetState(row, S, "unknown") /\ \A n \in S : row[n].state \in InHand
  BY <1>1, <1>4, MovesStep
<1>5. CASE row' = SetState(row, S, "superseded") /\ \A n \in S : row[n].state \in {"pending"}
  BY <1>1, <1>5, MovesStep
<1> QED
  BY <1>2, <1>3, <1>4, <1>5

LEMMA InHandSets ==
  ASSUME NEW R, NEW f
  PROVE  /\ With(row, R) \cap Held(row, f) \in SUBSET Notices /\ Held(row, f) \in SUBSET Notices
         /\ \A n \in Held(row, f) : row[n].state \in InHand
BY DEF With, Held

LEMMA LedgerPromise ==
  ASSUME AttentionTypeOK, CallsKept,
         \/ \E n \in Notices : Raise(n) \/ Supersede(n)
         \/ DaemonEnds \/ Wake \/ Detach \/ Open \/ Close \/ \E r \in Receipts : ReleaseArrives(r)
  PROVE  Promise!AttentionNext
<1>1. ASSUME NEW n \in Notices, Raise(n) \/ Supersede(n)
      PROVE  Promise!AttentionNext
  <2>1. {n} \in SUBSET Notices /\ UNCHANGED <<outbox, saved>>
    BY <1>1 DEF Raise, Supersede, session
  <2>2. \/ row' = SetState(row, {n}, "pending") /\ row[n].state = "absent"
        \/ row' = SetState(row, {n}, "superseded") /\ row[n].state = "pending"
    BY <1>1 DEF Raise, Supersede
  <2>3. CASE row' = SetState(row, {n}, "pending") /\ row[n].state = "absent"
    <3>1. \A k \in {n} : row[k].state = "absent"
      BY <2>3
    <3> QED
      BY <2>1, <2>3, <3>1, SetStep
  <2>4. CASE row' = SetState(row, {n}, "superseded") /\ row[n].state = "pending"
    <3>1. \A k \in {n} : row[k].state = "pending"
      BY <2>4
    <3> QED
      BY <2>1, <2>4, <3>1, SetStep
  <2> QED
    BY <2>2, <2>3, <2>4
<1>2. CASE DaemonEnds \/ Close
  <2>1. UNCHANGED <<row, saved>> /\ outbox' \subseteq outbox
    BY <1>2 DEF DaemonEnds, Close, ledger, session
  <2> QED
    BY <2>1, LosesStep
<1>3. CASE Wake \/ Open
  <2> DEFINE S == {n \in Notices : row[n].state \in InHand}
  <2>1. row' = SetState(row, S, "unknown") /\ UNCHANGED <<outbox, saved>>
    BY <1>3 DEF Wake, Open, Doubtful, session
  <2>2. S \in SUBSET Notices /\ \A n \in S : row[n].state \in InHand
    OBVIOUS
  <2> HIDE DEF S
  <2> QED
    BY <2>1, <2>2, SetStep
<1>4. CASE Detach
  <2>1. UNCHANGED <<outbox, saved>> /\ (row' = row \/ row' = SetState(row, Held(row, lease), "unknown"))
    BY <1>4 DEF Detach, session
  <2> QED
    BY <2>1, InHandSets, SetStep, LosesStep
<1>5. ASSUME NEW r \in Receipts, ReleaseArrives(r)
      PROVE  Promise!AttentionNext
  <2> DEFINE S == With(row, {r}) \cap Held(row, lease)
  <2>1. UNCHANGED <<outbox, saved>> /\ (row' = row \/ row' = SetState(row, S, "pending"))
    BY <1>5 DEF ReleaseArrives, Settle, session
  <2>2. S \in SUBSET Notices /\ \A n \in S : row[n].state \in InHand
    BY InHandSets
  <2> HIDE DEF S
  <2> QED
    BY <2>1, <2>2, SetStep, LosesStep
<1> QED
  BY <1>1, <1>2, <1>3, <1>4, <1>5

LEMMA ChainPromise ==
  ASSUME DeliveryInv, CallsKept,
         (\E r \in Receipts : Reconcile(r) \/ Doubt(r)) \/ Reconciled \/ PassiveFails \/ Doubted \/ ReleaseClaim \/ UseFails
  PROVE  Promise!AttentionNext
<1> USE DEF DeliveryInv
<1>1. ASSUME NEW r \in Receipts, Reconcile(r)
      PROVE  Promise!AttentionNext
  <2> DEFINE S == With(row, {r})
  <2>1. UNCHANGED <<outbox, saved>> /\ r \in SavedReceipts /\ (row' = row \/ row' = SetState(row, S, "observed"))
    BY <1>1 DEF Reconcile, Observed, ToObserve, session
  <2>2. PICK m \in saved : r \in m.receipts
    BY <2>1 DEF SavedReceipts
  <2>3. S \subseteq m.events
    <3>1. With(row, m.receipts) \subseteq m.events
      BY DEF ReceiptsFit, Known
    <3> QED
      BY <2>2, <3>1 DEF With
  <2>4. S \in SUBSET Notices /\ S \subseteq Events(saved)
    BY <2>3 DEF Events, With
  <2> HIDE DEF S
  <2>5. CASE row' = row
    BY <2>1, <2>5, LosesStep
  <2>6. CASE row' = SetState(row, S, "observed")
    <3>1. \A n \in Notices : row'[n].state = IF n \in S THEN "observed" ELSE row[n].state
      BY <2>6, SetStateType DEF AttentionTypeOK
    <3>2. Promise!Move(S, "consumed")
      BY <2>1, <2>4, <3>1, Moves, StandValues
    <3>3. Promise!Consumed(S)
      BY <2>4, <3>2 DEF Promise!Consumed
    <3> QED
      BY <2>4, <3>3, AskedSame DEF Promise!AttentionNext
  <2> QED
    BY <2>1, <2>5, <2>6
<1>2. ASSUME NEW R, UNCHANGED <<outbox, saved>>,
             \E s \in {"pending", "unknown"} : row' = SetState(row, With(row, R) \cap Held(row, lease), s)
      PROVE  Promise!AttentionNext
  <2> DEFINE S == With(row, R) \cap Held(row, lease)
  <2>1. S \in SUBSET Notices /\ \A n \in S : row[n].state \in InHand
    BY InHandSets
  <2>2. \E s \in {"pending", "unknown"} : row' = SetState(row, S, s)
    BY <1>2
  <2> HIDE DEF S
  <2> QED
    BY <1>2, <2>1, <2>2, SetStep
<1>3. ASSUME NEW r \in Receipts, Doubt(r)
      PROVE  Promise!AttentionNext
  <2>1. UNCHANGED <<outbox, saved>> /\ (row' = row \/ row' = SetState(row, With(row, {r}) \cap Held(row, lease), "unknown"))
    BY <1>3 DEF Doubt, Settle, session
  <2> QED
    BY <1>2, <2>1, LosesStep
<1>4. CASE ReleaseClaim \/ UseFails
  <2>1. UNCHANGED <<outbox, saved>> /\ (row' = row \/ \E s \in {"pending", "unknown"} :
          row' = SetState(row, With(row, host.message.receipts) \cap Held(row, lease), s))
    BY <1>4 DEF ReleaseClaim, UseFails, Settle, session
  <2> QED
    BY <1>2, <2>1, LosesStep
<1>5. CASE Reconciled \/ PassiveFails \/ Doubted
  <2>1. UNCHANGED <<row, outbox, saved>>
    BY <1>5 DEF Reconciled, PassiveFails, Doubted, ledger, session
  <2> QED
    BY <2>1, LosesStep
<1> QED
  BY <1>1, <1>3, <1>4, <1>5

LEMMA PiPromise ==
  ASSUME AttentionTypeOK, CallsKept,
         \/ WatchStep \/ TurnStarts \/ Take \/ BoundaryFailed \/ TurnSettles \/ Settled
         \/ \E m \in Message : Lose(m)
         \/ \E c \in Calls : (\E S \in SUBSET Notices : Ask(c, S)) \/ Reply(c) \/ ReplyTooLate(c) \/ ResultChanged(c)
  PROVE  Promise!AttentionNext
<1>1. UNCHANGED <<row, saved>> /\ outbox' \subseteq outbox
  BY DEF WatchStep, Watch, WatchStops, WatchDelivers, WatchEnds, TurnStarts, Take, BoundaryFailed, TurnSettles,
         Settled, Lose, Ask, Reply, ReplyTooLate, ResultChanged, ledger, session
<1> QED
  BY <1>1, LosesStep

LEMMA SubmitsPromise ==
  ASSUME AttentionTypeOK, CallsKept, NEW m \in Message, outbox' = outbox \cup {m}, UNCHANGED <<row, saved>>,
         \A n \in Notices \ Asked : n \in m.events => n \notin InConversation
  PROVE  Promise!AttentionNext
<1>1. m.events \in SUBSET Notices
  BY DEF Message
<1>2. Events(outbox') = Events(outbox) \cup m.events /\ Events(saved') = Events(saved)
  BY DEF Events
<1>3. Standing' = Standing
  BY StandingIs, StandingNext
<1>4. m.events \cap (Events(outbox) \cup Events(saved)) \subseteq Asked
  BY <1>1 DEF InConversation
<1>5. Promise!Submitted(m.events)
  BY <1>2, <1>3, <1>4 DEF Promise!Submitted
<1> QED
  BY <1>1, <1>5, AskedSame DEF Promise!AttentionNext

LEMMA SpecialPromise ==
  ASSUME DeliveryInv, CallsKept,
         Claim \/ Use \/ Boundary \/ (\E m \in Message : Save(m)) \/ \E c \in Calls : ResultSaved(c)
  PROVE  Promise!AttentionNext
<1> USE DEF DeliveryInv
<1>0. host.message \in Message /\ host.sampling \in Message /\ outbox \in SUBSET Message
  BY DEF Frontend, HostType, AttentionTypeOK
<1>1. CASE Claim
  <2>1. UNCHANGED <<outbox, saved>>
    BY <1>1 DEF Claim, session
  <2>2. CASE row' = row
    BY <2>1, <2>2, LosesStep
  <2>3. CASE row' # row
    <3> DEFINE N == Pending
    <3>1. N \in SUBSET Notices /\ \A n \in N : row[n].state \in {"pending"}
      BY DEF Pending
    <3>2. \A n \in Notices : row'[n].state = IF n \in N THEN "pi_claimed" ELSE row[n].state
      BY <1>1, <2>3, HostClaim
    <3> HIDE DEF N
    <3> QED
      BY <2>1, <3>1, <3>2, MovesStep
  <2> QED
    BY <2>2, <2>3
<1>2. CASE Use
  <2>1. UNCHANGED <<row, saved>>
    BY <1>2 DEF Use, ledger
  <2>2. CASE outbox' = outbox
    BY <2>1, <2>2, LosesStep
  <2>3. CASE outbox' # outbox
    <3>1. outbox' = outbox \cup {host.message} /\ InUse(host) = host.message.events
      BY <1>2, <2>3, HostUse
    <3>2. \A n \in Notices \ Asked : n \in host.message.events => n \notin InConversation
      BY <3>1 DEF AtMostOnce, Once
    <3> QED
      BY <1>0, <2>1, <3>1, <3>2, SubmitsPromise
  <2> QED
    BY <2>2, <2>3
<1>3. CASE Boundary
  <2>1. UNCHANGED <<row, saved>>
    BY <1>3 DEF Boundary, ledger
  <2>2. CASE outbox' = outbox
    BY <2>1, <2>2, LosesStep
  <2>3. CASE outbox' # outbox
    <3>1. outbox' = outbox \cup {host.sampling}
      BY <1>3, <2>3, HostBoundary
    <3>2. \A n \in Notices \ Asked : n \in host.sampling.events => n \notin InConversation
      BY DEF AtMostOnce, Once
    <3> QED
      BY <1>0, <2>1, <3>1, <3>2, SubmitsPromise
  <2> QED
    BY <2>2, <2>3
<1>4. ASSUME NEW m \in Message, Save(m)
      PROVE  Promise!AttentionNext
  <2>0. UNCHANGED row /\ m \in outbox /\ outbox' = outbox \ {m} /\ saved' = saved \cup {m}
    BY <1>4 DEF Save, ledger
  <2>1. m.events \in SUBSET Notices /\ m.events \subseteq Events(outbox)
    BY <2>0 DEF Message, Events
  <2>2. /\ Events(outbox) \ m.events \subseteq Events(outbox') /\ Events(outbox') \subseteq Events(outbox)
        /\ Events(saved') = Events(saved) \cup m.events
    BY <2>0 DEF Events
  <2>3. m.events \cap Events(outbox') \subseteq Asked
    <3> SUFFICES ASSUME NEW n \in m.events, n \in Events(outbox'), n \notin Asked
                 PROVE  FALSE
      OBVIOUS
    <3>1. PICK k \in outbox' : n \in k.events
      BY DEF Events
    <3>2. Once(n)
      BY <2>1 DEF AtMostOnce
    <3> QED
      BY <2>0, <3>1, <3>2 DEF Once
  <2>4. Standing' = Standing
    BY <2>0, StandingIs, StandingNext
  <2>5. Promise!Saved(m.events)
    BY <2>1, <2>2, <2>3, <2>4 DEF Promise!Saved
  <2> QED
    BY <2>1, <2>5, AskedSame DEF Promise!AttentionNext
<1>5. ASSUME NEW c \in Calls, ResultSaved(c)
      PROVE  Promise!AttentionNext
  <2> DEFINE m == call[c].message
  <2>1. m \in Message /\ UNCHANGED <<row, outbox>> /\ saved' = saved \cup {m}
    BY <1>5 DEF ResultSaved, ledger, AttentionTypeOK, CallType
  <2> HIDE DEF m
  <2>2. m.events \in SUBSET Notices /\ Events(saved') = Events(saved) \cup m.events /\ Events(outbox') = Events(outbox)
    BY <2>1 DEF Message, Events
  <2>3. Standing' = Standing
    BY <2>1, StandingIs, StandingNext
  <2>4. Promise!ReadResult(m.events)
    BY <2>2, <2>3 DEF Promise!ReadResult
  <2> QED
    BY <2>2, <2>4, AskedSame DEF Promise!AttentionNext
<1> QED
  BY <1>1, <1>2, <1>3, <1>4, <1>5

LEMMA AnswerPromise ==
  ASSUME DeliveryInv, NEW c \in Calls, NEW n \in Notices, Answer(c, n)
  PROVE  Promise!AttentionNext
<1>1. row \in [Notices -> RowType] /\ Asked' = Asked \cup {n}
  BY StepAnswer DEF DeliveryInv, AttentionTypeOK
<1>2. /\ UNCHANGED <<outbox, saved>> /\ row[n].state \notin {"absent", "pi_claimed", "observed"}
      /\ \A k \in Notices : row'[k].state = IF k \in {n} THEN "pi_waiting" ELSE row[k].state
  BY <1>1 DEF Answer, session
<1>3. row[n].state \in {"pending", "pi_waiting", "unknown", "superseded"}
  BY <1>1, <1>2 DEF RowType
<1>4. Standing[n] \in {"eligible", "reading", "uncertain", "dropped"}
  BY <1>3, StandingIs, StandValues
<1>5. {n} \in SUBSET Notices /\ Promise!Move({n}, "reading")
  BY <1>2, Moves, StandValues
<1>6. Promise!Reread({n})
  BY <1>4, <1>5 DEF Promise!Reread, Promise!In
<1> QED
  BY <1>1, <1>5, <1>6 DEF Promise!AttentionNext

LEMMA PromiseStep ==
  ASSUME DeliveryInv, [AttentionDeliveryNext]_attentionVars
  PROVE  [Promise!AttentionNext]_(Promise!attention)
<1>1. CASE UNCHANGED attentionVars
  BY <1>1 DEF attentionVars, ledger, session, Promise!attention, Standing, Asked, Events
<1>2. ASSUME AttentionDeliveryNext, CallsKept
      PROVE  Promise!AttentionNext
  BY <1>2, LedgerPromise, ChainPromise, PiPromise, SpecialPromise, AnswerPromise
  DEF AttentionDeliveryNext, ChainStep, PiStep, DeliveryInv
<1>3. CASE \E c \in Calls, n \in Notices : Answer(c, n)
  BY <1>3, AnswerPromise
<1> QED
  BY <1>1, <1>2, <1>3, CallTypes DEF DeliveryInv

(* The delivery implements what the documentation promises (docs/subagents/lifecycle.md), for
   any notices, tool calls, frontends and receipts, through daemon restarts, replaced leases,
   late releases and failed submissions: a notice nobody asked for is not submitted again while
   the parent conversation has it or is about to, and only what it has is consumed. *)
THEOREM DeliveryKeepsPromise == AttentionDeliverySpec => KeepsPromise
<1>1. AttentionDeliveryInit => Promise!AttentionInit
  BY DEF AttentionDeliveryInit, Promise!AttentionInit, Standing, Asked, Events, NoMessage
<1> QED
  BY <1>1, InvInit, InvStep, PromiseStep, PTL DEF AttentionDeliverySpec, KeepsPromise, Promise!AttentionSpec
=============================================================================
