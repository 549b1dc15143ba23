-------------------------- MODULE Admission_proofs --------------------------
(* The services around the agent runtime, for any values of their constants.

   Admission: a repeated mutation has one effect and one answer, and a daemon that closes idle
   performs nothing, for any request ids, connections, sends and boots.  The inductive invariant
   relates a request's row to what was performed, to what its clients were told and to the one
   connection that may be between the row's beginning and its end.
   ExecSession: a process that runs has an owner or is about to be terminated, a command whose call
   has returned can be polled, and its exit and its last output are still to be had.
   ManagedInput: what is recorded as consumed stays so, and the session is prompted by one caller.
   WebSessions: clones, results and pages belong to the sessions that have them. *)
EXTENDS Admission, ExecSession, ManagedInput, WebSessions, FiniteSetTheorems, TLAPS

(* A connection between request_begin() and request_end(). *)
Performing(c) == client[c].pc \in {"mutating", "did"}

(* Nobody is connected before a request was sent: this bounds the effects by the sends. *)
SomethingSent == \A c \in Conns : client[c].pc # "none" => sends > 0

(* The lock of the request: one connection performs it, and only a mutation. *)
OneMutator ==
  /\ \A c \in Conns : Performing(c) => client[c].op \in Keys
  /\ \A c, d \in Conns : Performing(c) /\ Performing(d) /\ client[c].op = client[d].op => c = d

(* What a row says of its effect and of the answers given. *)
RowFits(k) ==
  /\ request[k] = "none" => effect[k] = 0 /\ told[k] = {}
  /\ request[k] = "pending" => effect[k] \in 0..1 /\ told[k] = {}
  /\ request[k] = "ok" => effect[k] = 1 /\ told[k] \subseteq {"ok"}
  /\ request[k] = "error" => effect[k] \in 0..1 /\ told[k] \subseteq {"error"}

(* The connection that performs a mutation knows how far it came. *)
PerformerFits(c) ==
  /\ client[c].pc = "mutating" => request[client[c].op] = "pending" /\ effect[client[c].op] = 0
  /\ client[c].pc = "did" => request[client[c].op] = "pending" /\ effect[client[c].op] = 1

UpIsNotIdle == server.life = "up" => ~server.idle

AdmissionInv ==
  /\ AdmissionTypeOK /\ SomethingSent /\ OneMutator
  /\ \A k \in Keys : RowFits(k)
  /\ \A c \in Conns : PerformerFits(c)
  /\ UpIsNotIdle /\ IdleOwnsNothing

-----------------------------------------------------------------------------
(* The invariant holds after a request is sent. *)
LEMMA SendKeeps ==
  ASSUME AdmissionInv, NEW c \in Conns, NEW op \in Keys \cup Passive \cup {"shutdown"}, Send(c, op)
  PROVE  AdmissionInv'
<1> USE AdmissionAssumption DEF AdmissionInv, Passive
<1>1. AdmissionTypeOK'
  BY DEF Send, At, AdmissionTypeOK
<1>2. SomethingSent'
  BY DEF Send, AdmissionTypeOK, SomethingSent
<1>3. OneMutator'
  BY DEF Send, At, OneMutator, Performing
<1>4. \A k \in Keys : RowFits(k)'
  BY DEF Send, At, RowFits
<1>5. \A d \in Conns : PerformerFits(d)'
  BY DEF Send, At, PerformerFits
<1>6. UpIsNotIdle'
  BY DEF Send, At, UpIsNotIdle
<1>7. IdleOwnsNothing'
  BY DEF Send, At, IdleOwnsNothing, Mutations
<1> QED
  BY <1>1, <1>2, <1>3, <1>4, <1>5, <1>6, <1>7

(* The invariant holds after the task of a connection starts. *)
LEMMA HandlerRunsKeeps ==
  ASSUME AdmissionInv, NEW c \in Conns, HandlerRuns(c)
  PROVE  AdmissionInv'
<1> USE AdmissionAssumption DEF AdmissionInv, Passive
<1>1. AdmissionTypeOK'
  BY DEF HandlerRuns, At, Step, AdmissionTypeOK
<1>2. SomethingSent'
  BY DEF HandlerRuns, At, Step, SomethingSent
<1>3. OneMutator'
  BY DEF HandlerRuns, At, Step, OneMutator, Performing
<1>4. \A k \in Keys : RowFits(k)'
  BY DEF HandlerRuns, At, Step, RowFits
<1>5. \A d \in Conns : PerformerFits(d)'
  BY DEF HandlerRuns, At, Step, PerformerFits
<1>6. UpIsNotIdle'
  BY DEF HandlerRuns, At, Step, UpIsNotIdle
<1>7. IdleOwnsNothing'
  BY DEF HandlerRuns, At, Step, IdleOwnsNothing, Mutations
<1> QED
  BY <1>1, <1>2, <1>3, <1>4, <1>5, <1>6, <1>7

(* The invariant holds after a frame is decoded and its operation admitted or refused. *)
LEMMA DecodeKeeps ==
  ASSUME AdmissionInv, NEW c \in Conns, Decode(c)
  PROVE  AdmissionInv'
<1> USE AdmissionAssumption DEF AdmissionInv, Passive
<1>1. AdmissionTypeOK'
  BY DEF Decode, Refused, ConnOver, NoConn, Step, AdmissionTypeOK
<1>2. /\ client[c].pc = "open" /\ server' = server /\ effect' = effect /\ request' = request
      /\ \A d \in Conns : d # c => client'[d] = client[d]
      /\ \/ client'[c].pc = "none"
         \/ ~ Refused /\ client'[c].pc = "admitted" /\ client'[c].op = client[c].op
  BY DEF Decode, ConnOver, NoConn, At, Step, AdmissionTypeOK
<1>3. busy'.work = busy.work
  BY DEF Decode, AdmissionTypeOK
<1>4. SomethingSent'
  BY DEF Decode, ConnOver, NoConn, At, Step, SomethingSent
<1>5. OneMutator'
  BY <1>2 DEF OneMutator, Performing
<1>6. \A k \in Keys : RowFits(k)'
  BY DEF Decode, RowFits
<1>7. \A d \in Conns : PerformerFits(d)'
  BY <1>2 DEF PerformerFits
<1>8. UpIsNotIdle'
  BY <1>2 DEF UpIsNotIdle
<1>9. IdleOwnsNothing'
  BY <1>2, <1>3 DEF IdleOwnsNothing, Mutations, Refused
<1> QED
  BY <1>1, <1>4, <1>5, <1>6, <1>7, <1>8, <1>9

(* The invariant holds after a passive operation is answered. *)
LEMMA PassiveReplyKeeps ==
  ASSUME AdmissionInv, NEW c \in Conns, PassiveReply(c)
  PROVE  AdmissionInv'
<1> USE AdmissionAssumption DEF AdmissionInv, Passive
<1>1. AdmissionTypeOK'
  BY DEF PassiveReply, ConnOver, NoConn, At, AdmissionTypeOK
<1>2. SomethingSent'
  BY DEF PassiveReply, ConnOver, NoConn, At, SomethingSent
<1>3. OneMutator'
  BY DEF PassiveReply, ConnOver, NoConn, At, OneMutator, Performing
<1>4. \A k \in Keys : RowFits(k)'
  BY DEF PassiveReply, ConnOver, NoConn, At, RowFits
<1>5. \A d \in Conns : PerformerFits(d)'
  BY DEF PassiveReply, ConnOver, NoConn, At, PerformerFits
<1>6. UpIsNotIdle'
  BY DEF PassiveReply, ConnOver, NoConn, At, UpIsNotIdle
<1>7. IdleOwnsNothing'
  BY DEF PassiveReply, ConnOver, NoConn, At, IdleOwnsNothing, Mutations
<1> QED
  BY <1>1, <1>2, <1>3, <1>4, <1>5, <1>6, <1>7

(* The invariant holds after a request's row is begun, replayed or found uncertain. *)
LEMMA RequestBeginKeeps ==
  ASSUME AdmissionInv, NEW c \in Conns, RequestBegin(c)
  PROVE  AdmissionInv'
<1> USE AdmissionAssumption DEF AdmissionInv, Passive
<1> DEFINE k == client[c].op
<1>1. AdmissionTypeOK'
  BY SMTT(30) DEF RequestBegin, Begins, ConnOver, NoConn, Step, AdmissionTypeOK
<1>2. /\ client[c].pc = "admitted" /\ k \in Keys
      /\ server' = server /\ busy' = busy /\ effect' = effect /\ sends' = sends
      /\ \A d \in Conns : d # c => client'[d] = client[d]
      /\ \A d \in Conns : client[d].op = k => ~ Performing(d)
  BY DEF RequestBegin, Begins, ConnOver, NoConn, At, Step, Performing, AdmissionTypeOK
<1>3. \/ /\ client'[c].pc = "mutating" /\ client'[c].op = k
         /\ request[k] = "none" /\ request'[k] = "pending" /\ told' = told
         /\ \A q \in Keys : q # k => request'[q] = request[q]
      \/ /\ client'[c].pc = "none" /\ request[k] # "none" /\ request' = request
         /\ told'[k] = told[k] \cup ({request[k]} \ {"pending"})
         /\ \A q \in Keys : q # k => told'[q] = told[q]
  BY DEF RequestBegin, Begins, ConnOver, NoConn, Step, AdmissionTypeOK
<1>4. SomethingSent'
  BY <1>2 DEF SomethingSent
<1>5. OneMutator'
  BY <1>2, <1>3 DEF OneMutator, Performing
<1>6. \A q \in Keys : RowFits(q)'
  <2> SUFFICES ASSUME NEW q \in Keys
               PROVE  RowFits(q)'
    OBVIOUS
  <2>1. RowFits(q) /\ request[q] \in {"none", "pending", "ok", "error"}
    BY DEF AdmissionTypeOK
  <2> QED
    BY <2>1, <1>2, <1>3 DEF RowFits
<1>7. \A d \in Conns : PerformerFits(d)'
  <2> SUFFICES ASSUME NEW d \in Conns
               PROVE  PerformerFits(d)'
    OBVIOUS
  <2>1. CASE d = c
    BY <2>1, <1>2, <1>3 DEF PerformerFits, RowFits
  <2>2. CASE d # c
    <3>1. Performing(d) => client[d].op \in Keys /\ client[d].op # k
      BY <1>2 DEF OneMutator
    <3>2. Performing(d) => request'[client[d].op] = request[client[d].op]
      BY <3>1, <1>3
    <3> QED
      BY <2>2, <3>2, <1>2 DEF PerformerFits, Performing
  <2> QED
    BY <2>1, <2>2
<1>8. UpIsNotIdle'
  BY <1>2 DEF UpIsNotIdle
<1>9. IdleOwnsNothing'
  BY <1>2, <1>3 DEF IdleOwnsNothing, Mutations
<1> QED
  BY <1>1, <1>4, <1>5, <1>6, <1>7, <1>8, <1>9

(* The invariant holds after a mutation is performed. *)
LEMMA MutateKeeps ==
  ASSUME AdmissionInv, NEW c \in Conns, Mutate(c)
  PROVE  AdmissionInv'
<1> USE AdmissionAssumption DEF AdmissionInv, Passive
<1> DEFINE k == client[c].op
<1>1. k \in Keys /\ request[k] = "pending" /\ effect[k] = 0 /\ sends \in Nat /\ sends > 0
      /\ sends \in 0..MaxSends
  BY DEF Mutate, At, OneMutator, Performing, PerformerFits, SomethingSent, AdmissionTypeOK
<1>2. /\ client[c].pc = "mutating" /\ client'[c].pc = "did" /\ client'[c].op = k
      /\ \A d \in Conns : d # c => client'[d] = client[d]
      /\ effect'[k] = effect[k] + 1 /\ \A q \in Keys : q # k => effect'[q] = effect[q]
      /\ request' = request /\ told' = told /\ server' = server /\ sends' = sends
  BY <1>1 DEF Mutate, At, Step, AdmissionTypeOK
<1>3. AdmissionTypeOK'
  <2>1. client' \in [Conns -> [pc : {"none", "accepted", "open", "admitted", "mutating", "did"},
                               op : Keys \cup Passive \cup {"shutdown"}]]
    BY DEF Mutate, Step, AdmissionTypeOK
  <2>2. effect' \in [Keys -> 0..MaxSends]
    <3>1. 1 \in 0..MaxSends
      BY <1>1
    <3> QED
      BY <1>1, <3>1 DEF Mutate, AdmissionTypeOK
  <2>3. busy' \in [work : BOOLEAN, grace : {"none", "counting", "over"}]
    <3>1. PICK w \in {busy.work, TRUE} : busy' = [busy EXCEPT !.work = w]
      BY DEF Mutate
    <3>2. w \in BOOLEAN
      BY DEF AdmissionTypeOK
    <3> QED
      BY <3>1, <3>2, Zenon DEF AdmissionTypeOK
  <2> QED
    BY <1>2, <2>1, <2>2, <2>3 DEF AdmissionTypeOK
<1>4. SomethingSent'
  BY <1>1, <1>2 DEF SomethingSent
<1>5. OneMutator'
  BY <1>2 DEF OneMutator, Performing
<1>6. \A q \in Keys : RowFits(q)'
  BY <1>1, <1>2 DEF RowFits
<1>7. \A d \in Conns : PerformerFits(d)'
  <2> SUFFICES ASSUME NEW d \in Conns
               PROVE  PerformerFits(d)'
    OBVIOUS
  <2>1. CASE d = c
    BY <2>1, <1>1, <1>2 DEF PerformerFits
  <2>2. CASE d # c
    <3>1. Performing(d) => client[d].op \in Keys /\ client[d].op # k
      BY <1>2, <2>2 DEF OneMutator, Performing
    <3> QED
      BY <2>2, <3>1, <1>2 DEF PerformerFits, Performing
  <2> QED
    BY <2>1, <2>2
<1>8. UpIsNotIdle'
  BY <1>2 DEF UpIsNotIdle
<1>9. IdleOwnsNothing'
  <2>1. c \in Mutations
    BY <1>1, <1>2 DEF Mutations
  <2> QED
    BY <1>2, <2>1 DEF IdleOwnsNothing
<1> QED
  BY <1>3, <1>4, <1>5, <1>6, <1>7, <1>8, <1>9

(* The invariant holds after a request's answer is recorded and given. *)
LEMMA RequestEndKeeps ==
  ASSUME AdmissionInv, NEW c \in Conns, RequestEnd(c)
  PROVE  AdmissionInv'
<1> USE AdmissionAssumption DEF AdmissionInv, Passive
<1> DEFINE k == client[c].op
<1>1. PICK e \in {"ok", "error"} :
        /\ client[c].pc = "did" \/ (client[c].pc = "mutating" /\ e = "error")
        /\ client' = [client EXCEPT ![c] = NoConn] /\ request' = [request EXCEPT ![k] = e]
        /\ told' \in {told, [told EXCEPT ![k] = @ \cup {e}]}
        /\ UNCHANGED <<server, effect, busy, sends>>
  BY DEF RequestEnd, Recorded, ConnOver, At
<1>2. /\ k \in Keys /\ request[k] = "pending" /\ effect[k] \in 0..1
      /\ e = "ok" => effect[k] = 1
  BY <1>1 DEF OneMutator, Performing, PerformerFits
<1>3. /\ client'[c].pc = "none" /\ \A d \in Conns : d # c => client'[d] = client[d]
      /\ request'[k] = e /\ \A q \in Keys : q # k => request'[q] = request[q]
      /\ told'[k] \subseteq told[k] \cup {e} /\ \A q \in Keys : q # k => told'[q] = told[q]
  BY <1>1, <1>2 DEF AdmissionTypeOK, NoConn
<1>4. AdmissionTypeOK'
  BY <1>1, <1>2 DEF AdmissionTypeOK, NoConn
<1>5. SomethingSent'
  BY <1>1, <1>3 DEF SomethingSent
<1>6. OneMutator'
  BY <1>3 DEF OneMutator, Performing
<1>7. \A q \in Keys : RowFits(q)'
  BY <1>1, <1>2, <1>3 DEF RowFits
<1>8. \A d \in Conns : PerformerFits(d)'
  <2> SUFFICES ASSUME NEW d \in Conns
               PROVE  PerformerFits(d)'
    OBVIOUS
  <2>1. CASE d = c
    BY <2>1, <1>3 DEF PerformerFits
  <2>2. CASE d # c
    <3>1. Performing(d) => client[d].op \in Keys /\ client[d].op # k
      BY <1>1, <2>2 DEF OneMutator, Performing
    <3> QED
      BY <2>2, <3>1, <1>1, <1>3 DEF PerformerFits, Performing
  <2> QED
    BY <2>1, <2>2
<1>9. UpIsNotIdle'
  BY <1>1 DEF UpIsNotIdle
<1>10. IdleOwnsNothing'
  BY <1>1, <1>3 DEF IdleOwnsNothing, Mutations
<1> QED
  BY <1>4, <1>5, <1>6, <1>7, <1>8, <1>9, <1>10

(* The invariant holds after an operation is cut. *)
LEMMA CutKeeps ==
  ASSUME AdmissionInv, NEW c \in Conns, Cut(c)
  PROVE  AdmissionInv'
<1> USE AdmissionAssumption DEF AdmissionInv, Passive
<1>1. AdmissionTypeOK'
  BY DEF Cut, ConnOver, NoConn, At, AdmissionTypeOK
<1>2. SomethingSent'
  BY DEF Cut, ConnOver, NoConn, At, SomethingSent
<1>3. OneMutator'
  BY DEF Cut, ConnOver, NoConn, At, OneMutator, Performing
<1>4. \A k \in Keys : RowFits(k)'
  BY DEF Cut, ConnOver, NoConn, At, RowFits
<1>5. \A d \in Conns : PerformerFits(d)'
  BY DEF Cut, ConnOver, NoConn, At, PerformerFits
<1>6. UpIsNotIdle'
  BY DEF Cut, ConnOver, NoConn, At, UpIsNotIdle
<1>7. IdleOwnsNothing'
  BY DEF Cut, ConnOver, NoConn, At, IdleOwnsNothing, Mutations
<1> QED
  BY <1>1, <1>2, <1>3, <1>4, <1>5, <1>6, <1>7

(* The invariant holds after a bridge of another revision asks for the handoff. *)
LEMMA HandOffKeeps ==
  ASSUME AdmissionInv, NEW c \in Conns, HandOff(c)
  PROVE  AdmissionInv'
<1> USE AdmissionAssumption DEF AdmissionInv, Passive
<1>1. AdmissionTypeOK'
  BY DEF HandOff, ClosesIdle, ConnOver, NoConn, AdmissionTypeOK
<1>2. SomethingSent'
  BY DEF HandOff, ConnOver, NoConn, SomethingSent
<1>3. OneMutator'
  BY DEF HandOff, ConnOver, NoConn, OneMutator, Performing
<1>4. \A k \in Keys : RowFits(k)'
  BY DEF HandOff, RowFits
<1>5. \A d \in Conns : PerformerFits(d)'
  BY DEF HandOff, ConnOver, NoConn, PerformerFits
<1>6. \/ server' = server
      \/ /\ server.life = "up" /\ ~ busy.work /\ MayHandOff(c)
         /\ server'.life = "closing" /\ server'.idle = TRUE
  BY DEF HandOff, ClosesIdle, AdmissionTypeOK
<1>7. UpIsNotIdle'
  BY <1>6 DEF UpIsNotIdle
<1>8. IdleOwnsNothing'
  <2>1. busy' = busy /\ Mutations' \subseteq Mutations \ {c}
    BY DEF HandOff, ConnOver, NoConn, Mutations, AdmissionTypeOK
  <2>2. Mutations \cap {c} = {}
    BY DEF HandOff, Mutations
  <2>3. MayHandOff(c) => Mutations \ {c} = {}
    BY DEF MayHandOff, QuietConns, Known, Mutations
  <2> QED
    BY <1>6, <2>1, <2>2, <2>3 DEF IdleOwnsNothing
<1> QED
  BY <1>1, <1>2, <1>3, <1>4, <1>5, <1>7, <1>8

(* The invariant holds after every step of the daemon itself: a start, a look of the monitor, the
   idle close, a stop, an exit or a death. *)
LEMMA DaemonKeeps ==
  ASSUME AdmissionInv,
         Start \/ WorkEnds \/ Monitor \/ IdleClose \/ Stop \/ Exit \/ Crash
  PROVE  AdmissionInv'
<1> USE AdmissionAssumption DEF AdmissionInv, Passive
<1>1. CASE Start
  <2>1. Start
    BY <1>1
  <2>2. AdmissionTypeOK'
    BY <2>1 DEF Start, AdmissionTypeOK
  <2> QED
    BY <2>1, <2>2 DEF Start, SomethingSent, OneMutator, Performing, RowFits, PerformerFits,
       UpIsNotIdle, IdleOwnsNothing
<1>2. CASE WorkEnds
  <2>1. AdmissionTypeOK'
    BY <1>2 DEF WorkEnds, AdmissionTypeOK
  <2>2. busy'.work = FALSE
    BY <1>2 DEF WorkEnds, AdmissionTypeOK
  <2> QED
    BY <1>2, <2>1, <2>2 DEF WorkEnds, SomethingSent, OneMutator, Performing, RowFits, PerformerFits,
       UpIsNotIdle, IdleOwnsNothing, Mutations
<1>3. CASE Monitor
  <2>1. AdmissionTypeOK' /\ busy'.work = busy.work
    BY <1>3 DEF Monitor, AdmissionTypeOK
  <2> QED
    BY <1>3, <2>1 DEF Monitor, SomethingSent, OneMutator, Performing, RowFits, PerformerFits,
       UpIsNotIdle, IdleOwnsNothing, Mutations
<1>4. CASE IdleClose
  <2>1. AdmissionTypeOK' /\ server'.life = "closing"
    BY <1>4 DEF IdleClose, ClosesIdle, AdmissionTypeOK
  <2>2. Mutations = {}
    BY <1>4 DEF IdleClose, Mutations, Known
  <2> QED
    BY <1>4, <2>1, <2>2 DEF IdleClose, SomethingSent, OneMutator, Performing, RowFits,
       PerformerFits, UpIsNotIdle, IdleOwnsNothing, Mutations
<1>5. CASE Stop
  <2>1. AdmissionTypeOK' /\ server'.life = "closing" /\ server'.idle = server.idle
    BY <1>5 DEF Stop, AdmissionTypeOK
  <2> QED
    BY <1>5, <2>1 DEF Stop, SomethingSent, OneMutator, Performing, RowFits, PerformerFits,
       UpIsNotIdle, IdleOwnsNothing, Mutations
<1>6. CASE Exit \/ Crash
  <2>1. AdmissionTypeOK' /\ server'.life = "down" /\ \A c \in Conns : client'[c].pc = "none"
    BY <1>6 DEF Exit, Crash, NoConn, AdmissionTypeOK
  <2> QED
    BY <1>6, <2>1 DEF Exit, Crash, SomethingSent, OneMutator, Performing, RowFits, PerformerFits,
       UpIsNotIdle, IdleOwnsNothing
<1> QED
  BY <1>1, <1>2, <1>3, <1>4, <1>5, <1>6

(* The invariant holds before the first daemon is started. *)
LEMMA AdmissionInvInit == AdmissionInit => AdmissionInv
<1> SUFFICES ASSUME AdmissionInit
             PROVE  AdmissionInv
  OBVIOUS
<1> USE AdmissionAssumption DEF AdmissionInit
<1>1. AdmissionTypeOK
  BY DEF AdmissionTypeOK, NoConn, Passive
<1> QED
  BY <1>1 DEF AdmissionInv, SomethingSent, OneMutator, Performing, RowFits, PerformerFits,
     UpIsNotIdle, IdleOwnsNothing, NoConn

(* The invariant is inductive. *)
LEMMA AdmissionInvStep == AdmissionInv /\ [AdmissionNext]_admissionVars => AdmissionInv'
<1> SUFFICES ASSUME AdmissionInv, [AdmissionNext]_admissionVars
             PROVE  AdmissionInv'
  OBVIOUS
<1>1. ASSUME NEW c \in Conns,
             \/ \E op \in Keys \cup Passive \cup {"shutdown"} : Send(c, op)
             \/ HandlerRuns(c) \/ Decode(c) \/ PassiveReply(c) \/ RequestBegin(c) \/ Mutate(c)
             \/ RequestEnd(c) \/ Cut(c) \/ HandOff(c)
      PROVE  AdmissionInv'
  BY <1>1, SendKeeps, HandlerRunsKeeps, DecodeKeeps, PassiveReplyKeeps, RequestBeginKeeps,
     MutateKeeps, RequestEndKeeps, CutKeeps, HandOffKeeps
<1>2. CASE Start \/ WorkEnds \/ Monitor \/ IdleClose \/ Stop \/ Exit \/ Crash
  BY <1>2, DaemonKeeps
<1>3. CASE UNCHANGED admissionVars
  BY <1>3 DEF admissionVars, AdmissionInv, AdmissionTypeOK, SomethingSent, OneMutator, Performing,
     RowFits, PerformerFits, UpIsNotIdle, IdleOwnsNothing, Mutations
<1> QED
  BY <1>1, <1>2, <1>3 DEF AdmissionNext

(* A mutation is performed at most once and answered one way, and an idle close loses none: the
   property the run "services" checks, for every value of the constants. *)
THEOREM RepeatingIsSafe == AdmissionSpec => []AdmissionSound
<1>1. AdmissionInv => AdmissionSound
  <2> SUFFICES ASSUME AdmissionInv
               PROVE  AdmissionSound
    OBVIOUS
  <2>1. ASSUME NEW k \in Keys
        PROVE  effect[k] <= 1 /\ told[k] # {"ok", "error"} /\ ("ok" \in told[k] => effect[k] = 1)
    <3>1. RowFits(k) /\ request[k] \in {"none", "pending", "ok", "error"}
      BY DEF AdmissionInv, AdmissionTypeOK
    <3> QED
      BY <3>1 DEF RowFits
  <2> QED
    BY <2>1 DEF AdmissionInv, AdmissionSound, RequestsExact, AtMostOnce, OneAnswer
<1> QED
  BY <1>1, AdmissionInvInit, AdmissionInvStep, PTL DEF AdmissionSpec

-----------------------------------------------------------------------------
(* ExecSession.  The invariant follows a command from its startup to the result of its call: whose the process is,
   what the manager lists, what was emitted, held back or is left to replay, and whose turn the poll is. *)
(* A handle that was not started has run nothing; one whose exit counts has no process that runs. *)
StartupTells ==
  /\ handle.start \in {"none", "asked", "failed"} => native.state = "none"
  /\ handle.start \in {"none", "asked"} => ~handle.exit
  /\ handle.exit => ~Runs
(* Only the call that runs the command is there until it has returned, and it waits for the startup. *)
CallsTurn ==
  /\ calls["exec"].pc = "idle" <=> handle.start = "none"
  /\ calls["exec"].pc = "idle" => ~execution.held
  /\ calls["exec"].pc # "done" => \A c \in Polls : c # "exec" => calls[c].pc = "idle"
  /\ \A c \in Callers : calls[c].pc = "polling" => handle.start = "ok"
  /\ \A c \in Callers : calls[c].pc \in {"polling", "finishing", "done"} => handle.start \in {"ok", "failed"}
  /\ calls["exec"].pc \in {"waiting", "starting", "polling", "finishing"} => manager.state = "down" \/ execution.held
(* The output that was told of: what was read, and a line if the command failed. *)
OutputTold ==
  /\ handle.seq <= native.out /\ execution.emitted <= execution.end
  /\ execution.end <= handle.seq + 1 /\ (~handle.exit => execution.end <= handle.seq)
(* A command its call gave up is to be terminated, as soon as it is started. *)
AbortKills ==
  Up => /\ ~execution.held /\ handle.start = "asked" => handle.killing \/ calls["exec"].aborted
        /\ calls["exec"].aborted /\ Runs => handle.killing
        /\ ~execution.held /\ Runs => handle.killing
(* A result that was returned leaves the command listed, or its replay. *)
ResultLeft ==
  Up => /\ handle.exit /\ execution.held => execution.finalized
        /\ Returned /\ ~handle.exit => execution.held /\ execution.exposed
        /\ Returned /\ ~execution.held => replay # NoReplay /\ execution.emitted = execution.end
ExecDown == manager.state = "down" => ~Runs /\ (handle.start # "asked" \/ native.state = "none")
ExecInv ==
  /\ ExecTypeOK /\ StartupTells /\ CallsTurn /\ OutputTold /\ AbortKills /\ ResultLeft
  /\ ExecDown

-----------------------------------------------------------------------------
ExecPcs == {"idle", "waiting", "starting", "polling", "finishing", "done", "thrown"}
ExecNatives == [state : {"none", "running", "exited", "lost"}, out : 0..MaxPieces, open : BOOLEAN]
ExecHandles == [start : {"none", "asked", "ok", "failed"}, exit : BOOLEAN, killing : BOOLEAN,
                terminating : BOOLEAN, seq : 0..MaxPieces, seen : BOOLEAN]
ExecOutputs == [held : BOOLEAN, finalized : BOOLEAN, exposed : BOOLEAN,
                end : 0..(MaxPieces + 1), emitted : 0..(MaxPieces + 1)]
ExecCalls == [Callers -> [pc : ExecPcs, aborted : BOOLEAN]]

(* One call goes on, the others stand where they were. *)
LEMMA CallGoes ==
  ASSUME calls \in ExecCalls, NEW c \in Callers, NEW pc \in ExecPcs, Goes(c, pc)
  PROVE  /\ calls' \in ExecCalls /\ calls'[c].pc = pc
         /\ \A d \in Callers : calls'[d].aborted = calls[d].aborted /\ (d # c => calls'[d].pc = calls[d].pc)
<1>1. calls' = [calls EXCEPT ![c] = [calls[c] EXCEPT !.pc = pc]]
  BY DEF Goes, ExecCalls
<1>2. [calls[c] EXCEPT !.pc = pc] \in [pc : ExecPcs, aborted : BOOLEAN]
      /\ [calls[c] EXCEPT !.pc = pc].pc = pc /\ [calls[c] EXCEPT !.pc = pc].aborted = calls[c].aborted
  BY DEF ExecCalls
<1> QED
  BY <1>1, <1>2 DEF ExecCalls

(* What a read of the output leaves: the exit counts once the process is gone. *)
LEMMA CommitTells ==
  ASSUME handle \in ExecHandles, execution \in ExecOutputs, native \in ExecNatives,
         OutputTold, ~handle.exit, Commits
  PROVE  /\ handle' \in ExecHandles /\ handle'.start = handle.start /\ handle'.seq = native.out
         /\ handle'.killing = handle.killing /\ (handle'.exit => native.state = "exited")
         /\ execution' \in ExecOutputs /\ execution'.end = execution.end + (native.out - handle.seq)
         /\ execution'.held = execution.held /\ execution'.exposed = execution.exposed
         /\ execution'.emitted = execution.emitted /\ (handle'.exit => execution'.finalized)
<1> DEFINE fresh == native.out - handle.seq
           ended == native.state = "exited" /\ (~native.open \/ (handle.seen /\ fresh = 0))
<1>1. fresh \in 0..MaxPieces /\ execution.end <= handle.seq /\ execution.end + fresh \in 0..(MaxPieces + 1)
  BY ExecAssumption DEF OutputTold, ExecHandles, ExecOutputs, ExecNatives
<1>2. ended \in BOOLEAN /\ (native.state = "exited") \in BOOLEAN
  OBVIOUS
<1>3. handle' = [handle EXCEPT !.seq = native.out, !.seen = (native.state = "exited"), !.exit = ended]
  BY DEF Commits
<1>4. execution' = IF ended THEN Finalized([execution EXCEPT !.end = @ + fresh]) ELSE [execution EXCEPT !.end = @ + fresh]
  BY DEF Commits
<1> HIDE DEF fresh, ended
<1>5. /\ handle' \in ExecHandles /\ handle'.start = handle.start /\ handle'.seq = native.out
      /\ handle'.killing = handle.killing /\ handle'.exit = ended
  BY <1>2, <1>3 DEF ExecHandles, ExecNatives
<1>6. /\ execution' \in ExecOutputs /\ execution'.end = execution.end + fresh
      /\ execution'.held = execution.held /\ execution'.exposed = execution.exposed
      /\ execution'.emitted = execution.emitted /\ (ended => execution'.finalized)
  BY <1>1, <1>2, <1>4 DEF ExecOutputs, Finalized
<1> QED
  BY <1>5, <1>6 DEF fresh, ended

(* A failure is an exit that the owner of the command, if it has one, is told with a line of output. *)
LEMMA FailureTells ==
  ASSUME handle \in ExecHandles, execution \in ExecOutputs, OutputTold, ~handle.exit, Fails
  PROVE  /\ handle' \in ExecHandles /\ handle'.start = (IF handle.start = "asked" THEN "failed" ELSE handle.start)
         /\ handle'.seq = handle.seq /\ handle'.killing = handle.killing /\ handle'.exit
         /\ execution' \in ExecOutputs /\ execution'.end \in execution.end..(execution.end + 1)
         /\ execution'.held = execution.held /\ execution'.exposed = execution.exposed
         /\ execution'.emitted = execution.emitted /\ (SessionOwned => execution'.finalized)
         /\ (~execution.held => execution' = execution)
<1>1. execution.end <= handle.seq /\ execution.end + 1 \in 0..(MaxPieces + 1)
  BY ExecAssumption DEF OutputTold, ExecHandles, ExecOutputs
<1>2. /\ handle' \in ExecHandles /\ handle'.start = (IF handle.start = "asked" THEN "failed" ELSE handle.start)
      /\ handle'.seq = handle.seq /\ handle'.killing = handle.killing /\ handle'.exit
  BY DEF Fails, ExecHandles
<1>3. [execution EXCEPT !.end = @ + 1] \in ExecOutputs
  BY <1>1 DEF ExecOutputs
<1>4. CASE SessionOwned
  <2> DEFINE grown == [execution EXCEPT !.end = @ + 1]
  <2>1. grown \in ExecOutputs /\ grown.end = execution.end + 1 /\ grown.held = execution.held
        /\ grown.exposed = execution.exposed /\ grown.emitted = execution.emitted
    BY <1>3 DEF ExecOutputs
  <2>2. execution' = [grown EXCEPT !.finalized = TRUE]
    BY <1>4 DEF Fails, Finalized
  <2> HIDE DEF grown
  <2>3. /\ execution' \in ExecOutputs /\ execution'.end = grown.end /\ execution'.held = grown.held
        /\ execution'.exposed = grown.exposed /\ execution'.emitted = grown.emitted /\ execution'.finalized
    BY <2>1, <2>2 DEF ExecOutputs
  <2> QED
    BY <1>1, <1>2, <1>4, <2>1, <2>3 DEF SessionOwned, ExecOutputs
<1>5. CASE ~SessionOwned
  BY <1>1, <1>2, <1>5 DEF Fails, ExecOutputs
<1> QED
  BY <1>4, <1>5, <1>2 DEF SessionOwned

(* A call that throws leaves its command to nobody, and asks for its end unless an abort did. *)
LEMMA ThrowTells ==
  ASSUME handle \in ExecHandles, execution \in ExecOutputs, NEW c \in Callers, NEW kill \in BOOLEAN, Throws(c, kill)
  PROVE  /\ handle' \in ExecHandles /\ handle'.start = handle.start /\ handle'.seq = handle.seq
         /\ handle'.exit = handle.exit /\ (c = "exec" /\ kill => handle'.killing)
         /\ handle'.killing \in {handle.killing, TRUE}
         /\ execution' \in ExecOutputs /\ execution'.finalized = execution.finalized
         /\ execution'.exposed = execution.exposed /\ execution'.end = execution.end
         /\ execution'.emitted = execution.emitted
         /\ execution'.held = (IF c = "exec" THEN FALSE ELSE execution.held)
  BY ZenonT(60) DEF Throws, GivesUp, Terminate, ExecHandles, ExecOutputs

-----------------------------------------------------------------------------
(* The process writes, exits or closes its streams. *)
LEMMA ProcessKeeps ==
  ASSUME ExecInv, Produces \/ Exits \/ Closes
  PROVE  ExecInv'
<1>1. native \in ExecNatives /\ handle \in ExecHandles /\ execution \in ExecOutputs /\ calls \in ExecCalls
      /\ manager \in [state : {"up", "closing", "down"}, deaths : 0..MaxDeaths] /\ replay \in -1..(MaxPieces + 1)
      /\ "exec" \in Callers
  BY DEF ExecInv, ExecTypeOK, ExecNatives, ExecHandles, ExecOutputs, ExecCalls, ExecPcs, Callers
<1>2. native' \in ExecNatives /\ native.out <= native'.out /\ (native.state = native'.state \/ (Runs /\ native'.state = "exited"))
      /\ UNCHANGED <<handle, execution, replay, calls, manager>>
  <2>1. CASE Produces
    BY <1>1, <2>1, ExecAssumption DEF Produces, ExecNatives
  <2>2. CASE Exits
    <3>1. PICK open \in BOOLEAN : native' = [native EXCEPT !.state = "exited", !.open = open]
      BY <2>2 DEF Exits
    <3>2. native' \in ExecNatives /\ native'.out = native.out /\ native'.state = "exited"
      BY <1>1, <3>1 DEF ExecNatives
    <3>3. native.out \in Nat
      BY <1>1, ExecAssumption DEF ExecNatives
    <3>4. Runs /\ UNCHANGED <<handle, execution, replay, calls, manager>>
      BY <2>2 DEF Exits
    <3> QED
      BY <3>2, <3>3, <3>4
  <2>3. CASE Closes
    <3>1. native' \in ExecNatives /\ native'.out = native.out /\ native'.state = native.state
      BY <1>1, <2>3 DEF Closes, ExecNatives
    <3>2. native.out \in Nat
      BY <1>1, ExecAssumption DEF ExecNatives
    <3> QED
      BY <2>3, <3>1, <3>2 DEF Closes
  <2> QED
    BY <1>1, <2>1, <2>2, <2>3
<1>3. ExecTypeOK'
  BY <1>1, <1>2, ExecAssumption DEF ExecInv, ExecTypeOK, NoReplay, ExecNatives, ExecHandles, ExecOutputs, ExecCalls, ExecPcs
<1>4. StartupTells'
  BY <1>1, <1>2 DEF ExecInv, StartupTells, CallsTurn, OutputTold, AbortKills, ResultLeft, ExecDown, Up, Runs, Returned, ExecNatives, ExecHandles, ExecOutputs, ExecCalls, Callers, NoReplay
<1>5. CallsTurn'
  BY <1>1, <1>2 DEF ExecInv, StartupTells, CallsTurn, OutputTold, AbortKills, ResultLeft, ExecDown, Up, Runs, Returned, ExecNatives, ExecHandles, ExecOutputs, ExecCalls, Callers, NoReplay
<1>6. OutputTold'
  BY <1>1, <1>2 DEF ExecInv, StartupTells, CallsTurn, OutputTold, AbortKills, ResultLeft, ExecDown, Up, Runs, Returned, ExecNatives, ExecHandles, ExecOutputs, ExecCalls, Callers, NoReplay
<1>7. AbortKills'
  BY <1>1, <1>2 DEF ExecInv, StartupTells, CallsTurn, OutputTold, AbortKills, ResultLeft, ExecDown, Up, Runs, Returned, ExecNatives, ExecHandles, ExecOutputs, ExecCalls, Callers, NoReplay
<1>8. ResultLeft'
  BY <1>1, <1>2 DEF ExecInv, StartupTells, CallsTurn, OutputTold, AbortKills, ResultLeft, ExecDown, Up, Runs, Returned, ExecNatives, ExecHandles, ExecOutputs, ExecCalls, Callers, NoReplay
<1>9. ExecDown'
  BY <1>1, <1>2 DEF ExecInv, StartupTells, CallsTurn, OutputTold, AbortKills, ResultLeft, ExecDown, Up, Runs, Returned, ExecNatives, ExecHandles, ExecOutputs, ExecCalls, Callers, NoReplay
<1> QED
  BY <1>3, <1>4, <1>5, <1>6, <1>7, <1>8, <1>9 DEF ExecInv

(* The bridge crashes, and its processes are lost. *)
LEMMA BridgeKeeps ==
  ASSUME ExecInv, Dies
  PROVE  ExecInv'
<1>1. native \in ExecNatives /\ handle \in ExecHandles /\ execution \in ExecOutputs /\ calls \in ExecCalls
      /\ manager \in [state : {"up", "closing", "down"}, deaths : 0..MaxDeaths] /\ replay \in -1..(MaxPieces + 1)
      /\ "exec" \in Callers
  BY DEF ExecInv, ExecTypeOK, ExecNatives, ExecHandles, ExecOutputs, ExecCalls, ExecPcs, Callers
<1>2. native' \in ExecNatives /\ native.out = native'.out /\ (native.state = "none" <=> native'.state = "none") /\ native'.state # "running"
      /\ UNCHANGED <<handle, execution, replay, calls>>
  BY <1>1 DEF Dies, ExecNatives
<1>3. manager' \in [state : {"up", "closing", "down"}, deaths : 0..MaxDeaths] /\ manager'.state = manager.state
  BY <1>1, ExecAssumption DEF Dies
<1>4. ExecTypeOK'
  BY <1>1, <1>2, <1>3, ExecAssumption DEF ExecInv, ExecTypeOK, NoReplay, ExecNatives, ExecHandles, ExecOutputs, ExecCalls, ExecPcs
<1>5. StartupTells'
  BY <1>1, <1>2, <1>3 DEF ExecInv, StartupTells, CallsTurn, OutputTold, AbortKills, ResultLeft, ExecDown, Up, Runs, Returned, ExecNatives, ExecHandles, ExecOutputs, ExecCalls, Callers, NoReplay
<1>6. CallsTurn'
  BY <1>1, <1>2, <1>3 DEF ExecInv, StartupTells, CallsTurn, OutputTold, AbortKills, ResultLeft, ExecDown, Up, Runs, Returned, ExecNatives, ExecHandles, ExecOutputs, ExecCalls, Callers, NoReplay
<1>7. OutputTold'
  BY <1>1, <1>2, <1>3 DEF ExecInv, StartupTells, CallsTurn, OutputTold, AbortKills, ResultLeft, ExecDown, Up, Runs, Returned, ExecNatives, ExecHandles, ExecOutputs, ExecCalls, Callers, NoReplay
<1>8. AbortKills'
  BY <1>1, <1>2, <1>3 DEF ExecInv, StartupTells, CallsTurn, OutputTold, AbortKills, ResultLeft, ExecDown, Up, Runs, Returned, ExecNatives, ExecHandles, ExecOutputs, ExecCalls, Callers, NoReplay
<1>9. ResultLeft'
  BY <1>1, <1>2, <1>3 DEF ExecInv, StartupTells, CallsTurn, OutputTold, AbortKills, ResultLeft, ExecDown, Up, Runs, Returned, ExecNatives, ExecHandles, ExecOutputs, ExecCalls, Callers, NoReplay
<1>10. ExecDown'
  BY <1>1, <1>2, <1>3 DEF ExecInv, StartupTells, CallsTurn, OutputTold, AbortKills, ResultLeft, ExecDown, Up, Runs, Returned, ExecNatives, ExecHandles, ExecOutputs, ExecCalls, Callers, NoReplay
<1> QED
  BY <1>4, <1>5, <1>6, <1>7, <1>8, <1>9, <1>10 DEF ExecInv

(* The startup is answered: the command runs, and is terminated if it was aborted, or it failed. *)
LEMMA StartupKeeps ==
  ASSUME ExecInv, Startup
  PROVE  ExecInv'
<1>1. native \in ExecNatives /\ handle \in ExecHandles /\ execution \in ExecOutputs /\ calls \in ExecCalls
      /\ manager \in [state : {"up", "closing", "down"}, deaths : 0..MaxDeaths] /\ replay \in -1..(MaxPieces + 1)
      /\ "exec" \in Callers
  BY DEF ExecInv, ExecTypeOK, ExecNatives, ExecHandles, ExecOutputs, ExecCalls, ExecPcs, Callers
<1>2. handle.start = "asked" /\ UNCHANGED <<replay, calls, manager>>
  BY DEF Startup
<1>3. \/ /\ manager.state # "down" /\ native' \in ExecNatives /\ native'.state = "running" /\ native'.out = native.out
         /\ handle' \in ExecHandles /\ handle'.start = "ok" /\ handle'.seq = handle.seq /\ handle'.exit = handle.exit
         /\ handle'.killing = (handle.killing \/ calls["exec"].aborted) /\ UNCHANGED execution
      \/ Fails /\ UNCHANGED native
  <2>1. CASE manager.state # "down" /\ native' = [native EXCEPT !.state = "running", !.open = TRUE]
             /\ handle' = [handle EXCEPT !.start = "ok", !.killing = @ \/ calls["exec"].aborted] /\ UNCHANGED execution
    <3>1. calls["exec"].aborted \in BOOLEAN
      BY <1>1 DEF ExecCalls
    <3>2. native' \in ExecNatives /\ native'.state = "running" /\ native'.out = native.out
      BY <1>1, <2>1 DEF ExecNatives
    <3>3. /\ handle' \in ExecHandles /\ handle'.start = "ok" /\ handle'.seq = handle.seq /\ handle'.exit = handle.exit
          /\ handle'.killing = (handle.killing \/ calls["exec"].aborted)
      BY <1>1, <3>1, <2>1 DEF ExecHandles
    <3> QED
      BY <2>1, <3>2, <3>3
  <2>2. CASE Fails /\ UNCHANGED native
    BY <2>2
  <2> QED
    BY <1>1, <2>1, <2>2 DEF Startup
<1>4. Fails => /\ handle' \in ExecHandles /\ handle'.start = "failed" /\ handle'.seq = handle.seq /\ handle'.exit
               /\ handle'.killing = handle.killing /\ execution' \in ExecOutputs
               /\ execution'.end \in execution.end..(execution.end + 1) /\ execution'.held = execution.held
               /\ execution'.exposed = execution.exposed /\ execution'.emitted = execution.emitted
               /\ (SessionOwned => execution'.finalized) /\ (~execution.held => execution' = execution)
  BY <1>1, <1>2, FailureTells DEF ExecInv, StartupTells
<1>5. ExecTypeOK'
  BY <1>1, <1>2, <1>3, <1>4, ExecAssumption DEF ExecInv, ExecTypeOK, NoReplay, ExecNatives, ExecHandles, ExecOutputs, ExecCalls, ExecPcs
<1>6. StartupTells'
  BY <1>1, <1>2, <1>3, <1>4 DEF ExecInv, StartupTells, CallsTurn, OutputTold, AbortKills, ResultLeft, ExecDown, Up, Runs, Returned, ExecNatives, ExecHandles, ExecOutputs, ExecCalls, Callers, NoReplay, SessionOwned
<1>7. CallsTurn'
  BY <1>1, <1>2, <1>3, <1>4 DEF ExecInv, StartupTells, CallsTurn, OutputTold, AbortKills, ResultLeft, ExecDown, Up, Runs, Returned, ExecNatives, ExecHandles, ExecOutputs, ExecCalls, Callers, NoReplay, SessionOwned
<1>8. OutputTold'
  BY <1>1, <1>2, <1>3, <1>4 DEF ExecInv, StartupTells, CallsTurn, OutputTold, AbortKills, ResultLeft, ExecDown, Up, Runs, Returned, ExecNatives, ExecHandles, ExecOutputs, ExecCalls, Callers, NoReplay, SessionOwned
<1>9. AbortKills'
  BY <1>1, <1>2, <1>3, <1>4 DEF ExecInv, StartupTells, CallsTurn, OutputTold, AbortKills, ResultLeft, ExecDown, Up, Runs, Returned, ExecNatives, ExecHandles, ExecOutputs, ExecCalls, Callers, NoReplay, SessionOwned
<1>10. ResultLeft'
  BY <1>1, <1>2, <1>3, <1>4 DEF ExecInv, StartupTells, CallsTurn, OutputTold, AbortKills, ResultLeft, ExecDown, Up, Runs, Returned, ExecNatives, ExecHandles, ExecOutputs, ExecCalls, Callers, NoReplay, SessionOwned
<1>11. ExecDown'
  BY <1>1, <1>2, <1>3, <1>4 DEF ExecInv, StartupTells, CallsTurn, OutputTold, AbortKills, ResultLeft, ExecDown, Up, Runs, Returned, ExecNatives, ExecHandles, ExecOutputs, ExecCalls, Callers, NoReplay, SessionOwned
<1> QED
  BY <1>5, <1>6, <1>7, <1>8, <1>9, <1>10, <1>11 DEF ExecInv

(* The loop reads what came, or finds the process lost. *)
LEMMA LoopKeeps ==
  ASSUME ExecInv, PollLoop
  PROVE  ExecInv'
<1>1. native \in ExecNatives /\ handle \in ExecHandles /\ execution \in ExecOutputs /\ calls \in ExecCalls
      /\ manager \in [state : {"up", "closing", "down"}, deaths : 0..MaxDeaths] /\ replay \in -1..(MaxPieces + 1)
      /\ "exec" \in Callers
  BY DEF ExecInv, ExecTypeOK, ExecNatives, ExecHandles, ExecOutputs, ExecCalls, ExecPcs, Callers
<1>2. handle.start = "ok" /\ SessionOwned /\ ~handle.exit /\ (Commits \/ (Fails /\ native.state = "lost")) /\ UNCHANGED <<native, replay, calls, manager>>
  BY DEF PollLoop, Reads
<1>3. /\ handle' \in ExecHandles /\ handle'.start = "ok" /\ handle'.seq \in handle.seq..native.out /\ handle'.killing = handle.killing
      /\ (handle'.exit => native.state # "running") /\ execution' \in ExecOutputs
      /\ execution.end <= execution'.end /\ execution'.end <= handle'.seq + 1 /\ (~handle'.exit => execution'.end <= handle'.seq)
      /\ execution'.held = execution.held /\ execution'.exposed = execution.exposed /\ execution'.emitted = execution.emitted
      /\ (handle'.exit => execution'.finalized)
  <2>1. CASE Commits
    <3>1. handle' \in ExecHandles /\ handle'.start = "ok" /\ handle'.seq = native.out /\ handle'.killing = handle.killing
          /\ (handle'.exit => native.state = "exited") /\ execution' \in ExecOutputs
          /\ execution'.end = execution.end + (native.out - handle.seq) /\ execution'.held = execution.held
          /\ execution'.exposed = execution.exposed /\ execution'.emitted = execution.emitted
          /\ (handle'.exit => execution'.finalized)
      BY <1>1, <1>2, <2>1, CommitTells DEF ExecInv
    <3>2. execution.end <= handle.seq /\ handle.seq <= native.out
      BY <1>2 DEF ExecInv, OutputTold
    <3> QED
      BY <1>1, <3>1, <3>2 DEF ExecHandles, ExecOutputs, ExecNatives
  <2>2. CASE Fails /\ native.state = "lost"
    <3>1. handle' \in ExecHandles /\ handle'.start = "ok" /\ handle'.seq = handle.seq /\ handle'.killing = handle.killing
          /\ handle'.exit /\ execution' \in ExecOutputs
          /\ execution'.end \in execution.end..(execution.end + 1) /\ execution'.held = execution.held
          /\ execution'.exposed = execution.exposed /\ execution'.emitted = execution.emitted /\ execution'.finalized
      BY <1>1, <1>2, <2>2, FailureTells DEF ExecInv
    <3>2. execution.end <= handle.seq /\ handle.seq <= native.out
      BY <1>2 DEF ExecInv, OutputTold
    <3> QED
      BY <1>1, <2>2, <3>1, <3>2 DEF ExecHandles, ExecOutputs, ExecNatives
  <2> QED
    BY <1>2, <2>1, <2>2
<1>4. ExecTypeOK'
  BY <1>1, <1>2, <1>3, ExecAssumption DEF ExecInv, ExecTypeOK, NoReplay, ExecNatives, ExecHandles, ExecOutputs, ExecCalls, ExecPcs
<1>5. StartupTells'
  BY <1>1, <1>2, <1>3 DEF ExecInv, StartupTells, CallsTurn, OutputTold, AbortKills, ResultLeft, ExecDown, Up, Runs, Returned, ExecNatives, ExecHandles, ExecOutputs, ExecCalls, Callers, NoReplay, SessionOwned
<1>6. CallsTurn'
  BY <1>1, <1>2, <1>3 DEF ExecInv, StartupTells, CallsTurn, OutputTold, AbortKills, ResultLeft, ExecDown, Up, Runs, Returned, ExecNatives, ExecHandles, ExecOutputs, ExecCalls, Callers, NoReplay, SessionOwned
<1>7. OutputTold'
  BY <1>1, <1>2, <1>3 DEF ExecInv, StartupTells, CallsTurn, OutputTold, AbortKills, ResultLeft, ExecDown, Up, Runs, Returned, ExecNatives, ExecHandles, ExecOutputs, ExecCalls, Callers, NoReplay, SessionOwned
<1>8. AbortKills'
  BY <1>1, <1>2, <1>3 DEF ExecInv, StartupTells, CallsTurn, OutputTold, AbortKills, ResultLeft, ExecDown, Up, Runs, Returned, ExecNatives, ExecHandles, ExecOutputs, ExecCalls, Callers, NoReplay, SessionOwned
<1>9. ResultLeft'
  BY <1>1, <1>2, <1>3 DEF ExecInv, StartupTells, CallsTurn, OutputTold, AbortKills, ResultLeft, ExecDown, Up, Runs, Returned, ExecNatives, ExecHandles, ExecOutputs, ExecCalls, Callers, NoReplay, SessionOwned
<1>10. ExecDown'
  BY <1>1, <1>2, <1>3 DEF ExecInv, StartupTells, CallsTurn, OutputTold, AbortKills, ResultLeft, ExecDown, Up, Runs, Returned, ExecNatives, ExecHandles, ExecOutputs, ExecCalls, Callers, NoReplay, SessionOwned
<1> QED
  BY <1>4, <1>5, <1>6, <1>7, <1>8, <1>9, <1>10 DEF ExecInv

(* A termination reaches the process, once it was started. *)
LEMMA TerminationKeeps ==
  ASSUME ExecInv, Terminated
  PROVE  ExecInv'
<1>1. native \in ExecNatives /\ handle \in ExecHandles /\ execution \in ExecOutputs /\ calls \in ExecCalls
      /\ manager \in [state : {"up", "closing", "down"}, deaths : 0..MaxDeaths] /\ replay \in -1..(MaxPieces + 1)
      /\ "exec" \in Callers
  BY DEF ExecInv, ExecTypeOK, ExecNatives, ExecHandles, ExecOutputs, ExecCalls, ExecPcs, Callers
<1>2. /\ handle.start # "asked" /\ handle' \in ExecHandles /\ handle'.start = handle.start /\ handle'.seq = handle.seq
      /\ handle'.exit = handle.exit /\ UNCHANGED <<execution, replay, calls, manager>>
  BY <1>1 DEF Terminated, MayKill, ExecHandles
<1>3. native' \in ExecNatives /\ native'.out = native.out /\ (native'.state = native.state \/ (Runs /\ native'.state = "exited"))
      /\ (Up /\ Runs => native'.state = "exited")
  BY <1>1 DEF Terminated, MayRequest, Runs, ExecNatives, ExecInv, StartupTells
<1>4. ExecTypeOK'
  BY <1>1, <1>2, <1>3, ExecAssumption DEF ExecInv, ExecTypeOK, NoReplay, ExecNatives, ExecHandles, ExecOutputs, ExecCalls, ExecPcs
<1>5. StartupTells'
  BY <1>1, <1>2, <1>3 DEF ExecInv, StartupTells, CallsTurn, OutputTold, AbortKills, ResultLeft, ExecDown, Up, Runs, Returned, ExecNatives, ExecHandles, ExecOutputs, ExecCalls, Callers, NoReplay
<1>6. CallsTurn'
  BY <1>1, <1>2, <1>3 DEF ExecInv, StartupTells, CallsTurn, OutputTold, AbortKills, ResultLeft, ExecDown, Up, Runs, Returned, ExecNatives, ExecHandles, ExecOutputs, ExecCalls, Callers, NoReplay
<1>7. OutputTold'
  BY <1>1, <1>2, <1>3 DEF ExecInv, StartupTells, CallsTurn, OutputTold, AbortKills, ResultLeft, ExecDown, Up, Runs, Returned, ExecNatives, ExecHandles, ExecOutputs, ExecCalls, Callers, NoReplay
<1>8. AbortKills'
  BY <1>1, <1>2, <1>3 DEF ExecInv, StartupTells, CallsTurn, OutputTold, AbortKills, ResultLeft, ExecDown, Up, Runs, Returned, ExecNatives, ExecHandles, ExecOutputs, ExecCalls, Callers, NoReplay
<1>9. ResultLeft'
  BY <1>1, <1>2, <1>3 DEF ExecInv, StartupTells, CallsTurn, OutputTold, AbortKills, ResultLeft, ExecDown, Up, Runs, Returned, ExecNatives, ExecHandles, ExecOutputs, ExecCalls, Callers, NoReplay
<1>10. ExecDown'
  BY <1>1, <1>2, <1>3 DEF ExecInv, StartupTells, CallsTurn, OutputTold, AbortKills, ResultLeft, ExecDown, Up, Runs, Returned, ExecNatives, ExecHandles, ExecOutputs, ExecCalls, Callers, NoReplay
<1> QED
  BY <1>4, <1>5, <1>6, <1>7, <1>8, <1>9, <1>10 DEF ExecInv

(* The command is asked for. *)
LEMMA ExecKeeps ==
  ASSUME ExecInv, Exec
  PROVE  ExecInv'
<1>1. native \in ExecNatives /\ handle \in ExecHandles /\ execution \in ExecOutputs /\ calls \in ExecCalls
      /\ manager \in [state : {"up", "closing", "down"}, deaths : 0..MaxDeaths] /\ replay \in -1..(MaxPieces + 1)
      /\ "exec" \in Callers
  BY DEF ExecInv, ExecTypeOK, ExecNatives, ExecHandles, ExecOutputs, ExecCalls, ExecPcs, Callers
<1>2. Up /\ calls["exec"].pc = "idle" /\ UNCHANGED <<native, replay, manager>>
  BY DEF Exec
<1>3. /\ calls' \in ExecCalls /\ calls'["exec"].pc = "waiting"
      /\ \A d \in Callers : calls'[d].aborted = calls[d].aborted /\ (d # "exec" => calls'[d].pc = calls[d].pc)
  BY <1>1, CallGoes DEF Exec, ExecPcs
<1>4. handle' \in ExecHandles /\ handle'.start = "asked" /\ handle'.seq = handle.seq /\ handle'.exit = handle.exit /\ handle'.killing = handle.killing
  BY <1>1 DEF Exec, ExecHandles
<1>5. execution' \in ExecOutputs /\ execution' = [execution EXCEPT !.held = TRUE]
  BY <1>1 DEF Exec, ExecOutputs
<1>6. ExecTypeOK'
  BY <1>1, <1>2, <1>3, <1>4, <1>5, ExecAssumption DEF ExecInv, ExecTypeOK, NoReplay, ExecNatives, ExecHandles, ExecOutputs, ExecCalls, ExecPcs
<1>7. StartupTells'
  BY <1>1, <1>2, <1>3, <1>4, <1>5 DEF ExecInv, StartupTells, CallsTurn, OutputTold, AbortKills, ResultLeft, ExecDown, Up, Runs, Returned, ExecNatives, ExecHandles, ExecOutputs, ExecCalls, Callers, NoReplay
<1>8. CallsTurn'
  BY <1>1, <1>2, <1>3, <1>4, <1>5 DEF ExecInv, StartupTells, CallsTurn, OutputTold, AbortKills, ResultLeft, ExecDown, Up, Runs, Returned, ExecNatives, ExecHandles, ExecOutputs, ExecCalls, Callers, NoReplay
<1>9. OutputTold'
  BY <1>1, <1>2, <1>3, <1>4, <1>5 DEF ExecInv, StartupTells, CallsTurn, OutputTold, AbortKills, ResultLeft, ExecDown, Up, Runs, Returned, ExecNatives, ExecHandles, ExecOutputs, ExecCalls, Callers, NoReplay
<1>10. AbortKills'
  BY <1>1, <1>2, <1>3, <1>4, <1>5 DEF ExecInv, StartupTells, CallsTurn, OutputTold, AbortKills, ResultLeft, ExecDown, Up, Runs, Returned, ExecNatives, ExecHandles, ExecOutputs, ExecCalls, Callers, NoReplay
<1>11. ResultLeft'
  BY <1>1, <1>2, <1>3, <1>4, <1>5 DEF ExecInv, StartupTells, CallsTurn, OutputTold, AbortKills, ResultLeft, ExecDown, Up, Runs, Returned, ExecNatives, ExecHandles, ExecOutputs, ExecCalls, Callers, NoReplay
<1>12. ExecDown'
  BY <1>1, <1>2, <1>3, <1>4, <1>5 DEF ExecInv, StartupTells, CallsTurn, OutputTold, AbortKills, ResultLeft, ExecDown, Up, Runs, Returned, ExecNatives, ExecHandles, ExecOutputs, ExecCalls, Callers, NoReplay
<1> QED
  BY <1>6, <1>7, <1>8, <1>9, <1>10, <1>11, <1>12 DEF ExecInv

(* A session is asked to end. *)
LEMMA AsksKeep ==
  ASSUME ExecInv, TerminateSession \/ Escalate
  PROVE  ExecInv'
<1>1. native \in ExecNatives /\ handle \in ExecHandles /\ execution \in ExecOutputs /\ calls \in ExecCalls
      /\ manager \in [state : {"up", "closing", "down"}, deaths : 0..MaxDeaths] /\ replay \in -1..(MaxPieces + 1)
      /\ "exec" \in Callers
  BY DEF ExecInv, ExecTypeOK, ExecNatives, ExecHandles, ExecOutputs, ExecCalls, ExecPcs, Callers
<1>2. handle' \in ExecHandles /\ handle'.start = handle.start /\ handle'.seq = handle.seq /\ handle'.exit = handle.exit /\ handle'.killing /\ UNCHANGED <<native, execution, replay, calls, manager>>
  BY <1>1 DEF TerminateSession, Escalate, Terminate, ExecHandles
<1>3. ExecTypeOK'
  BY <1>1, <1>2, ExecAssumption DEF ExecInv, ExecTypeOK, NoReplay, ExecNatives, ExecHandles, ExecOutputs, ExecCalls, ExecPcs
<1>4. StartupTells'
  BY <1>1, <1>2 DEF ExecInv, StartupTells, CallsTurn, OutputTold, AbortKills, ResultLeft, ExecDown, Up, Runs, Returned, ExecNatives, ExecHandles, ExecOutputs, ExecCalls, Callers, NoReplay
<1>5. CallsTurn'
  BY <1>1, <1>2 DEF ExecInv, StartupTells, CallsTurn, OutputTold, AbortKills, ResultLeft, ExecDown, Up, Runs, Returned, ExecNatives, ExecHandles, ExecOutputs, ExecCalls, Callers, NoReplay
<1>6. OutputTold'
  BY <1>1, <1>2 DEF ExecInv, StartupTells, CallsTurn, OutputTold, AbortKills, ResultLeft, ExecDown, Up, Runs, Returned, ExecNatives, ExecHandles, ExecOutputs, ExecCalls, Callers, NoReplay
<1>7. AbortKills'
  BY <1>1, <1>2 DEF ExecInv, StartupTells, CallsTurn, OutputTold, AbortKills, ResultLeft, ExecDown, Up, Runs, Returned, ExecNatives, ExecHandles, ExecOutputs, ExecCalls, Callers, NoReplay
<1>8. ResultLeft'
  BY <1>1, <1>2 DEF ExecInv, StartupTells, CallsTurn, OutputTold, AbortKills, ResultLeft, ExecDown, Up, Runs, Returned, ExecNatives, ExecHandles, ExecOutputs, ExecCalls, Callers, NoReplay
<1>9. ExecDown'
  BY <1>1, <1>2 DEF ExecInv, StartupTells, CallsTurn, OutputTold, AbortKills, ResultLeft, ExecDown, Up, Runs, Returned, ExecNatives, ExecHandles, ExecOutputs, ExecCalls, Callers, NoReplay
<1> QED
  BY <1>3, <1>4, <1>5, <1>6, <1>7, <1>8, <1>9 DEF ExecInv

(* The manager begins to close. *)
LEMMA ShutdownKeeps ==
  ASSUME ExecInv, Shutdown
  PROVE  ExecInv'
<1>1. native \in ExecNatives /\ handle \in ExecHandles /\ execution \in ExecOutputs /\ calls \in ExecCalls
      /\ manager \in [state : {"up", "closing", "down"}, deaths : 0..MaxDeaths] /\ replay \in -1..(MaxPieces + 1)
      /\ "exec" \in Callers
  BY DEF ExecInv, ExecTypeOK, ExecNatives, ExecHandles, ExecOutputs, ExecCalls, ExecPcs, Callers
<1>2. Up /\ manager' \in [state : {"up", "closing", "down"}, deaths : 0..MaxDeaths] /\ manager'.state = "closing" /\ UNCHANGED <<native, handle, execution, replay, calls>>
  BY <1>1 DEF Shutdown
<1>3. ExecTypeOK'
  BY <1>1, <1>2, ExecAssumption DEF ExecInv, ExecTypeOK, NoReplay, ExecNatives, ExecHandles, ExecOutputs, ExecCalls, ExecPcs
<1>4. StartupTells'
  BY <1>1, <1>2 DEF ExecInv, StartupTells, CallsTurn, OutputTold, AbortKills, ResultLeft, ExecDown, Up, Runs, Returned, ExecNatives, ExecHandles, ExecOutputs, ExecCalls, Callers, NoReplay
<1>5. CallsTurn'
  BY <1>1, <1>2 DEF ExecInv, StartupTells, CallsTurn, OutputTold, AbortKills, ResultLeft, ExecDown, Up, Runs, Returned, ExecNatives, ExecHandles, ExecOutputs, ExecCalls, Callers, NoReplay
<1>6. OutputTold'
  BY <1>1, <1>2 DEF ExecInv, StartupTells, CallsTurn, OutputTold, AbortKills, ResultLeft, ExecDown, Up, Runs, Returned, ExecNatives, ExecHandles, ExecOutputs, ExecCalls, Callers, NoReplay
<1>7. AbortKills'
  BY <1>1, <1>2 DEF ExecInv, StartupTells, CallsTurn, OutputTold, AbortKills, ResultLeft, ExecDown, Up, Runs, Returned, ExecNatives, ExecHandles, ExecOutputs, ExecCalls, Callers, NoReplay
<1>8. ResultLeft'
  BY <1>1, <1>2 DEF ExecInv, StartupTells, CallsTurn, OutputTold, AbortKills, ResultLeft, ExecDown, Up, Runs, Returned, ExecNatives, ExecHandles, ExecOutputs, ExecCalls, Callers, NoReplay
<1>9. ExecDown'
  BY <1>1, <1>2 DEF ExecInv, StartupTells, CallsTurn, OutputTold, AbortKills, ResultLeft, ExecDown, Up, Runs, Returned, ExecNatives, ExecHandles, ExecOutputs, ExecCalls, Callers, NoReplay
<1> QED
  BY <1>3, <1>4, <1>5, <1>6, <1>7, <1>8, <1>9 DEF ExecInv

(* The bridge is gone, with its processes. *)
LEMMA ShutdownEndKeeps ==
  ASSUME ExecInv, ShutdownEnds
  PROVE  ExecInv'
<1>1. native \in ExecNatives /\ handle \in ExecHandles /\ execution \in ExecOutputs /\ calls \in ExecCalls
      /\ manager \in [state : {"up", "closing", "down"}, deaths : 0..MaxDeaths] /\ replay \in -1..(MaxPieces + 1)
      /\ "exec" \in Callers
  BY DEF ExecInv, ExecTypeOK, ExecNatives, ExecHandles, ExecOutputs, ExecCalls, ExecPcs, Callers
<1>2. manager' \in [state : {"up", "closing", "down"}, deaths : 0..MaxDeaths] /\ manager'.state = "down" /\ replay' = NoReplay /\ UNCHANGED <<handle, calls>>
  BY <1>1 DEF ShutdownEnds
<1>3. manager.state = "closing" /\ native' \in ExecNatives /\ native'.out = native.out /\ native'.state # "running" /\ (native.state = "none" => native'.state = "none")
  BY <1>1 DEF ShutdownEnds, ExecNatives
<1>4. execution' \in ExecOutputs /\ execution' = [execution EXCEPT !.held = FALSE]
  BY <1>1 DEF ShutdownEnds, ExecOutputs
<1>5. ExecTypeOK'
  BY <1>1, <1>2, <1>3, <1>4, ExecAssumption DEF ExecInv, ExecTypeOK, NoReplay, ExecNatives, ExecHandles, ExecOutputs, ExecCalls, ExecPcs
<1>6. StartupTells'
  BY <1>1, <1>2, <1>3, <1>4 DEF ExecInv, StartupTells, CallsTurn, OutputTold, AbortKills, ResultLeft, ExecDown, Up, Runs, Returned, ExecNatives, ExecHandles, ExecOutputs, ExecCalls, Callers, NoReplay
<1>7. CallsTurn'
  BY <1>1, <1>2, <1>3, <1>4 DEF ExecInv, StartupTells, CallsTurn, OutputTold, AbortKills, ResultLeft, ExecDown, Up, Runs, Returned, ExecNatives, ExecHandles, ExecOutputs, ExecCalls, Callers, NoReplay
<1>8. OutputTold'
  BY <1>1, <1>2, <1>3, <1>4 DEF ExecInv, StartupTells, CallsTurn, OutputTold, AbortKills, ResultLeft, ExecDown, Up, Runs, Returned, ExecNatives, ExecHandles, ExecOutputs, ExecCalls, Callers, NoReplay
<1>9. AbortKills'
  BY <1>1, <1>2, <1>3, <1>4 DEF ExecInv, StartupTells, CallsTurn, OutputTold, AbortKills, ResultLeft, ExecDown, Up, Runs, Returned, ExecNatives, ExecHandles, ExecOutputs, ExecCalls, Callers, NoReplay
<1>10. ResultLeft'
  BY <1>1, <1>2, <1>3, <1>4 DEF ExecInv, StartupTells, CallsTurn, OutputTold, AbortKills, ResultLeft, ExecDown, Up, Runs, Returned, ExecNatives, ExecHandles, ExecOutputs, ExecCalls, Callers, NoReplay
<1>11. ExecDown'
  BY <1>1, <1>2, <1>3, <1>4 DEF ExecInv, StartupTells, CallsTurn, OutputTold, AbortKills, ResultLeft, ExecDown, Up, Runs, Returned, ExecNatives, ExecHandles, ExecOutputs, ExecCalls, Callers, NoReplay
<1> QED
  BY <1>5, <1>6, <1>7, <1>8, <1>9, <1>10, <1>11 DEF ExecInv

(* A session is polled. *)
LEMMA WriteKeeps ==
  ASSUME ExecInv, NEW c \in Callers, Write(c)
  PROVE  ExecInv'
<1>1. native \in ExecNatives /\ handle \in ExecHandles /\ execution \in ExecOutputs /\ calls \in ExecCalls
      /\ manager \in [state : {"up", "closing", "down"}, deaths : 0..MaxDeaths] /\ replay \in -1..(MaxPieces + 1)
      /\ "exec" \in Callers
  BY DEF ExecInv, ExecTypeOK, ExecNatives, ExecHandles, ExecOutputs, ExecCalls, ExecPcs, Callers
<1>2. c # "exec" /\ Up /\ Returned /\ UNCHANGED <<native, handle, execution, replay, manager>>
  BY DEF Write, Returned
<1>3. Goes(c, IF execution.held THEN IF handle.exit THEN "starting" ELSE "waiting" ELSE "done")
  BY DEF Write
<1>4. /\ calls' \in ExecCalls /\ calls'[c].pc = IF execution.held THEN IF handle.exit THEN "starting" ELSE "waiting" ELSE "done"
      /\ \A d \in Callers : calls'[d].aborted = calls[d].aborted /\ (d # c => calls'[d].pc = calls[d].pc)
  BY <1>1, <1>3, CallGoes DEF ExecPcs
<1>5. ExecTypeOK'
  BY <1>1, <1>2, <1>3, <1>4, ExecAssumption DEF ExecInv, ExecTypeOK, NoReplay, ExecNatives, ExecHandles, ExecOutputs, ExecCalls, ExecPcs
<1>6. StartupTells'
  BY <1>1, <1>2, <1>3, <1>4 DEF ExecInv, StartupTells, CallsTurn, OutputTold, AbortKills, ResultLeft, ExecDown, Up, Runs, Returned, ExecNatives, ExecHandles, ExecOutputs, ExecCalls, Callers, NoReplay
<1>7. CallsTurn'
  <2>1. CASE c = "exec"
    BY <1>1, <1>2, <1>3, <1>4, <2>1 DEF ExecInv, CallsTurn, ExecDown, Callers, StartupTells, Returned, Up, ExecHandles
  <2>2. CASE c # "exec"
    BY <1>1, <1>2, <1>3, <1>4, <2>2 DEF ExecInv, CallsTurn, ExecDown, Callers, StartupTells, Returned, Up, ExecHandles
  <2> QED
    BY <2>1, <2>2
<1>8. OutputTold'
  BY <1>1, <1>2, <1>3, <1>4 DEF ExecInv, StartupTells, CallsTurn, OutputTold, AbortKills, ResultLeft, ExecDown, Up, Runs, Returned, ExecNatives, ExecHandles, ExecOutputs, ExecCalls, Callers, NoReplay
<1>9. AbortKills'
  BY <1>1, <1>2, <1>3, <1>4 DEF ExecInv, StartupTells, CallsTurn, OutputTold, AbortKills, ResultLeft, ExecDown, Up, Runs, Returned, ExecNatives, ExecHandles, ExecOutputs, ExecCalls, Callers, NoReplay
<1>10. ResultLeft'
  BY <1>1, <1>2, <1>3, <1>4 DEF ExecInv, StartupTells, CallsTurn, OutputTold, AbortKills, ResultLeft, ExecDown, Up, Runs, Returned, ExecNatives, ExecHandles, ExecOutputs, ExecCalls, Callers, NoReplay
<1>11. ExecDown'
  BY <1>1, <1>2, <1>3, <1>4 DEF ExecInv, StartupTells, CallsTurn, OutputTold, AbortKills, ResultLeft, ExecDown, Up, Runs, Returned, ExecNatives, ExecHandles, ExecOutputs, ExecCalls, Callers, NoReplay
<1> QED
  BY <1>5, <1>6, <1>7, <1>8, <1>9, <1>10, <1>11 DEF ExecInv

(* A wait is over. *)
LEMMA WakeKeeps ==
  ASSUME ExecInv, NEW c \in Callers, Wakes(c)
  PROVE  ExecInv'
<1>1. native \in ExecNatives /\ handle \in ExecHandles /\ execution \in ExecOutputs /\ calls \in ExecCalls
      /\ manager \in [state : {"up", "closing", "down"}, deaths : 0..MaxDeaths] /\ replay \in -1..(MaxPieces + 1)
      /\ "exec" \in Callers
  BY DEF ExecInv, ExecTypeOK, ExecNatives, ExecHandles, ExecOutputs, ExecCalls, ExecPcs, Callers
<1>2. calls[c].pc = "waiting" /\ UNCHANGED <<native, handle, execution, replay, manager>>
  BY DEF Wakes, Returned
<1>3. Goes(c, "starting")
  BY DEF Wakes
<1>4. /\ calls' \in ExecCalls /\ calls'[c].pc = "starting"
      /\ \A d \in Callers : calls'[d].aborted = calls[d].aborted /\ (d # c => calls'[d].pc = calls[d].pc)
  BY <1>1, <1>3, CallGoes DEF ExecPcs
<1>5. c # "exec" => calls["exec"].pc = "done"
  BY <1>1, <1>2 DEF ExecInv, CallsTurn, Callers
<1>6. ExecTypeOK'
  BY <1>1, <1>2, <1>3, <1>4, <1>5, ExecAssumption DEF ExecInv, ExecTypeOK, NoReplay, ExecNatives, ExecHandles, ExecOutputs, ExecCalls, ExecPcs
<1>7. StartupTells'
  BY <1>1, <1>2, <1>3, <1>4, <1>5 DEF ExecInv, StartupTells, CallsTurn, OutputTold, AbortKills, ResultLeft, ExecDown, Up, Runs, Returned, ExecNatives, ExecHandles, ExecOutputs, ExecCalls, Callers, NoReplay
<1>8. CallsTurn'
  <2>1. CASE c = "exec"
    <3>1. /\ calls'["exec"].pc \in ExecPcs /\ calls'["exec"].pc = ("starting")
          /\ \A d \in Callers : d # "exec" => calls'[d].pc = calls[d].pc
      BY <1>1, <1>4, <2>1 DEF ExecCalls, ExecPcs
    <3>2. /\ calls["exec"].pc \in {"waiting", "starting"} /\ handle.start # "none" /\ UNCHANGED <<handle, execution, manager>>
          /\ \A d \in Callers : d # "exec" => calls[d].pc = "idle"
      BY <1>2, <2>1 DEF ExecInv, CallsTurn, Callers
    <3> QED
      BY <1>1, <1>2, <2>1, <3>1, <3>2 DEF ExecInv, CallsTurn, Callers, ExecHandles
  <2>2. CASE c # "exec"
    BY <1>1, <1>2, <1>3, <1>4, <1>5, <2>2 DEF ExecInv, CallsTurn, ExecDown, Callers, StartupTells, Returned, Up, ExecHandles
  <2> QED
    BY <2>1, <2>2
<1>9. OutputTold'
  BY <1>1, <1>2, <1>3, <1>4, <1>5 DEF ExecInv, StartupTells, CallsTurn, OutputTold, AbortKills, ResultLeft, ExecDown, Up, Runs, Returned, ExecNatives, ExecHandles, ExecOutputs, ExecCalls, Callers, NoReplay
<1>10. AbortKills'
  BY <1>1, <1>2, <1>3, <1>4, <1>5 DEF ExecInv, StartupTells, CallsTurn, OutputTold, AbortKills, ResultLeft, ExecDown, Up, Runs, Returned, ExecNatives, ExecHandles, ExecOutputs, ExecCalls, Callers, NoReplay
<1>11. ResultLeft'
  BY <1>1, <1>2, <1>3, <1>4, <1>5 DEF ExecInv, StartupTells, CallsTurn, OutputTold, AbortKills, ResultLeft, ExecDown, Up, Runs, Returned, ExecNatives, ExecHandles, ExecOutputs, ExecCalls, Callers, NoReplay
<1>12. ExecDown'
  BY <1>1, <1>2, <1>3, <1>4, <1>5 DEF ExecInv, StartupTells, CallsTurn, OutputTold, AbortKills, ResultLeft, ExecDown, Up, Runs, Returned, ExecNatives, ExecHandles, ExecOutputs, ExecCalls, Callers, NoReplay
<1> QED
  BY <1>6, <1>7, <1>8, <1>9, <1>10, <1>11, <1>12 DEF ExecInv

(* The command was started, or failed to. *)
LEMMA StartedKeeps ==
  ASSUME ExecInv, NEW c \in Callers, Started(c)
  PROVE  ExecInv'
<1>1. native \in ExecNatives /\ handle \in ExecHandles /\ execution \in ExecOutputs /\ calls \in ExecCalls
      /\ manager \in [state : {"up", "closing", "down"}, deaths : 0..MaxDeaths] /\ replay \in -1..(MaxPieces + 1)
      /\ "exec" \in Callers
  BY DEF ExecInv, ExecTypeOK, ExecNatives, ExecHandles, ExecOutputs, ExecCalls, ExecPcs, Callers
<1>2. calls[c].pc = "starting" /\ handle.start # "asked" /\ UNCHANGED <<native, handle, execution, replay, manager>>
  BY DEF Started, Returned
<1>3. Goes(c, IF handle.start = "ok" /\ ~execution.finalized THEN "polling" ELSE "finishing")
  BY DEF Started
<1>4. /\ calls' \in ExecCalls /\ calls'[c].pc = IF handle.start = "ok" /\ ~execution.finalized THEN "polling" ELSE "finishing"
      /\ \A d \in Callers : calls'[d].aborted = calls[d].aborted /\ (d # c => calls'[d].pc = calls[d].pc)
  BY <1>1, <1>3, CallGoes DEF ExecPcs
<1>5. c # "exec" => calls["exec"].pc = "done"
  BY <1>1, <1>2 DEF ExecInv, CallsTurn, Callers
<1>6. ExecTypeOK'
  BY <1>1, <1>2, <1>3, <1>4, <1>5, ExecAssumption DEF ExecInv, ExecTypeOK, NoReplay, ExecNatives, ExecHandles, ExecOutputs, ExecCalls, ExecPcs
<1>7. StartupTells'
  BY <1>1, <1>2, <1>3, <1>4, <1>5 DEF ExecInv, StartupTells, CallsTurn, OutputTold, AbortKills, ResultLeft, ExecDown, Up, Runs, Returned, ExecNatives, ExecHandles, ExecOutputs, ExecCalls, Callers, NoReplay
<1>8. CallsTurn'
  <2>1. CASE c = "exec"
    <3>1. /\ calls'["exec"].pc \in ExecPcs /\ calls'["exec"].pc = (IF handle.start = "ok" /\ ~execution.finalized THEN "polling" ELSE "finishing")
          /\ \A d \in Callers : d # "exec" => calls'[d].pc = calls[d].pc
      BY <1>1, <1>4, <2>1 DEF ExecCalls, ExecPcs
    <3>2. /\ calls["exec"].pc \in {"waiting", "starting"} /\ handle.start # "none" /\ UNCHANGED <<handle, execution, manager>>
          /\ \A d \in Callers : d # "exec" => calls[d].pc = "idle"
      BY <1>2, <2>1 DEF ExecInv, CallsTurn, Callers
    <3> QED
      BY <1>1, <1>2, <2>1, <3>1, <3>2 DEF ExecInv, CallsTurn, Callers, ExecHandles
  <2>2. CASE c # "exec"
    BY <1>1, <1>2, <1>3, <1>4, <1>5, <2>2 DEF ExecInv, CallsTurn, ExecDown, Callers, StartupTells, Returned, Up, ExecHandles
  <2> QED
    BY <2>1, <2>2
<1>9. OutputTold'
  BY <1>1, <1>2, <1>3, <1>4, <1>5 DEF ExecInv, StartupTells, CallsTurn, OutputTold, AbortKills, ResultLeft, ExecDown, Up, Runs, Returned, ExecNatives, ExecHandles, ExecOutputs, ExecCalls, Callers, NoReplay
<1>10. AbortKills'
  BY <1>1, <1>2, <1>3, <1>4, <1>5 DEF ExecInv, StartupTells, CallsTurn, OutputTold, AbortKills, ResultLeft, ExecDown, Up, Runs, Returned, ExecNatives, ExecHandles, ExecOutputs, ExecCalls, Callers, NoReplay
<1>11. ResultLeft'
  BY <1>1, <1>2, <1>3, <1>4, <1>5 DEF ExecInv, StartupTells, CallsTurn, OutputTold, AbortKills, ResultLeft, ExecDown, Up, Runs, Returned, ExecNatives, ExecHandles, ExecOutputs, ExecCalls, Callers, NoReplay
<1>12. ExecDown'
  BY <1>1, <1>2, <1>3, <1>4, <1>5 DEF ExecInv, StartupTells, CallsTurn, OutputTold, AbortKills, ResultLeft, ExecDown, Up, Runs, Returned, ExecNatives, ExecHandles, ExecOutputs, ExecCalls, Callers, NoReplay
<1> QED
  BY <1>6, <1>7, <1>8, <1>9, <1>10, <1>11, <1>12 DEF ExecInv

(* A poll reads what came, or finds that the command ended. *)
LEMMA PollKeeps ==
  ASSUME ExecInv, NEW c \in Callers, Polled(c)
  PROVE  ExecInv'
<1>1. native \in ExecNatives /\ handle \in ExecHandles /\ execution \in ExecOutputs /\ calls \in ExecCalls
      /\ manager \in [state : {"up", "closing", "down"}, deaths : 0..MaxDeaths] /\ replay \in -1..(MaxPieces + 1)
      /\ "exec" \in Callers
  BY DEF ExecInv, ExecTypeOK, ExecNatives, ExecHandles, ExecOutputs, ExecCalls, ExecPcs, Callers
<1>2. calls[c].pc = "polling" /\ handle.start = "ok" /\ Goes(c, "finishing") /\ UNCHANGED <<native, replay, manager>>
  BY <1>1 DEF Polled, ExecInv, CallsTurn
<1>3. /\ calls' \in ExecCalls /\ calls'[c].pc = "finishing"
      /\ \A d \in Callers : calls'[d].aborted = calls[d].aborted /\ (d # c => calls'[d].pc = calls[d].pc)
  BY <1>1, <1>2, CallGoes DEF ExecPcs
<1>4. c # "exec" => calls["exec"].pc = "done"
  BY <1>1, <1>2 DEF ExecInv, CallsTurn, Callers
<1>5. /\ handle' \in ExecHandles /\ handle'.start = "ok" /\ handle'.seq \in handle.seq..native.out /\ handle'.killing = handle.killing
      /\ (handle'.exit => native.state # "running") /\ execution' \in ExecOutputs
      /\ execution.end <= execution'.end /\ execution'.end <= handle'.seq + 1 /\ (~handle'.exit => execution'.end <= handle'.seq)
      /\ execution'.held = execution.held /\ execution'.exposed = execution.exposed /\ execution'.emitted = execution.emitted
      /\ (handle.exit => execution'.end = execution.end)
      /\ (handle'.exit /\ ~handle.exit => SessionOwned /\ execution'.finalized) /\ (handle.exit => handle'.exit)
      /\ (execution.finalized => execution'.finalized) /\ (~SessionOwned => UNCHANGED <<handle, execution>>)
  <2>1. CASE ~handle.exit /\ SessionOwned /\ Commits
    <3>1. handle' \in ExecHandles /\ handle'.start = "ok" /\ handle'.seq = native.out /\ handle'.killing = handle.killing
          /\ (handle'.exit => native.state = "exited") /\ execution' \in ExecOutputs
          /\ execution'.end = execution.end + (native.out - handle.seq) /\ execution'.held = execution.held
          /\ execution'.exposed = execution.exposed /\ execution'.emitted = execution.emitted
          /\ (handle'.exit => execution'.finalized)
      BY <1>1, <1>2, <2>1, CommitTells DEF ExecInv
    <3>2. execution.end <= handle.seq /\ handle.seq <= native.out
      BY <2>1 DEF ExecInv, OutputTold
    <3>3. execution.finalized => execution'.finalized
      BY <1>1, <2>1 DEF Commits, Finalized, ExecOutputs
    <3> QED
      BY <1>1, <2>1, <3>1, <3>2, <3>3 DEF ExecHandles, ExecOutputs, ExecNatives
  <2>2. CASE UNCHANGED <<handle, execution>>
    BY <1>1, <1>2, <2>2 DEF ExecInv, OutputTold, StartupTells, Runs, ExecHandles, ExecOutputs, ExecNatives
  <2> QED
    BY <1>1, <2>1, <2>2 DEF Polled
<1>6. ExecTypeOK'
  BY <1>1, <1>2, <1>3, <1>4, <1>5, ExecAssumption DEF ExecInv, ExecTypeOK, NoReplay, ExecNatives, ExecHandles, ExecOutputs, ExecCalls, ExecPcs
<1>7. StartupTells'
  BY <1>1, <1>2, <1>3, <1>4, <1>5 DEF ExecInv, StartupTells, CallsTurn, OutputTold, AbortKills, ResultLeft, ExecDown, Up, Runs, Returned, ExecNatives, ExecHandles, ExecOutputs, ExecCalls, Callers, NoReplay, SessionOwned
<1>8. CallsTurn'
  <2>1. CASE c = "exec"
    BY <1>1, <1>2, <1>3, <1>4, <1>5, <2>1, ZenonT(60) DEF ExecInv, CallsTurn, ExecDown, Callers, StartupTells, Returned, Up, ExecHandles, SessionOwned
  <2>2. CASE c # "exec"
    BY <1>1, <1>2, <1>3, <1>4, <1>5, <2>2 DEF ExecInv, CallsTurn, ExecDown, Callers, StartupTells, Returned, Up, ExecHandles, SessionOwned
  <2> QED
    BY <2>1, <2>2
<1>9. OutputTold'
  BY <1>1, <1>2, <1>3, <1>4, <1>5 DEF ExecInv, StartupTells, CallsTurn, OutputTold, AbortKills, ResultLeft, ExecDown, Up, Runs, Returned, ExecNatives, ExecHandles, ExecOutputs, ExecCalls, Callers, NoReplay, SessionOwned
<1>10. AbortKills'
  BY <1>1, <1>2, <1>3, <1>4, <1>5 DEF ExecInv, StartupTells, CallsTurn, OutputTold, AbortKills, ResultLeft, ExecDown, Up, Runs, Returned, ExecNatives, ExecHandles, ExecOutputs, ExecCalls, Callers, NoReplay, SessionOwned
<1>11. ResultLeft'
  BY <1>1, <1>2, <1>3, <1>4, <1>5 DEF ExecInv, StartupTells, CallsTurn, OutputTold, AbortKills, ResultLeft, ExecDown, Up, Runs, Returned, ExecNatives, ExecHandles, ExecOutputs, ExecCalls, Callers, NoReplay, SessionOwned
<1>12. ExecDown'
  BY <1>1, <1>2, <1>3, <1>4, <1>5 DEF ExecInv, StartupTells, CallsTurn, OutputTold, AbortKills, ResultLeft, ExecDown, Up, Runs, Returned, ExecNatives, ExecHandles, ExecOutputs, ExecCalls, Callers, NoReplay, SessionOwned
<1> QED
  BY <1>6, <1>7, <1>8, <1>9, <1>10, <1>11, <1>12 DEF ExecInv

(* A result is returned: a session that still runs is listed, a completed one replayable. *)
LEMMA FinishKeeps ==
  ASSUME ExecInv, NEW c \in Callers, FinishCall(c)
  PROVE  ExecInv'
<1>1. native \in ExecNatives /\ handle \in ExecHandles /\ execution \in ExecOutputs /\ calls \in ExecCalls
      /\ manager \in [state : {"up", "closing", "down"}, deaths : 0..MaxDeaths] /\ replay \in -1..(MaxPieces + 1)
      /\ "exec" \in Callers
  BY DEF ExecInv, ExecTypeOK, ExecNatives, ExecHandles, ExecOutputs, ExecCalls, ExecPcs, Callers
<1>2. calls[c].pc = "finishing" /\ UNCHANGED <<native, handle, manager>>
  BY DEF FinishCall
<1>3. /\ calls' \in ExecCalls /\ calls'[c].pc = "done"
      /\ \A d \in Callers : calls'[d].aborted = calls[d].aborted /\ (d # c => calls'[d].pc = calls[d].pc)
  BY <1>1, CallGoes DEF FinishCall, ExecPcs
<1>4. /\ execution' \in ExecOutputs /\ execution'.finalized = execution.finalized /\ execution'.end = execution.end
      /\ execution'.emitted = execution.end /\ execution'.exposed = (execution.exposed \/ ~handle.exit)
      /\ execution'.held = (execution.held /\ ~handle.exit)
  BY <1>1 DEF FinishCall, Yielded, ExecOutputs, ExecHandles
<1>5. replay' \in -1..(MaxPieces + 1) /\ (handle.exit => replay' # NoReplay) /\ (~handle.exit => replay' = replay)
  BY <1>1, ExecAssumption DEF FinishCall, ExecInv, OutputTold, ExecOutputs, NoReplay
<1>6. ExecTypeOK'
  BY <1>1, <1>2, <1>3, <1>4, <1>5, ExecAssumption DEF ExecInv, ExecTypeOK, NoReplay, ExecNatives, ExecHandles, ExecOutputs, ExecCalls, ExecPcs
<1>7. StartupTells'
  BY <1>1, <1>2, <1>3, <1>4, <1>5 DEF ExecInv, StartupTells, CallsTurn, OutputTold, AbortKills, ResultLeft, ExecDown, Up, Runs, Returned, ExecNatives, ExecHandles, ExecOutputs, ExecCalls, Callers, NoReplay
<1>8. CallsTurn'
  <2>1. CASE c = "exec"
    BY <1>1, <1>2, <1>3, <1>4, <1>5, <2>1 DEF ExecInv, CallsTurn, ExecDown, Callers, StartupTells, Returned, Up, ExecHandles
  <2>2. CASE c # "exec"
    BY <1>1, <1>2, <1>3, <1>4, <1>5, <2>2 DEF ExecInv, CallsTurn, ExecDown, Callers, StartupTells, Returned, Up, ExecHandles
  <2> QED
    BY <2>1, <2>2
<1>9. OutputTold'
  BY <1>1, <1>2, <1>3, <1>4, <1>5 DEF ExecInv, StartupTells, CallsTurn, OutputTold, AbortKills, ResultLeft, ExecDown, Up, Runs, Returned, ExecNatives, ExecHandles, ExecOutputs, ExecCalls, Callers, NoReplay
<1>10. AbortKills'
  BY <1>1, <1>2, <1>3, <1>4, <1>5 DEF ExecInv, StartupTells, CallsTurn, OutputTold, AbortKills, ResultLeft, ExecDown, Up, Runs, Returned, ExecNatives, ExecHandles, ExecOutputs, ExecCalls, Callers, NoReplay
<1>11. ResultLeft'
  BY <1>1, <1>2, <1>3, <1>4, <1>5 DEF ExecInv, StartupTells, CallsTurn, OutputTold, AbortKills, ResultLeft, ExecDown, Up, Runs, Returned, ExecNatives, ExecHandles, ExecOutputs, ExecCalls, Callers, NoReplay
<1>12. ExecDown'
  BY <1>1, <1>2, <1>3, <1>4, <1>5 DEF ExecInv, StartupTells, CallsTurn, OutputTold, AbortKills, ResultLeft, ExecDown, Up, Runs, Returned, ExecNatives, ExecHandles, ExecOutputs, ExecCalls, Callers, NoReplay
<1> QED
  BY <1>6, <1>7, <1>8, <1>9, <1>10, <1>11, <1>12 DEF ExecInv

(* A call throws: that of exec_command gives its session up, and kills it unless an abort did. *)
LEMMA ThrowKeeps ==
  ASSUME ExecInv, NEW c \in Callers, Unreadable(c) \/ PollLost(c) \/ AbortThrows(c)
  PROVE  ExecInv'
<1>1. native \in ExecNatives /\ handle \in ExecHandles /\ execution \in ExecOutputs /\ calls \in ExecCalls
      /\ manager \in [state : {"up", "closing", "down"}, deaths : 0..MaxDeaths] /\ replay \in -1..(MaxPieces + 1)
      /\ "exec" \in Callers
  BY DEF ExecInv, ExecTypeOK, ExecNatives, ExecHandles, ExecOutputs, ExecCalls, ExecPcs, Callers
<1>2. \E kill \in BOOLEAN : Throws(c, kill) /\ (~calls[c].aborted => kill)
  BY <1>1 DEF Unreadable, PollLost, AbortThrows, ExecCalls
<1>3. calls[c].pc \in {"waiting", "starting", "polling", "finishing"}
  BY DEF Unreadable, PollLost, AbortThrows
<1>4. Goes(c, "thrown") /\ UNCHANGED <<native, replay, manager>>
  BY <1>2 DEF Throws
<1>5. /\ calls' \in ExecCalls /\ calls'[c].pc = "thrown"
      /\ \A d \in Callers : calls'[d].aborted = calls[d].aborted /\ (d # c => calls'[d].pc = calls[d].pc)
  BY <1>1, <1>4, CallGoes DEF ExecPcs
<1>6. /\ handle' \in ExecHandles /\ handle'.start = handle.start /\ handle'.seq = handle.seq
      /\ handle'.exit = handle.exit /\ handle'.killing \in {handle.killing, TRUE}
      /\ (c = "exec" /\ ~calls["exec"].aborted => handle'.killing)
      /\ execution' \in ExecOutputs /\ execution'.finalized = execution.finalized
      /\ execution'.exposed = execution.exposed /\ execution'.end = execution.end
      /\ execution'.emitted = execution.emitted
      /\ execution'.held = (IF c = "exec" THEN FALSE ELSE execution.held)
  BY <1>1, <1>2, ThrowTells
<1>7. handle'.start = handle.start
  BY <1>6
<1>8. c # "exec" => calls["exec"].pc = "done"
  BY <1>1, <1>3 DEF ExecInv, CallsTurn, Callers
<1>9. ExecTypeOK'
  BY <1>1, <1>2, <1>3, <1>4, <1>5, <1>6, <1>7, <1>8, ExecAssumption DEF ExecInv, ExecTypeOK, NoReplay, ExecNatives, ExecHandles, ExecOutputs, ExecCalls, ExecPcs
<1>10. StartupTells'
  BY <1>1, <1>2, <1>3, <1>4, <1>5, <1>6, <1>7, <1>8 DEF ExecInv, StartupTells, CallsTurn, OutputTold, AbortKills, ResultLeft, ExecDown, Up, Runs, Returned, ExecNatives, ExecHandles, ExecOutputs, ExecCalls, Callers, NoReplay
<1>11. CallsTurn'
  <2>1. CASE c = "exec"
    BY <1>1, <1>3, <1>5, <1>7, <1>8, <2>1, ZenonT(60) DEF ExecInv, CallsTurn, ExecDown, Callers, StartupTells, Returned, Up, ExecHandles
  <2>2. CASE c # "exec"
    BY <1>1, <1>3, <1>5, <1>7, <1>8, <2>2 DEF ExecInv, CallsTurn, ExecDown, Callers, StartupTells, Returned, Up, ExecHandles
  <2> QED
    BY <2>1, <2>2
<1>12. OutputTold'
  BY <1>1, <1>2, <1>3, <1>4, <1>5, <1>6, <1>7, <1>8 DEF ExecInv, StartupTells, CallsTurn, OutputTold, AbortKills, ResultLeft, ExecDown, Up, Runs, Returned, ExecNatives, ExecHandles, ExecOutputs, ExecCalls, Callers, NoReplay
<1>13. AbortKills'
  BY <1>1, <1>2, <1>3, <1>4, <1>5, <1>6, <1>7, <1>8 DEF ExecInv, StartupTells, CallsTurn, OutputTold, AbortKills, ResultLeft, ExecDown, Up, Runs, Returned, ExecNatives, ExecHandles, ExecOutputs, ExecCalls, Callers, NoReplay
<1>14. ResultLeft'
  BY <1>1, <1>2, <1>3, <1>4, <1>5, <1>6, <1>7, <1>8 DEF ExecInv, StartupTells, CallsTurn, OutputTold, AbortKills, ResultLeft, ExecDown, Up, Runs, Returned, ExecNatives, ExecHandles, ExecOutputs, ExecCalls, Callers, NoReplay
<1>15. ExecDown'
  BY <1>1, <1>2, <1>3, <1>4, <1>5, <1>6, <1>7, <1>8 DEF ExecInv, StartupTells, CallsTurn, OutputTold, AbortKills, ResultLeft, ExecDown, Up, Runs, Returned, ExecNatives, ExecHandles, ExecOutputs, ExecCalls, Callers, NoReplay
<1> QED
  BY <1>9, <1>10, <1>11, <1>12, <1>13, <1>14, <1>15 DEF ExecInv

(* A call is aborted; that of exec_command terminates the command it awaits. *)
LEMMA AbortKeeps ==
  ASSUME ExecInv, NEW c \in Callers, AbortCall(c)
  PROVE  ExecInv'
<1>1. native \in ExecNatives /\ handle \in ExecHandles /\ execution \in ExecOutputs /\ calls \in ExecCalls
      /\ manager \in [state : {"up", "closing", "down"}, deaths : 0..MaxDeaths] /\ replay \in -1..(MaxPieces + 1)
      /\ "exec" \in Callers
  BY DEF ExecInv, ExecTypeOK, ExecNatives, ExecHandles, ExecOutputs, ExecCalls, ExecPcs, Callers
<1>2. calls[c].pc \in {"waiting", "starting", "polling"} /\ UNCHANGED <<native, execution, replay, manager>>
  BY DEF AbortCall
<1>3. /\ calls' \in ExecCalls /\ calls'[c].aborted
      /\ \A d \in Callers : calls'[d].pc = calls[d].pc /\ (d # c => calls'[d].aborted = calls[d].aborted)
  BY <1>1 DEF AbortCall, ExecCalls
<1>4. /\ handle' \in ExecHandles /\ handle'.start = handle.start /\ handle'.seq = handle.seq
      /\ handle'.exit = handle.exit /\ handle'.killing \in {handle.killing, TRUE}
      /\ (c = "exec" /\ ~handle.exit => handle'.killing)
  BY <1>1 DEF AbortCall, Terminate, ExecHandles
<1>5. c # "exec" => calls["exec"].pc = "done"
  BY <1>1, <1>2 DEF ExecInv, CallsTurn, Callers
<1>6. ExecTypeOK'
  BY <1>1, <1>2, <1>3, <1>4, <1>5, ExecAssumption DEF ExecInv, ExecTypeOK, NoReplay, ExecNatives, ExecHandles, ExecOutputs, ExecCalls, ExecPcs
<1>7. StartupTells'
  BY <1>1, <1>2, <1>3, <1>4, <1>5 DEF ExecInv, StartupTells, CallsTurn, OutputTold, AbortKills, ResultLeft, ExecDown, Up, Runs, Returned, ExecNatives, ExecHandles, ExecOutputs, ExecCalls, Callers, NoReplay
<1>8. CallsTurn'
  <2>1. CASE c = "exec"
    BY <1>1, <1>2, <1>3, <1>4, <1>5, <2>1, ZenonT(60) DEF ExecInv, CallsTurn, ExecDown, Callers, StartupTells, Returned, Up, ExecHandles
  <2>2. CASE c # "exec"
    BY <1>1, <1>2, <1>3, <1>4, <1>5, <2>2 DEF ExecInv, CallsTurn, ExecDown, Callers, StartupTells, Returned, Up, ExecHandles
  <2> QED
    BY <2>1, <2>2
<1>9. OutputTold'
  BY <1>1, <1>2, <1>3, <1>4, <1>5 DEF ExecInv, StartupTells, CallsTurn, OutputTold, AbortKills, ResultLeft, ExecDown, Up, Runs, Returned, ExecNatives, ExecHandles, ExecOutputs, ExecCalls, Callers, NoReplay
<1>10. AbortKills'
  BY <1>1, <1>2, <1>3, <1>4, <1>5 DEF ExecInv, StartupTells, CallsTurn, OutputTold, AbortKills, ResultLeft, ExecDown, Up, Runs, Returned, ExecNatives, ExecHandles, ExecOutputs, ExecCalls, Callers, NoReplay
<1>11. ResultLeft'
  BY <1>1, <1>2, <1>3, <1>4, <1>5 DEF ExecInv, StartupTells, CallsTurn, OutputTold, AbortKills, ResultLeft, ExecDown, Up, Runs, Returned, ExecNatives, ExecHandles, ExecOutputs, ExecCalls, Callers, NoReplay
<1>12. ExecDown'
  BY <1>1, <1>2, <1>3, <1>4, <1>5 DEF ExecInv, StartupTells, CallsTurn, OutputTold, AbortKills, ResultLeft, ExecDown, Up, Runs, Returned, ExecNatives, ExecHandles, ExecOutputs, ExecCalls, Callers, NoReplay
<1> QED
  BY <1>6, <1>7, <1>8, <1>9, <1>10, <1>11, <1>12 DEF ExecInv

(* No command is lost sight of, neither while it runs nor after, whatever aborts, unreadable output,
   crashes of the bridge and shutdown come between its startup, the waits and its result.        *)
THEOREM CommandsAreKept == ExecSpec => []CommandsAccounted
<1>1. ExecInit => ExecInv
  BY ExecAssumption DEF ExecInit, ExecInv, ExecTypeOK, StartupTells, CallsTurn, OutputTold, AbortKills, ResultLeft, ExecDown, Up, Runs,
    Returned, Callers, NoReplay
<1>2. ExecInv /\ [ExecNext]_execVars => ExecInv'
  <2> SUFFICES ASSUME ExecInv, [ExecNext]_execVars PROVE ExecInv'
    OBVIOUS
  <2>1. CASE UNCHANGED execVars
    BY <2>1 DEF execVars, ExecInv, ExecTypeOK, StartupTells, CallsTurn, OutputTold, AbortKills, ResultLeft, ExecDown, Up, Runs, Returned
  <2>2. CASE ExecNext
    BY <2>2, ProcessKeeps, BridgeKeeps, StartupKeeps, LoopKeeps, TerminationKeeps, ExecKeeps, AsksKeep, ShutdownKeeps, ShutdownEndKeeps,
      WriteKeeps, WakeKeeps, StartedKeeps, PollKeeps, FinishKeeps, ThrowKeeps, AbortKeeps DEF ExecNext
  <2> QED
    BY <2>1, <2>2
<1>3. ExecInv => CommandsAccounted
  BY DEF ExecInv, StartupTells, AbortKills, ResultLeft, ExecDown, CommandsAccounted, NothingOrphaned, StaysReachable, EndIsTold, Up, Runs, Returned
<1> QED
  BY <1>1, <1>2, <1>3, PTL DEF ExecSpec

-----------------------------------------------------------------------------
(* ManagedInput.  Messages steered into a running task: the receipts, and the one caller of the SDK. *)
ReceiptRows == [state : {"none", "sending", "queued", "consumed", "not_consumed", "unknown"}, task : Nat]
WorkerRows == [task : Nat, active : BOOLEAN, ending : BOOLEAN, stopping : BOOLEAN, dead : BOOLEAN]
(* The receipts of a run that ended wait for nothing. *)
InputInv ==
  /\ receipt \in [Msgs -> ReceiptRows] /\ worker \in WorkerRows /\ rpc.msg \in Nat
  /\ \A m \in Msgs : receipt[m].state \in {"sending", "queued"} => worker.active /\ receipt[m].task = worker.task

PipeRows == [type : {"prompt", "steer", "native", "abort"}, msg : Nat, task : Nat]
ChildRows == [task : Nat, inputs : Seq(Nat), controls : Seq(Nat), entered : BOOLEAN, cancelled : BOOLEAN, call : Nat]
SdkRows == [streaming : BOOLEAN, own : BOOLEAN, steered : Seq(Nat)]
(* A native input has a turn of its own only in its preflight and while no call runs, and a call that does
   not stream yet began when no preflight was under way. *)
TurnInv ==
  /\ toChild \in Seq(PipeRows) /\ child \in ChildRows /\ sdk \in SdkRows
  /\ sdk.own => child.call = Idle /\ child.controls # <<>> /\ child.entered /\ sdk.streaming
  /\ child.call # Idle /\ ~sdk.streaming => child.controls = <<>>
-----------------------------------------------------------------------------

LEMMA InputSets ==
  Msgs \subseteq Nat /\ Idle \in Nat /\ 0 \notin Msgs /\ MaxInputs \in Nat
  BY InputAssumption DEF Msgs, Idle
(* A marked receipt has the state it is marked with, the others stay as they are. *)
LEMMA MarkTells ==
  ASSUME InputInv, NEW M, NEW s \in {"queued", "consumed", "not_consumed", "unknown"}
  PROVE  /\ Mark(M, s) \in [Msgs -> ReceiptRows]
         /\ \A m \in Msgs : /\ Mark(M, s)[m].task = receipt[m].task
                            /\ m \in M => Mark(M, s)[m].state = s
                            /\ m \notin M => Mark(M, s)[m] = receipt[m]
<1>1. receipt \in [Msgs -> ReceiptRows]
  BY DEF InputInv
<1>2. \A m \in Msgs : [receipt[m] EXCEPT !.state = s] \in ReceiptRows /\ [receipt[m] EXCEPT !.state = s].task = receipt[m].task
                     /\ [receipt[m] EXCEPT !.state = s].state = s
  BY <1>1 DEF ReceiptRows
<1> QED
  BY <1>1, <1>2 DEF Mark
(* What a step may do to the receipts: nothing that is consumed is touched, but by the failure of its own call. *)
ReceiptsMove ==
  /\ receipt' \in [Msgs -> ReceiptRows]
  /\ \A m \in Msgs : receipt[m].state = "consumed" =>
       receipt'[m].state = "consumed" \/ (rpc.msg = m /\ receipt'[m].state \in {"unknown", "not_consumed"})
LEMMA QuietMoves ==
  ASSUME InputInv, UNCHANGED <<receipt, rpc>>, worker' \in WorkerRows, worker'.task = worker.task, worker'.active = worker.active
  PROVE  InputInv' /\ ReceiptsMove
  BY DEF InputInv, ReceiptsMove
LEMMA StartRunMoves ==
  ASSUME InputInv, StartRun
  PROVE  InputInv' /\ ReceiptsMove
<1>1. worker \in WorkerRows /\ worker.task + 1 \in Nat
  BY DEF InputInv, WorkerRows
<1>2. PICK k \in Nat : k = worker.task + 1
  BY <1>1
<1>3. worker' = [worker EXCEPT !.task = k, !.active = TRUE, !.ending = FALSE, !.stopping = FALSE]
  BY <1>2 DEF StartRun
<1>4. worker' \in WorkerRows /\ UNCHANGED <<receipt, rpc>> /\ ~worker.active
  BY <1>1, <1>3 DEF StartRun, WorkerRows
<1> QED
  BY <1>4 DEF InputInv, ReceiptsMove
LEMMA DeliverInputMoves ==
  ASSUME InputInv, NEW m \in Msgs, NEW kind \in {"steer", "native"}, DeliverInput(m, kind)
  PROVE  InputInv' /\ ReceiptsMove
<1>1. worker' = worker /\ worker.active /\ receipt[m].state = "none" /\ rpc'.msg = m /\ m \in Nat
  BY InputSets DEF DeliverInput
<1>2. PICK q : q = [state |-> "sending", task |-> worker.task]
  OBVIOUS
<1>3. q \in ReceiptRows /\ q.state = "sending" /\ q.task = worker.task
  BY <1>2 DEF InputInv, WorkerRows, ReceiptRows
<1>4. receipt' = [receipt EXCEPT ![m] = q] /\ receipt \in [Msgs -> ReceiptRows]
  BY <1>2 DEF DeliverInput, InputInv
<1>5. receipt' \in [Msgs -> ReceiptRows] /\ \A k \in Msgs : receipt'[k] = IF k = m THEN q ELSE receipt[k]
  BY <1>3, <1>4
<1> QED
  BY <1>1, <1>3, <1>5 DEF InputInv, ReceiptsMove
LEMMA AnsweredMoves ==
  ASSUME InputInv, Answered
  PROVE  InputInv' /\ ReceiptsMove
<1>1. worker' = worker /\ rpc'.msg = 0
  BY DEF Answered
<1>2. CASE rpc.reply = "ok"
  <2>1. receipt' = Mark({rpc.msg} \cap {m \in Msgs : receipt[m].state = "sending"}, "queued")
    BY <1>2 DEF Answered, Acknowledged
  <2>2. receipt' \in [Msgs -> ReceiptRows] /\ \A m \in Msgs : receipt'[m].task = receipt[m].task
    BY <2>1, MarkTells
  <2>3. \A m \in Msgs : \/ receipt'[m] = receipt[m]
                        \/ receipt'[m].state = "queued" /\ receipt[m].state = "sending"
    BY <2>1, MarkTells
  <2> QED
    BY <1>1, <2>2, <2>3 DEF InputInv, ReceiptsMove
<1>3. CASE rpc.reply # "ok"
  <2>1. receipt' = Mark({rpc.msg}, "not_consumed")
    BY <1>3 DEF Answered
  <2>2. receipt' \in [Msgs -> ReceiptRows] /\ \A m \in Msgs : receipt'[m].task = receipt[m].task
    BY <2>1, MarkTells
  <2>3. \A m \in Msgs : receipt'[m] = receipt[m] \/ (receipt'[m].state = "not_consumed" /\ m = rpc.msg)
    BY <2>1, MarkTells
  <2> QED
    BY <1>1, <2>2, <2>3 DEF InputInv, ReceiptsMove
<1> QED
  BY <1>2, <1>3
LEMMA CallFailsMoves ==
  ASSUME InputInv, CallFails
  PROVE  InputInv' /\ ReceiptsMove
<1>1. worker' = worker /\ rpc'.msg = 0 /\ receipt' = Mark({rpc.msg}, "unknown")
  BY DEF CallFails
<1>2. receipt' \in [Msgs -> ReceiptRows] /\ \A m \in Msgs : receipt'[m].task = receipt[m].task
  BY <1>1, MarkTells
<1>3. \A m \in Msgs : receipt'[m] = receipt[m] \/ (receipt'[m].state = "unknown" /\ m = rpc.msg)
  BY <1>1, MarkTells
<1>4. rpc'.msg \in Nat /\ worker' \in WorkerRows /\ worker'.active = worker.active /\ worker'.task = worker.task
  BY <1>1 DEF InputInv
<1>5. InputInv'
  <2>1. \A m \in Msgs : receipt'[m].state \in {"sending", "queued"} => worker'.active /\ receipt'[m].task = worker'.task
    BY <1>2, <1>3, <1>4 DEF InputInv
  <2> QED
    BY <1>2, <1>4, <2>1 DEF InputInv
<1>6. ReceiptsMove
  BY <1>2, <1>3 DEF ReceiptsMove
<1> QED
  BY <1>5, <1>6
(* What is marked of the pending receipts is no longer pending, and nothing else changes. *)
LEMMA PendingMoves ==
  ASSUME InputInv, NEW M \in SUBSET PendingInputs, NEW s \in {"consumed", "not_consumed"}, receipt' = Mark(M, s),
         rpc'.msg \in Nat, worker' \in WorkerRows,
         worker' = worker \/ (worker'.task = worker.task /\ worker'.active = worker.active) \/ {m \in PendingInputs : receipt[m].task = worker.task} \subseteq M
  PROVE  InputInv' /\ ReceiptsMove
<1>1. receipt' \in [Msgs -> ReceiptRows] /\ \A m \in Msgs : receipt'[m].task = receipt[m].task
  BY MarkTells
<1>2. \A m \in Msgs : \/ receipt'[m] = receipt[m] /\ m \notin M
                      \/ receipt'[m].state = s /\ receipt[m].state \in {"sending", "queued"}
  BY MarkTells DEF PendingInputs
<1>3. \A m \in Msgs : receipt[m].state \in {"sending", "queued"} => m \in PendingInputs /\ receipt[m].task = worker.task /\ worker.active
  BY DEF InputInv, PendingInputs
<1> QED
  BY <1>1, <1>2, <1>3 DEF InputInv, ReceiptsMove
LEMMA ReadMoves ==
  ASSUME InputInv, Read
  PROVE  InputInv' /\ ReceiptsMove
<1>1. PICK f : f = Head(toDaemon)
  OBVIOUS
<1>2. /\ receipt' = CASE f.type = "user" /\ worker.active -> Mark(ConsumedBy(Text(f.msg)), "consumed")
                      [] f.type = "control_end" /\ f.task = worker.task /\ worker.active -> Mark({f.msg} \cap PendingInputs, "not_consumed")
                      [] OTHER -> receipt
      /\ rpc' = IF f.type \in {"ok", "rejected"} /\ f.msg = rpc.msg THEN [rpc EXCEPT !.reply = f.type] ELSE rpc
      /\ worker' = [worker EXCEPT !.ending = @ \/ (f.type = "task_end" /\ worker.active /\ f.task = worker.task)]
  BY <1>1 DEF Read
<1>3. rpc'.msg = rpc.msg /\ rpc'.msg \in Nat
  BY <1>2 DEF InputInv
<1>4. worker' \in WorkerRows /\ worker'.task = worker.task /\ worker'.active = worker.active
  BY <1>2 DEF InputInv, WorkerRows
<1>5. ConsumedBy(Text(f.msg)) \in SUBSET PendingInputs
  BY DEF ConsumedBy
<1>6. CASE f.type = "user" /\ worker.active
  <2>1. receipt' = Mark(ConsumedBy(Text(f.msg)), "consumed")
    BY <1>2, <1>6
  <2> QED
    BY <1>3, <1>4, <1>5, <2>1, PendingMoves
<1>7. CASE f.type = "control_end" /\ f.task = worker.task /\ worker.active
  <2>1. receipt' = Mark({f.msg} \cap PendingInputs, "not_consumed")
    BY <1>2, <1>7
  <2> QED
    BY <1>3, <1>4, <2>1, PendingMoves
<1>8. CASE ~(f.type = "user" /\ worker.active) /\ ~(f.type = "control_end" /\ f.task = worker.task /\ worker.active)
  <2>1. receipt' = receipt
    BY <1>2, <1>8
  <2> QED
    BY <1>3, <1>4, <2>1 DEF InputInv, ReceiptsMove
<1> QED
  BY <1>6, <1>7, <1>8
LEMMA SettleRunMoves ==
  ASSUME InputInv, SettleRun
  PROVE  InputInv' /\ ReceiptsMove
<1>1. /\ receipt' = Mark({m \in PendingInputs : receipt[m].task = worker.task}, "not_consumed") /\ rpc' = rpc
      /\ worker' \in WorkerRows
  BY DEF SettleRun, Finish, InputInv, WorkerRows
<1>2. rpc'.msg \in Nat
  BY <1>1 DEF InputInv
<1> QED
  BY <1>1, <1>2, PendingMoves
LEMMA ElseMoves ==
  ASSUME InputInv, \/ Interrupt \/ ChildExits \/ Prompt \/ Steered \/ Abort \/ Execute \/ Streams \/ TakesSteered \/ CallReturns
                   \/ NativeStarts \/ NativePrompts \/ NativeReturns \/ NativeFails \/ TaskEnd
  PROVE  InputInv' /\ ReceiptsMove
<1>1. UNCHANGED <<receipt, rpc>>
  BY DEF Interrupt, ChildExits, Prompt, Steered, Abort, Execute, Streams, TakesSteered, CallReturns, NativeStarts, NativePrompts,
         NativeReturns, NativeFails, TaskEnd
<1>2. worker' = worker \/ worker' = [worker EXCEPT !.stopping = TRUE] \/ worker' = [worker EXCEPT !.dead = TRUE]
  BY DEF Interrupt, ChildExits, Prompt, Steered, Abort, Execute, Streams, TakesSteered, CallReturns, NativeStarts, NativePrompts,
         NativeReturns, NativeFails, TaskEnd
<1>3. worker' \in WorkerRows /\ worker'.task = worker.task /\ worker'.active = worker.active
  BY <1>2 DEF InputInv, WorkerRows
<1> QED
  BY <1>1, <1>3, QuietMoves
LEMMA InputMoves ==
  ASSUME InputInv, [InputNext]_inputVars
  PROVE  InputInv' /\ ReceiptsMove
<1>1. CASE InputNext
  BY <1>1, DeliverInputMoves, StartRunMoves, AnsweredMoves, CallFailsMoves, ReadMoves, SettleRunMoves, ElseMoves DEF InputNext
<1>2. CASE UNCHANGED inputVars
  BY <1>2, QuietMoves DEF inputVars, InputInv
<1> QED
  BY <1>1, <1>2
LEMMA InputStarts ==
  ASSUME InputInit
  PROVE  InputInv
<1>1. /\ receipt = [m \in Msgs |-> [state |-> "none", task |-> 0]] /\ rpc = [msg |-> 0, reply |-> "none"]
      /\ worker = [task |-> 0, active |-> FALSE, ending |-> FALSE, stopping |-> FALSE, dead |-> FALSE]
  BY DEF InputInit
<1>2. [state |-> "none", task |-> 0] \in ReceiptRows
  BY DEF ReceiptRows
<1> QED
  BY <1>1, <1>2 DEF InputInv, WorkerRows

LEMMA NothingQueued ==
  ASSUME NEW e, e = <<>>
  PROVE  e \in Seq(Nat)
  OBVIOUS
LEMMA StartRunTurns ==
  ASSUME InputInv, TurnInv, StartRun
  PROVE  TurnInv'
<1>1. child \in ChildRows /\ sdk \in SdkRows /\ toChild \in Seq(PipeRows) /\ Idle \in Nat
  BY InputSets DEF TurnInv
<1>2. Frame("prompt", 0, worker.task + 1) \in PipeRows
  BY DEF Frame, PipeRows, InputInv, WorkerRows
<1>3. toChild' \in Seq(PipeRows) /\ UNCHANGED <<child, sdk>>
  BY <1>1, <1>2 DEF StartRun
<1> QED
  BY <1>1, <1>3 DEF TurnInv
LEMMA DeliverInputTurns ==
  ASSUME InputInv, TurnInv, NEW m \in Msgs, NEW kind \in {"steer", "native"}, DeliverInput(m, kind)
  PROVE  TurnInv'
<1>1. child \in ChildRows /\ sdk \in SdkRows /\ toChild \in Seq(PipeRows) /\ Idle \in Nat
  BY InputSets DEF TurnInv
<1>2. Frame(kind, m, worker.task) \in PipeRows
  BY InputSets DEF Frame, PipeRows, InputInv, WorkerRows
<1>3. toChild' \in Seq(PipeRows) /\ UNCHANGED <<child, sdk>>
  BY <1>1, <1>2 DEF DeliverInput
<1> QED
  BY <1>1, <1>3 DEF TurnInv
LEMMA InterruptTurns ==
  ASSUME InputInv, TurnInv, Interrupt
  PROVE  TurnInv'
<1>1. child \in ChildRows /\ sdk \in SdkRows /\ toChild \in Seq(PipeRows) /\ Idle \in Nat
  BY InputSets DEF TurnInv
<1>2. Frame("abort", 0, 0) \in PipeRows
  BY DEF Frame, PipeRows
<1>3. toChild' \in Seq(PipeRows) /\ UNCHANGED <<child, sdk>>
  BY <1>1, <1>2 DEF Interrupt
<1> QED
  BY <1>1, <1>3 DEF TurnInv
LEMMA ChildExitsTurns ==
  ASSUME InputInv, TurnInv, ChildExits
  PROVE  TurnInv'
<1>1. child \in ChildRows /\ sdk \in SdkRows /\ toChild \in Seq(PipeRows) /\ Idle \in Nat
  BY InputSets DEF TurnInv
<1>2. toChild' = <<>> /\ child' = NoTask /\ sdk' = QuietSdk
  BY DEF ChildExits
<1>3. NoTask \in ChildRows /\ NoTask.call = Idle /\ QuietSdk \in SdkRows /\ ~QuietSdk.own
  BY <1>1 DEF NoTask, QuietSdk, ChildRows, SdkRows
<1> QED
  BY <1>1, <1>2, <1>3 DEF TurnInv
LEMMA PromptTurns ==
  ASSUME InputInv, TurnInv, Prompt
  PROVE  TurnInv'
<1>1. child \in ChildRows /\ sdk \in SdkRows /\ toChild \in Seq(PipeRows) /\ Idle \in Nat
  BY InputSets DEF TurnInv
<1>2. PICK f \in PipeRows : f = Head(toChild)
  BY <1>1 DEF Prompt
<1>3. toChild' \in Seq(PipeRows)
  BY <1>1 DEF Prompt
<1>4. f.task \in Nat /\ <<0>> \in Seq(Nat)
  BY DEF PipeRows
<1>5. child' = [child EXCEPT !.task = f.task, !.inputs = <<0>>] /\ sdk' = sdk
  BY <1>2 DEF Prompt
<1>6. child' \in ChildRows /\ child'.call = child.call /\ child'.controls = child.controls /\ child'.entered = child.entered
  BY <1>1, <1>4, <1>5 DEF ChildRows
<1> QED
  BY <1>1, <1>3, <1>5, <1>6 DEF TurnInv
LEMMA SteeredTurns ==
  ASSUME InputInv, TurnInv, Steered
  PROVE  TurnInv'
<1>1. child \in ChildRows /\ sdk \in SdkRows /\ toChild \in Seq(PipeRows) /\ Idle \in Nat
  BY InputSets DEF TurnInv
<1>2. PICK f \in PipeRows : f = Head(toChild)
  BY <1>1 DEF Steered
<1>3. toChild' \in Seq(PipeRows)
  BY <1>1 DEF Steered
<1>4. f.msg \in Nat
  BY DEF PipeRows
<1>5. sdk' = sdk
  BY DEF Steered
<1>6. CASE child' = child
  BY <1>1, <1>3, <1>5, <1>6 DEF TurnInv
<1>7. CASE child' = [child EXCEPT !.controls = Append(@, f.msg)] /\ sdk.streaming
  <2>1. Append(child.controls, f.msg) \in Seq(Nat) /\ Append(child.controls, f.msg) # <<>>
    <3>1. child.controls \in Seq(Nat)
      BY <1>1 DEF ChildRows
    <3> QED
      BY <1>4, <3>1
  <2>2. child' \in ChildRows /\ child'.call = child.call /\ child'.controls # <<>> /\ child'.entered = child.entered
    BY <1>1, <1>7, <2>1 DEF ChildRows
  <2> QED
    BY <1>1, <1>3, <1>5, <1>7, <2>2 DEF TurnInv
<1>8. CASE child' = [child EXCEPT !.inputs = Append(@, f.msg)]
  <2>1. Append(child.inputs, f.msg) \in Seq(Nat)
    BY <1>1, <1>4 DEF ChildRows
  <2>2. child' \in ChildRows /\ child'.call = child.call /\ child'.controls = child.controls /\ child'.entered = child.entered
    BY <1>1, <1>8, <2>1 DEF ChildRows
  <2> QED
    BY <1>1, <1>3, <1>5, <2>2 DEF TurnInv
<1> QED
  BY <1>2, <1>6, <1>7, <1>8 DEF Steered
LEMMA AbortTurns ==
  ASSUME InputInv, TurnInv, Abort
  PROVE  TurnInv'
<1>1. child \in ChildRows /\ sdk \in SdkRows /\ toChild \in Seq(PipeRows) /\ Idle \in Nat
  BY InputSets DEF TurnInv
<1>3. toChild' \in Seq(PipeRows)
  BY <1>1 DEF Abort
<1>0. PICK e \in Seq(Nat) : e = <<>>
  BY NothingQueued
<1>4. child' = child \/ child' = [child EXCEPT !.cancelled = TRUE, !.inputs = e]
  BY <1>0 DEF Abort
<1>5. sdk' = sdk \/ sdk' = [sdk EXCEPT !.steered = e]
  BY <1>0 DEF Abort, Discarded
<1>6. child' \in ChildRows /\ child'.call = child.call /\ child'.controls = child.controls /\ child'.entered = child.entered
  BY <1>1, <1>4 DEF ChildRows
<1>7. sdk' \in SdkRows /\ sdk'.own = sdk.own /\ sdk'.streaming = sdk.streaming
  BY <1>1, <1>5 DEF SdkRows
<1> QED
  BY <1>1, <1>3, <1>6, <1>7 DEF TurnInv
LEMMA ExecuteTurns ==
  ASSUME InputInv, TurnInv, Execute
  PROVE  TurnInv'
<1>1. child \in ChildRows /\ sdk \in SdkRows /\ toChild \in Seq(PipeRows) /\ Idle \in Nat
  BY InputSets DEF TurnInv
<1>2. child.call = Idle /\ child.controls = <<>> /\ child.inputs # <<>> /\ UNCHANGED <<toChild, sdk>>
  BY DEF Execute, MayExecute
<1>3. Head(child.inputs) \in Nat /\ Tail(child.inputs) \in Seq(Nat)
  BY <1>1, <1>2 DEF ChildRows
<1>4. child' = [child EXCEPT !.call = Head(child.inputs), !.inputs = Tail(@)]
  BY DEF Execute
<1>5. child' \in ChildRows /\ child'.controls = <<>>
  BY <1>1, <1>2, <1>3, <1>4 DEF ChildRows
<1> QED
  BY <1>1, <1>2, <1>5 DEF TurnInv
LEMMA StreamsTurns ==
  ASSUME InputInv, TurnInv, Streams
  PROVE  TurnInv'
<1>1. child \in ChildRows /\ sdk \in SdkRows /\ toChild \in Seq(PipeRows) /\ Idle \in Nat
  BY InputSets DEF TurnInv
<1>2. UNCHANGED <<toChild, child>> /\ sdk' = [sdk EXCEPT !.streaming = TRUE]
  BY DEF Streams
<1>3. sdk' \in SdkRows /\ sdk'.own = sdk.own /\ sdk'.streaming
  BY <1>1, <1>2 DEF SdkRows
<1> QED
  BY <1>1, <1>2, <1>3 DEF TurnInv
LEMMA TakesSteeredTurns ==
  ASSUME InputInv, TurnInv, TakesSteered
  PROVE  TurnInv'
<1>1. child \in ChildRows /\ sdk \in SdkRows /\ toChild \in Seq(PipeRows) /\ Idle \in Nat
  BY InputSets DEF TurnInv
<1>2. UNCHANGED <<toChild, child>> /\ sdk' = [sdk EXCEPT !.steered = Tail(@)] /\ sdk.steered # <<>>
  BY DEF TakesSteered
<1>3. Tail(sdk.steered) \in Seq(Nat)
  BY <1>1, <1>2 DEF SdkRows
<1>4. sdk' \in SdkRows /\ sdk'.own = sdk.own /\ sdk'.streaming = sdk.streaming
  BY <1>1, <1>2, <1>3 DEF SdkRows
<1> QED
  BY <1>1, <1>2, <1>4 DEF TurnInv
LEMMA CallReturnsTurns ==
  ASSUME InputInv, TurnInv, CallReturns
  PROVE  TurnInv'
<1>1. child \in ChildRows /\ sdk \in SdkRows /\ toChild \in Seq(PipeRows) /\ Idle \in Nat
  BY InputSets DEF TurnInv
<1>0. PICK e \in Seq(Nat) : e = <<>>
  BY NothingQueued
<1>2. /\ child' = [child EXCEPT !.call = Idle] \/ child' = [child EXCEPT !.call = Idle, !.cancelled = TRUE, !.inputs = e]
      /\ sdk' = [sdk EXCEPT !.streaming = FALSE] /\ child.call # Idle /\ toChild' = toChild
  BY <1>0 DEF CallReturns
<1>3. child' \in ChildRows /\ child'.call = Idle
  BY <1>1, <1>2 DEF ChildRows
<1>4. sdk' \in SdkRows /\ ~sdk'.own
  BY <1>1, <1>2 DEF SdkRows, TurnInv
<1> QED
  BY <1>1, <1>2, <1>3, <1>4 DEF TurnInv
LEMMA NativeStartsTurns ==
  ASSUME InputInv, TurnInv, NativeStarts
  PROVE  TurnInv'
<1>1. child \in ChildRows /\ sdk \in SdkRows /\ toChild \in Seq(PipeRows) /\ Idle \in Nat
  BY InputSets DEF TurnInv
<1>2. child.controls # <<>> /\ ~child.entered /\ UNCHANGED <<toChild, sdk>> /\ ~sdk.own
  BY DEF NativeStarts, TurnInv
<1>3. Tail(child.controls) \in Seq(Nat) /\ Head(child.controls) \in Nat
  BY <1>1, <1>2 DEF ChildRows
<1>4. Left \in ChildRows /\ Left.call = child.call
  BY <1>1, <1>3 DEF Left, ChildRows
<1>5. child.call = Idle \/ sdk.streaming
  BY <1>2 DEF TurnInv
<1>6. CASE child' = [child EXCEPT !.entered = TRUE]
  <2>1. child' \in ChildRows /\ child'.call = child.call
    BY <1>1, <1>6 DEF ChildRows
  <2> QED
    BY <1>1, <1>2, <1>5, <2>1 DEF TurnInv
<1>7. CASE child' = Left
  BY <1>1, <1>2, <1>4, <1>5, <1>7 DEF TurnInv
<1>8. CASE child' = [Left EXCEPT !.inputs = Append(@, Head(child.controls))]
  <2>1. Append(Left.inputs, Head(child.controls)) \in Seq(Nat)
    BY <1>3, <1>4 DEF ChildRows
  <2>2. child' \in ChildRows /\ child'.call = child.call
    BY <1>4, <1>8, <2>1 DEF ChildRows
  <2> QED
    BY <1>1, <1>2, <1>5, <2>2 DEF TurnInv
<1> QED
  BY <1>6, <1>7, <1>8 DEF NativeStarts
LEMMA NativePromptsTurns ==
  ASSUME InputInv, TurnInv, NativePrompts
  PROVE  TurnInv'
<1>1. child \in ChildRows /\ sdk \in SdkRows /\ toChild \in Seq(PipeRows) /\ Idle \in Nat
  BY InputSets DEF TurnInv
<1>2. child.controls # <<>> /\ child.entered /\ ~sdk.own /\ toChild' = toChild
  BY DEF NativePrompts
<1>3. Tail(child.controls) \in Seq(Nat) /\ Head(child.controls) \in Nat
  BY <1>1, <1>2 DEF ChildRows
<1>4. Left \in ChildRows /\ Left.call = child.call
  BY <1>1, <1>3 DEF Left, ChildRows
<1>5. PICK h \in Nat : h = Head(child.controls)
  BY <1>3
<1>6. CASE sdk.streaming
  <2>1. child' = Left /\ sdk' = [sdk EXCEPT !.steered = Append(@, h)]
    BY <1>5, <1>6 DEF NativePrompts
  <2>2. Append(sdk.steered, h) \in Seq(Nat)
    BY <1>1 DEF SdkRows
  <2>3. sdk' \in SdkRows /\ ~sdk'.own /\ sdk'.streaming
    BY <1>1, <1>2, <1>6, <2>1, <2>2 DEF SdkRows
  <2> QED
    BY <1>1, <1>2, <1>4, <2>1, <2>3 DEF TurnInv
<1>7. CASE ~sdk.streaming
  <2>1. child' = child /\ sdk' = [sdk EXCEPT !.streaming = TRUE, !.own = TRUE]
    BY <1>7 DEF NativePrompts
  <2>2. child.call = Idle
    BY <1>2, <1>7 DEF TurnInv
  <2>3. sdk' \in SdkRows /\ sdk'.streaming
    BY <1>1, <2>1 DEF SdkRows
  <2> QED
    BY <1>1, <1>2, <2>1, <2>2, <2>3 DEF TurnInv
<1> QED
  BY <1>6, <1>7
LEMMA NativeReturnsTurns ==
  ASSUME InputInv, TurnInv, NativeReturns
  PROVE  TurnInv'
<1>1. child \in ChildRows /\ sdk \in SdkRows /\ toChild \in Seq(PipeRows) /\ Idle \in Nat
  BY InputSets DEF TurnInv
<1>2. child.controls # <<>> /\ child.call = Idle /\ toChild' = toChild
  BY DEF NativeReturns, TurnInv
<1>3. Tail(child.controls) \in Seq(Nat) /\ Head(child.controls) \in Nat
  BY <1>1, <1>2 DEF ChildRows
<1>4. Left \in ChildRows /\ Left.call = child.call
  BY <1>1, <1>3 DEF Left, ChildRows
<1>5. child' = Left /\ sdk' = [sdk EXCEPT !.streaming = FALSE, !.own = FALSE]
  BY DEF NativeReturns
<1>6. sdk' \in SdkRows /\ ~sdk'.own
  BY <1>1, <1>5 DEF SdkRows
<1> QED
  BY <1>1, <1>2, <1>4, <1>5, <1>6 DEF TurnInv
LEMMA NativeFailsTurns ==
  ASSUME InputInv, TurnInv, NativeFails
  PROVE  TurnInv'
<1>1. child \in ChildRows /\ sdk \in SdkRows /\ toChild \in Seq(PipeRows) /\ Idle \in Nat
  BY InputSets DEF TurnInv
<1>2. child.controls # <<>> /\ ~sdk.own /\ UNCHANGED <<toChild, sdk>> /\ child' = Left
  BY DEF NativeFails
<1>3. Tail(child.controls) \in Seq(Nat) /\ Head(child.controls) \in Nat
  BY <1>1, <1>2 DEF ChildRows
<1>4. Left \in ChildRows /\ Left.call = child.call
  BY <1>1, <1>3 DEF Left, ChildRows
<1> QED
  BY <1>1, <1>2, <1>4 DEF TurnInv
LEMMA TaskEndTurns ==
  ASSUME InputInv, TurnInv, TaskEnd
  PROVE  TurnInv'
<1>1. child \in ChildRows /\ sdk \in SdkRows /\ toChild \in Seq(PipeRows) /\ Idle \in Nat
  BY InputSets DEF TurnInv
<1>0. PICK e \in Seq(Nat) : e = <<>>
  BY NothingQueued
<1>2. child' = [child EXCEPT !.task = 0, !.inputs = e, !.cancelled = FALSE] /\ UNCHANGED <<toChild, sdk>>
  BY <1>0 DEF TaskEnd
<1>3. child' \in ChildRows /\ child'.call = child.call /\ child'.controls = child.controls /\ child'.entered = child.entered
  BY <1>1, <1>2 DEF ChildRows
<1> QED
  BY <1>1, <1>2, <1>3 DEF TurnInv
LEMMA InputTurns ==
  ASSUME InputInv, TurnInv, [InputNext]_inputVars
  PROVE  TurnInv'
<1>1. CASE Answered \/ CallFails \/ Read \/ SettleRun \/ UNCHANGED inputVars
  <2>1. UNCHANGED <<toChild, child, sdk>>
    BY <1>1 DEF Answered, CallFails, Read, SettleRun, inputVars
  <2> QED
    BY <2>1 DEF TurnInv
<1> QED
  BY <1>1, StartRunTurns, InterruptTurns, ChildExitsTurns, PromptTurns, SteeredTurns, AbortTurns, ExecuteTurns, StreamsTurns, TakesSteeredTurns, CallReturnsTurns, NativeStartsTurns, NativePromptsTurns, NativeReturnsTurns, NativeFailsTurns, TaskEndTurns, DeliverInputTurns DEF InputNext
LEMMA TurnStarts ==
  ASSUME InputInit
  PROVE  TurnInv
<1>1. toChild = <<>> /\ child = NoTask /\ sdk = QuietSdk /\ Idle \in Nat
  BY InputSets DEF InputInit
<1>2. NoTask \in ChildRows /\ NoTask.call = Idle /\ QuietSdk \in SdkRows /\ ~QuietSdk.own
  BY <1>1 DEF NoTask, QuietSdk, ChildRows, SdkRows
<1> QED
  BY <1>1, <1>2 DEF TurnInv

(* What is recorded as consumed stays so, whenever the answer of its call is read (deliver_input of
   runtime.py), for any number of messages, of tasks and any limit of the queue. *)
THEOREM ConsumptionIsFinal == InputSpec => ConsumedStays
<1>1. InputInit => InputInv
  BY InputStarts
<1>2. InputInv /\ [InputNext]_inputVars => InputInv'
  BY InputMoves
<1>3. InputInv /\ [InputNext]_inputVars =>
        [\A m \in Msgs : receipt[m].state = "consumed" =>
           receipt'[m].state = "consumed" \/ (rpc.msg = m /\ receipt'[m].state \in {"unknown", "not_consumed"})]_inputVars
  BY InputMoves DEF ReceiptsMove
<1> QED
  BY <1>1, <1>2, <1>3, PTL DEF InputSpec, ConsumedStays

(* The session is prompted by one caller, and a run that finished leaves no receipt waiting (task-queue.mjs
   and settle() of runtime.py), for any number of messages, of tasks and any limit of the queue. *)
THEOREM OneTurnAtATime == InputSpec => [](OneTurn /\ NoReceiptWaits)
<1>1. InputInit => InputInv /\ TurnInv
  BY InputStarts, TurnStarts
<1>2. InputInv /\ TurnInv /\ [InputNext]_inputVars => (InputInv /\ TurnInv)'
  BY InputMoves, InputTurns
<1>3. InputInv /\ TurnInv => OneTurn /\ NoReceiptWaits
  BY DEF InputInv, TurnInv, OneTurn, NoReceiptWaits, PendingInputs
<1> QED
  BY <1>1, <1>2, <1>3, PTL DEF InputSpec
-----------------------------------------------------------------------------
(* WebSessions.  The invariant says in one part what the results and their holders are, in another where the
   clone stands that a fetch waits for and a session was given, and whose session a fetch lasts as long as. *)
WebPcs == {"new", "sizing", "waiting", "found", "published", "over"}
WebFetches ==
  [pc : WebPcs, host : Hosts \union {NoHost}, background : BOOLEAN, pending : BOOLEAN, current : BOOLEAN, on : Fetches \union {NoClone}]
WebClones == [run : {"none", "running", "ok", "failed"}, at : Runtimes, since : SUBSET Hosts]
WebTypes ==
  /\ live \in SUBSET Hosts /\ starts \in 0..MaxStarts /\ fetch \in [Fetches -> WebFetches] /\ clone \in [Fetches -> WebClones]
  /\ cache \in Fetches \union {NoClone} /\ runtime \in [made : 0..MaxStarts, open : BOOLEAN]
  /\ disk \in [Runtimes -> Fetches \union {NoClone}] /\ mem \in [Fetches -> {"none", "ref", "whole"}]
  /\ holders \in [Fetches -> Nat] /\ owned \in [Hosts -> SUBSET Fetches] /\ whole \in [Hosts -> SUBSET Fetches]
  /\ given \in [Hosts -> SUBSET Fetches] /\ dropped \in SUBSET Fetches

(* A fetch under way, with whose session it lasts: in the foreground as long as the turn, in the background
   until it is aborted. *)
UnderWay(q) == q.pc \in {"sizing", "waiting", "found"}
FetchFits(q) ==
  /\ q.pc # "new" => q.host \in Hosts
  /\ q.pending => q.host \in live
  /\ UnderWay(q) /\ ~q.background => q.host \in live
  /\ UnderWay(q) /\ (q.pending \/ ~q.background) => q.current
  /\ q.pc = "published" => q.current
(* One that waits for a clone, and still wants it, was there when the clone was last asked for. *)
WaitFits(q) ==
  /\ q.on # NoClone => clone[q.on].run # "none"
  /\ q.pc = "waiting" => q.on # NoClone /\ clone[q.on].run = "running"
  /\ q.pc = "waiting" /\ q.pending => clone[q.on].at = runtime.made /\ runtime.open /\ q.host \in clone[q.on].since
(* A path that a clone had which the failure of another took out of the cache. *)
Lost(p) == \E d \in dropped : clone[d].at = p
(* A clone of the runtime directory in use is the cached one, or its path is lost. *)
CloneFits(c) ==
  /\ clone[c].run = "none" => c \notin dropped /\ cache # c
  /\ fetch[c].pc \in {"new", "sizing"} => clone[c].run = "none"
  /\ clone[c].run # "none" => clone[c].at <= runtime.made
  /\ clone[c].run = "running" /\ clone[c].at = runtime.made /\ runtime.open => cache = c \/ Lost(clone[c].at)
  /\ clone[c].since \subseteq live
(* The cached clone runs or is complete, in the directory in use, with its files there unless its path is lost. *)
CacheFits ==
  cache # NoClone =>
    /\ clone[cache].at = runtime.made /\ runtime.open /\ clone[cache].run \in {"running", "ok"}
    /\ clone[cache].run = "ok" /\ ~Lost(clone[cache].at) => disk[clone[cache].at] = cache
(* What a session was given counts the session among its users. *)
GivenFits ==
  \A h \in Hosts : \A c \in given[h] :
    /\ h \in live /\ h \in clone[c].since /\ clone[c].run = "ok" /\ clone[c].at = runtime.made /\ runtime.open
    /\ cache = c \/ Lost(clone[c].at)
(* A directory is made for sessions, one per start at most. *)
RuntimeFits ==
  /\ runtime.made <= starts
  /\ live # {} /\ ~runtime.open => runtime.made < starts
  /\ runtime.open => runtime.made > 0
(* A session's content is of results it owns. *)
WholeIsOwned == \A h \in Hosts : whole[h] \subseteq owned[h]
ClonesFit == \A c \in Fetches : CloneFits(c)
FetchesFit == \A f \in Fetches : FetchFits(fetch[f]) /\ WaitFits(fetch[f])
WebInv ==
  /\ WebTypes /\ FetchesFit /\ ClonesFit /\ CacheFits /\ GivenFits /\ RuntimeFits /\ WholeIsOwned /\ HoldsExact
-----------------------------------------------------------------------------
LEMMA WebSets ==
  /\ MaxFetches \in Nat /\ MaxStarts \in Nat \ {0} /\ IsFiniteSet(Hosts) /\ NoClone \notin Fetches /\ Fetches \subseteq Nat
  /\ Runtimes \subseteq Nat /\ NoFetch \in WebFetches /\ NoFetch.pc = "new" /\ ~NoFetch.pending /\ NoFetch.on = NoClone
  BY WebAssumption DEF NoClone, Fetches, Runtimes, NoFetch, WebFetches, WebPcs, NoHost
-----------------------------------------------------------------------------
(* The sessions that own a result, and how many they are. *)
Owners(r) == {h \in Hosts : r \in owned[h]}
LEMMA OwnersCounted ==
  ASSUME NEW O \in SUBSET Hosts
  PROVE  /\ IsFiniteSet(O) /\ Cardinality(O) \in Nat /\ (Cardinality(O) = 0 <=> O = {})
         /\ \A h \in O : Cardinality(O \ {h}) = Cardinality(O) - 1 /\ (Cardinality(O) <= 1 <=> O \ {h} = {})
         /\ \A h \in Hosts \ O : Cardinality(O \union {h}) = Cardinality(O) + 1
<1>1. IsFiniteSet(O)
  BY WebSets, FS_Subset
<1>2. Cardinality(O) \in Nat /\ (Cardinality(O) = 0 <=> O = {})
  BY <1>1, FS_CardinalityType, FS_EmptySet
<1>3. ASSUME NEW h \in O
      PROVE  Cardinality(O \ {h}) = Cardinality(O) - 1 /\ (Cardinality(O) <= 1 <=> O \ {h} = {})
  <2>1. IsFiniteSet(O \ {h}) /\ Cardinality(O \ {h}) = Cardinality(O) - 1
    BY <1>1, FS_RemoveElement
  <2>2. Cardinality(O \ {h}) \in Nat /\ (Cardinality(O \ {h}) = 0 <=> O \ {h} = {})
    BY <2>1, FS_CardinalityType, FS_EmptySet
  <2> QED
    BY <1>2, <2>1, <2>2
<1>4. \A h \in Hosts \ O : Cardinality(O \union {h}) = Cardinality(O) + 1
  BY <1>1, FS_AddElement
<1> QED
  BY <1>1, <1>2, <1>3, <1>4
LEMMA HoldsTell ==
  ASSUME HoldsExact
  PROVE  \A r \in Fetches : /\ holders[r] = Cardinality(Owners(r)) /\ (Owners(r) # {} <=> mem[r] # "none")
                            /\ \A h \in Hosts : r \in whole[h] => mem[r] = "whole"
  BY DEF HoldsExact, Owners
LEMMA HoldsNext ==
  ASSUME \A r \in Fetches : /\ holders'[r] = Cardinality(Owners(r)') /\ (Owners(r)' # {} <=> mem'[r] # "none")
                            /\ \A h \in Hosts : r \in whole'[h] => mem'[r] = "whole"
  PROVE  HoldsExact'
  BY DEF HoldsExact, Owners
(* What a session lets go of is kept for its other owners, and forgotten with the last. *)
LEMMA LetsGo ==
  ASSUME WebTypes, HoldsExact, NEW h \in Hosts, NEW rs \in SUBSET owned[h]
  PROVE  /\ HoldsWithout(rs) \in [Fetches -> Nat] /\ LetGoOf(rs) \in [Fetches -> {"none", "ref", "whole"}]
         /\ \A r \in Fetches : LET left == Owners(r) \ (IF r \in rs THEN {h} ELSE {})
                               IN  /\ HoldsWithout(rs)[r] = Cardinality(left) /\ (left # {} <=> LetGoOf(rs)[r] # "none")
                                   /\ left # {} => LetGoOf(rs)[r] = mem[r]
<1>1. \A r \in Fetches : Owners(r) \in SUBSET Hosts /\ (r \in owned[h] => h \in Owners(r))
  BY DEF Owners
<1>2. ASSUME NEW r \in Fetches
      PROVE  LET left == Owners(r) \ (IF r \in rs THEN {h} ELSE {})
             IN  /\ HoldsWithout(rs)[r] = Cardinality(left) /\ (left # {} <=> LetGoOf(rs)[r] # "none")
                 /\ left # {} => LetGoOf(rs)[r] = mem[r]
                 /\ HoldsWithout(rs)[r] \in Nat
  <2>1. /\ HoldsWithout(rs)[r] = IF r \notin rs THEN holders[r] ELSE IF holders[r] <= 1 THEN 0 ELSE holders[r] - 1
        /\ LetGoOf(rs)[r] = IF r \in rs /\ holders[r] <= 1 THEN "none" ELSE mem[r]
    BY DEF HoldsWithout, LetGoOf, LastHold
  <2>2. holders[r] = Cardinality(Owners(r)) /\ (Owners(r) # {} <=> mem[r] # "none") /\ holders[r] \in Nat
    BY HoldsTell DEF WebTypes
  <2>3. CASE r \notin rs
    <3>1. Owners(r) \ (IF r \in rs THEN {h} ELSE {}) = Owners(r)
      BY <2>3
    <3> QED
      BY <2>1, <2>2, <2>3, <3>1
  <2>4. CASE r \in rs
    <3>1. h \in Owners(r) /\ Owners(r) \ (IF r \in rs THEN {h} ELSE {}) = Owners(r) \ {h}
      BY <1>1, <2>4
    <3>0. PICK O \in SUBSET Hosts : O = Owners(r)
      BY <1>1
    <3>2. /\ Cardinality(Owners(r) \ {h}) = holders[r] - 1 /\ (holders[r] <= 1 <=> Owners(r) \ {h} = {})
          /\ holders[r] # 0
      <4>1. Cardinality(O \ {h}) = Cardinality(O) - 1 /\ (Cardinality(O) <= 1 <=> O \ {h} = {}) /\ Cardinality(O) # 0
        BY <3>0, <3>1, OwnersCounted
      <4> QED
        BY <2>2, <3>0, <4>1
    <3> QED
      BY <2>1, <2>2, <2>4, <3>1, <3>2
  <2> QED
    BY <2>3, <2>4
<1>3. HoldsWithout(rs) \in [Fetches -> Nat]
  BY <1>2 DEF HoldsWithout
<1>4. LetGoOf(rs) \in [Fetches -> {"none", "ref", "whole"}]
  BY DEF LetGoOf, WebTypes
<1> QED
  BY <1>2, <1>3, <1>4
(* A session owns something else: what is left of the others, and itself. *)
LEMMA OwnersMove ==
  ASSUME WebTypes, NEW h \in Hosts, NEW rs \in SUBSET Fetches, owned' = [owned EXCEPT ![h] = rs], NEW r \in Fetches
  PROVE  Owners(r)' = IF r \in rs THEN Owners(r) \union {h} ELSE Owners(r) \ {h}
  BY DEF WebTypes, Owners
ResultsFit ==
  /\ mem \in [Fetches -> {"none", "ref", "whole"}] /\ holders \in [Fetches -> Nat]
  /\ owned \in [Hosts -> SUBSET Fetches] /\ whole \in [Hosts -> SUBSET Fetches] /\ WholeIsOwned /\ HoldsExact
LEMMA ResultsKept ==
  ASSUME WebInv, UNCHANGED resultVars
  PROVE  ResultsFit'
  BY DEF WebInv, WebTypes, resultVars, ResultsFit, WholeIsOwned, HoldsExact

LEMMA PublishResults ==
  ASSUME WebInv, NEW f \in Fetches, Publish(f)
  PROVE  ResultsFit'
<1>1. CASE UNCHANGED resultVars
  BY <1>1, ResultsKept
<1>2. CASE ~UNCHANGED resultVars
  <2>1. PICK h \in Hosts : h = fetch[f].host
    BY DEF WebInv, FetchesFit, FetchFits, Publish
  <2>2. /\ mem' = [mem EXCEPT ![f] = "whole"] /\ holders' = HeldBy(h, {f})
        /\ owned' = [owned EXCEPT ![h] = owned[h] \union {f}] /\ whole' = [whole EXCEPT ![h] = whole[h] \union {f}]
    BY <1>2, <2>1 DEF Publish, WebInv, WebTypes
  <2>3. /\ mem' \in [Fetches -> {"none", "ref", "whole"}] /\ owned' \in [Hosts -> SUBSET Fetches] /\ whole' \in [Hosts -> SUBSET Fetches]
    BY <2>2 DEF WebInv, WebTypes
  <2>4. \A r \in Fetches : holders'[r] = IF r = f /\ r \notin owned[h] THEN holders[r] + 1 ELSE holders[r]
    BY <2>2 DEF HeldBy
  <2>5. holders' \in [Fetches -> Nat]
    BY <2>2 DEF HeldBy, WebInv, WebTypes
  <2>6. WholeIsOwned'
    BY <2>2 DEF WholeIsOwned, WebInv, WebTypes
  <2>7. ASSUME NEW r \in Fetches
        PROVE  /\ holders'[r] = Cardinality(Owners(r)') /\ (Owners(r)' # {} <=> mem'[r] # "none")
               /\ \A k \in Hosts : r \in whole'[k] => mem'[r] = "whole"
    <3>1. Owners(r)' = IF r \in owned[h] \union {f} THEN Owners(r) \union {h} ELSE Owners(r) \ {h}
      <4>1. PICK rs \in SUBSET Fetches : rs = owned[h] \union {f}
        BY DEF WebInv, WebTypes
      <4>2. WebTypes /\ owned' = [owned EXCEPT ![h] = rs]
        BY <2>2, <4>1 DEF WebInv
      <4>3. Owners(r)' = IF r \in rs THEN Owners(r) \union {h} ELSE Owners(r) \ {h}
        BY <4>2, OwnersMove
      <4> QED
        BY <4>1, <4>3
    <3>2. holders[r] = Cardinality(Owners(r)) /\ (Owners(r) # {} <=> mem[r] # "none")
          /\ \A k \in Hosts : r \in whole[k] => mem[r] = "whole"
      BY HoldsTell DEF WebInv
    <3>3. Owners(r) \in SUBSET Hosts /\ (h \in Owners(r) <=> r \in owned[h])
      BY DEF Owners
    <3>4. CASE r = f
      <4>1. Owners(r)' = Owners(r) \union {h} /\ mem'[r] = "whole"
        BY <2>2, <3>1, <3>4 DEF WebInv, WebTypes
      <4>2. CASE r \in owned[h]
        BY <2>4, <3>2, <3>3, <4>1, <4>2
      <4>3. CASE r \notin owned[h]
        <5>1. Cardinality(Owners(r) \union {h}) = Cardinality(Owners(r)) + 1
          BY <3>3, <4>3, OwnersCounted
        <5> QED
          BY <2>4, <3>2, <3>4, <4>1, <4>3, <5>1
      <4> QED
        BY <4>2, <4>3
    <3>5. CASE r # f
      <4>0. Owners(r)' = Owners(r)
        <5>1. CASE r \in owned[h]
          BY <3>1, <3>3, <5>1
        <5>2. CASE r \notin owned[h]
          BY <3>1, <3>3, <3>5, <5>2
        <5> QED
          BY <5>1, <5>2
      <4>1. Owners(r)' = Owners(r) /\ mem'[r] = mem[r] /\ holders'[r] = holders[r]
        BY <2>2, <2>4, <3>5, <4>0 DEF WebInv, WebTypes
      <4>2. \A k \in Hosts : r \in whole'[k] => r \in whole[k]
        BY <2>2, <3>5 DEF WebInv, WebTypes
      <4> QED
        BY <3>2, <4>1, <4>2
    <3> QED
      BY <3>4, <3>5
  <2> QED
    BY <2>3, <2>5, <2>6, <2>7, HoldsNext DEF ResultsFit
<1> QED
  BY <1>1, <1>2

LEMMA DeleteResults ==
  ASSUME WebInv, NEW h \in Hosts, NEW r \in Fetches, DeleteResult(h, r)
  PROVE  ResultsFit'
<1>1. /\ r \in owned[h] /\ owned' = [owned EXCEPT ![h] = owned[h] \ {r}] /\ whole' = [whole EXCEPT ![h] = whole[h] \ {r}]
      /\ WebTypes /\ HoldsExact /\ WholeIsOwned
  BY DEF DeleteResult, WebInv, WebTypes
<1>2. mem' = LetGoOf({r}) /\ holders' = HoldsWithout({r})
  <2>1. CASE holders[r] <= 1
    BY <1>1, <2>1 DEF DeleteResult, DeletesOutright, LetGoOf, HoldsWithout, LastHold, WebTypes
  <2> QED
    BY <2>1 DEF DeleteResult, DeletesOutright
<1>3. /\ owned' \in [Hosts -> SUBSET Fetches] /\ whole' \in [Hosts -> SUBSET Fetches] /\ WholeIsOwned'
  BY <1>1 DEF WebTypes, WholeIsOwned
<1>5. PICK one \in SUBSET owned[h] : one = {r}
  BY <1>1
<1>6. mem' = LetGoOf(one) /\ holders' = HoldsWithout(one)
  BY <1>2, <1>5
<1>4. ASSUME NEW k \in Fetches
      PROVE  /\ holders'[k] = Cardinality(Owners(k)') /\ (Owners(k)' # {} <=> mem'[k] # "none")
             /\ \A g \in Hosts : k \in whole'[g] => mem'[k] = "whole"
  <2>1. Owners(k)' = Owners(k) \ (IF k \in {r} THEN {h} ELSE {})
    <3>1. Owners(k)' = IF k \in owned[h] \ {r} THEN Owners(k) \union {h} ELSE Owners(k) \ {h}
      <4>1. PICK rs \in SUBSET Fetches : rs = owned[h] \ {r}
        BY <1>1 DEF WebTypes
      <4>2. owned' = [owned EXCEPT ![h] = rs]
        BY <1>1, <4>1
      <4>3. Owners(k)' = IF k \in rs THEN Owners(k) \union {h} ELSE Owners(k) \ {h}
        BY <1>1, <4>2, OwnersMove
      <4> QED
        BY <4>1, <4>3
    <3> QED
      BY <1>1, <3>1 DEF Owners
  <2>2. /\ holders'[k] = Cardinality(Owners(k)') /\ (Owners(k)' # {} <=> mem'[k] # "none") /\ (Owners(k)' # {} => mem'[k] = mem[k])
    BY <1>1, <1>5, <1>6, <2>1, LetsGo
  <2>3. ASSUME NEW g \in Hosts, k \in whole'[g]
        PROVE  mem'[k] = "whole"
    <3>1. k \in whole[g] /\ g \in Owners(k)'
      BY <1>1, <1>3, <2>3 DEF WebTypes, WholeIsOwned, Owners
    <3> QED
      BY <1>1, <2>2, <3>1, HoldsTell
  <2> QED
    BY <2>2, <2>3
<1>7. mem' \in [Fetches -> {"none", "ref", "whole"}] /\ holders' \in [Fetches -> Nat]
  BY <1>1, <1>6, LetsGo
<1> QED
  BY <1>3, <1>4, <1>7, HoldsNext DEF ResultsFit

LEMMA ReadBackResults ==
  ASSUME WebInv, NEW h \in Hosts, NEW r \in Fetches, ReadBack(h, r)
  PROVE  ResultsFit'
<1>1. /\ r \in owned[h] /\ mem[r] = "ref" /\ mem' = [mem EXCEPT ![r] = "whole"] /\ whole' = [whole EXCEPT ![h] = whole[h] \union {r}]
      /\ UNCHANGED <<holders, owned>> /\ WebTypes /\ HoldsExact /\ WholeIsOwned
  BY DEF ReadBack, WebInv, WebTypes
<1>2. mem' \in [Fetches -> {"none", "ref", "whole"}] /\ whole' \in [Hosts -> SUBSET Fetches] /\ WholeIsOwned'
  BY <1>1 DEF WebTypes, WholeIsOwned
<1>3. ASSUME NEW k \in Fetches
      PROVE  /\ holders'[k] = Cardinality(Owners(k)') /\ (Owners(k)' # {} <=> mem'[k] # "none")
             /\ \A g \in Hosts : k \in whole'[g] => mem'[k] = "whole"
  <2>1. Owners(k)' = Owners(k) /\ holders'[k] = holders[k] /\ mem'[k] = (IF k = r THEN "whole" ELSE mem[k])
        /\ \A g \in Hosts : k \in whole'[g] => k \in whole[g] \/ k = r
    BY <1>1 DEF Owners, WebTypes
  <2> QED
    BY <1>1, <2>1, HoldsTell
<1> QED
  BY <1>1, <1>2, <1>3, HoldsNext DEF ResultsFit, WebTypes

LEMMA EndResults ==
  ASSUME WebInv, NEW h \in Hosts, EndSession(h)
  PROVE  ResultsFit'
<1>1. /\ owned' = [owned EXCEPT ![h] = {}] /\ whole' = [whole EXCEPT ![h] = {}] /\ mem' = LetGoOf(owned[h]) /\ holders' = HoldsWithout(owned[h])
      /\ WebTypes /\ HoldsExact /\ WholeIsOwned
  BY DEF EndSession, WebInv
<1>2. /\ owned' \in [Hosts -> SUBSET Fetches] /\ whole' \in [Hosts -> SUBSET Fetches] /\ WholeIsOwned'
  BY <1>1 DEF WebTypes, WholeIsOwned
<1>3. ASSUME NEW k \in Fetches
      PROVE  /\ holders'[k] = Cardinality(Owners(k)') /\ (Owners(k)' # {} <=> mem'[k] # "none")
             /\ \A g \in Hosts : k \in whole'[g] => mem'[k] = "whole"
  <2>1. Owners(k)' = Owners(k) \ (IF k \in owned[h] THEN {h} ELSE {})
    <3>1. Owners(k)' = IF k \in {} THEN Owners(k) \union {h} ELSE Owners(k) \ {h}
      <4>1. PICK rs \in SUBSET Fetches : rs = {}
        OBVIOUS
      <4>2. owned' = [owned EXCEPT ![h] = rs]
        BY <1>1, <4>1
      <4>3. Owners(k)' = IF k \in rs THEN Owners(k) \union {h} ELSE Owners(k) \ {h}
        BY <1>1, <4>2, OwnersMove
      <4> QED
        BY <4>1, <4>3
    <3> QED
      BY <3>1 DEF Owners
  <2>2. /\ holders'[k] = Cardinality(Owners(k)') /\ (Owners(k)' # {} <=> mem'[k] # "none") /\ (Owners(k)' # {} => mem'[k] = mem[k])
    BY <1>1, <2>1, LetsGo
  <2>3. ASSUME NEW g \in Hosts, k \in whole'[g]
        PROVE  mem'[k] = "whole"
    <3>1. k \in whole[g] /\ g \in Owners(k)'
      BY <1>1, <1>2, <2>3 DEF WebTypes, WholeIsOwned, Owners
    <3> QED
      BY <1>1, <2>2, <3>1, HoldsTell
  <2> QED
    BY <2>2, <2>3
<1> QED
  BY <1>1, <1>2, <1>3, LetsGo, HoldsNext DEF ResultsFit

LEMMA StartResults ==
  ASSUME WebInv, NEW h \in Hosts, NEW journal \in SUBSET Publishable, StartSession(h, journal)
  PROVE  ResultsFit'
<1> DEFINE kept == LetGoOf(owned[h])
           held == HoldsWithout(owned[h])
<1>1. /\ mem' = [r \in Fetches |-> IF r \in journal THEN (IF kept[r] = "none" THEN "ref" ELSE kept[r]) ELSE kept[r]]
      /\ holders' = [r \in Fetches |-> held[r] + IF r \in journal THEN 1 ELSE 0]
      /\ owned' = [owned EXCEPT ![h] = journal]
      /\ whole' = [whole EXCEPT ![h] = {r \in journal : (IF r \in journal THEN Loaded(kept, r) ELSE kept[r]) = "whole"}]
      /\ WebTypes /\ HoldsExact /\ WholeIsOwned /\ journal \in SUBSET Fetches
  BY DEF StartSession, WebInv, Loaded, Publishable, WebTypes
<1>2. /\ held \in [Fetches -> Nat] /\ kept \in [Fetches -> {"none", "ref", "whole"}]
      /\ \A r \in Fetches : LET left == Owners(r) \ (IF r \in owned[h] THEN {h} ELSE {})
                            IN  /\ held[r] = Cardinality(left) /\ (left # {} <=> kept[r] # "none")
                                /\ left # {} => kept[r] = mem[r]
  BY <1>1, LetsGo
<1> HIDE DEF kept, held
<1>3. mem' \in [Fetches -> {"none", "ref", "whole"}] /\ holders' \in [Fetches -> Nat]
  BY <1>1, <1>2
<1>4. owned' \in [Hosts -> SUBSET Fetches] /\ whole' \in [Hosts -> SUBSET Fetches] /\ WholeIsOwned'
  BY <1>1 DEF WebTypes, WholeIsOwned
<1>5. ASSUME NEW k \in Fetches
      PROVE  /\ holders'[k] = Cardinality(Owners(k)') /\ (Owners(k)' # {} <=> mem'[k] # "none")
             /\ \A g \in Hosts : k \in whole'[g] => mem'[k] = "whole"
  <2>1. PICK left \in SUBSET Hosts : left = Owners(k) \ (IF k \in owned[h] THEN {h} ELSE {})
    BY DEF Owners
  <2>2. held[k] = Cardinality(left) /\ (left # {} <=> kept[k] # "none") /\ (left # {} => kept[k] = mem[k])
    BY <1>2, <2>1
  <2>3. h \notin left /\ \A g \in Hosts \ {h} : g \in left <=> k \in owned[g]
    BY <2>1 DEF Owners
  <2>4. Owners(k)' = IF k \in journal THEN left \union {h} ELSE left
    <3>1. Owners(k)' = IF k \in journal THEN Owners(k) \union {h} ELSE Owners(k) \ {h}
      BY <1>1, OwnersMove
    <3> QED
      BY <2>1, <3>1 DEF Owners
  <2>5. \A g \in Hosts \ {h} : k \in whole'[g] => left # {} /\ mem[k] = "whole"
    <3>1. \A g \in Hosts \ {h} : k \in whole'[g] => k \in whole[g]
      BY <1>1 DEF WebTypes
    <3> QED
      BY <1>1, <2>3, <3>1, HoldsTell DEF WholeIsOwned
  <2>6. CASE k \in journal
    <3>1. holders'[k] = held[k] + 1 /\ mem'[k] = (IF kept[k] = "none" THEN "ref" ELSE kept[k])
      BY <1>1, <2>6
    <3>2. Cardinality(left \union {h}) = Cardinality(left) + 1
      BY <2>3, OwnersCounted
    <3>3. k \in whole'[h] => mem'[k] = "whole"
      BY <1>1, <2>6, <3>1 DEF WebTypes, Loaded
    <3> QED
      BY <2>2, <2>4, <2>5, <2>6, <3>1, <3>2, <3>3
  <2>7. CASE k \notin journal
    <3>1. holders'[k] = held[k] /\ mem'[k] = kept[k]
      BY <1>1, <1>2, <2>7
    <3>2. k \notin whole'[h]
      BY <1>1, <2>7 DEF WebTypes
    <3> QED
      BY <2>2, <2>4, <2>5, <2>7, <3>1, <3>2
  <2> QED
    BY <2>6, <2>7
<1> QED
  BY <1>3, <1>4, <1>5, HoldsNext DEF ResultsFit

-----------------------------------------------------------------------------
LEMMA WebAssembled ==
  ASSUME live' \in SUBSET Hosts, starts' \in 0..MaxStarts, fetch' \in [Fetches -> WebFetches], clone' \in [Fetches -> WebClones],
         cache' \in Fetches \union {NoClone}, runtime' \in [made : 0..MaxStarts, open : BOOLEAN],
         disk' \in [Runtimes -> Fetches \union {NoClone}], given' \in [Hosts -> SUBSET Fetches], dropped' \in SUBSET Fetches,
         ResultsFit', FetchesFit', ClonesFit', CacheFits', GivenFits', RuntimeFits'
  PROVE  WebInv'
  BY DEF WebInv, WebTypes, ResultsFit
LEMMA WebFacts ==
  ASSUME WebInv
  PROVE  /\ live \in SUBSET Hosts /\ starts \in 0..MaxStarts /\ fetch \in [Fetches -> WebFetches] /\ clone \in [Fetches -> WebClones]
         /\ cache \in Fetches \union {NoClone} /\ runtime \in [made : 0..MaxStarts, open : BOOLEAN]
         /\ disk \in [Runtimes -> Fetches \union {NoClone}] /\ given \in [Hosts -> SUBSET Fetches] /\ dropped \in SUBSET Fetches
         /\ FetchesFit /\ ClonesFit /\ CacheFits /\ GivenFits /\ RuntimeFits
  BY DEF WebInv, WebTypes
(* One fetch moves on; the clones, and what the sessions have of them, stay as they are. *)
LEMMA FetchMoves ==
  ASSUME WebInv, ResultsFit', UNCHANGED <<live, starts, given>>, UNCHANGED cloneVars,
         NEW f \in Fetches, NEW q \in WebFetches, fetch' = [fetch EXCEPT ![f] = q], FetchFits(q), WaitFits(q),
         q.pc \in {"new", "sizing"} => fetch[f].pc \in {"new", "sizing"}
  PROVE  WebInv'
<1>1. UNCHANGED <<live, starts, given, clone, cache, runtime, disk, dropped>>
  BY DEF cloneVars
<1>2. fetch' \in [Fetches -> WebFetches] /\ \A g \in Fetches : fetch'[g] = IF g = f THEN q ELSE fetch[g]
  BY WebFacts
<1>3. FetchesFit'
  <2>1. ASSUME NEW g \in Fetches
        PROVE  (FetchFits(fetch[g]) /\ WaitFits(fetch[g]))'
    <3>1. CASE g = f
      BY <1>1, <1>2, <3>1 DEF FetchFits, WaitFits, UnderWay
    <3>2. CASE g # f
      <4>1. FetchFits(fetch[g]) /\ WaitFits(fetch[g]) /\ fetch'[g] = fetch[g]
        BY <1>2, <3>2, WebFacts DEF FetchesFit
      <4> QED
        BY <1>1, <4>1 DEF FetchFits, WaitFits, UnderWay
    <3> QED
      BY <3>1, <3>2
  <2> QED
    BY <2>1 DEF FetchesFit
<1>4. ClonesFit'
  <2>1. ASSUME NEW c \in Fetches
        PROVE  CloneFits(c)'
    <3>1. CloneFits(c) /\ (fetch'[c].pc \in {"new", "sizing"} => fetch[c].pc \in {"new", "sizing"})
      BY <1>2, WebFacts DEF ClonesFit
    <3> QED
      BY <1>1, <3>1 DEF CloneFits, Lost
  <2> QED
    BY <2>1 DEF ClonesFit
<1>5. CacheFits' /\ GivenFits' /\ RuntimeFits'
  BY <1>1, WebFacts DEF CacheFits, GivenFits, RuntimeFits, Lost
<1> QED
  BY <1>1, <1>2, <1>3, <1>4, <1>5, WebFacts, WebAssembled
LEMMA OnlyResultsMove ==
  ASSUME WebInv, ResultsFit', UNCHANGED <<live, starts, fetch, given>>, UNCHANGED cloneVars
  PROVE  WebInv'
<1>1. UNCHANGED <<live, starts, fetch, given, clone, cache, runtime, disk, dropped>>
  BY DEF cloneVars
<1>2. FetchesFit' /\ ClonesFit' /\ CacheFits' /\ GivenFits' /\ RuntimeFits'
  BY <1>1, WebFacts DEF FetchesFit, FetchFits, WaitFits, UnderWay, ClonesFit, CloneFits, CacheFits, GivenFits, RuntimeFits, Lost
<1> QED
  BY <1>1, <1>2, WebFacts, WebAssembled

(* A fetch finds the repository's clone, which counts the sessions of the moment as its users. *)
LEMMA JoinsClone ==
  ASSUME WebInv, ResultsFit', UNCHANGED <<live, starts, cache, runtime, disk, dropped>>, cache # NoClone,
         clone' = Touched(cache, live), NEW f \in Fetches, NEW q \in WebFetches, fetch' = [fetch EXCEPT ![f] = q], FetchFits(q),
         q.on = cache, q.pc = (IF clone[cache].run = "ok" THEN "found" ELSE "waiting"), q.host \in live, Gives(q.host, cache)
  PROVE  WebInv'
<1>1. cache \in Fetches /\ CacheFits /\ ClonesFit /\ FetchesFit /\ GivenFits /\ RuntimeFits /\ live \in SUBSET Hosts
  BY WebFacts
<1>2. fetch' \in [Fetches -> WebFetches] /\ \A g \in Fetches : fetch'[g] = IF g = f THEN q ELSE fetch[g]
  BY WebFacts
<1>3. PICK k : k = [clone[cache] EXCEPT !.since = live]
  OBVIOUS
<1>4. k \in WebClones /\ k.run = clone[cache].run /\ k.at = clone[cache].at /\ k.since = live
  BY <1>1, <1>3, WebFacts DEF WebClones
<1>5. clone' = [clone EXCEPT ![cache] = k]
  BY <1>1, <1>3, WebFacts DEF Touched, WebClones
<1>6. /\ clone' \in [Fetches -> WebClones]
      /\ \A c \in Fetches : /\ clone'[c].run = clone[c].run /\ clone'[c].at = clone[c].at
                            /\ clone'[c].since = IF c = cache THEN live ELSE clone[c].since
  BY <1>1, <1>4, <1>5, WebFacts
<1>7. \A p \in Runtimes : Lost(p)' <=> Lost(p)
  BY <1>6, WebFacts DEF Lost
<1>8. given' \in [Hosts -> SUBSET Fetches]
      /\ \A h \in Hosts : \A c \in given'[h] : c \in given[h] \/ (c = cache /\ h = q.host /\ clone[cache].run = "ok")
  BY <1>1, WebFacts DEF Gives
<1>9. FetchesFit'
  <2>1. ASSUME NEW g \in Fetches
        PROVE  (FetchFits(fetch[g]) /\ WaitFits(fetch[g]))'
    <3>1. CASE g = f
      BY <1>1, <1>2, <1>6, <3>1 DEF FetchFits, WaitFits, UnderWay, CacheFits
    <3>2. CASE g # f
      <4>1. FetchFits(fetch[g]) /\ WaitFits(fetch[g]) /\ fetch'[g] = fetch[g] /\ fetch[g].on \in Fetches \union {NoClone}
        BY <1>1, <1>2, <3>2, WebFacts DEF FetchesFit, WebFetches
      <4>2. FetchFits(fetch[g])'
        BY <4>1 DEF FetchFits, UnderWay
      <4>3. WaitFits(fetch[g])'
        BY <1>6, <4>1 DEF FetchFits, WaitFits
      <4> QED
        BY <4>2, <4>3
    <3> QED
      BY <3>1, <3>2
  <2> QED
    BY <2>1 DEF FetchesFit
<1>10. ClonesFit'
  <2>1. ASSUME NEW c \in Fetches
        PROVE  CloneFits(c)'
    <3>1. CloneFits(c) /\ (fetch'[c].pc \in {"new", "sizing"} => fetch[c].pc \in {"new", "sizing"}) /\ clone[c].at \in Runtimes
      BY <1>1, <1>2, WebFacts DEF ClonesFit, WebClones
    <3> QED
      BY <1>6, <1>7, <3>1 DEF CloneFits
  <2> QED
    BY <2>1 DEF ClonesFit
<1>11. CacheFits'
  <2>1. clone[cache].at \in Runtimes
    BY <1>1, WebFacts DEF WebClones
  <2> QED
    BY <1>1, <1>6, <1>7, <2>1 DEF CacheFits
<1>12. GivenFits'
  <2>1. ASSUME NEW h \in Hosts, NEW c \in given'[h]
        PROVE  /\ h \in live /\ h \in clone'[c].since /\ clone'[c].run = "ok" /\ clone'[c].at = runtime.made /\ runtime.open
               /\ cache = c \/ Lost(clone[c].at)'
    <3>1. c \in Fetches /\ clone[c].at \in Runtimes
      BY <1>8, WebFacts DEF WebClones
    <3>2. CASE c \in given[h]
      <4>1. /\ h \in live /\ h \in clone[c].since /\ clone[c].run = "ok" /\ clone[c].at = runtime.made /\ runtime.open
            /\ cache = c \/ Lost(clone[c].at)
        BY <1>1, <3>2 DEF GivenFits
      <4> QED
        BY <1>6, <1>7, <3>1, <4>1
    <3>3. CASE c = cache /\ h = q.host /\ clone[cache].run = "ok"
      BY <1>1, <1>6, <3>1, <3>3 DEF CacheFits
    <3> QED
      BY <1>8, <3>2, <3>3
  <2> QED
    BY <2>1 DEF GivenFits
<1>13. RuntimeFits'
  BY <1>1 DEF RuntimeFits
<1> QED
  BY <1>2, <1>6, <1>8, <1>9, <1>10, <1>11, <1>12, <1>13, WebFacts, WebAssembled

(* A fetch begins the clone of the repository, in the directory in use or in a new one. *)
LEMMA BeginsClone ==
  ASSUME WebInv, ResultsFit', UNCHANGED <<live, starts, given, dropped>>, cache = NoClone, NEW f \in Fetches,
         fetch[f].pc = "sizing", fetch[f].pending,
         runtime' = IF runtime.open THEN runtime ELSE [made |-> runtime.made + 1, open |-> TRUE],
         clone' = [clone EXCEPT ![f] = [run |-> "running", at |-> runtime'.made, since |-> live]],
         disk' = [disk EXCEPT ![runtime'.made] = NoClone],
         cache' = f, fetch' = [fetch EXCEPT ![f].pc = "waiting", ![f].on = f]
  PROVE  WebInv'
<1>1. /\ CacheFits /\ ClonesFit /\ FetchesFit /\ GivenFits /\ RuntimeFits /\ live \in SUBSET Hosts /\ fetch[f] \in WebFetches
      /\ runtime.made \in 0..MaxStarts /\ runtime.open \in BOOLEAN /\ starts \in 0..MaxStarts /\ MaxStarts \in Nat
  BY WebFacts, WebSets
<1>2. fetch[f].host \in live /\ FetchFits(fetch[f]) /\ clone[f].run = "none" /\ f \notin dropped
  BY <1>1 DEF FetchesFit, FetchFits, ClonesFit, CloneFits
<1>3. /\ runtime' \in [made : 0..MaxStarts, open : BOOLEAN] /\ runtime'.open /\ runtime'.made \in Runtimes
      /\ runtime'.made <= starts
      /\ runtime.open => runtime'.made = runtime.made
      /\ ~runtime.open => runtime'.made = runtime.made + 1
  <2>1. CASE runtime.open
    BY <1>1, <2>1, WebFacts DEF RuntimeFits, Runtimes
  <2>2. CASE ~runtime.open
    <3>1. runtime' = [made |-> runtime.made + 1, open |-> TRUE] /\ runtime.made < starts
      BY <1>1, <1>2, <2>2 DEF RuntimeFits
    <3>2. runtime.made + 1 \in 1..MaxStarts /\ runtime.made + 1 <= starts
      BY <1>1, <3>1
    <3> QED
      BY <2>2, <3>1, <3>2 DEF Runtimes
  <2> QED
    BY <2>1, <2>2
<1>4. PICK at \in Runtimes : at = runtime'.made
  BY <1>3
<1>5. PICK k : k = [run |-> "running", at |-> at, since |-> live]
  OBVIOUS
<1>6. k \in WebClones /\ k.run = "running" /\ k.at = at /\ k.since = live
  BY <1>1, <1>5 DEF WebClones
<1>7. clone' \in [Fetches -> WebClones] /\ \A c \in Fetches : clone'[c] = IF c = f THEN k ELSE clone[c]
  BY <1>4, <1>5, <1>6, WebFacts
<1>8. disk' \in [Runtimes -> Fetches \union {NoClone}]
  BY WebFacts
<1>9. PICK q : q = [fetch[f] EXCEPT !.pc = "waiting", !.on = f]
  OBVIOUS
<1>10. /\ q \in WebFetches /\ q.pc = "waiting" /\ q.on = f /\ q.host = fetch[f].host /\ q.pending = fetch[f].pending
       /\ q.background = fetch[f].background /\ q.current = fetch[f].current
  BY <1>1, <1>9 DEF WebFetches, WebPcs
<1>11. fetch' \in [Fetches -> WebFetches] /\ \A g \in Fetches : fetch'[g] = IF g = f THEN q ELSE fetch[g]
  BY <1>9, <1>10, WebFacts DEF WebFetches
<1>12. \A p \in Runtimes : Lost(p)' <=> Lost(p)
  BY <1>2, <1>7, WebFacts DEF Lost
<1>13. FetchesFit'
  <2>1. ASSUME NEW g \in Fetches
        PROVE  (FetchFits(fetch[g]) /\ WaitFits(fetch[g]))'
    <3>1. CASE g = f
      <4>1. FetchFits(fetch[g])'
        BY <1>2, <1>10, <1>11, <3>1 DEF FetchFits, UnderWay
      <4>2. WaitFits(fetch[g])'
        BY <1>2, <1>3, <1>4, <1>6, <1>7, <1>10, <1>11, <3>1, WebSets DEF WaitFits
      <4> QED
        BY <4>1, <4>2
    <3>2. CASE g # f
      <4>1. FetchFits(fetch[g]) /\ WaitFits(fetch[g]) /\ fetch'[g] = fetch[g] /\ fetch[g].on \in Fetches \union {NoClone}
        BY <1>1, <1>11, <3>2, WebFacts DEF FetchesFit, WebFetches
      <4>2. FetchFits(fetch[g])'
        BY <4>1 DEF FetchFits, UnderWay
      <4>3. fetch[g].on # f
        BY <1>2, <4>1, WebSets DEF WaitFits
      <4>4. WaitFits(fetch[g])'
        BY <1>3, <1>7, <4>1, <4>3 DEF WaitFits
      <4> QED
        BY <4>2, <4>4
    <3> QED
      BY <3>1, <3>2
  <2> QED
    BY <2>1 DEF FetchesFit
<1>14. ClonesFit'
  <2>1. ASSUME NEW c \in Fetches
        PROVE  CloneFits(c)'
    <3>1. CASE c = f
      BY <1>2, <1>3, <1>4, <1>6, <1>7, <1>10, <1>11, <3>1 DEF CloneFits
    <3>2. CASE c # f
      <4>1. CloneFits(c) /\ fetch'[c] = fetch[c] /\ clone'[c] = clone[c] /\ clone[c].at \in Runtimes /\ clone[c].at \in Nat
        BY <1>1, <1>7, <1>11, <3>2, WebFacts, WebSets DEF ClonesFit, WebClones
      <4>2. clone[c].run = "running" /\ clone[c].at = runtime'.made => runtime.open /\ Lost(clone[c].at)
        BY <1>1, <1>3, <4>1, WebSets DEF CloneFits
      <4>3. clone[c].run # "none" => clone[c].at <= runtime'.made
        BY <1>1, <1>3, <4>1 DEF CloneFits
      <4> QED
        BY <1>12, <3>2, <4>1, <4>2, <4>3 DEF CloneFits
    <3> QED
      BY <3>1, <3>2
  <2> QED
    BY <2>1 DEF ClonesFit
<1>15. CacheFits'
  BY <1>3, <1>4, <1>6, <1>7 DEF CacheFits
<1>16. GivenFits'
  <2>1. ASSUME NEW h \in Hosts, NEW c \in given[h]
        PROVE  /\ h \in live /\ h \in clone'[c].since /\ clone'[c].run = "ok" /\ clone'[c].at = runtime'.made /\ runtime'.open
               /\ Lost(clone[c].at)'
    <3>1. c \in Fetches /\ clone[c].at \in Runtimes
      BY WebFacts DEF WebClones
    <3>2. /\ h \in live /\ h \in clone[c].since /\ clone[c].run = "ok" /\ clone[c].at = runtime.made /\ runtime.open
          /\ cache = c \/ Lost(clone[c].at)
      BY <1>1, <2>1 DEF GivenFits
    <3>3. c # f /\ c # cache
      BY <1>2, <3>1, <3>2, WebSets
    <3> QED
      BY <1>3, <1>7, <1>12, <3>1, <3>2, <3>3
  <2> QED
    BY <2>1 DEF GivenFits
<1>17. RuntimeFits'
  BY <1>3 DEF RuntimeFits, Runtimes
<1> QED
  BY <1>3, <1>7, <1>8, <1>11, <1>13, <1>14, <1>15, <1>16, <1>17, WebFacts, WebAssembled

(* The clone's command ends: whoever waits goes on, and a failure takes what is cached out of the cache. *)
LEMMA CloneEndsKeeps ==
  ASSUME WebInv, NEW c \in Fetches, NEW ok \in BOOLEAN, CloneEnds(c, ok)
  PROVE  WebInv'
<1>1. /\ CacheFits /\ ClonesFit /\ FetchesFit /\ GivenFits /\ RuntimeFits /\ live \in SUBSET Hosts
      /\ clone[c] \in WebClones /\ clone[c].run = "running" /\ UNCHANGED <<live, starts, runtime>>
  BY WebFacts DEF CloneEnds
<1>2. ResultsFit'
  BY ResultsKept DEF CloneEnds
<1>3. PICK k : k = [clone[c] EXCEPT !.run = IF ok THEN "ok" ELSE "failed"]
  OBVIOUS
<1>4. k \in WebClones /\ k.run = (IF ok THEN "ok" ELSE "failed") /\ k.at = clone[c].at /\ k.since = clone[c].since
  BY <1>1, <1>3 DEF WebClones
<1>5. /\ clone' \in [Fetches -> WebClones]
      /\ \A d \in Fetches : /\ clone'[d].at = clone[d].at /\ clone'[d].since = clone[d].since
                            /\ clone'[d].run = IF d = c THEN (IF ok THEN "ok" ELSE "failed") ELSE clone[d].run
  <2>1. clone' = [clone EXCEPT ![c] = k]
    BY <1>3, WebFacts DEF CloneEnds, WebClones
  <2> QED
    BY <1>4, <2>1, WebFacts
<1>6. disk' = [disk EXCEPT ![clone[c].at] = IF ok THEN c ELSE NoClone] /\ disk' \in [Runtimes -> Fetches \union {NoClone}]
  BY WebFacts DEF CloneEnds
<1>7. /\ fetch' \in [Fetches -> WebFetches]
      /\ \A g \in Fetches : /\ g \notin Awaiting(c) => fetch'[g] = fetch[g]
                            /\ g \in Awaiting(c) => /\ fetch'[g].pc = (IF fetch[g].pending THEN "found" ELSE "over")
                                                    /\ fetch'[g].on = (IF ok THEN c ELSE NoClone) /\ fetch'[g].host = fetch[g].host
                                                    /\ fetch'[g].background = fetch[g].background
                                                    /\ fetch'[g].pending = fetch[g].pending /\ fetch'[g].current = fetch[g].current
  <2>1. ASSUME NEW g \in Fetches
        PROVE  /\ fetch'[g] \in WebFetches
               /\ g \notin Awaiting(c) => fetch'[g] = fetch[g]
               /\ g \in Awaiting(c) => /\ fetch'[g].pc = (IF fetch[g].pending THEN "found" ELSE "over")
                                       /\ fetch'[g].on = (IF ok THEN c ELSE NoClone) /\ fetch'[g].host = fetch[g].host
                                       /\ fetch'[g].background = fetch[g].background
                                       /\ fetch'[g].pending = fetch[g].pending /\ fetch'[g].current = fetch[g].current
    <3>1. fetch[g] \in WebFetches
      BY WebFacts
    <3>2. PICK pc \in WebPcs : pc = IF fetch[g].pending THEN "found" ELSE "over"
      BY DEF WebPcs
    <3>3. PICK on \in Fetches \union {NoClone} : on = IF ok THEN c ELSE NoClone
      OBVIOUS
    <3>4. PICK q : q = [fetch[g] EXCEPT !.pc = pc, !.on = on]
      OBVIOUS
    <3>5. /\ q \in WebFetches /\ q.pc = pc /\ q.on = on /\ q.host = fetch[g].host /\ q.background = fetch[g].background
          /\ q.pending = fetch[g].pending /\ q.current = fetch[g].current
      BY <3>1, <3>4 DEF WebFetches
    <3>6. fetch'[g] = IF g \notin Awaiting(c) THEN fetch[g] ELSE q
      BY <3>2, <3>3, <3>4 DEF CloneEnds
    <3> QED
      BY <3>1, <3>2, <3>3, <3>5, <3>6
  <2>2. fetch' = [g \in Fetches |-> fetch'[g]]
    BY DEF CloneEnds
  <2> QED
    BY <2>1, <2>2
<1>8. /\ given' \in [Hosts -> SUBSET Fetches]
      /\ \A h \in Hosts : \A d \in given'[h] :
           d \in given[h] \/ (ok /\ d = c /\ \E f \in Awaiting(c) : fetch[f].host = h /\ fetch[f].pending)
  BY WebFacts DEF CloneEnds
<1>9. /\ ok => UNCHANGED <<cache, dropped>>
      /\ ~ok => cache' = NoClone /\ dropped' = dropped \union ({cache} \ {c, NoClone})
      /\ cache' \in Fetches \union {NoClone} /\ dropped' \in SUBSET Fetches
  BY WebFacts DEF CloneEnds
<1>10. \A p \in Runtimes : /\ Lost(p) => Lost(p)'
                           /\ ok => (Lost(p)' <=> Lost(p))
                           /\ ~ok /\ cache \in Fetches /\ cache # c /\ clone[cache].at = p => Lost(p)'
  BY <1>5, <1>9, WebFacts, WebSets DEF Lost
<1>11. \A g \in Awaiting(c) : g \in Fetches /\ fetch[g].pc = "waiting" /\ fetch[g].on = c
  BY DEF Awaiting
<1>12. FetchesFit'
  <2>1. ASSUME NEW g \in Fetches
        PROVE  (FetchFits(fetch[g]) /\ WaitFits(fetch[g]))'
    <3>1. FetchFits(fetch[g]) /\ WaitFits(fetch[g]) /\ fetch[g].on \in Fetches \union {NoClone}
      BY <1>1, WebFacts DEF FetchesFit, WebFetches
    <3>2. CASE g \in Awaiting(c)
      <4>1. FetchFits(fetch[g])'
        BY <1>1, <1>7, <1>11, <3>1, <3>2 DEF FetchFits, UnderWay
      <4>2. WaitFits(fetch[g])'
        BY <1>5, <1>7, <3>2 DEF WaitFits
      <4> QED
        BY <4>1, <4>2
    <3>3. CASE g \notin Awaiting(c)
      <4>1. fetch'[g] = fetch[g] /\ (fetch[g].pc = "waiting" => fetch[g].on # c)
        BY <1>7, <3>3 DEF Awaiting
      <4>2. FetchFits(fetch[g])'
        BY <1>1, <3>1, <4>1 DEF FetchFits, UnderWay
      <4>3. WaitFits(fetch[g])'
        BY <1>1, <1>5, <3>1, <4>1 DEF WaitFits
      <4> QED
        BY <4>2, <4>3
    <3> QED
      BY <3>2, <3>3
  <2> QED
    BY <2>1 DEF FetchesFit
<1>13. ClonesFit'
  <2>1. ASSUME NEW d \in Fetches
        PROVE  CloneFits(d)'
    <3>1. CloneFits(d) /\ (fetch'[d].pc \in {"new", "sizing"} => fetch[d].pc \in {"new", "sizing"}) /\ clone[d].at \in Runtimes
      BY <1>1, <1>7, WebFacts DEF ClonesFit, WebClones
    <3>2. cache' = cache \/ cache' = NoClone
      BY <1>9
    <3>3. clone[d].run = "none" => d \notin dropped' /\ cache' # d /\ d # c
      BY <1>1, <1>9, <3>1, <3>2, WebSets DEF CloneFits, CacheFits
    <3>4. d # c /\ clone[d].run = "running" /\ clone[d].at = runtime.made /\ runtime.open => cache' = d \/ Lost(clone[d].at)'
      <4>1. ASSUME d # c, clone[d].run = "running", clone[d].at = runtime.made, runtime.open
            PROVE  cache' = d \/ Lost(clone[d].at)'
        <5>1. cache = d \/ Lost(clone[d].at)
          BY <3>1, <4>1 DEF CloneFits
        <5>2. PICK p \in Runtimes : p = clone[d].at /\ clone'[d].at = p
          BY <1>5, <3>1
        <5>3. cache' = d \/ Lost(p)'
          BY <1>9, <1>10, <4>1, <5>1, <5>2
        <5>4. Lost(p)' => Lost(clone[d].at)'
          BY <5>2 DEF Lost
        <5> QED
          BY <5>3, <5>4
      <4> QED
        BY <4>1
    <3> QED
      BY <1>1, <1>5, <3>1, <3>3, <3>4 DEF CloneFits
  <2> QED
    BY <2>1 DEF ClonesFit
<1>14. CacheFits'
  <2>1. CASE ~ok
    BY <1>9, <2>1 DEF CacheFits
  <2>2. CASE ok /\ cache # NoClone
    <3>1. PICK e \in Fetches : e = cache /\ cache' = e
      BY <1>9, <2>2, WebFacts
    <3>2. /\ clone[e].at = runtime.made /\ runtime.open /\ clone[e].run \in {"running", "ok"} /\ clone[e].at \in Runtimes
          /\ clone[e].run = "ok" /\ ~Lost(clone[e].at) => disk[clone[e].at] = e
      BY <1>1, <2>2, <3>1, WebFacts DEF CacheFits, WebClones
    <3>3. clone'[e].at = runtime'.made /\ runtime'.open /\ clone'[e].run \in {"running", "ok"}
      BY <1>1, <1>5, <2>2, <3>2
    <3>4. ASSUME clone'[e].run = "ok", ~Lost(clone[e].at)'
          PROVE  disk'[clone'[e].at] = e
      <4>1. ~Lost(clone[e].at)
        BY <1>5, <1>9, <2>2, <3>4 DEF Lost
      <4>2. CASE e = c
        BY <1>5, <1>6, <2>2, <3>2, <4>2, WebFacts
      <4>3. CASE e # c
        <5>1. clone[e].at # clone[c].at
          BY <1>1, <3>1, <3>2, <4>1, <4>3 DEF ClonesFit, CloneFits
        <5> QED
          BY <1>5, <1>6, <3>2, <3>4, <4>1, <4>3, <5>1, WebFacts
      <4> QED
        BY <4>2, <4>3
    <3> QED
      BY <3>1, <3>3, <3>4 DEF CacheFits
  <2>3. CASE ok /\ cache = NoClone
    BY <1>9, <2>3 DEF CacheFits
  <2> QED
    BY <2>1, <2>2, <2>3
<1>15. GivenFits'
  <2>1. ASSUME NEW h \in Hosts, NEW d \in given'[h]
        PROVE  /\ h \in live /\ h \in clone'[d].since /\ clone'[d].run = "ok" /\ clone'[d].at = runtime.made /\ runtime.open
               /\ cache' = d \/ Lost(clone[d].at)'
    <3>1. d \in Fetches /\ clone[d].at \in Runtimes
      BY <1>8, WebFacts DEF WebClones
    <3>0. PICK p \in Runtimes : p = clone[d].at /\ clone'[d].at = p
      BY <1>5, <3>1
    <3>2. CASE d \in given[h]
      <4>1. /\ h \in live /\ h \in clone[d].since /\ clone[d].run = "ok" /\ clone[d].at = runtime.made /\ runtime.open
            /\ cache = d \/ Lost(clone[d].at)
        BY <1>1, <3>2 DEF GivenFits
      <4>2. d # c
        BY <1>1, <4>1
      <4>3. cache' = d \/ Lost(p)'
        BY <1>9, <1>10, <3>0, <3>1, <4>1, <4>2
      <4>4. Lost(p)' => Lost(clone[d].at)'
        BY <3>0 DEF Lost
      <4> QED
        BY <1>5, <3>1, <4>1, <4>2, <4>3, <4>4
    <3>3. CASE ok /\ d = c /\ \E f \in Awaiting(c) : fetch[f].host = h /\ fetch[f].pending
      <4>1. PICK f \in Awaiting(c) : fetch[f].host = h /\ fetch[f].pending
        BY <3>3
      <4>2. FetchFits(fetch[f]) /\ WaitFits(fetch[f]) /\ fetch[f].pc = "waiting" /\ fetch[f].on = c
        BY <1>1, <1>11 DEF FetchesFit
      <4>3. h \in live /\ clone[c].at = runtime.made /\ runtime.open /\ h \in clone[c].since
        BY <4>1, <4>2 DEF FetchFits, WaitFits
      <4>4. cache = c \/ Lost(clone[c].at)
        BY <1>1, <4>3 DEF ClonesFit, CloneFits
      <4>5. cache' = c \/ Lost(p)'
        BY <1>9, <1>10, <3>0, <3>3, <4>4
      <4>6. Lost(p)' => Lost(clone[d].at)'
        BY <3>0 DEF Lost
      <4> QED
        BY <1>5, <3>1, <3>3, <4>3, <4>5, <4>6
    <3> QED
      BY <1>8, <3>2, <3>3
  <2> QED
    BY <1>1, <2>1 DEF GivenFits
<1>16. RuntimeFits'
  BY <1>1 DEF RuntimeFits
<1> QED
  BY <1>1, <1>2, <1>5, <1>6, <1>7, <1>8, <1>9, <1>12, <1>13, <1>14, <1>15, <1>16, WebFacts, WebAssembled

-----------------------------------------------------------------------------
(* A session is over: its fetches in the background are aborted, and it has no other under way. *)
LEMMA SessionOverTells ==
  ASSUME WebInv, NEW h \in Hosts, h \in live => TurnOver(h)
  PROVE  /\ SessionOver(h) \in [Fetches -> WebFetches]
         /\ \A f \in Fetches :
              LET q == SessionOver(h)[f]
                  r == fetch[f]
              IN  /\ q.pc = r.pc /\ q.host = r.host /\ q.background = r.background /\ q.on = r.on
                  /\ r.host # h => q = r
                  /\ r.host = h => ~q.pending /\ (r.pc = "published" => q.current = r.current) /\ (UnderWay(r) => r.background)
<1>1. ASSUME NEW f \in Fetches
      PROVE  LET q == SessionOver(h)[f]
                 r == fetch[f]
             IN  /\ q \in WebFetches /\ q.pc = r.pc /\ q.host = r.host /\ q.background = r.background /\ q.on = r.on
                 /\ r.host # h => q = r
                 /\ r.host = h => ~q.pending /\ (r.pc = "published" => q.current = r.current) /\ (UnderWay(r) => r.background)
  <2>1. fetch[f] \in WebFetches /\ FetchFits(fetch[f])
    BY WebFacts DEF FetchesFit
  <2>2. PICK b \in BOOLEAN : b = (fetch[f].current /\ fetch[f].pc = "published")
    OBVIOUS
  <2>3. PICK q : q = [fetch[f] EXCEPT !.pending = FALSE, !.current = b]
    OBVIOUS
  <2>4. /\ q \in WebFetches /\ q.pc = fetch[f].pc /\ q.host = fetch[f].host /\ q.background = fetch[f].background
        /\ q.on = fetch[f].on /\ q.pending = FALSE /\ q.current = b
    BY <2>1, <2>3 DEF WebFetches
  <2>5. SessionOver(h)[f] = IF fetch[f].host # h THEN fetch[f] ELSE q
    BY <2>1, <2>2, <2>3 DEF SessionOver, WebFetches
  <2>6. fetch[f].host = h /\ UnderWay(fetch[f]) => fetch[f].background
    BY <2>1 DEF FetchFits, UnderWay, TurnOver
  <2>7. fetch[f].pc = "published" => b = fetch[f].current
    BY <2>1, <2>2 DEF WebFetches
  <2> QED
    BY <2>1, <2>4, <2>5, <2>6, <2>7
<1>2. SessionOver(h) = [f \in Fetches |-> SessionOver(h)[f]]
  BY DEF SessionOver
<1> QED
  BY <1>1, <1>2
(* The clones after a session: the directory goes with the last, a clone that nobody else uses with its own. *)
LEMMA AfterTells ==
  ASSUME WebInv, NEW h \in Hosts
  PROVE  /\ After(h).cache \in {cache, NoClone} /\ After(h).disk \in [Runtimes -> Fetches \union {NoClone}]
         /\ After(h).runtime \in [made : 0..MaxStarts, open : BOOLEAN] /\ After(h).runtime.made = runtime.made
         /\ Others(h) # {} => After(h).runtime = runtime
         /\ Others(h) = {} => ~After(h).runtime.open
         /\ After(h).cache # NoClone => Others(h) # {} /\ After(h).disk = disk
         /\ Others(h) # {} /\ cache # NoClone /\ After(h).cache = NoClone =>
              clone[cache].run # "running" /\ clone[cache].since \intersect Others(h) = {}
<1>1. runtime \in [made : 0..MaxStarts, open : BOOLEAN] /\ disk \in [Runtimes -> Fetches \union {NoClone}]
  BY WebFacts
<1>2. CASE Others(h) = {}
  <2>1. PICK d : d = [r \in Runtimes |-> IF runtime.open /\ r = runtime.made THEN NoClone ELSE disk[r]]
    OBVIOUS
  <2>2. PICK m : m = [runtime EXCEPT !.open = FALSE]
    OBVIOUS
  <2>3. d \in [Runtimes -> Fetches \union {NoClone}]
    BY <1>1, <2>1
  <2>4. m \in [made : 0..MaxStarts, open : BOOLEAN] /\ m.made = runtime.made /\ ~m.open
    BY <1>1, <2>2
  <2>5. After(h) = [cache |-> NoClone, disk |-> d, runtime |-> m]
    BY <1>2, <2>1, <2>2 DEF After
  <2> QED
    BY <1>2, <2>3, <2>4, <2>5
<1>3. CASE Others(h) # {} /\ cache # NoClone /\ UnusedClone(h)
  <2>1. PICK d : d = [disk EXCEPT ![clone[cache].at] = NoClone]
    OBVIOUS
  <2>2. d \in [Runtimes -> Fetches \union {NoClone}]
    BY <1>1, <2>1
  <2>3. After(h) = [cache |-> NoClone, disk |-> d, runtime |-> runtime]
    BY <1>3, <2>1 DEF After
  <2> QED
    BY <1>1, <1>3, <2>2, <2>3 DEF UnusedClone
<1>4. CASE Others(h) # {} /\ ~(cache # NoClone /\ UnusedClone(h))
  <2>1. After(h) = [cache |-> cache, disk |-> disk, runtime |-> runtime]
    BY <1>4 DEF After
  <2> QED
    BY <1>1, <1>4, <2>1
<1> QED
  BY <1>2, <1>3, <1>4

(* One session ends, or ends and starts anew: the paths the others were given are still theirs. *)
LEMMA SessionMoves ==
  ASSUME WebInv, ResultsFit', NEW h \in Hosts, h \in live => TurnOver(h), fetch' = SessionOver(h), dropped' = dropped,
         cache' = After(h).cache, disk' = After(h).disk, runtime' = After(h).runtime,
         \/ live' = Others(h) /\ starts' = starts
         \/ live' = live \union {h} /\ starts' = starts + 1 /\ starts < MaxStarts,
         clone' \in [Fetches -> WebClones],
         \A c \in Fetches : /\ clone'[c].run = clone[c].run /\ clone'[c].at = clone[c].at
                            /\ \/ clone'[c].since = clone[c].since \ {h}
                               \/ clone'[c].since = live \union {h} /\ h \in live',
         given' \in [Hosts -> SUBSET Fetches], \A k \in Hosts \ {h} : given'[k] = given[k],
         \A c \in given'[h] : c = cache' /\ clone[c].run = "ok" /\ clone'[c].since = live \union {h} /\ h \in live'
  PROVE  WebInv'
<1>1. /\ CacheFits /\ ClonesFit /\ FetchesFit /\ GivenFits /\ RuntimeFits /\ live \in SUBSET Hosts /\ Others(h) = live \ {h}
      /\ starts \in 0..MaxStarts /\ runtime \in [made : 0..MaxStarts, open : BOOLEAN] /\ MaxStarts \in Nat
  BY WebFacts, WebSets DEF Others
<1>2. /\ cache' \in {cache, NoClone} /\ disk' \in [Runtimes -> Fetches \union {NoClone}]
      /\ runtime' \in [made : 0..MaxStarts, open : BOOLEAN] /\ runtime'.made = runtime.made
      /\ live \ {h} # {} => runtime'.open = runtime.open
      /\ live \ {h} = {} => ~runtime'.open
      /\ cache' # NoClone => live \ {h} # {} /\ disk' = disk
      /\ live \ {h} # {} /\ cache # NoClone /\ cache' = NoClone =>
           clone[cache].run # "running" /\ clone[cache].since \intersect (live \ {h}) = {}
  BY <1>1, AfterTells
<1>3. /\ fetch' \in [Fetches -> WebFetches]
      /\ \A f \in Fetches :
           /\ fetch'[f].pc = fetch[f].pc /\ fetch'[f].host = fetch[f].host /\ fetch'[f].background = fetch[f].background
           /\ fetch'[f].on = fetch[f].on
           /\ fetch[f].host # h => fetch'[f] = fetch[f]
           /\ fetch[f].host = h => /\ ~fetch'[f].pending /\ (fetch[f].pc = "published" => fetch'[f].current = fetch[f].current)
                                   /\ UnderWay(fetch[f]) => fetch[f].background
  BY SessionOverTells
<1>4. live' \in SUBSET Hosts /\ starts' \in 0..MaxStarts /\ live \ {h} \subseteq live' /\ starts <= starts'
      /\ (h \in live' => live' = live \union {h})
  BY <1>1
<1>5. \A p \in Runtimes : Lost(p)' <=> Lost(p)
  BY WebFacts DEF Lost
<1>6. FetchesFit'
  <2>1. ASSUME NEW f \in Fetches
        PROVE  (FetchFits(fetch[f]) /\ WaitFits(fetch[f]))'
    <3>1. FetchFits(fetch[f]) /\ WaitFits(fetch[f]) /\ fetch[f].on \in Fetches \union {NoClone}
      BY <1>1, WebFacts DEF FetchesFit, WebFetches
    <3>2. CASE fetch[f].host = h
      <4>1. FetchFits(fetch[f])'
        BY <1>3, <3>1, <3>2 DEF FetchFits, UnderWay
      <4>2. WaitFits(fetch[f])'
        BY <1>3, <3>1, <3>2 DEF WaitFits
      <4> QED
        BY <4>1, <4>2
    <3>3. CASE fetch[f].host # h
      <4>1. fetch'[f] = fetch[f]
        BY <1>3, <3>3
      <4>2. FetchFits(fetch[f])'
        BY <1>4, <3>1, <3>3, <4>1 DEF FetchFits, UnderWay
      <4>3. fetch[f].pending => fetch[f].host \in live \ {h} /\ runtime'.open = runtime.open
        BY <1>2, <3>1, <3>3 DEF FetchFits
      <4>4. WaitFits(fetch[f])'
        BY <1>2, <3>1, <3>3, <4>1, <4>3 DEF WaitFits
      <4> QED
        BY <4>2, <4>4
    <3> QED
      BY <3>2, <3>3
  <2> QED
    BY <2>1 DEF FetchesFit
<1>7. ClonesFit'
  <2>1. ASSUME NEW c \in Fetches
        PROVE  CloneFits(c)'
    <3>1. CloneFits(c) /\ fetch'[c].pc = fetch[c].pc /\ clone[c].at \in Runtimes
      BY <1>1, <1>3, WebFacts DEF ClonesFit, WebClones
    <3>2. clone'[c].since \subseteq live'
      BY <1>1, <1>4, <3>1 DEF CloneFits
    <3>3. clone[c].run = "none" => cache' # c
      BY <1>2, <3>1, WebSets DEF CloneFits
    <3>4. clone[c].run = "running" /\ clone[c].at = runtime.made /\ runtime'.open => cache' = c \/ Lost(clone[c].at)
      <4>1. ASSUME clone[c].run = "running", clone[c].at = runtime.made, runtime'.open
            PROVE  cache' = c \/ Lost(clone[c].at)
        <5>1. live \ {h} # {} /\ runtime.open
          BY <1>2, <4>1
        <5>2. cache = c \/ Lost(clone[c].at)
          BY <3>1, <4>1, <5>1 DEF CloneFits
        <5> QED
          BY <1>2, <4>1, <5>1, <5>2, WebSets
      <4> QED
        BY <4>1
    <3>5. Lost(clone[c].at) => Lost(clone[c].at)'
      BY WebFacts DEF Lost
    <3> QED
      BY <1>2, <3>1, <3>2, <3>3, <3>4, <3>5 DEF CloneFits
  <2> QED
    BY <2>1 DEF ClonesFit
<1>8. CacheFits'
  <2>1. CASE cache' = NoClone
    BY <2>1 DEF CacheFits
  <2>2. CASE cache' # NoClone
    <3>1. PICK e \in Fetches : e = cache /\ cache' = e
      BY <1>2, <2>2, WebFacts
    <3>2. disk' = disk /\ runtime'.open = runtime.open
      BY <1>2, <2>2
    <3>3. /\ clone[e].at = runtime.made /\ runtime.open /\ clone[e].run \in {"running", "ok"}
          /\ clone[e].run = "ok" /\ ~Lost(clone[e].at) => disk[clone[e].at] = e
      BY <1>1, <1>2, <2>2, <3>1 DEF CacheFits
    <3>4. Lost(clone[e].at) => Lost(clone[e].at)'
      BY WebFacts DEF Lost
    <3> QED
      BY <1>2, <3>1, <3>2, <3>3, <3>4 DEF CacheFits
  <2> QED
    BY <2>1, <2>2
<1>9. GivenFits'
  <2>1. ASSUME NEW k \in Hosts, NEW c \in given'[k]
        PROVE  /\ k \in live' /\ k \in clone'[c].since /\ clone'[c].run = "ok" /\ clone'[c].at = runtime'.made /\ runtime'.open
               /\ cache' = c \/ Lost(clone[c].at)'
    <3>1. c \in Fetches
      OBVIOUS
    <3>2. CASE k = h
      <4>1. c = cache' /\ clone[c].run = "ok" /\ clone'[c].since = live \union {h} /\ h \in live'
        BY <3>2
      <4>2. cache' # NoClone /\ c = cache
        BY <1>2, <3>1, <4>1, WebSets
      <4>3. clone[c].at = runtime.made /\ runtime.open /\ runtime'.open
        BY <1>1, <1>2, <4>2 DEF CacheFits
      <4> QED
        BY <1>2, <3>1, <3>2, <4>1, <4>3
    <3>3. CASE k # h
      <4>1. c \in given[k]
        BY <3>3
      <4>2. /\ k \in live /\ k \in clone[c].since /\ clone[c].run = "ok" /\ clone[c].at = runtime.made /\ runtime.open
            /\ cache = c \/ Lost(clone[c].at)
        BY <1>1, <4>1 DEF GivenFits
      <4>3. live \ {h} # {} /\ k \in live' /\ k \in clone'[c].since
        BY <1>4, <3>1, <3>3, <4>2
      <4>4. cache' = c \/ Lost(clone[c].at)
        BY <1>2, <3>1, <3>3, <4>2, <4>3, WebSets
      <4>5. Lost(clone[c].at) => Lost(clone[c].at)'
        BY <3>1, WebFacts DEF Lost
      <4> QED
        BY <1>2, <3>1, <4>2, <4>3, <4>4, <4>5
    <3> QED
      BY <3>2, <3>3
  <2> QED
    BY <2>1 DEF GivenFits
<1>10. RuntimeFits'
  <2>1. CASE live \ {h} # {}
    BY <1>1, <1>2, <1>4, <2>1 DEF RuntimeFits
  <2>2. CASE live \ {h} = {}
    <3>1. live' # {} => starts' = starts + 1
      BY <1>1, <2>2
    <3> QED
      BY <1>1, <1>2, <1>4, <2>2, <3>1 DEF RuntimeFits
  <2> QED
    BY <2>1, <2>2
<1>11. cache' \in Fetches \union {NoClone} /\ dropped' \in SUBSET Fetches
  BY <1>2, WebFacts
<1> QED
  BY <1>2, <1>3, <1>4, <1>6, <1>7, <1>8, <1>9, <1>10, <1>11, WebAssembled
(* The users of the clones, set anew. *)
LEMMA SinceMoves ==
  ASSUME WebInv, NEW S \in [Fetches -> SUBSET Hosts], clone' = [c \in Fetches |-> [clone[c] EXCEPT !.since = S[c]]]
  PROVE  /\ clone' \in [Fetches -> WebClones]
         /\ \A c \in Fetches : clone'[c].run = clone[c].run /\ clone'[c].at = clone[c].at /\ clone'[c].since = S[c]
<1>1. ASSUME NEW c \in Fetches
      PROVE  /\ clone'[c] \in WebClones /\ clone'[c].run = clone[c].run /\ clone'[c].at = clone[c].at /\ clone'[c].since = S[c]
  <2>1. clone[c] \in WebClones
    BY WebFacts
  <2>2. PICK T \in SUBSET Hosts : T = S[c]
    OBVIOUS
  <2>3. PICK k : k = [clone[c] EXCEPT !.since = T]
    OBVIOUS
  <2>4. k \in WebClones /\ k.run = clone[c].run /\ k.at = clone[c].at /\ k.since = T
    BY <2>1, <2>3 DEF WebClones
  <2> QED
    BY <2>2, <2>3, <2>4
<1> QED
  BY <1>1
-----------------------------------------------------------------------------
LEMMA BeginFetchKeeps ==
  ASSUME WebInv, NEW f \in Fetches, NEW h \in Hosts, NEW background \in BOOLEAN, BeginFetch(f, h, background)
  PROVE  WebInv'
<1>1. /\ fetch[f].pc = "new" /\ h \in live /\ h \in Hosts /\ UNCHANGED <<live, starts, cache, runtime, disk, dropped>>
      /\ ResultsFit'
  BY ResultsKept DEF BeginFetch
<1>2. PICK began : began = [pc |-> "sizing", host |-> h, background |-> background, pending |-> TRUE, current |-> TRUE, on |-> NoClone]
  OBVIOUS
<1>3. CASE cache # NoClone
  <2>1. PICK pc \in WebPcs : pc = IF clone[cache].run = "ok" THEN "found" ELSE "waiting"
    BY DEF WebPcs
  <2>2. PICK q : q = [began EXCEPT !.pc = pc, !.on = cache]
    OBVIOUS
  <2>3. /\ q \in WebFetches /\ q.pc = pc /\ q.on = cache /\ q.host = h /\ q.background = background /\ q.pending /\ q.current
    BY <1>2, <2>2, WebFacts DEF WebFetches
  <2>4. clone' = Touched(cache, live) /\ Gives(q.host, cache) /\ fetch' = [fetch EXCEPT ![f] = q]
    BY <1>2, <1>3, <2>1, <2>2, <2>3 DEF BeginFetch, Found
  <2>5. FetchFits(q)
    BY <1>1, <2>3 DEF FetchFits, UnderWay
  <2> QED
    BY <1>1, <1>3, <2>1, <2>3, <2>4, <2>5, JoinsClone
<1>4. CASE cache = NoClone
  <2>1. /\ began \in WebFetches /\ began.pc = "sizing" /\ began.on = NoClone /\ began.host = h /\ began.pending /\ began.current
    BY <1>2 DEF WebFetches, WebPcs
  <2>2. fetch' = [fetch EXCEPT ![f] = began] /\ UNCHANGED <<clone, given>>
    BY <1>2, <1>4 DEF BeginFetch
  <2>3. FetchFits(began) /\ WaitFits(began)
    BY <1>1, <2>1 DEF FetchFits, WaitFits, UnderWay
  <2>4. UNCHANGED <<live, starts, given>> /\ UNCHANGED cloneVars
    BY <1>1, <2>2 DEF cloneVars
  <2> QED
    BY <1>1, <2>1, <2>2, <2>3, <2>4, FetchMoves
<1> QED
  BY <1>3, <1>4

LEMMA CloneOrWaitKeeps ==
  ASSUME WebInv, NEW f \in Fetches, CloneOrWait(f)
  PROVE  WebInv'
<1>1. /\ fetch[f].pc = "sizing" /\ fetch[f].pending /\ UNCHANGED <<live, starts, dropped>> /\ ResultsFit'
      /\ fetch[f] \in WebFetches /\ FetchFits(fetch[f])
  BY ResultsKept, WebFacts DEF CloneOrWait, FetchesFit
<1>2. CASE cache # NoClone
  <2>1. PICK pc \in WebPcs : pc = IF clone[cache].run = "ok" THEN "found" ELSE "waiting"
    BY DEF WebPcs
  <2>2. PICK q : q = [fetch[f] EXCEPT !.pc = pc, !.on = cache]
    OBVIOUS
  <2>3. /\ q \in WebFetches /\ q.pc = pc /\ q.on = cache /\ q.host = fetch[f].host /\ q.background = fetch[f].background
        /\ q.pending = fetch[f].pending /\ q.current = fetch[f].current
    BY <1>1, <2>2, WebFacts DEF WebFetches
  <2>4. /\ clone' = Touched(cache, live) /\ Gives(q.host, cache) /\ UNCHANGED <<cache, runtime, disk>>
        /\ fetch' = [fetch EXCEPT ![f].pc = pc, ![f].on = cache]
    BY <1>2, <2>1, <2>3 DEF CloneOrWait, Found, Cached
  <2>5. fetch' = [fetch EXCEPT ![f] = q]
    BY <1>1, <2>2, <2>4, WebFacts DEF WebFetches
  <2>6. FetchFits(q) /\ q.host \in live
    BY <1>1, <2>3 DEF FetchFits, UnderWay
  <2> QED
    BY <1>1, <1>2, <2>1, <2>3, <2>4, <2>5, <2>6, JoinsClone
<1>3. CASE cache = NoClone
  <2>1. /\ runtime' = (IF runtime.open THEN runtime ELSE [made |-> runtime.made + 1, open |-> TRUE])
        /\ clone' = [clone EXCEPT ![f] = [run |-> "running", at |-> runtime'.made, since |-> live]]
        /\ disk' = [disk EXCEPT ![runtime'.made] = NoClone]
        /\ cache' = f /\ fetch' = [fetch EXCEPT ![f].pc = "waiting", ![f].on = f] /\ UNCHANGED given
    BY <1>3 DEF CloneOrWait, Cached
  <2>2. UNCHANGED <<live, starts, given, dropped>>
    BY <1>1, <2>1
  <2> QED
    BY <1>1, <1>3, <2>1, <2>2, BeginsClone
<1> QED
  BY <1>2, <1>3

LEMMA NoCloneForKeeps ==
  ASSUME WebInv, NEW f \in Fetches, NoCloneFor(f)
  PROVE  WebInv'
<1>1. fetch[f].pc = "sizing" /\ fetch[f] \in WebFetches /\ FetchFits(fetch[f]) /\ WaitFits(fetch[f]) /\ ResultsFit'
  BY ResultsKept, WebFacts DEF NoCloneFor, FetchesFit
<1>2. PICK pc \in WebPcs : pc = IF fetch[f].pending THEN "found" ELSE "over"
  BY DEF WebPcs
<1>3. PICK q : q = [fetch[f] EXCEPT !.pc = pc]
  OBVIOUS
<1>4. /\ q \in WebFetches /\ q.pc = pc /\ q.on = fetch[f].on /\ q.host = fetch[f].host /\ q.background = fetch[f].background
      /\ q.pending = fetch[f].pending /\ q.current = fetch[f].current
  BY <1>1, <1>3 DEF WebFetches
<1>5. /\ fetch' = [fetch EXCEPT ![f] = q] /\ UNCHANGED <<live, starts, given>> /\ UNCHANGED cloneVars
  BY <1>2, <1>3 DEF NoCloneFor
<1>6. FetchFits(q) /\ WaitFits(q)
  BY <1>1, <1>2, <1>4 DEF FetchFits, WaitFits, UnderWay
<1> QED
  BY <1>1, <1>2, <1>4, <1>5, <1>6, FetchMoves

LEMMA AbortTurnKeeps ==
  ASSUME WebInv, NEW f \in Fetches, AbortTurn(f)
  PROVE  WebInv'
<1>1. /\ fetch[f].pc \in {"sizing", "waiting"} /\ fetch[f] \in WebFetches /\ FetchFits(fetch[f]) /\ WaitFits(fetch[f]) /\ ResultsFit'
  BY ResultsKept, WebFacts DEF AbortTurn, FetchesFit
<1>2. PICK q : q = [fetch[f] EXCEPT !.pending = FALSE]
  OBVIOUS
<1>3. /\ q \in WebFetches /\ q.pc = fetch[f].pc /\ q.on = fetch[f].on /\ q.host = fetch[f].host /\ q.background = fetch[f].background
      /\ ~q.pending /\ q.current = fetch[f].current
  BY <1>1, <1>2 DEF WebFetches
<1>4. /\ fetch' = [fetch EXCEPT ![f] = q] /\ UNCHANGED <<live, starts, given>> /\ UNCHANGED cloneVars
  BY <1>1, <1>2, WebFacts DEF AbortTurn, WebFetches
<1>5. FetchFits(q) /\ WaitFits(q)
  BY <1>1, <1>3 DEF FetchFits, WaitFits, UnderWay
<1> QED
  BY <1>1, <1>3, <1>4, <1>5, FetchMoves

LEMMA PublishKeeps ==
  ASSUME WebInv, NEW f \in Fetches, Publish(f)
  PROVE  WebInv'
<1>1. fetch[f].pc = "found" /\ fetch[f] \in WebFetches /\ FetchFits(fetch[f]) /\ WaitFits(fetch[f]) /\ ResultsFit'
  BY PublishResults, WebFacts DEF Publish, FetchesFit
<1>2. PICK pc \in WebPcs : pc = IF MayStore(f) THEN "published" ELSE "over"
  BY DEF WebPcs
<1>3. PICK q : q = [fetch[f] EXCEPT !.pc = pc]
  OBVIOUS
<1>4. /\ q \in WebFetches /\ q.pc = pc /\ q.on = fetch[f].on /\ q.host = fetch[f].host /\ q.background = fetch[f].background
      /\ q.pending = fetch[f].pending /\ q.current = fetch[f].current
  BY <1>1, <1>3 DEF WebFetches
<1>5. /\ fetch' = [fetch EXCEPT ![f] = q] /\ UNCHANGED <<live, starts, given>> /\ UNCHANGED cloneVars
  BY <1>2, <1>3 DEF Publish
<1>6. FetchFits(q) /\ WaitFits(q)
  BY <1>1, <1>2, <1>4 DEF FetchFits, WaitFits, UnderWay, MayStore
<1> QED
  BY <1>1, <1>2, <1>4, <1>5, <1>6, FetchMoves

LEMMA EndSessionKeeps ==
  ASSUME WebInv, NEW h \in Hosts, EndSession(h)
  PROVE  WebInv'
<1>1. /\ TurnOver(h) /\ fetch' = SessionOver(h) /\ dropped' = dropped /\ cache' = After(h).cache /\ disk' = After(h).disk
      /\ runtime' = After(h).runtime /\ live' = Others(h) /\ starts' = starts /\ given' = [given EXCEPT ![h] = {}]
      /\ clone' = [c \in Fetches |-> [clone[c] EXCEPT !.since = clone[c].since \ {h}]] /\ ResultsFit'
  BY EndResults DEF EndSession, LeaveSession
<1>2. PICK S : S = [c \in Fetches |-> clone[c].since \ {h}]
  OBVIOUS
<1>3. S \in [Fetches -> SUBSET Hosts]
  BY <1>2, WebFacts DEF WebClones
<1>4. clone' = [c \in Fetches |-> [clone[c] EXCEPT !.since = S[c]]]
  BY <1>1, <1>2
<1>5. /\ clone' \in [Fetches -> WebClones]
      /\ \A c \in Fetches : clone'[c].run = clone[c].run /\ clone'[c].at = clone[c].at /\ clone'[c].since = clone[c].since \ {h}
  <2>1. /\ clone' \in [Fetches -> WebClones]
        /\ \A c \in Fetches : clone'[c].run = clone[c].run /\ clone'[c].at = clone[c].at /\ clone'[c].since = S[c]
    BY <1>3, <1>4, SinceMoves
  <2>2. \A c \in Fetches : S[c] = clone[c].since \ {h}
    BY <1>2
  <2> QED
    BY <2>1, <2>2
<1>6. given' \in [Hosts -> SUBSET Fetches] /\ (\A k \in Hosts \ {h} : given'[k] = given[k]) /\ given'[h] = {}
  BY <1>1, WebFacts
<1> QED
  BY <1>1, <1>5, <1>6, SessionMoves

LEMMA StartSessionKeeps ==
  ASSUME WebInv, NEW h \in Hosts, NEW journal \in SUBSET Publishable, StartSession(h, journal)
  PROVE  WebInv'
<1>1. /\ h \in live => TurnOver(h)
      /\ fetch' = SessionOver(h) /\ dropped' = dropped /\ cache' = After(h).cache /\ disk' = After(h).disk
      /\ runtime' = After(h).runtime /\ live' = live \union {h} /\ starts' = starts + 1 /\ starts < MaxStarts /\ ResultsFit'
  BY StartResults DEF StartSession
<1>2. PICK used \in BOOLEAN : used = (cache' # NoClone /\ \E r \in journal : fetch[r].on # NoClone)
  OBVIOUS
<1>3. /\ clone' = [c \in Fetches |-> [clone[c] EXCEPT !.since = IF used /\ c = cache' THEN Retouched(h, c) ELSE clone[c].since \ {h}]]
      /\ given' = [given EXCEPT ![h] = {c \in {fetch[r].on : r \in journal} : c # NoClone /\ c = cache' /\ clone[c].run = "ok"}]
  BY <1>1, <1>2 DEF StartSession
<1>4. \A c \in Fetches : Retouched(h, c) = live \union {h}
  BY DEF Retouched, Others
<1>5. PICK S : S = [c \in Fetches |-> IF used /\ c = cache' THEN live \union {h} ELSE clone[c].since \ {h}]
  OBVIOUS
<1>6. S \in [Fetches -> SUBSET Hosts]
  BY <1>5, WebFacts DEF WebClones
<1>7. clone' = [c \in Fetches |-> [clone[c] EXCEPT !.since = S[c]]]
  BY <1>3, <1>4, <1>5
<1>8. /\ clone' \in [Fetches -> WebClones]
      /\ \A c \in Fetches : /\ clone'[c].run = clone[c].run /\ clone'[c].at = clone[c].at
                            /\ clone'[c].since = IF used /\ c = cache' THEN live \union {h} ELSE clone[c].since \ {h}
  <2>1. /\ clone' \in [Fetches -> WebClones]
        /\ \A c \in Fetches : clone'[c].run = clone[c].run /\ clone'[c].at = clone[c].at /\ clone'[c].since = S[c]
    BY <1>6, <1>7, SinceMoves
  <2>2. \A c \in Fetches : S[c] = IF used /\ c = cache' THEN live \union {h} ELSE clone[c].since \ {h}
    BY <1>5
  <2> QED
    BY <2>1, <2>2
<1>9. PICK paths \in SUBSET Fetches : paths = {c \in {fetch[r].on : r \in journal} : c # NoClone /\ c = cache' /\ clone[c].run = "ok"}
  <2>1. \A r \in journal : fetch[r].on \in Fetches \union {NoClone}
    BY WebFacts DEF Publishable, WebFetches
  <2>2. {c \in {fetch[r].on : r \in journal} : c # NoClone /\ c = cache' /\ clone[c].run = "ok"} \subseteq Fetches
    BY <2>1
  <2> QED
    BY <2>2
<1>10. given' \in [Hosts -> SUBSET Fetches] /\ (\A k \in Hosts \ {h} : given'[k] = given[k]) /\ given'[h] = paths
  BY <1>3, <1>9, WebFacts
<1>11. \A c \in paths : c = cache' /\ clone[c].run = "ok" /\ used
  BY <1>2, <1>9
<1> QED
  BY <1>1, <1>8, <1>10, <1>11, SessionMoves
-----------------------------------------------------------------------------
LEMMA WebStarts == WebInit => WebInv
<1> SUFFICES ASSUME WebInit
             PROVE  WebInv
  OBVIOUS
<1>1. /\ live = {} /\ starts = 0 /\ fetch = [f \in Fetches |-> NoFetch] /\ cache = NoClone
      /\ clone = [c \in Fetches |-> [run |-> "none", at |-> 1, since |-> {}]]
      /\ runtime = [made |-> 0, open |-> FALSE] /\ disk = [r \in Runtimes |-> NoClone]
      /\ mem = [r \in Fetches |-> "none"] /\ holders = [r \in Fetches |-> 0]
      /\ owned = [h \in Hosts |-> {}] /\ whole = [h \in Hosts |-> {}] /\ given = [h \in Hosts |-> {}] /\ dropped = {}
  BY DEF WebInit
<1>2. PICK k : k = [run |-> "none", at |-> 1, since |-> {}]
  OBVIOUS
<1>3. k \in WebClones /\ k.run = "none" /\ k.since = {}
  BY <1>2, WebSets DEF WebClones, Runtimes
<1>4. clone \in [Fetches -> WebClones] /\ fetch \in [Fetches -> WebFetches] /\ \A f \in Fetches : clone[f] = k /\ fetch[f] = NoFetch
  BY <1>1, <1>2, <1>3, WebSets
<1>5. WebTypes
  BY <1>1, <1>4, WebSets DEF WebTypes
<1>6. FetchesFit
  BY <1>4, WebSets DEF FetchesFit, FetchFits, WaitFits, UnderWay
<1>7. ClonesFit
  BY <1>1, <1>3, <1>4, WebSets DEF ClonesFit, CloneFits
<1>8. CacheFits /\ GivenFits /\ RuntimeFits /\ WholeIsOwned
  BY <1>1, WebSets DEF CacheFits, GivenFits, RuntimeFits, WholeIsOwned
<1>9. HoldsExact
  <2>1. \A r \in Fetches : {h \in Hosts : r \in owned[h]} = {} /\ holders[r] = 0 /\ mem[r] = "none"
                           /\ \A h \in Hosts : r \notin owned[h] /\ r \notin whole[h]
    BY <1>1
  <2>2. Cardinality({}) = 0
    BY FS_EmptySet
  <2> QED
    BY <2>1, <2>2 DEF HoldsExact
<1> QED
  BY <1>5, <1>6, <1>7, <1>8, <1>9 DEF WebInv

LEMMA WebKept == WebInv /\ [WebNext]_webVars => WebInv'
<1> SUFFICES ASSUME WebInv, [WebNext]_webVars
             PROVE  WebInv'
  OBVIOUS
<1>1. ASSUME NEW f \in Fetches, NEW h \in Hosts, NEW background \in BOOLEAN, BeginFetch(f, h, background)
      PROVE  WebInv'
  BY <1>1, BeginFetchKeeps
<1>2. ASSUME NEW f \in Fetches, CloneOrWait(f) \/ NoCloneFor(f) \/ AbortTurn(f) \/ Publish(f)
      PROVE  WebInv'
  BY <1>2, CloneOrWaitKeeps, NoCloneForKeeps, AbortTurnKeeps, PublishKeeps
<1>3. ASSUME NEW c \in Fetches, NEW ok \in BOOLEAN, CloneEnds(c, ok)
      PROVE  WebInv'
  BY <1>3, CloneEndsKeeps
<1>4. ASSUME NEW h \in Hosts, NEW r \in Fetches, DeleteResult(h, r)
      PROVE  WebInv'
  <2>1. ResultsFit' /\ UNCHANGED <<live, starts, fetch, given>> /\ UNCHANGED cloneVars
    BY <1>4, DeleteResults DEF DeleteResult
  <2> QED
    BY <2>1, OnlyResultsMove
<1>5. ASSUME NEW h \in Hosts, NEW r \in Fetches, ReadBack(h, r)
      PROVE  WebInv'
  <2>1. ResultsFit' /\ UNCHANGED <<live, starts, fetch, given>> /\ UNCHANGED cloneVars
    BY <1>5, ReadBackResults DEF ReadBack
  <2> QED
    BY <2>1, OnlyResultsMove
<1>6. ASSUME NEW h \in Hosts, EndSession(h)
      PROVE  WebInv'
  BY <1>6, EndSessionKeeps
<1>7. ASSUME NEW h \in Hosts, NEW journal \in SUBSET Publishable, StartSession(h, journal)
      PROVE  WebInv'
  BY <1>7, StartSessionKeeps
<1>8. ASSUME UNCHANGED webVars
      PROVE  WebInv'
  <2>1. UNCHANGED <<live, starts, fetch, given>> /\ UNCHANGED cloneVars /\ UNCHANGED resultVars
    BY <1>8 DEF webVars, cloneVars, resultVars
  <2> QED
    BY <2>1, ResultsKept, OnlyResultsMove
<1> QED
  BY <1>1, <1>2, <1>3, <1>4, <1>5, <1>6, <1>7, <1>8 DEF WebNext

LEMMA WebTold == WebInv => WebSound
<1> SUFFICES ASSUME WebInv
             PROVE  WebSound
  OBVIOUS
<1>1. ClonesKept
  <2>1. ASSUME NEW h \in Hosts, NEW c \in given[h], \A d \in dropped : clone[d].at # clone[c].at
        PROVE  disk[clone[c].at] = c
    <3>1. c \in Fetches /\ ~Lost(clone[c].at)
      BY <2>1, WebFacts DEF Lost
    <3>2. clone[c].run = "ok" /\ cache = c
      BY <3>1, WebFacts DEF GivenFits
    <3> QED
      BY <3>1, <3>2, WebFacts, WebSets DEF CacheFits
  <2> QED
    BY <2>1 DEF ClonesKept, PathOf
<1>2. HoldsExact
  BY DEF WebInv
<1>3. OwnPagesOnly
  BY WebFacts DEF OwnPagesOnly, FetchesFit, FetchFits
<1> QED
  BY <1>1, <1>2, <1>3 DEF WebSound

(* What the web tools keep for the sessions of one process (pi-web-access: index.ts, storage.ts, github-extract.ts):
   a clone's files stay at the path that a live session was given, each result in memory counts exactly the sessions
   that own it, and no session gets a page that an earlier one asked for, for any number of instances, fetches and
   session starts.                                                                                              *)
THEOREM PagesAreHeld == WebSpec => []WebSound
<1> QED
  BY WebStarts, WebKept, WebTold, PTL DEF WebSpec
=============================================================================
