--------------------------- MODULE ProtocolOutput ---------------------------
(* The child's only writer to the daemon (worker/protocol-output.mjs createProtocolOutput):
   SDK callbacks cannot wait for the pipe, so frames are kept while it is full, progress is
   coalesced, and a result, question or reply that does not fit ends the child.

   A frame is [critical, size, after]: after counts the critical frames given before it.
   External: the Node stream, which takes a frame at any fill and asks for a drain when it
   holds HighWater or more.                                                               *)
EXTENDS Naturals, Sequences, SequencesExt

CONSTANTS
  MaxFrames,    \* frames the SDK emits
  MaxBytes,     \* maxBytes, in sizes of a progress frame
  MaxPending,   \* 256
  HighWater     \* the stream's own mark

ASSUME OutputAssumption == {MaxFrames, MaxBytes, MaxPending, HighWater} \subseteq Nat \ {0}

VARIABLES
  pending,    \* frames not yet given to the stream
  buffer,     \* frames in the stream, writableLength
  out,        \* [blocked, failed]
  sent,       \* frames the daemon has read
  emitted     \* [critical, all]: how many frames were emitted

outputVars == <<pending, buffer, out, sent, emitted>>

-----------------------------------------------------------------------------
Bytes(q) == FoldSeq(LAMBDA f, n : n + f.size, 0, q)
NoProgress(q) == SelectSeq(q, LAMBDA f : f.critical)
OutputFailed == pending' = <<>> /\ out' = [out EXCEPT !.failed = TRUE] /\ UNCHANGED buffer

\* Progress replaces the progress it follows directly, and no other.
Coalesced(f) == IF ~f.critical /\ pending # <<>> /\ ~Last(pending).critical THEN Front(pending) ELSE pending
BytesOnly(q, f) == Bytes(q) + Bytes(buffer) + f.size > MaxBytes   \* mutant: small frames pile up
Full(q, f) == Bytes(q) + Bytes(buffer) + f.size > MaxBytes \/ Len(q) >= MaxPending
EvictsAll(q, f) == IF Full(q, f) /\ f.critical THEN <<>> ELSE q   \* mutant: whatever is pending makes room
Evicted(q, f) == IF Full(q, f) /\ f.critical THEN NoProgress(q) ELSE q

\* send(): the stream takes the frame, and from its mark on wants to drain first.
Output(f) ==
  /\ emitted.all < MaxFrames
  /\ emitted' = [critical |-> emitted.critical + (IF f.critical THEN 1 ELSE 0), all |-> emitted.all + 1]
  /\ LET q == Evicted(Coalesced(f), f)
     IN  IF out.failed THEN UNCHANGED <<pending, buffer, out>>
         ELSE IF Full(q, f)
         THEN IF f.critical THEN OutputFailed ELSE pending' = q /\ UNCHANGED <<buffer, out>>
         ELSE IF ~out.blocked
         THEN /\ buffer' = Append(buffer, f) /\ pending' = q
              /\ out' = [out EXCEPT !.blocked = Bytes(buffer') >= HighWater]
         ELSE pending' = Append(q, f) /\ UNCHANGED <<buffer, out>>
  /\ UNCHANGED sent

\* drain(): frames go out until the stream is full again. Only the stream's emptiness asks for it.
Taken == CHOOSE n \in 0..Len(pending) :
           /\ n = Len(pending) \/ Bytes(SubSeq(pending, 1, n)) >= HighWater
           /\ \A k \in 0..n - 1 : Bytes(SubSeq(pending, 1, k)) < HighWater
Drain ==
  /\ out.blocked /\ ~out.failed /\ buffer = <<>>
  /\ buffer' = SubSeq(pending, 1, Taken) /\ pending' = SubSeq(pending, Taken + 1, Len(pending))
  /\ out' = [out EXCEPT !.blocked = Bytes(buffer') >= HighWater]
  /\ UNCHANGED <<sent, emitted>>
\* The drain is not in time, or the pipe breaks.
Stalls ==
  /\ ~out.failed /\ out.blocked /\ OutputFailed /\ UNCHANGED <<sent, emitted>>
DaemonReads ==
  /\ buffer # <<>> /\ sent' = Append(sent, Head(buffer)) /\ buffer' = Tail(buffer)
  /\ UNCHANGED <<pending, out, emitted>>

-----------------------------------------------------------------------------
OutputInit ==
  /\ pending = <<>> /\ buffer = <<>> /\ sent = <<>>
  /\ out = [blocked |-> FALSE, failed |-> FALSE] /\ emitted = [critical |-> 0, all |-> 0]
OutputNext ==
  \/ \E c \in BOOLEAN, s \in 1..2 : Output([critical |-> c, size |-> s, after |-> emitted.critical])
  \/ Drain \/ Stalls \/ DaemonReads
OutputSpec == OutputInit /\ [][OutputNext]_outputVars

-----------------------------------------------------------------------------
Frames == [critical : BOOLEAN, size : 1..2, after : 0..MaxFrames]
OutputTypeOK ==
  /\ \A q \in {pending, buffer, sent} : Len(q) <= MaxFrames /\ \A i \in DOMAIN q : q[i] \in Frames
  /\ out \in [blocked : BOOLEAN, failed : BOOLEAN]
  /\ emitted \in [critical : 0..MaxFrames, all : 0..MaxFrames]

\* Whatever waits and is dropped on the way, the daemon reads every critical frame in its order, and
\* progress only between the two critical frames it was emitted between; a failed child just stops.
CriticalOrder ==
  LET line == sent \o buffer \o pending
  IN  /\ \A i \in DOMAIN line : line[i].after = Len(NoProgress(SubSeq(line, 1, i - 1)))
      /\ ~out.failed => Len(NoProgress(line)) = emitted.critical

\* What the child keeps for a daemon that reads slowly is bounded, in frames and in bytes.
BacklogBounded == Len(pending) <= MaxPending /\ Bytes(pending) + Bytes(buffer) <= MaxBytes

\* A slow daemon costs the child neither memory nor a critical frame.
OutputKept == CriticalOrder /\ BacklogBounded
=============================================================================
