------------------------------ MODULE Attention ------------------------------
(* What the delivery of subagent results and questions promises (the table of
   docs/subagents/lifecycle.md, "Notification and input delivery"), whoever
   carries it out: only a shown notice is consumed, and a notice that the conversation
   has, or is about to have, is not submitted again, unless somebody asked to read the
   result: that makes it eligible again when the read comes to nothing.             *)
CONSTANT Notices

VARIABLES
  status,     \* where each notice stands
  submitted,  \* notices in messages handed to Pi and not saved yet
  shown,      \* notices the parent's active branch holds with a valid receipt
  asked       \* notices whose result was read explicitly, whatever became of the read

AttentionInit ==
  status = [n \in Notices |-> "none"] /\ submitted = {} /\ shown = {} /\ asked = {}

Move(S, s) ==
  /\ status' = [n \in Notices |-> IF n \in S THEN s ELSE status[n]]
  /\ UNCHANGED <<submitted, shown>>
In(S, Q) == \A n \in S : status[n] \in Q
Reserved == {"claimed", "reading"}

Raised(S) == In(S, {"none"}) /\ Move(S, "eligible")
Claimed(S) == In(S, {"eligible"}) /\ Move(S, "claimed")
Released(S) == In(S, Reserved) /\ Move(S, "eligible")
Doubted(S) == In(S, Reserved) /\ Move(S, "uncertain")
Dropped(S) == In(S, {"eligible"}) /\ Move(S, "dropped")

\* An explicit read may take what is uncertain, dropped or being read already.
Reread(S) == In(S, {"eligible", "reading", "uncertain", "dropped"}) /\ Move(S, "reading")

\* Automatic delivery: not of a notice the conversation has, or is about to have.
Submitted(S) ==
  /\ S \cap (submitted \cup shown) \subseteq asked
  /\ submitted' = submitted \cup S /\ UNCHANGED <<status, shown>>

Lost(S) == submitted' = submitted \ S /\ UNCHANGED <<status, shown>>
\* What was submitted once is no longer submitted when it is saved.
Saved(S) ==
  /\ S \subseteq submitted /\ submitted \ S \subseteq submitted' /\ submitted' \subseteq submitted
  /\ S \cap submitted' \subseteq asked
  /\ shown' = shown \cup S /\ UNCHANGED status
ReadResult(S) == shown' = shown \cup S /\ UNCHANGED <<status, submitted>>
Consumed(S) == S \subseteq shown /\ Move(S, "consumed")

AttentionNext ==
  \E S \in SUBSET Notices :
    \/ Reread(S) /\ asked' = asked \cup S
    \/ /\ \/ Raised(S) \/ Claimed(S) \/ Released(S) \/ Doubted(S) \/ Dropped(S)
          \/ Submitted(S) \/ Lost(S) \/ Saved(S) \/ ReadResult(S) \/ Consumed(S)
       /\ UNCHANGED asked
attention == <<status, submitted, shown, asked>>
AttentionSpec == AttentionInit /\ [][AttentionNext]_attention
=============================================================================
