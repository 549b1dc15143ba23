----------------------------- MODULE MCServices -----------------------------
(* The services around the agent runtime and the command sessions, one per behaviour: they
   share nothing but what each takes as given, and `part` names which is running.        *)
EXTENDS ManagedInput, Admission, ProtocolOutput, ExecSession, SemanticService, WebSessions, IndexCache, ScopeIndex, AttentionDelivery, TLC

VARIABLE part   \* the component this behaviour runs; it never changes

Parts == {"input", "admission", "output", "exec", "search", "web", "cache", "scope", "delivery"}
Init ==
  /\ part \in Parts
  /\ InputInit
  /\ AdmissionInit
  /\ OutputInit
  /\ ExecInit
  /\ SemanticInit
  /\ WebInit
  /\ CacheInit
  /\ ScopeInit
  /\ AttentionDeliveryInit

\* Bound on frontends and receipts together: two of each, or one frontend and three receipts.
Within == host'.id + issued' <= 4

Next ==
  /\ UNCHANGED part
  /\ IF part = "input" THEN InputNext ELSE UNCHANGED inputVars
  /\ IF part = "admission" THEN AdmissionNext ELSE UNCHANGED admissionVars
  /\ IF part = "output" THEN OutputNext ELSE UNCHANGED outputVars
  /\ IF part = "exec" THEN ExecNext ELSE UNCHANGED execVars
  /\ IF part = "search" THEN SemanticNext ELSE UNCHANGED semanticVars
  /\ IF part = "web" THEN WebNext ELSE UNCHANGED webVars
  /\ IF part = "cache" THEN CacheNext ELSE UNCHANGED cacheVars
  /\ IF part = "scope" THEN ScopeNext ELSE UNCHANGED scopeVars
  /\ IF part = "delivery" THEN AttentionDeliveryNext /\ Within ELSE UNCHANGED attentionVars
partVars == <<part, inputVars, admissionVars, outputVars, execVars, semanticVars, webVars, cacheVars, scopeVars, attentionVars>>
Spec == Init /\ [][Next]_partVars

\* The state of the component that runs keeps its type; the others' never changes.
TypesOK ==
  /\ part = "input" => InputTypeOK
  /\ part = "admission" => AdmissionTypeOK
  /\ part = "output" => OutputTypeOK
  /\ part = "exec" => ExecTypeOK
  /\ part = "search" => SemanticTypeOK
  /\ part = "web" => WebTypeOK
  /\ part = "cache" => CacheTypeOK
  /\ part = "scope" => ScopeTypeOK
  /\ part = "delivery" => AttentionTypeOK

\* The peers of every component share their names, and none of them is told apart by it.
Peers == Permutations(Polls)
=============================================================================
