----------------------------- MODULE MCFeatures -----------------------------
(* The features of a Pi session that keep state of their own, one per behaviour: they share
   nothing, so checking them side by side is checking each, and `part` names which.      *)
EXTENDS Goal, McpSession, Condense, Occ, LspSession, Curator, RemoteCompaction, Questionnaire

VARIABLE part   \* the component this behaviour runs; it never changes

Parts == {"goal", "mcp", "condense", "occ", "lsp", "curator", "remote", "ask"}
Init ==
  /\ part \in Parts
  /\ GoalInit
  /\ McpInit
  /\ CondenseInit
  /\ OccInit
  /\ LspInit
  /\ CuratorInit
  /\ RemoteInit
  /\ AskInit
Next ==
  /\ UNCHANGED part
  /\ IF part = "goal" THEN GoalNext ELSE UNCHANGED goalVars
  /\ IF part = "mcp" THEN McpNext ELSE UNCHANGED mcpVars
  /\ IF part = "condense" THEN CondenseNext ELSE UNCHANGED condenseVars
  /\ IF part = "occ" THEN OccNext ELSE UNCHANGED occVars
  /\ IF part = "lsp" THEN LspNext ELSE UNCHANGED lspVars
  /\ IF part = "curator" THEN CuratorNext ELSE UNCHANGED curatorVars
  /\ IF part = "remote" THEN RemoteNext ELSE UNCHANGED remoteVars
  /\ IF part = "ask" THEN AskNext ELSE UNCHANGED askVars
partVars == <<part, goalVars, mcpVars, condenseVars, occVars, lspVars, curatorVars, remoteVars, askVars>>
Spec == Init /\ [][Next]_partVars

\* The state of the component that runs keeps its type; the others' never changes.
TypesOK ==
  /\ part = "goal" => GoalTypeOK
  /\ part = "mcp" => McpTypeOK
  /\ part = "condense" => CondenseTypeOK
  /\ part = "occ" => OccTypeOK
  /\ part = "lsp" => LspTypeOK
  /\ part = "curator" => CuratorTypeOK
  /\ part = "remote" => RemoteTypeOK
  /\ part = "ask" => AskTypeOK
=============================================================================
