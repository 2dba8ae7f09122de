----------------------- MODULE MCWorkbenchRepositories -----------------------
(* A project with a row in every table, another project, and two callers   *)
(* that save while its task and the project itself are deleted.            *)
EXTENDS WorkbenchRepositories, TLC

CONSTANTS w1, w2, d1, d2, web

MCRow(table, id, project, task, run, parent) ==
  [table |-> table, id |-> id, project |-> project, task |-> task, run |-> run, parent |-> parent]

MCInitialRows ==
  { MCRow("projects", "p1", None, None, None, None),
    MCRow("tasks", "t1", "p1", None, None, None),
    MCRow("messages", "m1", "p1", "t1", None, None),
    MCRow("taskSnapshots", "s1", "p1", "t1", None, None),
    MCRow("runs", "r1", "p1", "t1", None, None),
    MCRow("runEvents", "e1", "p1", "t1", "r1", None),
    MCRow("toolObservations", "o1", "p1", "t1", "r1", None),
    MCRow("agentHandoffs", "h1", "p1", None, "r1", None),
    MCRow("briefs", "b1", "p1", None, None, None),
    MCRow("pageVersions", "v1", "p1", None, None, "b1"),
    MCRow("artifactWorkspaces", "a1", "p1", None, None, "v1"),
    MCRow("artifactWorkspaceFiles", "f1", "p1", None, None, "a1"),
    MCRow("deployments", "y1", "p1", None, None, "v1"),
    MCRow("projectMembers", "u1", "p1", None, None, None),
    MCRow("skillBindings", "g1", "p1", None, None, "k1"),
    MCRow("modelProviders", "x1", "p1", None, None, None),
    MCRow("modelRoutingPolicies", "z1", "p1", None, None, "x1"),
    MCRow("mcpConnectors", "c1", "p1", None, None, None),
    MCRow("mcpToolApprovals", "q1", "p1", None, None, "c1"),
    MCRow("skills", "i1", None, None, None, None),
    MCRow("skillVersions", "k1", None, None, None, "i1"),
    MCRow("projects", "p2", None, None, None, None),
    MCRow("tasks", "t2", "p2", None, None, None),
    MCRow("tasks", "t3", "p1", None, None, None),
    MCRow("runs", "r3", "p1", "t3", None, None),
    MCRow("runEvents", "e3", "p1", "t3", "r3", None) }

MCScript ==
  (w1 :> <<MCRow("runs", "r2", "p1", "t1", None, None),
           MCRow("runEvents", "e2", "p1", "t1", "r2", None)>>)
  @@ (w2 :> <<MCRow("messages", "m2", "p1", "t1", None, None)>>)

MCRows == MCInitialRows \cup UNION {{MCScript[s][i] : i \in DOMAIN MCScript[s]} : s \in {w1, w2}}
MCSavers == {w1, w2}
MCDeleters == {d1, d2}
MCTarget == (d1 :> "t1") @@ (d2 :> "p1")
MCOneProcess == {web}
MCHome == [c \in {w1, w2, d1, d2} |-> web]
=============================================================================
