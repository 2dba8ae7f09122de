-------------------------- MODULE MCProjectServices --------------------------
(***************************************************************************)
(* Two calls at a time in a project that has a published skill version,    *)
(* bound or not, with or without an approved tool, or two providers of     *)
(* which one serves a route, or nothing yet.  A behaviour is about models  *)
(* or about skills and tools; those about tools have one call less.        *)
(***************************************************************************)
EXTENDS ProjectServices, TLC

CONSTANTS c1, c2, brand1, brand2, assets, openai, anthropic, builder

MCSkillOf == (brand1 :> "brand") @@ (brand2 :> "brand")

Symmetry == Permutations(Callers)

Made(key, val) == [key |-> key, val |-> val, by |-> 1]
Empty == [t \in TableNames |-> <<>>]
Skilled == [Empty EXCEPT !["versions"] = <<Made(brand1, "published"), Made(brand2, "draft")>>]
Tooled == [Skilled EXCEPT !["connectors"] = assets :> Made(assets, "on"),
                          !["bindings"] = <<Made(1, "on")>>]
Modelled == [Empty EXCEPT !["providers"] = (openai :> Made(openai, "on")) @@ (anthropic :> Made(anthropic, "on")),
                          !["routes"] = <<Made(builder, openai)>>]

MCInit ==
  /\ stored \in {Empty, Skilled, Tooled, Modelled,
                 [Tooled EXCEPT !["approvals"] = <<Made(assets, "approved")>>]}
  /\ skills = {} /\ runs = <<>> /\ observed = <<>> /\ reserved = {} /\ lock = None
  /\ call = [c \in Callers |-> Idle] /\ made = 0 /\ faults = 0
  /\ held = [c \in Callers |-> {}]

Used(ts) == (\E t \in ts : Rows(t) # {}) \/ (\E c \in Callers : call[c].op \in ts)
ModelTables == {"providers", "routes"}
ToolTables == {"connectors", "approvals"}

MCBound ==
  /\ ~(Used(ModelTables) /\ Used(TableNames \ ModelTables))
  /\ \A c \in Callers : call[c].op = "enabling" => Used(ModelTables)
  /\ made <= IF Used(ToolTables) THEN MaxCalls - 1 ELSE MaxCalls

MCSpec == MCInit /\ [][Next /\ MCBound']_vars
=============================================================================
