----------------------------- MODULE MCAgentRuns -----------------------------
(* Chains and retries of one process.                                      *)
EXTENDS AgentRuns, TLC

CONSTANTS c1, c2, r1, r2, web

MCTwoChains == {c1, c2}
MCTwoRetries == {r1, r2}
MCOneProcess == {web}
MCHome == [c \in Callers |-> web]

(* Bound: two prompts at a time without a retry and with one fault, or the *)
(* retries of one prompt with MaxFaults; callers are alike, so they begin  *)
(* in one order.                                                           *)
MCBound ==
  /\ RetriesApart /\ (asked <= 1 \/ faults <= 1)
  /\ At(c1, "idle") => At(c2, "idle")
  /\ At(r1, "idle") => At(r2, "idle")
MCSpec == Init /\ [][Next /\ MCBound']_vars /\ Fairness
=============================================================================
