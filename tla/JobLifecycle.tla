---------------------------- MODULE JobLifecycle ----------------------------
(***************************************************************************)
(* What the worker queue promises about every job, whoever runs it: a job  *)
(* is handed to a worker at most MaxStale + 1 times, a cancellation that   *)
(* was recorded is never forgotten and stops every later hand-out, and a   *)
(* job that has settled never changes again.  One step may move several    *)
(* jobs, because stale recovery rewrites all stale records at once.        *)
(***************************************************************************)
EXTENDS Naturals

CONSTANTS Jobs, MaxStale

VARIABLES
  phase,      \* phase[j]: "none", "queued", "running" or "settled"
  handed,     \* handed[j]: how often j was given to a worker
  withdrawn   \* withdrawn[j]: a cancellation of j has been recorded
vars == <<phase, handed, withdrawn>>

Phases == {"none", "queued", "running", "settled"}

Init ==
  /\ phase = [j \in Jobs |-> "none"]
  /\ handed = [j \in Jobs |-> 0]
  /\ withdrawn = [j \in Jobs |-> FALSE]

Keep(j) == handed'[j] = handed[j] /\ withdrawn'[j] = withdrawn[j]

Submit(j) == phase[j] = "none" /\ phase'[j] = "queued" /\ Keep(j)

HandOut(j) ==
  /\ phase[j] = "queued" /\ phase'[j] = "running"
  /\ ~withdrawn[j] /\ ~withdrawn'[j]
  /\ handed[j] <= MaxStale /\ handed'[j] = handed[j] + 1

PutBack(j) ==
  /\ phase[j] = "running" /\ phase'[j] = "queued"
  /\ ~withdrawn[j] /\ handed[j] <= MaxStale
  /\ Keep(j)

Withdraw(j) ==
  /\ phase[j] = "running" /\ phase'[j] = "running"
  /\ withdrawn'[j] /\ handed'[j] = handed[j]

Settle(j) ==
  /\ phase[j] \in {"queued", "running"} /\ phase'[j] = "settled"
  /\ handed'[j] = handed[j]
  /\ withdrawn[j] \/ phase[j] = "queued" => withdrawn'[j]

Rest(j) == phase'[j] = phase[j] /\ Keep(j)

Step(j) ==
  Submit(j) \/ HandOut(j) \/ PutBack(j) \/ Withdraw(j) \/ Settle(j) \/ Rest(j)

Next ==
  /\ phase' \in [Jobs -> Phases]
  /\ handed' \in [Jobs -> Nat]
  /\ withdrawn' \in [Jobs -> BOOLEAN]
  /\ \A j \in Jobs : Step(j)

Spec == Init /\ [][Next]_vars
=============================================================================
