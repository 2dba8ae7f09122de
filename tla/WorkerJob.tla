------------------------------ MODULE WorkerJob ------------------------------
(***************************************************************************)
(* The worker job record and what each repository operation does to one    *)
(* record (packages/worker-runtime/src/worker-job-repositories.ts).        *)
(* The in-memory, JSON-file and Prisma repositories compute the same       *)
(* records; they differ in how the read and the write are made atomic,     *)
(* which is the business of the modules that use this one.                 *)
(*                                                                         *)
(* Abstractions.                                                           *)
(*  - input stands for inputSummary and policy: the part of the record a   *)
(*    payload must agree with and the sandbox policy judges.               *)
(*  - claimToken is a fresh UUID per claim; here it is the ordinal of the  *)
(*    claim among the claims of its job, and 0 is "undefined".             *)
(*  - startedAt and heartbeatExpiresAt matter only through the comparison  *)
(*    with staleBefore, so each is "unset", "live" or "passed".  Time may  *)
(*    pass at any moment, also under a worker that is merely slow.         *)
(*  - cancel stands for cancelRequestedAt being set; timestamps, result    *)
(*    summaries and reasons are left out.                                  *)
(***************************************************************************)
EXTENDS Naturals

CONSTANTS
  Jobs,       \* the job identifiers worker_job_1, worker_job_2, ... in order
  Workers,    \* the processes that claim jobs (claimedByWorkerId)
  Inputs,     \* what a job may ask to run
  Forbidden,  \* the inputs that the sandbox policy rejects
  MaxStale,   \* maxStaleRecoveryCount
  None        \* an undefined field

ASSUME JobsAssumption == Jobs \subseteq Nat \ {0}
ASSUME InputsAssumption == Forbidden \subseteq Inputs /\ None \notin Inputs
ASSUME WorkersAssumption == None \notin Workers
ASSUME MaxStaleAssumption == MaxStale \in Nat

JobStates ==
  {"none", "queued", "running", "completed", "failed", "rejected", "cancelled"}
Terminal == {"completed", "failed", "rejected", "cancelled"}
Deadlines == {"unset", "live", "passed"}

JobRecord ==
  [state: JobStates, input: Inputs \cup {None}, token: Nat,
   worker: Workers \cup {None}, started: Deadlines, beat: Deadlines,
   cancel: BOOLEAN, stale: 0 .. MaxStale]

(* No record is stored under the identifier.                               *)
NoJob ==
  [state |-> "none", input |-> None, token |-> 0, worker |-> None,
   started |-> "unset", beat |-> "unset", cancel |-> FALSE, stale |-> 0]

(* The record that enqueueSafe saves.                                      *)
NewJob(i) == [NoJob EXCEPT !.state = "queued", !.input = i]

(* completeClaimed and the runtime compare the state and the claim token.  *)
HeldUnder(r, t) == r.state = "running" /\ r.token = t

Claimed(r, w, t) ==
  [r EXCEPT !.state = "running", !.started = "live", !.worker = w, !.token = t]

(* heartbeatClaimed also compares the worker, when the record names one.   *)
MayBeat(r, w, t) == HeldUnder(r, t) /\ r.worker \in {None, w}
Beaten(r) == [r EXCEPT !.beat = "live"]

(* A cancelled completion sets cancelRequestedAt if it was not set.        *)
Completed(r, outcome) ==
  [r EXCEPT !.state = outcome, !.cancel = @ \/ outcome = "cancelled"]

CancelRequested(r) == [r EXCEPT !.cancel = TRUE]

QueuedCancelled(r) == [r EXCEPT !.state = "cancelled", !.cancel = TRUE]

(* Mutant: only a job that has had a heartbeat can become stale.           *)
MutOnlyBeatenStale(r) == r.state = "running" /\ r.beat = "passed"

(* The heartbeat deadline decides when there is one, the claim deadline    *)
(* otherwise.                                                              *)
IsStale(r) ==
  /\ r.state = "running"
  /\ IF r.beat # "unset" THEN r.beat = "passed" ELSE r.started = "passed"

Requeued(r) ==
  [r EXCEPT !.state = "queued", !.started = "unset", !.beat = "unset",
            !.worker = None, !.token = 0, !.stale = @ + 1]

(* Mutants: recoveries are not counted; a recorded cancellation is ignored.*)
MutUncounted(r) ==
  IF r.cancel THEN [r EXCEPT !.state = "cancelled"]
  ELSE IF r.stale >= MaxStale THEN [r EXCEPT !.state = "failed"]
  ELSE [Requeued(r) EXCEPT !.stale = r.stale]
MutCancelIgnored(r) ==
  IF r.stale >= MaxStale THEN [r EXCEPT !.state = "failed"] ELSE Requeued(r)

(* recoverStaleRecord: cancel, give up or requeue.                         *)
Recovered(r) ==
  IF r.cancel THEN [r EXCEPT !.state = "cancelled"]
  ELSE IF r.stale >= MaxStale THEN [r EXCEPT !.state = "failed"]
  ELSE Requeued(r)

(* Time passes the deadlines of a record.                                  *)
Expired(r) ==
  [r EXCEPT !.started = IF @ = "live" THEN "passed" ELSE @,
            !.beat = IF @ = "live" THEN "passed" ELSE @]
=============================================================================
