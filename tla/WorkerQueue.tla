----------------------------- MODULE WorkerQueue -----------------------------
(***************************************************************************)
(* The persisted worker queue: the Web process enqueues jobs, cancels them *)
(* and may run one itself; daemons (apps/agent-worker) recover stale jobs, *)
(* claim the oldest queued one, send heartbeats, execute and complete.     *)
(* Every process has a runtime of its own (InMemoryWorkerRuntime) over one *)
(* job repository and one payload repository.                              *)
(*                                                                         *)
(* Grain: one action per repository call, because every such call is       *)
(* awaited and the other processes run in between.  Each repository call   *)
(* is atomic here: that is the contract (worker-repository-contract.ts),   *)
(* and the memory store.  JsonWorkerQueue and PrismaWorkerQueue split the  *)
(* calls as the two persistent stores do.  The getById that                *)
(* completeClaimedJob makes just before completeClaimed tests the same     *)
(* condition and throws the same error, so the two are one action.         *)
(* Worker logs and the finalizer that follows a job are not here.          *)
(***************************************************************************)
EXTENDS WorkerJob

CONSTANTS
  Daemons,         \* the workers that run runWorkerDaemon
  Scope,           \* Scope[w]: the inputs (of one project, or all) w may claim
  Cancellers,      \* concurrent cancelJob calls in the Web process
  MaxCrashes,      \* bound: crashes of daemons
  MaxWebRestarts   \* bound: restarts of the Web process

ASSUME QueueAssumption ==
  /\ Daemons \subseteq Workers
  /\ Scope \in [Workers -> SUBSET Inputs]
  /\ MaxCrashes \in Nat /\ MaxWebRestarts \in Nat

VARIABLES
  job,       \* the job repository: identifier -> record
  payload,   \* the payload repository: identifier -> input, or None
  web,       \* the enqueueSafe call that holds the enqueue lock
  nextId,    \* nextJobNumber of the Web runtime, 0 before its first use
  pc,        \* pc[w]: what worker w does next
  hold,      \* hold[w]: the job of w's claim, 0 if none
  token,     \* token[w]: the claim token of w's claim
  outcome,   \* outcome[w]: the result w is about to record
  swept,     \* swept[w]: jobs w settled as stale and whose payload it drops
  cpc,       \* cpc[c]: what the cancelJob call c does next
  target,    \* target[c]: the job c cancels, 0 if none
  answer,    \* answer[c]: what cancelJob returned
  claims,    \* claims[j]: how many claims of j succeeded (fresh tokens)
  crashes, webRestarts  \* counters for the bounds

repoVars == <<job, payload>>
webVars == <<web, nextId>>
workerVars == <<pc, hold, token, outcome, swept>>
cancelVars == <<cpc, target, answer>>
counters == <<crashes, webRestarts>>
vars == <<repoVars, webVars, workerVars, cancelVars, claims, counters>>

Locals == Workers \ Daemons   \* runLocalWorkerOnceAndFinalize in the Web
Idle == [pc |-> "idle", job |-> 0, input |-> None]
Outcomes == {"completed", "failed", "rejected", "cancelled"}
Answers == {"none", "queued", "requested", "running", "settled"}

(* Types of the stores and the processes; the stale count of a record is   *)
(* bounded by maxStaleRecoveryCount + 1.                                   *)
TypeOK ==
  /\ job \in [Jobs -> JobRecord]
  /\ payload \in [Jobs -> Inputs \cup {None}]
  /\ web \in [pc: {"idle", "payload", "record", "cleanup"},
              job: Jobs \cup {0}, input: Inputs \cup {None}]
  /\ nextId \in Nat
  /\ pc \in [Workers -> {"off", "recover", "sweep", "claim", "beat", "verify",
                         "load", "execute", "complete", "drop", "threw", "down"}]
  /\ hold \in [Workers -> Jobs \cup {0}]
  /\ token \in [Workers -> Nat]
  /\ outcome \in [Workers -> Outcomes \cup {None}]
  /\ swept \in [Workers -> SUBSET Jobs]
  /\ cpc \in [Cancellers -> {"idle", "request", "recheck", "mark", "cancel", "purge"}]
  /\ target \in [Cancellers -> Jobs \cup {0}]
  /\ answer \in [Cancellers -> Answers]
  /\ claims \in [Jobs -> Nat]
  /\ crashes \in Nat /\ webRestarts \in Nat

Resting(w) == IF w \in Daemons THEN "recover" ELSE "off"

Init ==
  /\ job = [j \in Jobs |-> NoJob]
  /\ payload = [j \in Jobs |-> None]
  /\ web = Idle /\ nextId = 0
  /\ pc = [w \in Workers |-> Resting(w)]
  /\ hold = [w \in Workers |-> 0]
  /\ token = [w \in Workers |-> 0]
  /\ outcome = [w \in Workers |-> None]
  /\ swept = [w \in Workers |-> {}]
  /\ cpc = [c \in Cancellers |-> "idle"]
  /\ target = [c \in Cancellers |-> 0]
  /\ answer = [c \in Cancellers |-> "none"]
  /\ claims = [j \in Jobs |-> 0]
  /\ crashes = 0 /\ webRestarts = 0

-----------------------------------------------------------------------------
(* enqueueSafe, under the enqueue lock of the Web runtime.                 *)

Stored == {j \in Jobs : job[j].state # "none"}

(* allocateJobId: after a restart the counter starts above the largest     *)
(* identifier that has a record.                                           *)
FirstFree(id) ==
  /\ \A k \in Stored : k < id
  /\ id = 1 \/ id - 1 \in Stored

AllocateId(i) ==
  /\ web.pc = "idle"
  /\ \E id \in Jobs :
       /\ IF nextId = 0 THEN FirstFree(id) ELSE id = nextId
       /\ nextId' = id + 1
       /\ web' = [pc |-> "payload", job |-> id, input |-> i]
  /\ UNCHANGED <<repoVars, workerVars, cancelVars, claims, counters>>

SavePayload ==
  /\ web.pc = "payload"
  /\ \/ /\ payload' = [payload EXCEPT ![web.job] = web.input]
        /\ web' = [web EXCEPT !.pc = "record"]
     \/ /\ web' = Idle          \* the save failed and enqueueSafe throws
        /\ UNCHANGED payload
  /\ UNCHANGED <<job, nextId, workerVars, cancelVars, claims, counters>>

SaveRecord ==
  /\ web.pc = "record"
  /\ \/ /\ job' = [job EXCEPT ![web.job] = NewJob(web.input)]
        /\ web' = Idle
     \/ /\ web' = [web EXCEPT !.pc = "cleanup"]
        /\ UNCHANGED job
  /\ UNCHANGED <<payload, nextId, workerVars, cancelVars, claims, counters>>

CleanupPayload ==
  /\ web.pc = "cleanup"
  /\ web' = Idle
  /\ payload' \in {payload, [payload EXCEPT ![web.job] = None]}
  /\ UNCHANGED <<job, nextId, workerVars, cancelVars, claims, counters>>

-----------------------------------------------------------------------------
(* A worker.  A local worker starts at the claim and ends after one job.   *)

(* Mutant: the local run recovers stale jobs as a daemon does.             *)
MutLocalRecovers(w) ==
  /\ w \in Locals /\ pc[w] = "off"
  /\ pc' = [pc EXCEPT ![w] = "recover"]
  /\ UNCHANGED <<repoVars, webVars, hold, token, outcome, swept, cancelVars,
                 claims, counters>>

StartLocal(w) ==
  /\ w \in Locals /\ pc[w] = "off"
  /\ pc' = [pc EXCEPT ![w] = "claim"]
  /\ UNCHANGED <<repoVars, webVars, hold, token, outcome, swept, cancelVars,
                 claims, counters>>

(* recoverStaleJobs: the repository rewrites all stale records at once.    *)
StaleJobs == {j \in Jobs : IsStale(job[j])}

(* Mutant: the payloads of the requeued jobs are dropped too.              *)
MutSweepAll(w) ==
  /\ pc[w] = "recover"
  /\ job' = [j \in Jobs |-> IF j \in StaleJobs THEN Recovered(job[j]) ELSE job[j]]
  /\ swept' = [swept EXCEPT ![w] = StaleJobs]
  /\ pc' = [pc EXCEPT ![w] = "sweep"]
  /\ UNCHANGED <<payload, webVars, hold, token, outcome, cancelVars, claims, counters>>

RecoverStale(w) ==
  /\ pc[w] = "recover"
  /\ job' = [j \in Jobs |-> IF j \in StaleJobs THEN Recovered(job[j]) ELSE job[j]]
  /\ swept' = [swept EXCEPT ![w] = {j \in StaleJobs : job'[j].state \in Terminal}]
  /\ pc' = [pc EXCEPT ![w] = "sweep"]
  /\ UNCHANGED <<payload, webVars, hold, token, outcome, cancelVars, claims, counters>>

(* The payloads of the settled ones are deleted, each best effort.         *)
SweepPayloads(w) ==
  /\ pc[w] = "sweep"
  /\ IF swept[w] = {}
     THEN pc' = [pc EXCEPT ![w] = "claim"] /\ UNCHANGED <<payload, swept>>
     ELSE \E j \in swept[w] :
            /\ payload' \in {payload, [payload EXCEPT ![j] = None]}
            /\ swept' = [swept EXCEPT ![w] = @ \ {j}]
            /\ UNCHANGED pc
  /\ UNCHANGED <<job, webVars, hold, token, outcome, cancelVars, claims, counters>>

Claimable(w) == {j \in Jobs : job[j].state = "queued" /\ job[j].input \in Scope[w]}

(* Mutant: every claim of a job has the same token.                        *)
MutSameToken(w) ==
  /\ pc[w] = "claim" /\ Claimable(w) # {}
  /\ \E j \in Claimable(w) :
       /\ \A k \in Claimable(w) : j <= k
       /\ claims' = [claims EXCEPT ![j] = @ + 1]
       /\ job' = [job EXCEPT ![j] = Claimed(@, w, 1)]
       /\ hold' = [hold EXCEPT ![w] = j]
       /\ token' = [token EXCEPT ![w] = 1]
  /\ pc' = [pc EXCEPT ![w] = "beat"]
  /\ UNCHANGED <<payload, webVars, outcome, swept, cancelVars, counters>>

ClaimOldest(w) ==
  /\ pc[w] = "claim" /\ Claimable(w) # {}
  /\ \E j \in Claimable(w) :
       /\ \A k \in Claimable(w) : j <= k
       /\ claims' = [claims EXCEPT ![j] = @ + 1]
       /\ job' = [job EXCEPT ![j] = Claimed(@, w, claims[j] + 1)]
       /\ hold' = [hold EXCEPT ![w] = j]
       /\ token' = [token EXCEPT ![w] = claims[j] + 1]
  /\ pc' = [pc EXCEPT ![w] = "beat"]
  /\ UNCHANGED <<payload, webVars, outcome, swept, cancelVars, counters>>

ClaimNothing(w) ==
  /\ pc[w] = "claim" /\ Claimable(w) = {}
  /\ pc' = [pc EXCEPT ![w] = Resting(w)]
  /\ UNCHANGED <<repoVars, webVars, hold, token, outcome, swept, cancelVars,
                 claims, counters>>

(* heartbeatClaimedJob; its result is not looked at.                       *)
BeatOn(w) ==
  job' = IF hold[w] \in Jobs /\ MayBeat(job[hold[w]], w, token[w])
         THEN [job EXCEPT ![hold[w]] = Beaten(@)] ELSE job

FirstBeat(w) ==
  /\ pc[w] = "beat"
  /\ BeatOn(w)
  /\ pc' = [pc EXCEPT ![w] = "verify"]
  /\ UNCHANGED <<payload, webVars, hold, token, outcome, swept, cancelVars,
                 claims, counters>>

(* The timer of startClaimHeartbeatLoop; runLocalWorkerOnce has none.      *)
LoopBeat(w) ==
  /\ w \in Daemons /\ pc[w] \in {"verify", "load", "execute", "complete", "drop"}
  /\ BeatOn(w)
  /\ UNCHANGED <<payload, webVars, workerVars, cancelVars, claims, counters>>

(* The worker leaves its claim, if it has one, as it is.                   *)
Abandon(w, where) ==
  /\ pc' = [pc EXCEPT ![w] = where]
  /\ hold' = [hold EXCEPT ![w] = 0]
  /\ token' = [token EXCEPT ![w] = 0]
  /\ outcome' = [outcome EXCEPT ![w] = None]
  /\ swept' = [swept EXCEPT ![w] = {}]

(* worker_job_claim_conflict: a daemon does not catch it and dies, the     *)
(* local run reports worker_job_execution_failed.                          *)
Conflict(w) == Abandon(w, IF w \in Daemons THEN "threw" ELSE "off")

Verify(w) ==
  /\ pc[w] = "verify"
  /\ IF HeldUnder(job[hold[w]], token[w])
     THEN /\ pc' = [pc EXCEPT ![w] = "load"]
          /\ UNCHANGED <<hold, token, outcome, swept>>
     ELSE Conflict(w)
  /\ UNCHANGED <<repoVars, webVars, cancelVars, claims, counters>>

(* The payload is read, then judged by the policy and by the record.       *)
LoadPayload(w) ==
  LET found == payload[hold[w]]
  IN  /\ pc[w] = "load"
      /\ IF found = None \/ found \in Forbidden \/ found # job[hold[w]].input
         THEN /\ outcome' = [outcome EXCEPT
                               ![w] = IF found = None THEN "failed" ELSE "rejected"]
              /\ pc' = [pc EXCEPT ![w] = "complete"]
         ELSE /\ pc' = [pc EXCEPT ![w] = "execute"]
              /\ UNCHANGED outcome
      /\ UNCHANGED <<repoVars, webVars, hold, token, swept, cancelVars, claims, counters>>

(* SimulatedExecutionAdapter.execute: isCancellationRequested looks at the *)
(* record by its identifier, not at the claim; a throw is a failure.       *)
Execute(w) ==
  /\ pc[w] = "execute"
  /\ LET r == job[hold[w]]
     IN  IF r.state = "cancelled" \/ r.cancel
         THEN outcome' = [outcome EXCEPT ![w] = "cancelled"]
         ELSE \E o \in {"completed", "failed"} : outcome' = [outcome EXCEPT ![w] = o]
  /\ pc' = [pc EXCEPT ![w] = "complete"]
  /\ UNCHANGED <<repoVars, webVars, hold, token, swept, cancelVars, claims, counters>>

(* The job mutation lock of the Web runtime.  ("commit" and the writes of  *)
(* a canceller are states of the modules that split the calls.)            *)
InLock(c) == cpc[c] \notin {"idle", "request", "recheck"}
LockFree(j) ==
  /\ \A c \in Cancellers : ~(InLock(c) /\ target[c] = j)
  /\ \A w \in Locals : ~(pc[w] \in {"commit", "drop"} /\ hold[w] = j)

(* completeClaimedJob.                                                     *)
Complete(w) ==
  /\ pc[w] = "complete"
  /\ w \in Locals => LockFree(hold[w])
  /\ IF HeldUnder(job[hold[w]], token[w])
     THEN /\ job' = [job EXCEPT ![hold[w]] = Completed(@, outcome[w])]
          /\ pc' = [pc EXCEPT ![w] = "drop"]
          /\ UNCHANGED <<hold, token, outcome, swept>>
     ELSE Conflict(w) /\ UNCHANGED job
  /\ UNCHANGED <<payload, webVars, cancelVars, claims, counters>>

DropPayload(w) ==
  /\ pc[w] = "drop"
  /\ payload' \in {payload, [payload EXCEPT ![hold[w]] = None]}
  /\ Abandon(w, Resting(w))
  /\ UNCHANGED <<job, webVars, cancelVars, claims, counters>>

-----------------------------------------------------------------------------
(* cancelJob in the Web process.                                           *)

AnswerFor(r) ==
  IF r.state = "queued" THEN "queued"
  ELSE IF r.state = "running" THEN (IF r.cancel THEN "requested" ELSE "running")
  ELSE "settled"

Return(c, r) ==
  /\ cpc' = [cpc EXCEPT ![c] = "idle"]
  /\ target' = [target EXCEPT ![c] = 0]
  /\ answer' = [answer EXCEPT ![c] = AnswerFor(r)]

Go(c, where) ==
  /\ cpc' = [cpc EXCEPT ![c] = where]
  /\ UNCHANGED <<target, answer>>

(* The first getById; a job that has settled is returned unchanged.        *)
CancelCall(c, j) ==
  /\ cpc[c] = "idle" /\ job[j].state \in {"queued", "running"}
  /\ cpc' = [cpc EXCEPT ![c] = IF job[j].state = "running" THEN "request" ELSE "recheck"]
  /\ target' = [target EXCEPT ![c] = j]
  /\ answer' = [answer EXCEPT ![c] = "none"]
  /\ UNCHANGED <<repoVars, webVars, workerVars, claims, counters>>

(* requestRunningCancellation: the lock, and a second getById.             *)
RequestRunning(c) ==
  LET r == job[target[c]]
  IN  /\ cpc[c] = "request" /\ LockFree(target[c])
      /\ IF r.state = "running" THEN Go(c, "mark") ELSE Return(c, r)
      /\ UNCHANGED <<repoVars, webVars, workerVars, claims, counters>>

RecheckQueued(c) ==
  LET r == job[target[c]]
  IN  /\ cpc[c] = "recheck" /\ LockFree(target[c])
      /\ IF r.state = "running" THEN Go(c, "mark")
         ELSE IF r.state = "queued" THEN Go(c, "cancel") ELSE Return(c, r)
      /\ UNCHANGED <<repoVars, webVars, workerVars, claims, counters>>

(* Mutant: the state found before the lock is trusted.                     *)
MutMarkUnchecked(c) ==
  /\ cpc[c] = "mark"
  /\ job' = [job EXCEPT ![target[c]] = CancelRequested(@)]
  /\ Return(c, job'[target[c]])
  /\ UNCHANGED <<payload, webVars, workerVars, claims, counters>>

(* repository.requestRunningCancellation, in the lock.                     *)
MarkRunning(c) ==
  LET r == job[target[c]]
      marked == IF r.state = "running" THEN CancelRequested(r) ELSE r
  IN  /\ cpc[c] = "mark"
      /\ job' = [job EXCEPT ![target[c]] = marked]
      /\ Return(c, marked)
      /\ UNCHANGED <<payload, webVars, workerVars, claims, counters>>

(* cancelQueuedJob: repository.cancelQueued returns what it finds when the *)
(* job is no longer queued.                                                *)
CancelQueued(c) ==
  LET r == job[target[c]]
  IN  /\ cpc[c] = "cancel"
      /\ IF r.state = "queued"
         THEN /\ job' = [job EXCEPT ![target[c]] = QueuedCancelled(@)]
              /\ Go(c, "purge")
         ELSE /\ UNCHANGED job
              /\ IF r.state = "running" THEN Go(c, "mark")
                 ELSE IF r.state = "cancelled" THEN Go(c, "purge") ELSE Return(c, r)
      /\ UNCHANGED <<payload, webVars, workerVars, claims, counters>>

PurgePayload(c) ==
  /\ cpc[c] = "purge"
  /\ payload' \in {payload, [payload EXCEPT ![target[c]] = None]}
  /\ Return(c, job[target[c]])
  /\ UNCHANGED <<job, webVars, workerVars, claims, counters>>

-----------------------------------------------------------------------------
(* Time, crashes and restarts.                                             *)

PassDeadline(j) ==
  /\ job[j].state = "running" /\ Expired(job[j]) # job[j]
  /\ job' = [job EXCEPT ![j] = Expired(@)]
  /\ UNCHANGED <<payload, webVars, workerVars, cancelVars, claims, counters>>

(* The daemon process stops, at any point or after maxIterations.          *)
Crash(w) ==
  /\ w \in Daemons /\ pc[w] \notin {"threw", "down"} /\ crashes < MaxCrashes
  /\ crashes' = crashes + 1
  /\ Abandon(w, "down")
  /\ UNCHANGED <<repoVars, webVars, cancelVars, claims, webRestarts>>

(* Somebody starts a daemon process again.                                 *)
Restart(w) ==
  /\ pc[w] \in {"threw", "down"}
  /\ Abandon(w, "recover")
  /\ UNCHANGED <<repoVars, webVars, cancelVars, claims, counters>>

(* The Web process stops and starts: its calls and local runs are gone.    *)
WebRestart ==
  /\ webRestarts < MaxWebRestarts
  /\ webRestarts' = webRestarts + 1
  /\ web' = Idle /\ nextId' = 0
  /\ cpc' = [c \in Cancellers |-> "idle"]
  /\ target' = [c \in Cancellers |-> 0]
  /\ answer' = [c \in Cancellers |-> "none"]
  /\ pc' = [w \in Workers |-> IF w \in Locals THEN "off" ELSE pc[w]]
  /\ hold' = [w \in Workers |-> IF w \in Locals THEN 0 ELSE hold[w]]
  /\ token' = [w \in Workers |-> IF w \in Locals THEN 0 ELSE token[w]]
  /\ outcome' = [w \in Workers |-> IF w \in Locals THEN None ELSE outcome[w]]
  /\ UNCHANGED <<repoVars, swept, claims, crashes>>
-----------------------------------------------------------------------------
WorkerStep(w) ==
  \/ RecoverStale(w) \/ SweepPayloads(w) \/ ClaimOldest(w) \/ ClaimNothing(w)
  \/ FirstBeat(w) \/ Verify(w) \/ LoadPayload(w) \/ Execute(w) \/ Complete(w)
  \/ DropPayload(w)

EnqueueStep ==
  (\E i \in Inputs : AllocateId(i)) \/ SavePayload \/ SaveRecord \/ CleanupPayload

CancelStep(c) ==
  \/ \E j \in Jobs : CancelCall(c, j)
  \/ RequestRunning(c) \/ RecheckQueued(c) \/ MarkRunning(c)
  \/ CancelQueued(c) \/ PurgePayload(c)

Next ==
  \/ EnqueueStep
  \/ \E w \in Workers : WorkerStep(w) \/ StartLocal(w) \/ LoopBeat(w) \/ Crash(w) \/ Restart(w)
  \/ \E c \in Cancellers : CancelStep(c)
  \/ \E j \in Jobs : PassDeadline(j)
  \/ WebRestart

Spec == Init /\ [][Next]_vars

(* The event loop of a process goes on while the process lives, and clocks *)
(* advance.  Nothing is assumed of heartbeats, cancellers, the Web or of   *)
(* daemons being started again.                                            *)
Fairness ==
  /\ \A w \in Daemons : WF_vars(WorkerStep(w))
  /\ \A w \in Locals : WF_vars(WorkerStep(w))
  /\ \A j \in Jobs : WF_vars(PassDeadline(j))
FairSpec == Spec /\ Fairness

-----------------------------------------------------------------------------
(* The properties.                                                         *)

Pending == {"queued", "running"}
Working == {"beat", "verify", "load", "execute", "complete"}

(* A job that waits or runs has its payload, and it is the payload of this *)
(* job: no crash or failed save of enqueueSafe, no reuse of an identifier  *)
(* and no best-effort deletion by a slow worker or canceller makes         *)
(* runClaimedJob fail a job with worker_job_payload_unavailable.           *)
LivePayload ==
  \A j \in Jobs : job[j].state \in Pending => payload[j] = job[j].input

(* A job is claimed at most once more than it was recovered, hence at most *)
(* maxStaleRecoveryCount + 1 times.                                        *)
StaleBudget ==
  \A j \in Jobs :
    claims[j] <= job[j].stale + (IF job[j].state = "queued" THEN 0 ELSE 1)

(* At most one worker acts under the claim a running record names, however *)
(* many workers still believe that they run the job.                       *)
OneHolder ==
  \A v, w \in Workers :
    /\ hold[v] \in Jobs /\ hold[v] = hold[w]
    /\ HeldUnder(job[hold[v]], token[v]) /\ HeldUnder(job[hold[w]], token[w])
    => v = w

(* Once a settled state or a cancellation request is stored, no step       *)
(* removes it, and a request keeps the job from being queued or claimed    *)
(* again.                                                                  *)
NothingForgotten ==
  [][\A j \in Jobs :
       /\ job[j].state \in Terminal => job'[j] = job[j]
       /\ job[j].cancel => /\ job'[j].cancel
                           /\ job'[j].state \in {"running"} \cup Terminal
                           /\ claims'[j] = claims[j]]_vars

(* A daemon is doomed when its claim is gone: it will throw at its next    *)
(* check.  Claim conflicts alone never take down the last daemon, because  *)
(* the daemon that recovers a job holds no claim itself.                   *)
Doomed(w) ==
  \/ pc[w] = "threw"
  \/ pc[w] \in Working /\ ~HeldUnder(job[hold[w]], token[w])
Survivor == crashes = 0 => \E w \in Daemons : ~Doomed(w)

(* Every queued job settles, although conflicts end daemons, as long as no *)
(* daemon crashes or comes to the end of its rounds; and in spite of that  *)
(* when daemons are started again.                                         *)
Supervised == \A w \in Daemons : WF_vars(Restart(w))
EveryJobSettles ==
  [](crashes = 0) \/ Supervised
    => \A j \in Jobs : job[j].state = "queued" ~> job[j].state \in Terminal

(* The queue implements the abstract lifecycle.                            *)
PhaseOf(s) == IF s \in Terminal THEN "settled" ELSE s
Lifecycle == INSTANCE JobLifecycle WITH
  phase <- [j \in Jobs |-> PhaseOf(job[j].state)],
  handed <- claims,
  withdrawn <- [j \in Jobs |-> job[j].cancel]
LifecycleSpec == Lifecycle!Spec

-----------------------------------------------------------------------------
(* The inductive invariant behind the safety properties.                   *)

(* Every call to enqueueSafe works on an identifier nobody uses: it has no *)
(* record, and no identifier from the counter on has one.                  *)
EnqueueInv ==
  /\ web.pc # "idle" => /\ web.job \in Jobs /\ web.input \in Inputs
                        /\ job[web.job].state = "none"
                        /\ nextId # 0 /\ web.job < nextId
  /\ web.pc = "record" => payload[web.job] = web.input
  /\ nextId # 0 => \A k \in Stored : k < nextId

(* A job that was never saved has no history, and a queued one no request. *)
RecordInv ==
  \A j \in Jobs :
    /\ job[j].state = "none" => job[j] = NoJob /\ claims[j] = 0
    /\ job[j].state = "queued" => ~job[j].cancel

(* A claim is on a stored job with a token that was given out, and nobody  *)
(* else has that token.                                                    *)
ClaimInv ==
  /\ \A w \in Workers :
       /\ pc[w] \in Working \cup {"drop"} => hold[w] \in Jobs
       /\ hold[w] \in Jobs => token[w] <= claims[hold[w]] /\ job[hold[w]].state # "none"
       /\ pc[w] = "complete" => outcome[w] \in Outcomes
       /\ pc[w] \in {"recover", "sweep", "threw", "down"} => w \in Daemons
  /\ \A v, w \in Workers :
       hold[v] \in Jobs /\ hold[v] = hold[w] /\ token[v] = token[w] => v = w

(* Payloads are deleted only of jobs that have settled.                    *)
DeleteInv ==
  /\ \A w \in Workers :
       /\ pc[w] = "drop" => job[hold[w]].state \in Terminal
       /\ \A j \in swept[w] : job[j].state \in Terminal
  /\ \A c \in Cancellers :
       /\ cpc[c] # "idle" => target[c] \in Jobs /\ job[target[c]].state # "none"
       /\ cpc[c] = "purge" => job[target[c]].state \in Terminal

IInv ==
  /\ TypeOK /\ EnqueueInv /\ RecordInv /\ ClaimInv /\ DeleteInv
  /\ LivePayload /\ StaleBudget

=============================================================================
