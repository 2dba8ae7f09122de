------------------------- MODULE PrismaWorkerQueue -------------------------
(***************************************************************************)
(* The worker queue over PostgreSQL (packages/db/src/                      *)
(* prisma-worker-repositories.ts).  The processes are those of             *)
(* WorkerQueue; here the repository calls are not atomic: all but the      *)
(* heartbeat and the claim read a record, compute the next one and write   *)
(* every field of it with an updateMany whose where clause tests a few     *)
(* fields.  Each statement is one action, so other processes run between   *)
(* the read and the write.                                                 *)
(*                                                                         *)
(* The getById that follows a successful updateMany only builds the        *)
(* returned record; it is taken together with the update.                  *)
(***************************************************************************)
EXTENDS WorkerQueue

VARIABLES
  rows,   \* rows[w]: the rows w has read and not yet dealt with, by job
  crow    \* crow[c]: the record that a cancellation has read

prismaVars == <<vars, rows, crow>>
NoRows == [j \in {} |-> NoJob]

(* Types of the tables and the enqueuing call, of the workers and of the   *)
(* cancellers.                                                             *)
TableTypes ==
  /\ job \in [Jobs -> JobRecord]
  /\ payload \in [Jobs -> Inputs \cup {None}]
  /\ web \in [pc: {"idle", "payload", "record", "cleanup"},
              job: Jobs \cup {0}, input: Inputs \cup {None}]
  /\ nextId \in Nat /\ claims \in [Jobs -> Nat] /\ webRestarts \in Nat

WorkerTypes ==
  /\ pc \in [Workers -> {"off", "recover", "recoverRow", "sweep", "claim", "try", "beat", "verify",
                         "load", "execute", "complete", "commit", "drop", "threw", "down"}]
  /\ hold \in [Workers -> Jobs \cup {0}] /\ token \in [Workers -> Nat]
  /\ outcome \in [Workers -> Outcomes \cup {None}]
  /\ swept \in [Workers -> SUBSET Jobs]

CancellerTypes ==
  /\ cpc \in [Cancellers -> {"idle", "request", "recheck", "mark", "markWrite", "cancel",
                             "cancelWrite", "purge"}]
  /\ target \in [Cancellers -> Jobs \cup {0}]
  /\ answer \in [Cancellers -> Answers]

(* Types of the rows that callers have read: the stale count stays within  *)
(* its budget in snapshots too.                                            *)
SnapshotTypes ==
  /\ DOMAIN rows = Workers
  /\ \A w \in Workers : /\ DOMAIN rows[w] \subseteq Jobs
                        /\ \A j \in DOMAIN rows[w] : rows[w][j] \in JobRecord
  /\ crow \in [Cancellers -> JobRecord]

PrismaTypeOK == TableTypes /\ WorkerTypes /\ CancellerTypes /\ SnapshotTypes

PrismaInit ==
  /\ Init
  /\ rows = [w \in Workers |-> NoRows]
  /\ crow = [c \in Cancellers |-> NoJob]

Read(w, js) == rows' = [rows EXCEPT ![w] = [j \in js |-> job[j]]]
DoneWith(w, j) ==
  rows' = [rows EXCEPT ![w] = [k \in DOMAIN rows[w] \ {j} |-> rows[w][k]]]
NextRow(w, j) == j \in DOMAIN rows[w] /\ \A k \in DOMAIN rows[w] : j <= k

-----------------------------------------------------------------------------
(* claimOldestQueued: read the candidates, then try one after the other    *)
(* with an update that tests the state and writes only the claim.          *)
ReadCandidates(w) ==
  /\ pc[w] = "claim"
  /\ Read(w, Claimable(w))
  /\ pc' = [pc EXCEPT ![w] = IF Claimable(w) = {} THEN Resting(w) ELSE "try"]
  /\ UNCHANGED <<repoVars, webVars, hold, token, outcome, swept, cancelVars, claims,
                 counters, crow>>

TryCandidate(w) ==
  /\ pc[w] = "try"
  /\ \E j \in DOMAIN rows[w] :
       /\ NextRow(w, j)
       /\ \/ /\ job[j].state = "queued"
             /\ claims' = [claims EXCEPT ![j] = @ + 1]
             /\ job' = [job EXCEPT ![j] = Claimed(@, w, claims[j] + 1)]
             /\ hold' = [hold EXCEPT ![w] = j]
             /\ token' = [token EXCEPT ![w] = claims[j] + 1]
             /\ pc' = [pc EXCEPT ![w] = "beat"]
             /\ rows' = [rows EXCEPT ![w] = NoRows]
          \/ /\ job[j].state # "queued"
             /\ DoneWith(w, j)
             /\ pc' = [pc EXCEPT ![w] = IF DOMAIN rows[w] = {j} THEN Resting(w) ELSE "try"]
             /\ UNCHANGED <<job, claims, hold, token>>
  /\ UNCHANGED <<payload, webVars, outcome, swept, cancelVars, counters, crow>>

(* The timer is stopped after the settling call, so it may beat between    *)
(* the two statements of completeClaimed as well.                          *)
CommitBeat(w) ==
  /\ w \in Daemons /\ pc[w] = "commit"
  /\ BeatOn(w)
  /\ UNCHANGED <<payload, webVars, workerVars, cancelVars, claims, counters>>

(* heartbeatClaimed is one conditional update.  It moves the deadline      *)
(* beyond every staleBefore taken earlier, so a stale recovery that has    *)
(* read this row will not find it any more.                                *)
PrismaBeat(w) ==
  /\ FirstBeat(w) \/ LoopBeat(w) \/ CommitBeat(w)
  /\ rows' = [v \in Workers |->
                IF pc[v] = "recoverRow" /\ hold[w] \in Jobs /\ MayBeat(job[hold[w]], w, token[w])
                THEN [j \in DOMAIN rows[v] \ {hold[w]} |-> rows[v][j]] ELSE rows[v]]
  /\ UNCHANGED crow

(* recoverStale: read the running rows, then write the recovered record of *)
(* each stale one where id, state, claim token and deadline still match.   *)
ReadStale(w) ==
  /\ pc[w] = "recover"
  /\ Read(w, StaleJobs)
  /\ pc' = [pc EXCEPT ![w] = "recoverRow"]
  /\ UNCHANGED <<repoVars, webVars, hold, token, outcome, swept, cancelVars, claims,
                 counters, crow>>

(* Mutant: the claim token is not compared.                                *)
MutTokenless(r, now) ==
  /\ now.state = "running"
  /\ IF r.beat # "unset" THEN now.beat = "passed"
                         ELSE now.beat = "unset" /\ now.started = "passed"

StaleMatch(r, now) ==
  /\ HeldUnder(now, r.token)
  /\ IF r.beat # "unset" THEN now.beat = "passed"
                         ELSE now.beat = "unset" /\ now.started = "passed"

RecoverRow(w) ==
  /\ pc[w] = "recoverRow"
  /\ \E j \in DOMAIN rows[w] :
       /\ NextRow(w, j)
       /\ DoneWith(w, j)
       /\ IF StaleMatch(rows[w][j], job[j])
          THEN /\ job' = [job EXCEPT ![j] = Recovered(rows[w][j])]
               /\ swept' = [swept EXCEPT
                    ![w] = IF Recovered(rows[w][j]).state \in Terminal THEN @ \cup {j} ELSE @]
          ELSE UNCHANGED <<job, swept>>
  /\ UNCHANGED <<payload, webVars, pc, hold, token, outcome, cancelVars, claims, counters, crow>>

RecoverDone(w) ==
  /\ pc[w] = "recoverRow" /\ DOMAIN rows[w] = {}
  /\ pc' = [pc EXCEPT ![w] = "sweep"]
  /\ UNCHANGED <<repoVars, webVars, hold, token, outcome, swept, cancelVars, claims,
                 counters, rows, crow>>

(* completeClaimed: the record is read, checked and extended, and written  *)
(* where state and token still match.                                      *)
ReadCompletion(w) ==
  /\ pc[w] = "complete"
  /\ w \in Locals => LockFree(hold[w])
  /\ IF HeldUnder(job[hold[w]], token[w])
     THEN /\ Read(w, {hold[w]})
          /\ pc' = [pc EXCEPT ![w] = "commit"]
          /\ UNCHANGED <<hold, token, outcome, swept>>
     ELSE Conflict(w) /\ UNCHANGED rows
  /\ UNCHANGED <<repoVars, webVars, cancelVars, claims, counters, crow>>

(* Mutant: the write tests only that the job is running.                   *)
MutUnfenced(w) ==
  /\ pc[w] = "commit"
  /\ IF job[hold[w]].state = "running"
     THEN /\ job' = [job EXCEPT ![hold[w]] = Completed(rows[w][hold[w]], outcome[w])]
          /\ pc' = [pc EXCEPT ![w] = "drop"]
          /\ UNCHANGED <<hold, token, outcome, swept>>
     ELSE Conflict(w) /\ UNCHANGED job
  /\ rows' = [rows EXCEPT ![w] = NoRows]
  /\ UNCHANGED <<payload, webVars, cancelVars, claims, counters, crow>>

WriteCompletion(w) ==
  /\ pc[w] = "commit"
  /\ IF HeldUnder(job[hold[w]], token[w])
     THEN /\ job' = [job EXCEPT ![hold[w]] = Completed(rows[w][hold[w]], outcome[w])]
          /\ pc' = [pc EXCEPT ![w] = "drop"]
          /\ UNCHANGED <<hold, token, outcome, swept>>
     ELSE Conflict(w) /\ UNCHANGED job
  /\ rows' = [rows EXCEPT ![w] = NoRows]
  /\ UNCHANGED <<payload, webVars, cancelVars, claims, counters, crow>>

-----------------------------------------------------------------------------
(* requestRunningCancellation: the write tests only that the job runs.     *)
ReadRunning(c) ==
  LET r == job[target[c]]
  IN  /\ cpc[c] = "mark"
      /\ IF r.state = "running"
         THEN crow' = [crow EXCEPT ![c] = r] /\ Go(c, "markWrite")
         ELSE Return(c, r) /\ UNCHANGED crow
      /\ UNCHANGED <<repoVars, webVars, workerVars, claims, counters, rows>>

(* Mutant: the write has no condition.                                     *)
MutMarkBlindly(c) ==
  /\ cpc[c] = "markWrite"
  /\ job' = [job EXCEPT ![target[c]] = CancelRequested(crow[c])]
  /\ Return(c, job'[target[c]])
  /\ crow' = [crow EXCEPT ![c] = NoJob]
  /\ UNCHANGED <<payload, webVars, workerVars, claims, counters, rows>>

WriteMark(c) ==
  LET r == job[target[c]]
      written == IF r.state = "running" THEN CancelRequested(crow[c]) ELSE r
  IN  /\ cpc[c] = "markWrite"
      /\ job' = [job EXCEPT ![target[c]] = written]
      /\ Return(c, written)
      /\ crow' = [crow EXCEPT ![c] = NoJob]
      /\ UNCHANGED <<payload, webVars, workerVars, claims, counters, rows>>

(* Mutant: whatever is not queued any more is taken for cancelled.         *)
MutFoundCancelled(c, r) ==
  IF r.state = "queued" THEN Return(c, r) ELSE Go(c, "purge")

(* cancelQueued: the write tests only that the job is queued.              *)
Found(c, r) ==
  IF r.state = "running" THEN Go(c, "mark")
  ELSE IF r.state = "cancelled" THEN Go(c, "purge") ELSE Return(c, r)

ReadQueued(c) ==
  LET r == job[target[c]]
  IN  /\ cpc[c] = "cancel"
      /\ IF r.state = "queued"
         THEN crow' = [crow EXCEPT ![c] = r] /\ Go(c, "cancelWrite")
         ELSE Found(c, r) /\ UNCHANGED crow
      /\ UNCHANGED <<repoVars, webVars, workerVars, claims, counters, rows>>

WriteCancelled(c) ==
  LET r == job[target[c]]
      written == IF r.state = "queued" THEN QueuedCancelled(crow[c]) ELSE r
  IN  /\ cpc[c] = "cancelWrite"
      /\ job' = [job EXCEPT ![target[c]] = written]
      /\ IF written.state = "queued" THEN Return(c, written) ELSE Found(c, written)
      /\ crow' = [crow EXCEPT ![c] = NoJob]
      /\ UNCHANGED <<payload, webVars, workerVars, claims, counters, rows>>

-----------------------------------------------------------------------------
(* The steps that do not touch the job repository, or write one new row.   *)
LocalStep(w) ==
  \/ SweepPayloads(w) \/ Verify(w) \/ LoadPayload(w) \/ Execute(w) \/ DropPayload(w)
  \/ StartLocal(w)

EnvironmentStep ==
  \/ EnqueueStep
  \/ \E c \in Cancellers :
       (\E j \in Jobs : CancelCall(c, j)) \/ RequestRunning(c) \/ RecheckQueued(c) \/ PurgePayload(c)
  \/ \E j \in Jobs : PassDeadline(j)

(* A crash also drops what the process had read.                           *)
PrismaCrash(w) ==
  /\ Crash(w) \/ Restart(w)
  /\ rows' = [rows EXCEPT ![w] = NoRows]
  /\ UNCHANGED crow

PrismaWebRestart ==
  /\ WebRestart
  /\ rows' = [w \in Workers |-> IF w \in Locals THEN NoRows ELSE rows[w]]
  /\ crow' = [c \in Cancellers |-> NoJob]

PrismaNext ==
  \/ EnvironmentStep /\ UNCHANGED <<rows, crow>>
  \/ \E w \in Workers :
       \/ LocalStep(w) /\ UNCHANGED <<rows, crow>>
       \/ PrismaBeat(w) \/ ReadCandidates(w) \/ TryCandidate(w)
       \/ ReadStale(w) \/ RecoverRow(w) \/ RecoverDone(w)
       \/ ReadCompletion(w) \/ WriteCompletion(w) \/ PrismaCrash(w)
  \/ \E c \in Cancellers :
       ReadRunning(c) \/ WriteMark(c) \/ ReadQueued(c) \/ WriteCancelled(c)
  \/ PrismaWebRestart

PrismaSpec == PrismaInit /\ [][PrismaNext]_prismaVars

-----------------------------------------------------------------------------
(* A settled row is never rewritten, from whatever snapshot: the rule of   *)
(* the design document for every transition of stale recovery.             *)
SettledRowsStay ==
  [][\A j \in Jobs : job[j].state \in Terminal => job'[j] = job[j]]_prismaVars

(* Steps on jobs of which no cancellation is recorded.  A canceller that   *)
(* writes back the row it read gives that row its old claim, and a stale   *)
(* recovery may write back a row without the request; both are recorded    *)
(* in the README.                                                          *)
Uncancelled == \A j \in Jobs : ~job[j].cancel

(* A result is recorded only by the worker that claimed the job last: a    *)
(* worker whose job was recovered and claimed again is fenced out.         *)
LatestClaimCompletes ==
  [][\A w \in Workers :
       pc[w] = "commit" /\ pc'[w] = "drop" /\ Uncancelled
         => token[w] = claims[hold[w]]]_prismaVars

(* As long as nobody has cancelled anything (which a restart of the Web    *)
(* would forget), the split calls take the steps of the abstract lifecycle,*)
(* whatever snapshots the processes hold.                                  *)
NobodyCancels ==
  webRestarts = 0 /\ \A c \in Cancellers : cpc[c] = "idle" /\ answer[c] = "none"
LifecycleSteps ==
  [][NobodyCancels => Lifecycle!Next]_prismaVars

-----------------------------------------------------------------------------
(* The inductive invariant behind the safety properties.                   *)

(* A snapshot is of a row that exists, and agrees with it in the input.    *)
SnapshotInv ==
  /\ \A w \in Workers : \A j \in DOMAIN rows[w] :
       job[j].state # "none" /\ rows[w][j].input = job[j].input
  /\ \A c \in Cancellers :
       /\ cpc[c] \in {"markWrite", "cancelWrite"} => crow[c].input = job[target[c]].input
       /\ cpc[c] = "markWrite" => crow[c].state = "running"

(* What a worker holds exists, and it completes what it has read.          *)
HeldInv ==
  \A w \in Workers :
    /\ pc[w] \in Working \cup {"commit", "drop"} => hold[w] \in Jobs
    /\ pc[w] = "commit" => hold[w] \in DOMAIN rows[w]
    /\ pc[w] \in {"complete", "commit"} => outcome[w] \in Outcomes

(* The row of a running job that nobody cancels carries its last claim.    *)
LastClaim(r, n) == r.state = "running" /\ ~r.cancel => r.token = n
TokenInv == \A j \in Jobs : LastClaim(job[j], claims[j])

PrismaInv ==
  /\ PrismaTypeOK /\ EnqueueInv /\ DeleteInv /\ SnapshotInv /\ HeldInv /\ TokenInv
  /\ LivePayload

(* While nobody cancels, no row has a request, a row has been claimed at   *)
(* most once more than it was recovered, and a row that was read under the *)
(* claim it still has has the stale count it still has.                    *)
FreshRow(r, n) ==
  /\ ~r.cancel /\ r.state # "cancelled" /\ r.token <= n
  /\ r.state = "none" => n = 0
  /\ r.state = "queued" => n <= r.stale
  /\ r.state = "running" => n <= r.stale + 1 /\ r.token = n
FreshRead(q, r, n) ==
  /\ ~q.cancel /\ q.token <= n
  /\ r.state = "running" /\ r.token = q.token => q.stale = r.stale
FreshInv ==
  NobodyCancels =>
    /\ \A j \in Jobs : FreshRow(job[j], claims[j])
    /\ \A w \in Workers : /\ pc[w] \in {"complete", "commit"} => outcome[w] # "cancelled"
                          /\ \A j \in DOMAIN rows[w] : FreshRead(rows[w][j], job[j], claims[j])
=============================================================================
