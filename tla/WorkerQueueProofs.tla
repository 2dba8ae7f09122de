-------------------------- MODULE WorkerQueueProofs --------------------------
(***************************************************************************)
(* Proofs about WorkerQueue, then about PrismaWorkerQueue and              *)
(* JsonWorkerQueue, for every set of jobs, workers, inputs and cancellers  *)
(* and every bound.  What the pure functions do to one record, and which   *)
(* steps leave the table alone, is proved once for all.                    *)
(***************************************************************************)
EXTENDS PrismaWorkerQueue, JsonWorkerQueue, TLAPS

USE DEF vars, repoVars, webVars, workerVars, cancelVars, counters

-----------------------------------------------------------------------------
(* The empty record is a record.                                           *)
LEMMA NoJobTyped == NoJob \in JobRecord
  BY MaxStaleAssumption DEF NoJob, JobRecord, JobStates, Deadlines

(* The operations on one record keep it a record.                          *)
LEMMA RecordOps ==
  ASSUME NEW r \in JobRecord
  PROVE  /\ \A i \in Inputs \cup {None} : NewJob(i) \in JobRecord
         /\ \A w \in Workers, t \in Nat : Claimed(r, w, t) \in JobRecord
         /\ Beaten(r) \in JobRecord
         /\ \A o \in Outcomes : Completed(r, o) \in JobRecord
         /\ CancelRequested(r) \in JobRecord
         /\ QueuedCancelled(r) \in JobRecord
         /\ Expired(r) \in JobRecord
         /\ Recovered(r) \in JobRecord
  <1> USE MaxStaleAssumption DEF JobRecord, JobStates, Deadlines
  <1>1. \A i \in Inputs \cup {None} : NewJob(i) \in JobRecord
    BY NoJobTyped DEF NewJob
  <1>2. \A w \in Workers, t \in Nat : Claimed(r, w, t) \in JobRecord
    BY DEF Claimed
  <1>3. \A o \in Outcomes : Completed(r, o) \in JobRecord
    BY ZenonT(60) DEF Completed, Outcomes
  <1>4. /\ Beaten(r) \in JobRecord
        /\ CancelRequested(r) \in JobRecord
        /\ QueuedCancelled(r) \in JobRecord
        /\ Expired(r) \in JobRecord
    BY DEF Beaten, CancelRequested, QueuedCancelled, Expired
  <1>5. Recovered(r) \in JobRecord
    <2>1. CASE r.cancel \/ r.stale >= MaxStale
      BY <2>1 DEF Recovered, Requeued
    <2>2. CASE ~r.cancel /\ ~(r.stale >= MaxStale)
      <3>1. r.stale + 1 \in 0 .. MaxStale
        BY <2>2
      <3> QED BY <2>2, <3>1 DEF Recovered, Requeued
    <2> QED BY <2>1, <2>2
  <1> QED BY <1>1, <1>2, <1>3, <1>4, <1>5

(* Which state and claim token each operation leaves in the record.        *)
LEMMA RecordFields ==
  ASSUME NEW r \in JobRecord
  PROVE  /\ \A o \in Outcomes : Completed(r, o).state = o
         /\ QueuedCancelled(r).state = "cancelled"
         /\ CancelRequested(r).state = r.state
         /\ \A w \in Workers, t \in Nat : Claimed(r, w, t).state = "running" /\ Claimed(r, w, t).token = t
         /\ Beaten(r).state = r.state /\ Beaten(r).token = r.token
         /\ Expired(r).state = r.state /\ Expired(r).token = r.token
         /\ CancelRequested(r).token = r.token
  BY DEF JobRecord, Completed, QueuedCancelled, CancelRequested, Claimed, Beaten, Expired

(* Every step keeps the types of the stores and of the processes.          *)
LEMMA TypeStep == TypeOK /\ ClaimInv /\ [Next]_vars => TypeOK'
  <1> SUFFICES ASSUME TypeOK, ClaimInv, [Next]_vars PROVE TypeOK'
    OBVIOUS
  <1> USE JobsAssumption, QueueAssumption, InputsAssumption, RecordOps DEF TypeOK
  <1>1. ASSUME NEW i \in Inputs, AllocateId(i) PROVE TypeOK'
    BY <1>1 DEF AllocateId
  <1>2. CASE SavePayload
    BY <1>2 DEF SavePayload, Idle
  <1>3. CASE SaveRecord
    <2>1. NewJob(web.input) \in JobRecord
      BY NoJobTyped DEF NewJob, JobRecord, JobStates
    <2> QED BY <1>3, <2>1 DEF SaveRecord, Idle
  <1>4. CASE CleanupPayload
    BY <1>4 DEF CleanupPayload, Idle
  <1>5. ASSUME NEW w \in Workers, StartLocal(w) PROVE TypeOK'
    BY <1>5 DEF StartLocal
  <1>6. ASSUME NEW w \in Workers, RecoverStale(w) PROVE TypeOK'
    BY <1>6 DEF RecoverStale, StaleJobs
  <1>7. ASSUME NEW w \in Workers, SweepPayloads(w) PROVE TypeOK'
    BY <1>7 DEF SweepPayloads
  <1>8. ASSUME NEW w \in Workers, ClaimOldest(w) PROVE TypeOK'
    <2>1. PICK j \in Claimable(w) :
            /\ claims' = [claims EXCEPT ![j] = @ + 1]
            /\ job' = [job EXCEPT ![j] = Claimed(@, w, claims[j] + 1)]
            /\ hold' = [hold EXCEPT ![w] = j]
            /\ token' = [token EXCEPT ![w] = claims[j] + 1]
      BY <1>8 DEF ClaimOldest
    <2>2. j \in Jobs /\ claims[j] + 1 \in Nat /\ job[j] \in JobRecord
      BY DEF Claimable
    <2>3. Claimed(job[j], w, claims[j] + 1) \in JobRecord
      BY <2>2
    <2> QED BY <1>8, <2>1, <2>2, <2>3 DEF ClaimOldest
  <1>9. ASSUME NEW w \in Workers, ClaimNothing(w) PROVE TypeOK'
    BY <1>9 DEF ClaimNothing, Resting
  <1>10. ASSUME NEW w \in Workers, FirstBeat(w) \/ LoopBeat(w) PROVE TypeOK'
    BY <1>10 DEF FirstBeat, LoopBeat, BeatOn
  <1>11. ASSUME NEW w \in Workers, Verify(w) PROVE TypeOK'
    BY <1>11 DEF Verify, Conflict, Abandon
  <1>12. ASSUME NEW w \in Workers, LoadPayload(w) PROVE TypeOK'
    BY <1>12 DEF LoadPayload, Outcomes
  <1>13. ASSUME NEW w \in Workers, Execute(w) PROVE TypeOK'
    BY <1>13 DEF Execute, Outcomes
  <1>14. ASSUME NEW w \in Workers, Complete(w) PROVE TypeOK'
    <2>1. hold[w] \in Jobs /\ Completed(job[hold[w]], outcome[w]) \in JobRecord
      BY <1>14 DEF Complete, ClaimInv, Working
    <2> QED BY <1>14, <2>1 DEF Complete, Conflict, Abandon
  <1>15. ASSUME NEW w \in Workers, DropPayload(w) PROVE TypeOK'
    BY <1>15 DEF DropPayload, Abandon, Resting
  <1>16. ASSUME NEW w \in Workers, Crash(w) PROVE TypeOK'
    BY <1>16 DEF Crash, Abandon
  <1>17. ASSUME NEW w \in Workers, Restart(w) PROVE TypeOK'
    BY <1>17 DEF Restart, Abandon
  <1>18. ASSUME NEW c \in Cancellers, NEW j \in Jobs, CancelCall(c, j) PROVE TypeOK'
    BY <1>18 DEF CancelCall, Answers
  <1>19. ASSUME NEW c \in Cancellers, RequestRunning(c) \/ RecheckQueued(c) PROVE TypeOK'
    BY <1>19 DEF RequestRunning, RecheckQueued, Go, Return, AnswerFor, Answers
  <1>20. ASSUME NEW c \in Cancellers, MarkRunning(c) PROVE TypeOK'
    BY <1>20 DEF MarkRunning, Return, AnswerFor, Answers
  <1>21. ASSUME NEW c \in Cancellers, CancelQueued(c) PROVE TypeOK'
    BY <1>21 DEF CancelQueued, Go, Return, AnswerFor, Answers
  <1>22. ASSUME NEW c \in Cancellers, PurgePayload(c) PROVE TypeOK'
    BY <1>22 DEF PurgePayload, Return, AnswerFor, Answers
  <1>23. ASSUME NEW j \in Jobs, PassDeadline(j) PROVE TypeOK'
    BY <1>23 DEF PassDeadline
  <1>24. CASE WebRestart
    <2>1. /\ Idle \in [pc: {"idle", "payload", "record", "cleanup"},
                        job: Jobs \cup {0}, input: Inputs \cup {None}]
          /\ UNCHANGED <<job, payload, swept, claims, crashes>>
          /\ nextId' \in Nat /\ webRestarts' \in Nat
      BY <1>24 DEF WebRestart, Idle
    <2>2. /\ pc' \in [Workers -> {"off", "recover", "sweep", "claim", "beat", "verify",
                         "load", "execute", "complete", "drop", "threw", "down"}]
          /\ hold' \in [Workers -> Jobs \cup {0}]
          /\ token' \in [Workers -> Nat]
          /\ outcome' \in [Workers -> Outcomes \cup {None}]
      BY <1>24 DEF WebRestart
    <2>3. /\ cpc' \in [Cancellers -> {"idle", "request", "recheck", "mark", "cancel", "purge"}]
          /\ target' \in [Cancellers -> Jobs \cup {0}]
          /\ answer' \in [Cancellers -> Answers]
      BY <1>24 DEF WebRestart, Answers
    <2> QED BY <1>24, <2>1, <2>2, <2>3 DEF WebRestart
  <1>25. CASE UNCHANGED vars
    BY <1>25
  <1> QED
    BY <1>1, <1>2, <1>3, <1>4, <1>5, <1>6, <1>7, <1>8, <1>9, <1>10, <1>11,
       <1>12, <1>13, <1>14, <1>15, <1>16, <1>17, <1>18, <1>19, <1>20, <1>21,
       <1>22, <1>23, <1>24, <1>25
    DEF Next, EnqueueStep, WorkerStep, CancelStep

-----------------------------------------------------------------------------
(* The steps that leave every record and every claim counter alone.        *)
QuietStep ==
  \/ \E i \in Inputs : AllocateId(i)
  \/ SavePayload \/ CleanupPayload \/ WebRestart
  \/ \E w \in Workers :
       \/ StartLocal(w) \/ SweepPayloads(w) \/ ClaimNothing(w) \/ Verify(w)
       \/ LoadPayload(w) \/ Execute(w) \/ DropPayload(w) \/ Crash(w) \/ Restart(w)
  \/ \E c \in Cancellers :
       \/ \E j \in Jobs : CancelCall(c, j)
       \/ RequestRunning(c) \/ RecheckQueued(c) \/ PurgePayload(c)

(* The steps that make no write to the job repository leave every record   *)
(* and every claim count as it is.                                         *)
LEMMA QuietKeepsJobs == QuietStep => UNCHANGED <<job, claims>>
  BY DEF QuietStep, AllocateId, SavePayload, CleanupPayload, WebRestart, StartLocal,
         SweepPayloads, ClaimNothing, Verify, LoadPayload, Execute, DropPayload, Crash,
         Restart, CancelCall, RequestRunning, RecheckQueued, PurgePayload

(* What one step may make of a record r that has been claimed n times: the *)
(* record q, claimed m times.  Only enqueueSafe makes one out of nothing.  *)
Same(r, q) == q.input = r.input /\ q.stale = r.stale
Evolves(r, q, n, m) ==
  \/ q = r /\ m = n
  \/ r.state = "none" /\ m = n /\ \E i \in Inputs : q = NewJob(i)
  \/ r.state = "queued" /\ q.state = "running" /\ Same(r, q) /\ q.cancel = r.cancel /\ m = n + 1
  \/ r.state = "queued" /\ q.state = "cancelled" /\ Same(r, q) /\ q.cancel /\ m = n
  \/ r.state = "running" /\ q.state = "running" /\ Same(r, q) /\ (r.cancel => q.cancel) /\ m = n
  \/ r.state = "running" /\ q.state \in Terminal /\ Same(r, q) /\ (r.cancel => q.cancel) /\ m = n
  \/ /\ r.state = "running" /\ q.state = "queued" /\ ~r.cancel /\ ~q.cancel
     /\ q.input = r.input /\ r.stale < MaxStale /\ q.stale = r.stale + 1 /\ m = n

(* Each repository operation, on the state it tests for, is one of the     *)
(* moves that Evolves lists.                                               *)
LEMMA ActiveRecordEvolves ==
  ASSUME NEW r \in JobRecord, NEW n \in Nat
  PROVE  /\ r.state = "queued" =>
              /\ \A w \in Workers, t \in Nat : Evolves(r, Claimed(r, w, t), n, n + 1)
              /\ Evolves(r, QueuedCancelled(r), n, n)
         /\ r.state = "running" =>
              /\ Evolves(r, Beaten(r), n, n) /\ Evolves(r, CancelRequested(r), n, n)
              /\ Evolves(r, Expired(r), n, n) /\ Evolves(r, Recovered(r), n, n)
              /\ \A o \in Outcomes : Evolves(r, Completed(r, o), n, n)
  <1> USE MaxStaleAssumption DEF Evolves, Same, JobRecord, Terminal
  <1>1. r.state = "queued" => \A w \in Workers, t \in Nat : Evolves(r, Claimed(r, w, t), n, n + 1)
    BY DEF Claimed
  <1>2. r.state = "queued" => Evolves(r, QueuedCancelled(r), n, n)
    BY DEF QueuedCancelled
  <1>3. r.state = "running" =>
          /\ Evolves(r, Beaten(r), n, n) /\ Evolves(r, CancelRequested(r), n, n)
          /\ Evolves(r, Expired(r), n, n)
    BY DEF Beaten, CancelRequested, Expired
  <1>4. r.state = "running" => Evolves(r, Recovered(r), n, n)
    BY DEF Recovered, Requeued
  <1>5. r.state = "running" => \A o \in Outcomes : Evolves(r, Completed(r, o), n, n)
    BY DEF Completed, Outcomes
  <1> QED BY <1>1, <1>2, <1>3, <1>4, <1>5

JobsEvolve ==
  \A j \in Jobs :
    /\ Evolves(job[j], job'[j], claims[j], claims'[j])
    /\ job[j].state = "none" /\ UNCHANGED web => job'[j] = job[j]

(* Every step of the queue moves every record by Evolves, and only the     *)
(* enqueuing Web process creates one.                                      *)
LEMMA EvolveStep ==
  TypeOK /\ EnqueueInv /\ ClaimInv /\ DeleteInv /\ [Next]_vars => JobsEvolve
  <1> SUFFICES ASSUME TypeOK, EnqueueInv, ClaimInv, DeleteInv, [Next]_vars PROVE JobsEvolve
    OBVIOUS
  <1> USE JobsAssumption, ActiveRecordEvolves DEF TypeOK
  <1>a. \A j \in Jobs : Evolves(job[j], job[j], claims[j], claims[j])
    BY DEF Evolves
  (* One record is rewritten.                                              *)
  <1>b. ASSUME UNCHANGED claims, NEW j \in Jobs, NEW q, Evolves(job[j], q, claims[j], claims[j]),
               job[j].state # "none", job' = [job EXCEPT ![j] = q]
        PROVE  JobsEvolve
    BY <1>a, <1>b DEF JobsEvolve
  <1>1. CASE QuietStep \/ UNCHANGED vars
    BY <1>1, <1>a, QuietKeepsJobs DEF JobsEvolve
  <1>2. CASE SaveRecord
    <2>1. CASE UNCHANGED job
      BY <1>2, <2>1, <1>a DEF SaveRecord, JobsEvolve
    <2>2. CASE job' = [job EXCEPT ![web.job] = NewJob(web.input)]
      <3>1. /\ web.job \in Jobs /\ web.input \in Inputs /\ job[web.job].state = "none"
            /\ UNCHANGED claims /\ web' # web
        BY <1>2, <2>2 DEF SaveRecord, EnqueueInv, Idle
      <3>2. Evolves(job[web.job], NewJob(web.input), claims[web.job], claims[web.job])
        BY <3>1 DEF Evolves
      <3> QED BY <2>2, <3>1, <3>2, <1>a DEF JobsEvolve
    <2> QED BY <1>2, <2>1, <2>2 DEF SaveRecord
  <1>3. ASSUME NEW w \in Workers, RecoverStale(w) PROVE JobsEvolve
    BY <1>3, <1>a DEF RecoverStale, StaleJobs, IsStale, JobsEvolve
  <1>4. ASSUME NEW w \in Workers, ClaimOldest(w) PROVE JobsEvolve
    <2>1. PICK j \in Claimable(w) :
            /\ claims' = [claims EXCEPT ![j] = @ + 1]
            /\ job' = [job EXCEPT ![j] = Claimed(@, w, claims[j] + 1)]
      BY <1>4 DEF ClaimOldest
    <2>2. j \in Jobs /\ job[j].state = "queued"
      BY DEF Claimable
    <2>3. job[j] \in JobRecord /\ claims[j] \in Nat /\ claims[j] + 1 \in Nat
      BY <2>2
    <2>4. Evolves(job[j], Claimed(job[j], w, claims[j] + 1), claims[j], claims[j] + 1)
      BY <2>2, <2>3
    <2> QED BY <2>1, <2>2, <2>4, <1>a DEF JobsEvolve
  <1>5. ASSUME NEW w \in Workers, FirstBeat(w) \/ LoopBeat(w) PROVE JobsEvolve
    <2>1. CASE hold[w] \in Jobs /\ MayBeat(job[hold[w]], w, token[w])
      BY ZenonT(60), <1>5, <2>1, <1>b DEF FirstBeat, LoopBeat, BeatOn, MayBeat, HeldUnder
    <2> QED BY <1>5, <2>1, <1>a DEF FirstBeat, LoopBeat, BeatOn, JobsEvolve
  <1>6. ASSUME NEW w \in Workers, Complete(w) PROVE JobsEvolve
    <2>1. hold[w] \in Jobs /\ outcome[w] \in Outcomes
      BY <1>6 DEF Complete, ClaimInv, Working
    <2>2. CASE HeldUnder(job[hold[w]], token[w])
      <3>1. Evolves(job[hold[w]], Completed(job[hold[w]], outcome[w]),
                    claims[hold[w]], claims[hold[w]])
        BY <2>1, <2>2 DEF HeldUnder
      <3>2. /\ job' = [job EXCEPT ![hold[w]] = Completed(job[hold[w]], outcome[w])]
            /\ UNCHANGED claims /\ job[hold[w]].state # "none"
        BY <1>6, <2>2 DEF Complete, HeldUnder
      <3> QED BY <2>1, <3>1, <3>2, <1>b
    <2> QED BY <1>6, <2>2, <1>a DEF Complete, JobsEvolve
  <1>7. ASSUME NEW c \in Cancellers, MarkRunning(c) PROVE JobsEvolve
    <2>1. target[c] \in Jobs
      BY <1>7 DEF MarkRunning, DeleteInv
    <2>2. CASE job[target[c]].state = "running"
      BY <1>7, <2>1, <2>2, <1>b DEF MarkRunning
    <2> QED BY <1>7, <2>1, <2>2, <1>a DEF MarkRunning, JobsEvolve
  <1>8. ASSUME NEW c \in Cancellers, CancelQueued(c) PROVE JobsEvolve
    <2>1. CASE job[target[c]].state = "queued"
      BY <1>8, <2>1, <1>b DEF CancelQueued, DeleteInv
    <2> QED BY <1>8, <2>1, <1>a DEF CancelQueued, JobsEvolve
  <1>9. ASSUME NEW j \in Jobs, PassDeadline(j) PROVE JobsEvolve
    BY <1>9, <1>b DEF PassDeadline
  <1> QED
    BY <1>1, <1>2, <1>3, <1>4, <1>5, <1>6, <1>7, <1>8, <1>9
    DEF Next, EnqueueStep, WorkerStep, CancelStep, QuietStep

(* What the other invariants need of it.                                   *)
JobMoves ==
  \A j \in Jobs :
    /\ job[j].state # "none" => job'[j].state # "none" /\ job'[j].input = job[j].input
    /\ job[j].state = "none" /\ UNCHANGED web => job'[j].state = "none"
    /\ job[j].state \in Terminal => job'[j] = job[j]
    /\ claims'[j] >= claims[j]

(* What the other invariants need to know of such a move.                  *)
LEMMA Moves == TypeOK /\ JobsEvolve => JobMoves
  BY DEF TypeOK, JobRecord, JobsEvolve, Evolves, Same, JobMoves, Terminal

-----------------------------------------------------------------------------
(* enqueueSafe keeps working on an identifier that has no record.          *)
LEMMA EnqueueStepInv ==
  TypeOK /\ EnqueueInv /\ ClaimInv /\ DeleteInv /\ JobMoves /\ [Next]_vars => EnqueueInv'
  <1> SUFFICES ASSUME TypeOK, EnqueueInv, ClaimInv, DeleteInv, JobMoves, [Next]_vars
               PROVE  EnqueueInv'
    OBVIOUS
  <1> USE JobsAssumption, InputsAssumption DEF TypeOK, EnqueueInv, Stored
  <1>1. ASSUME NEW i \in Inputs, AllocateId(i) PROVE EnqueueInv'
    BY <1>1 DEF AllocateId, FirstFree
  <1>2. CASE SavePayload
    BY <1>2 DEF SavePayload, Idle
  <1>3. CASE SaveRecord
    BY <1>3 DEF SaveRecord, Idle, NewJob, NoJob
  <1>4. CASE CleanupPayload
    BY <1>4 DEF CleanupPayload, Idle
  <1>5. CASE WebRestart
    BY <1>5 DEF WebRestart, Idle
  (* No other step creates a record or touches the enqueuer, and payloads  *)
  (* are deleted only of stored jobs.                                      *)
  <1>6. ASSUME UNCHANGED <<web, nextId>>,
               \A j \in Jobs : payload'[j] = payload[j] \/ job[j].state # "none"
        PROVE  EnqueueInv'
    BY <1>6 DEF JobMoves
  <1>7. ASSUME UNCHANGED <<web, nextId, payload>> PROVE EnqueueInv'
    BY <1>6, <1>7
  <1>8. ASSUME NEW w \in Workers, SweepPayloads(w) PROVE EnqueueInv'
    BY <1>6, <1>8 DEF SweepPayloads, DeleteInv, Terminal
  <1>9. ASSUME NEW w \in Workers, DropPayload(w) PROVE EnqueueInv'
    BY <1>6, <1>9 DEF DropPayload, DeleteInv, ClaimInv, Working, Terminal
  <1>10. ASSUME NEW c \in Cancellers, PurgePayload(c) PROVE EnqueueInv'
    BY <1>6, <1>10 DEF PurgePayload, DeleteInv, Terminal
  <1> QED
    BY <1>1, <1>2, <1>3, <1>4, <1>5, <1>7, <1>8, <1>9, <1>10
    DEF Next, EnqueueStep, WorkerStep, CancelStep, StartLocal, RecoverStale, ClaimOldest,
        ClaimNothing, FirstBeat, LoopBeat, Verify, LoadPayload, Execute, Complete, Crash,
        Restart, CancelCall, RequestRunning, RecheckQueued, MarkRunning, CancelQueued,
        PassDeadline

-----------------------------------------------------------------------------
(* Whoever is about to delete a payload has seen its job settled, and a    *)
(* settled job stays settled until the deletion.                           *)
LEMMA DeleteStepInv ==
  TypeOK /\ EnqueueInv /\ ClaimInv /\ DeleteInv /\ JobMoves /\ [Next]_vars => DeleteInv'
  <1> SUFFICES ASSUME TypeOK, EnqueueInv, ClaimInv, DeleteInv, JobMoves, [Next]_vars
               PROVE  DeleteInv'
    OBVIOUS
  <1> USE DEF TypeOK, DeleteInv
  <1>a. \A j \in Jobs : /\ job[j].state # "none" => job'[j].state # "none"
                        /\ job[j].state \in Terminal => job'[j].state \in Terminal
    BY DEF JobMoves, Terminal
  <1>b. ASSUME UNCHANGED <<workerVars, cancelVars>> PROVE DeleteInv'
    BY <1>a, <1>b DEF ClaimInv, Terminal, Working
  (* A worker step: its own drop and sweep are the ones to look at.        *)
  <1>c. ASSUME NEW w \in Workers, UNCHANGED cancelVars,
               \A v \in Workers \ {w} : pc'[v] = pc[v] /\ hold'[v] = hold[v] /\ swept'[v] = swept[v],
               pc'[w] = "drop" => job'[hold'[w]].state \in Terminal,
               \A j \in swept'[w] : job'[j].state \in Terminal
        PROVE  DeleteInv'
    BY <1>a, <1>c DEF ClaimInv, Working
  (* A step of a cancellation.                                             *)
  <1>d. ASSUME NEW c \in Cancellers, UNCHANGED workerVars,
               \A d \in Cancellers \ {c} : cpc'[d] = cpc[d] /\ target'[d] = target[d],
               cpc'[c] # "idle" => target'[c] \in Jobs /\ job'[target'[c]].state # "none",
               cpc'[c] = "purge" => job'[target'[c]].state \in Terminal
        PROVE  DeleteInv'
    BY <1>a, <1>d DEF ClaimInv, Working
  <1>1. CASE EnqueueStep \/ UNCHANGED vars
    BY <1>1, <1>b DEF EnqueueStep, AllocateId, SavePayload, SaveRecord, CleanupPayload
  <1>2. ASSUME NEW w \in Workers, RecoverStale(w) PROVE DeleteInv'
    BY <1>2, <1>c DEF RecoverStale, StaleJobs
  <1>3. ASSUME NEW w \in Workers,
               SweepPayloads(w) \/ ClaimNothing(w) \/ StartLocal(w) \/ FirstBeat(w)
                 \/ LoadPayload(w) \/ Execute(w)
        PROVE  DeleteInv'
    BY <1>3, <1>a, <1>c
    DEF SweepPayloads, ClaimNothing, StartLocal, FirstBeat, LoadPayload, Execute, Resting
  <1>4. ASSUME NEW w \in Workers, ClaimOldest(w) PROVE DeleteInv'
    BY <1>4, <1>a, <1>c DEF ClaimOldest
  <1>5. ASSUME NEW w \in Workers, LoopBeat(w) PROVE DeleteInv'
    BY <1>5, <1>b DEF LoopBeat
  <1>6. ASSUME NEW w \in Workers, Verify(w) \/ DropPayload(w) \/ Crash(w) \/ Restart(w)
        PROVE  DeleteInv'
    BY <1>6, <1>a, <1>c DEF Verify, DropPayload, Crash, Restart, Conflict, Abandon, Resting
  <1>7. ASSUME NEW w \in Workers, Complete(w) PROVE DeleteInv'
    <2>1. hold[w] \in Jobs /\ outcome[w] \in Outcomes
      BY <1>7 DEF Complete, ClaimInv, Working
    <2>2. CASE HeldUnder(job[hold[w]], token[w])
      <3>1. job'[hold[w]].state = outcome[w]
        BY <1>7, <2>1, <2>2, RecordFields DEF Complete
      <3>2. outcome[w] \in Terminal
        BY <2>1 DEF Outcomes, Terminal
      <3> QED BY <1>7, <2>2, <3>1, <3>2, <1>a, <1>c DEF Complete
    <2>3. CASE ~HeldUnder(job[hold[w]], token[w])
      BY <1>7, <2>3, <1>a, <1>c DEF Complete, Conflict, Abandon
    <2> QED BY <2>2, <2>3
  <1>8. ASSUME NEW c \in Cancellers, NEW j \in Jobs, CancelCall(c, j) PROVE DeleteInv'
    BY <1>8, <1>a, <1>d DEF CancelCall
  <1>9. ASSUME NEW c \in Cancellers,
               RequestRunning(c) \/ RecheckQueued(c) \/ MarkRunning(c) \/ PurgePayload(c)
        PROVE  DeleteInv'
    BY <1>9, <1>a, <1>d DEF RequestRunning, RecheckQueued, MarkRunning, PurgePayload, Go, Return
  <1>10. ASSUME NEW c \in Cancellers, CancelQueued(c) PROVE DeleteInv'
    <2>1. target[c] \in Jobs /\ job[target[c]].state # "none"
      BY <1>10 DEF CancelQueued
    <2>2. cpc'[c] = "purge" => target'[c] = target[c] /\ job'[target[c]].state \in Terminal
      <3>1. CASE job[target[c]].state = "queued"
        BY <1>10, <2>1, <3>1, RecordFields DEF CancelQueued, Go, Terminal
      <3>2. CASE job[target[c]].state # "queued"
        BY <1>10, <2>1, <3>2 DEF CancelQueued, Go, Return, Terminal
      <3> QED BY <3>1, <3>2
    <2> QED BY <1>10, <2>1, <2>2, <1>a, <1>d DEF CancelQueued, Go, Return
  <1>11. ASSUME NEW j \in Jobs, PassDeadline(j) PROVE DeleteInv'
    BY <1>11, <1>b DEF PassDeadline
  <1>12. CASE WebRestart
    BY <1>12, <1>a DEF WebRestart, Locals, ClaimInv, Working
  <1> QED
    BY <1>1, <1>2, <1>3, <1>4, <1>5, <1>6, <1>7, <1>8, <1>9, <1>10, <1>11, <1>12
    DEF Next, WorkerStep, CancelStep

-----------------------------------------------------------------------------
(* Claims stay on stored jobs and their tokens stay distinct.              *)
LEMMA ClaimStepInv ==
  TypeOK /\ RecordInv /\ ClaimInv /\ JobMoves /\ [Next]_vars => ClaimInv'
  <1> SUFFICES ASSUME TypeOK, RecordInv, ClaimInv, JobMoves, [Next]_vars PROVE ClaimInv'
    OBVIOUS
  <1> USE JobsAssumption, QueueAssumption DEF TypeOK, ClaimInv
  <1>a. \A j \in Jobs : /\ job[j].state # "none" => job'[j].state # "none"
                        /\ claims[j] \in Nat /\ claims'[j] >= claims[j] /\ claims'[j] \in Nat
    BY TypeStep DEF JobMoves
  <1>h. \A v \in Workers : hold[v] \in Jobs =>
          /\ token[v] \in Nat /\ token[v] <= claims[hold[v]]
          /\ token[v] <= claims'[hold[v]] /\ job'[hold[v]].state # "none"
    <2> TAKE v \in Workers
    <2> HAVE hold[v] \in Jobs
    <2>1. token[v] \in Nat /\ token[v] <= claims[hold[v]] /\ job[hold[v]].state # "none"
      OBVIOUS
    <2>2. /\ claims[hold[v]] \in Nat /\ claims'[hold[v]] \in Nat
          /\ claims'[hold[v]] >= claims[hold[v]] /\ job'[hold[v]].state # "none"
      BY <2>1, <1>a
    <2> QED BY <2>1, <2>2
  <1>b. ASSUME UNCHANGED workerVars PROVE ClaimInv'
    BY <1>h, <1>b
  (* A worker that keeps or gives up its claim.                            *)
  <1>c. ASSUME NEW w \in Workers,
               \A v \in Workers \ {w} : /\ pc'[v] = pc[v] /\ outcome'[v] = outcome[v]
                                         /\ hold'[v] = hold[v] /\ token'[v] = token[v],
               \/ hold'[w] = hold[w] /\ token'[w] = token[w]
               \/ hold'[w] = 0 /\ pc'[w] \notin Working \cup {"drop"},
               pc'[w] \in Working \cup {"drop"} => hold'[w] \in Jobs,
               pc'[w] = "complete" => outcome'[w] \in Outcomes,
               pc'[w] \in {"recover", "sweep", "threw", "down"} => w \in Daemons
        PROVE  ClaimInv'
    <2>1. \A v \in Workers : hold'[v] \in Jobs => hold'[v] = hold[v] /\ token'[v] = token[v]
      BY <1>c
    <2> QED BY <2>1, <1>h, <1>c
  <1>1. CASE EnqueueStep \/ UNCHANGED vars
    BY <1>1, <1>b DEF EnqueueStep, AllocateId, SavePayload, SaveRecord, CleanupPayload
  <1>2. ASSUME NEW w \in Workers, RecoverStale(w) \/ SweepPayloads(w) \/ ClaimNothing(w) \/ StartLocal(w)
        PROVE  ClaimInv'
    BY <1>2, <1>c DEF RecoverStale, SweepPayloads, ClaimNothing, StartLocal, Resting, Working
  <1>3. ASSUME NEW w \in Workers, FirstBeat(w) PROVE ClaimInv'
    BY <1>3, <1>c DEF FirstBeat, Working
  <1>4. ASSUME NEW w \in Workers, ClaimOldest(w) PROVE ClaimInv'
    <2>1. PICK j \in Claimable(w) :
            /\ claims' = [claims EXCEPT ![j] = @ + 1]
            /\ hold' = [hold EXCEPT ![w] = j]
            /\ token' = [token EXCEPT ![w] = claims[j] + 1]
      BY <1>4 DEF ClaimOldest
    <2>2. /\ j \in Jobs /\ job[j].state # "none" /\ UNCHANGED outcome
          /\ pc' = [pc EXCEPT ![w] = "beat"]
      BY <1>4 DEF Claimable, ClaimOldest
    <2>3. \A v \in Workers \ {w} : hold'[v] = hold[v] /\ token'[v] = token[v] /\ pc'[v] = pc[v]
      BY <2>1, <2>2
    <2>4. /\ hold'[w] = j /\ token'[w] = claims[j] + 1 /\ claims'[j] = claims[j] + 1
          /\ pc'[w] = "beat" /\ claims[j] \in Nat /\ job'[j].state # "none"
      BY <2>1, <2>2, <1>a
    <2>5. \A v \in Workers :
            hold'[v] \in Jobs => token'[v] <= claims'[hold'[v]] /\ job'[hold'[v]].state # "none"
      BY <2>3, <2>4, <1>h
    <2>6. \A v \in Workers : pc'[v] \in Working \cup {"drop"} => hold'[v] \in Jobs
      BY <2>2, <2>3, <2>4
    <2>7. \A v \in Workers \ {w} : ~(hold'[v] = j /\ token'[v] = claims[j] + 1)
      BY <2>2, <2>3, <2>4, <1>h
    <2>8. \A u, v \in Workers :
            hold'[u] \in Jobs /\ hold'[u] = hold'[v] /\ token'[u] = token'[v] => u = v
      BY <2>3, <2>4, <2>7
    <2> QED BY <2>2, <2>3, <2>4, <2>5, <2>6, <2>8
  <1>5. ASSUME NEW w \in Workers, LoopBeat(w) PROVE ClaimInv'
    BY <1>5, <1>b DEF LoopBeat
  <1>6. ASSUME NEW w \in Workers, Verify(w) \/ DropPayload(w) \/ Crash(w) \/ Restart(w)
        PROVE  ClaimInv'
    BY <1>6, <1>c DEF Verify, DropPayload, Crash, Restart, Conflict, Abandon, Resting, Working
  <1>7. ASSUME NEW w \in Workers, LoadPayload(w) PROVE ClaimInv'
    BY <1>7, <1>c DEF LoadPayload, Working, Outcomes
  <1>8. ASSUME NEW w \in Workers, Execute(w) PROVE ClaimInv'
    BY <1>8, <1>c DEF Execute, Working, Outcomes
  <1>9. ASSUME NEW w \in Workers, Complete(w) PROVE ClaimInv'
    BY <1>9, <1>c DEF Complete, Conflict, Abandon, Working
  <1>10. ASSUME NEW c \in Cancellers, CancelStep(c) PROVE ClaimInv'
    BY <1>10, <1>b DEF CancelStep, CancelCall, RequestRunning, RecheckQueued, MarkRunning,
                       CancelQueued, PurgePayload
  <1>11. ASSUME NEW j \in Jobs, PassDeadline(j) PROVE ClaimInv'
    BY <1>11, <1>b DEF PassDeadline
  <1>12. CASE WebRestart
    BY <1>12, <1>a DEF WebRestart, Locals, Working
  <1> QED
    BY <1>1, <1>2, <1>3, <1>4, <1>5, <1>6, <1>7, <1>8, <1>9, <1>10, <1>11, <1>12
    DEF Next, WorkerStep

-----------------------------------------------------------------------------
(* The invariants that speak of one record at a time follow from what a    *)
(* step can make of it.                                                    *)
LEMMA RecordStepInv == TypeOK /\ RecordInv /\ StaleBudget /\ JobsEvolve => RecordInv' /\ StaleBudget'
  <1> SUFFICES ASSUME TypeOK, RecordInv, StaleBudget, JobsEvolve, NEW j \in Jobs
               PROVE  /\ job'[j].state = "none" => job'[j] = NoJob /\ claims'[j] = 0
                      /\ job'[j].state = "queued" => ~job'[j].cancel
                      /\ claims'[j] <= job'[j].stale + (IF job'[j].state = "queued" THEN 0 ELSE 1)
    BY DEF RecordInv, StaleBudget
  <1>1. /\ Evolves(job[j], job'[j], claims[j], claims'[j])
        /\ job[j].state = "none" => job[j] = NoJob /\ claims[j] = 0
        /\ job[j].state = "queued" => ~job[j].cancel
        /\ claims[j] <= job[j].stale + (IF job[j].state = "queued" THEN 0 ELSE 1)
        /\ job[j] \in JobRecord /\ claims[j] \in Nat
    BY DEF JobsEvolve, RecordInv, StaleBudget, TypeOK
  <1>2. job[j].stale \in Nat
    BY <1>1, MaxStaleAssumption DEF JobRecord
  <1>3. CASE job'[j] = job[j] /\ claims'[j] = claims[j]
    BY <1>1, <1>3
  <1>4. CASE job[j].state = "none" /\ claims'[j] = claims[j] /\ \E i \in Inputs : job'[j] = NewJob(i)
    BY <1>1, <1>4 DEF NewJob, NoJob
  <1>5. CASE /\ job[j].state \in Pending /\ job'[j].state \in {"running"} \cup Terminal
             /\ job'[j].stale = job[j].stale
             /\ claims'[j] = claims[j] + (IF job[j].state = "queued" /\ job'[j].state = "running"
                                          THEN 1 ELSE 0)
    BY <1>1, <1>2, <1>5 DEF Pending, Terminal
  <1>6. CASE /\ job[j].state = "running" /\ job'[j].state = "queued" /\ ~job'[j].cancel
             /\ job'[j].stale = job[j].stale + 1 /\ claims'[j] = claims[j]
    BY <1>1, <1>2, <1>6
  <1> QED BY <1>1, <1>3, <1>4, <1>5, <1>6 DEF Evolves, Same, Pending, Terminal

(* The payload of a waiting or running job stays where it is.              *)
LEMMA PayloadStepInv ==
  TypeOK /\ EnqueueInv /\ ClaimInv /\ DeleteInv /\ LivePayload /\ JobsEvolve /\ [Next]_vars
    => LivePayload'
  <1> SUFFICES ASSUME TypeOK, EnqueueInv, ClaimInv, DeleteInv, LivePayload, JobsEvolve, [Next]_vars
               PROVE  LivePayload'
    OBVIOUS
  <1>m. JobMoves
    BY Moves
  <1> USE JobsAssumption DEF TypeOK, LivePayload, Pending
  (* Unless a record is created or a payload is written, it is enough that *)
  (* payloads disappear only of settled jobs.                              *)
  <1>a. ASSUME UNCHANGED web \/ UNCHANGED job,
               \A j \in Jobs : payload'[j] = payload[j] \/ job[j].state \in {"none"} \cup Terminal
        PROVE  LivePayload'
    <2> SUFFICES ASSUME NEW j \in Jobs, job'[j].state \in Pending
                 PROVE  payload'[j] = job'[j].input
      OBVIOUS
    <2>1. job[j].state \in Pending /\ job'[j].input = job[j].input
      <3>1. job[j].state \in JobStates
        BY DEF JobRecord
      <3> QED BY <3>1, <1>a, <1>m DEF JobMoves, JobStates, Terminal
    <2> QED BY <2>1, <1>a DEF Terminal
  <1>1. CASE SaveRecord
    <2>1. CASE UNCHANGED job
      BY <1>1, <2>1 DEF SaveRecord
    <2>2. CASE job' = [job EXCEPT ![web.job] = NewJob(web.input)]
      <3>1. NewJob(web.input).input = web.input
        BY DEF NewJob, NoJob
      <3> QED BY <1>1, <2>2, <3>1 DEF SaveRecord, EnqueueInv
    <2> QED BY <1>1, <2>1, <2>2 DEF SaveRecord
  <1>2. CASE SavePayload \/ CleanupPayload
    BY <1>2 DEF SavePayload, CleanupPayload, EnqueueInv
  <1>3. ASSUME NEW w \in Workers, SweepPayloads(w) PROVE LivePayload'
    BY <1>3, <1>a DEF SweepPayloads, DeleteInv
  <1>4. ASSUME NEW w \in Workers, DropPayload(w) PROVE LivePayload'
    BY <1>4, <1>a DEF DropPayload, DeleteInv, ClaimInv
  <1>5. ASSUME NEW c \in Cancellers, PurgePayload(c) PROVE LivePayload'
    BY <1>5, <1>a DEF PurgePayload, DeleteInv
  <1>6. ASSUME UNCHANGED payload, UNCHANGED web \/ UNCHANGED job PROVE LivePayload'
    BY <1>6, <1>a
  <1> QED
    BY <1>1, <1>2, <1>3, <1>4, <1>5, <1>6
    DEF Next, EnqueueStep, WorkerStep, CancelStep, AllocateId, StartLocal, RecoverStale,
        ClaimOldest, ClaimNothing, FirstBeat, LoopBeat, Verify, LoadPayload, Execute, Complete,
        Crash, Restart, CancelCall, RequestRunning, RecheckQueued, MarkRunning, CancelQueued,
        PassDeadline, WebRestart

-----------------------------------------------------------------------------
(* The empty queue satisfies the inductive invariant.                      *)
LEMMA InitInv == Init => IInv
  <1> SUFFICES ASSUME Init PROVE IInv
    OBVIOUS
  <1> USE MaxStaleAssumption, QueueAssumption, InputsAssumption
      DEF Init, Idle, NoJob, Terminal, Working, Pending
  <1>1. TypeOK
    BY NoJobTyped DEF TypeOK, Resting, Answers
  <1>2. EnqueueInv /\ RecordInv /\ DeleteInv /\ LivePayload /\ StaleBudget
    BY DEF EnqueueInv, RecordInv, DeleteInv, LivePayload, StaleBudget, Resting
  <1>3. ClaimInv
    BY JobsAssumption DEF ClaimInv, Resting
  <1> QED BY <1>1, <1>2, <1>3 DEF IInv

(* Under the invariant every step moves the records by Evolves.            *)
LEMMA InvEvolves == IInv /\ [Next]_vars => JobsEvolve
  BY EvolveStep DEF IInv

(* Every step preserves the inductive invariant.                           *)
LEMMA StepInv == IInv /\ [Next]_vars => IInv'
  <1> SUFFICES ASSUME IInv, [Next]_vars PROVE IInv'
    OBVIOUS
  <1>1. JobsEvolve /\ JobMoves
    BY InvEvolves, Moves DEF IInv
  <1> QED
    BY <1>1, TypeStep, EnqueueStepInv, RecordStepInv, ClaimStepInv, DeleteStepInv, PayloadStepInv
    DEF IInv

(* The inductive invariant holds in every reachable state.                 *)
THEOREM Invariance == Spec => []IInv
  BY InitInv, StepInv, PTL DEF Spec

(* The stores and the processes keep their types.                          *)
THEOREM TypeCorrect == Spec => []TypeOK
  BY Invariance, PTL DEF IInv

(* A waiting or running job always has its own payload: enqueueSafe writes *)
(* it first, and whoever deletes one has seen the job settled.             *)
THEOREM PayloadSafe == Spec => []LivePayload
  BY Invariance, PTL DEF IInv

(* No job is handed out more than maxStaleRecoveryCount + 1 times.         *)
THEOREM BudgetKept == Spec => []StaleBudget
  BY Invariance, PTL DEF IInv

(* However many workers believe that they run a job, only one can still    *)
(* record a heartbeat or a result.                                         *)
THEOREM HolderUnique == Spec => []OneHolder
  <1>1. IInv => OneHolder
    BY DEF IInv, ClaimInv, OneHolder, HeldUnder
  <1> QED BY <1>1, Invariance, PTL

-----------------------------------------------------------------------------
(* A settled record never changes, and a recorded cancellation is neither  *)
(* lost by stale recovery nor followed by another claim.                   *)
THEOREM NothingIsForgotten == Spec => NothingForgotten
  <1>1. IInv /\ [Next]_vars =>
          \A j \in Jobs :
            /\ job[j].state \in Terminal => job'[j] = job[j]
            /\ job[j].cancel => /\ job'[j].cancel
                                /\ job'[j].state \in {"running"} \cup Terminal
                                /\ claims'[j] = claims[j]
    <2> SUFFICES ASSUME IInv, [Next]_vars, NEW j \in Jobs
                 PROVE  /\ job[j].state \in Terminal => job'[j] = job[j]
                        /\ job[j].cancel => /\ job'[j].cancel
                                            /\ job'[j].state \in {"running"} \cup Terminal
                                            /\ claims'[j] = claims[j]
      OBVIOUS
    <2>1. /\ Evolves(job[j], job'[j], claims[j], claims'[j])
          /\ job[j].state \in JobStates
          /\ job[j].state = "none" => ~job[j].cancel
          /\ job[j].state = "queued" => ~job[j].cancel
      BY InvEvolves DEF JobsEvolve, IInv, RecordInv, NoJob, TypeOK, JobRecord
    <2> QED BY <2>1 DEF Evolves, JobStates, Terminal
  <1> QED BY <1>1, Invariance, PTL DEF Spec, NothingForgotten

-----------------------------------------------------------------------------
(* The queue implements the lifecycle: every step moves each job as the    *)
(* abstract specification allows.                                          *)
LEMMA LifecycleStep == IInv /\ IInv' /\ [Next]_vars => [Lifecycle!Next]_(Lifecycle!vars)
  <1> SUFFICES ASSUME IInv, IInv', [Next]_vars PROVE Lifecycle!Next
    OBVIOUS
  <1>1. /\ [j \in Jobs |-> PhaseOf(job'[j].state)] \in [Jobs -> Lifecycle!Phases]
        /\ claims' \in [Jobs -> Nat]
        /\ [j \in Jobs |-> job'[j].cancel] \in [Jobs -> BOOLEAN]
    BY DEF IInv, TypeOK, JobRecord, JobStates, PhaseOf, Terminal, Lifecycle!Phases
  <1>2. ASSUME NEW j \in Jobs PROVE Lifecycle!Step(j)
    <2> DEFINE r == job[j]
               q == job'[j]
    <2>1. /\ Evolves(r, q, claims[j], claims'[j])
          /\ r \in JobRecord /\ q \in JobRecord /\ claims[j] \in Nat
          /\ r.state \in {"none", "queued"} => ~r.cancel
          /\ claims[j] <= r.stale + (IF r.state = "queued" THEN 0 ELSE 1)
      BY <1>2, InvEvolves DEF JobsEvolve, IInv, TypeOK, RecordInv, StaleBudget, NoJob
    <2>2. /\ r.stale \in Nat /\ r.stale <= MaxStale
          /\ r.cancel \in BOOLEAN /\ q.cancel \in BOOLEAN
      BY <2>1, MaxStaleAssumption DEF JobRecord
    <2> USE <1>2, <2>1, <2>2, MaxStaleAssumption DEF PhaseOf, Terminal
    <2> HIDE DEF r, q
    <2>3. CASE q = r /\ claims'[j] = claims[j]
      BY <2>3 DEF Lifecycle!Step, Lifecycle!Rest, Lifecycle!Keep, r, q
    <2>4. CASE r.state = "none" /\ claims'[j] = claims[j] /\ \E i \in Inputs : q = NewJob(i)
      <3>1. PICK i \in Inputs : q = NewJob(i)
        BY <2>4
      <3>2. q.state = "queued" /\ q.cancel = FALSE
        BY <3>1 DEF NewJob, NoJob
      <3> QED BY <2>4, <3>2 DEF Lifecycle!Step, Lifecycle!Submit, Lifecycle!Keep, r, q
    <2>5. CASE /\ r.state = "queued" /\ q.state = "running" /\ q.cancel = r.cancel
               /\ claims'[j] = claims[j] + 1
      BY <2>5 DEF Lifecycle!Step, Lifecycle!HandOut, r, q
    <2>6. CASE /\ r.state = "running" /\ q.state = "queued" /\ ~r.cancel /\ ~q.cancel
               /\ r.stale < MaxStale /\ claims'[j] = claims[j]
      <3>1. claims[j] <= MaxStale
        BY <2>6
      <3> QED BY <2>6, <3>1 DEF Lifecycle!Step, Lifecycle!PutBack, Lifecycle!Keep, r, q
    <2>7. CASE /\ r.state = "running" /\ q.state = "running" /\ (r.cancel => q.cancel)
               /\ claims'[j] = claims[j]
      BY <2>7 DEF Lifecycle!Step, Lifecycle!Withdraw, Lifecycle!Rest, Lifecycle!Keep,
                  JobRecord, r, q
    <2>8. CASE /\ r.state \in {"queued", "running"} /\ q.state \in Terminal
               /\ (r.cancel \/ r.state = "queued" => q.cancel) /\ claims'[j] = claims[j]
      BY <2>8 DEF Lifecycle!Step, Lifecycle!Settle, r, q
    <2> QED BY <2>3, <2>4, <2>5, <2>6, <2>7, <2>8 DEF Evolves, Same
  <1> QED BY <1>1, <1>2 DEF Lifecycle!Next

(* The queue implements the lifecycle of JobLifecycle.                     *)
THEOREM Implements == Spec => LifecycleSpec
  <1>1. Init => Lifecycle!Init
    BY DEF Init, Lifecycle!Init, NoJob, PhaseOf, Terminal
  <1> QED BY <1>1, LifecycleStep, Invariance, PTL DEF Spec, LifecycleSpec, Lifecycle!Spec

-----------------------------------------------------------------------------
(* A step that ends or dooms a daemon is made possible by another daemon's *)
(* recovery, and that daemon holds no claim itself.                        *)
LEMMA SurvivorStep == IInv /\ Survivor /\ [Next]_vars => Survivor'
  <1> SUFFICES ASSUME IInv, Survivor, [Next]_vars, crashes' = 0 PROVE \E w \in Daemons : ~Doomed(w)'
    BY DEF Survivor
  <1> USE QueueAssumption, JobsAssumption, RecordFields DEF IInv, TypeOK, Doomed
  <1>1. PICK s \in Daemons : ~Doomed(s)
    <2>1. crashes = 0
      BY DEF Next, EnqueueStep, WorkerStep, CancelStep, AllocateId, SavePayload, SaveRecord,
             CleanupPayload, StartLocal, RecoverStale, SweepPayloads, ClaimOldest, ClaimNothing,
             FirstBeat, LoopBeat, Verify, LoadPayload, Execute, Complete, DropPayload, Crash,
             Restart, CancelCall, RequestRunning, RecheckQueued, MarkRunning, CancelQueued,
             PurgePayload, PassDeadline, WebRestart
    <2> QED BY <2>1 DEF Survivor
  (* s survives a step that leaves it where it is and its claim valid.     *)
  <1>a. ASSUME pc'[s] = pc[s], hold'[s] = hold[s], token'[s] = token[s],
               pc[s] \in Working => HeldUnder(job'[hold[s]], token[s])
        PROVE  \E w \in Daemons : ~Doomed(w)'
    BY <1>1, <1>a
  (* Writes to other records, and writes that keep a claim, spare s.       *)
  <1>b. ASSUME UNCHANGED <<pc, hold, token>>,
               \A j \in Jobs : job[j].state = "running" =>
                  job'[j].state = "running" /\ job'[j].token = job[j].token
        PROVE  \E w \in Daemons : ~Doomed(w)'
    BY ZenonT(60), <1>1, <1>a, <1>b DEF ClaimInv, HeldUnder
  <1>c. ASSUME NEW w \in Workers, w # s,
               \A v \in Workers \ {w} : pc'[v] = pc[v] /\ hold'[v] = hold[v] /\ token'[v] = token[v],
               pc[s] \in Working => job'[hold[s]] = job[hold[s]]
        PROVE  \E v \in Daemons : ~Doomed(v)'
    BY <1>1, <1>a, <1>c DEF HeldUnder
  <1>2. ASSUME UNCHANGED <<pc, hold, token, job>> PROVE \E w \in Daemons : ~Doomed(w)'
    BY <1>1, <1>2, <1>a
  <1>3. CASE EnqueueStep
    <2>1. CASE SaveRecord
      <3>1. \A j \in Jobs : job[j].state = "running" => job'[j] = job[j]
        BY <2>1 DEF SaveRecord, EnqueueInv
      <3> QED BY <1>b, <2>1, <3>1 DEF SaveRecord
    <2> QED BY <1>2, <1>3, <2>1 DEF EnqueueStep, AllocateId, SavePayload, CleanupPayload
  <1>4. ASSUME NEW w \in Workers, RecoverStale(w) PROVE \E v \in Daemons : ~Doomed(v)'
    (* The daemon that recovers has no claim to lose.                      *)
    BY <1>4 DEF RecoverStale, ClaimInv, Working
  <1>5. ASSUME NEW w \in Workers, ClaimOldest(w) PROVE \E v \in Daemons : ~Doomed(v)'
    <2>1. PICK j \in Claimable(w) :
            /\ job' = [job EXCEPT ![j] = Claimed(@, w, claims[j] + 1)]
            /\ hold' = [hold EXCEPT ![w] = j]
            /\ token' = [token EXCEPT ![w] = claims[j] + 1]
      BY <1>5 DEF ClaimOldest
    <2>2. j \in Jobs /\ job[j].state = "queued" /\ claims[j] + 1 \in Nat
      BY <2>1 DEF Claimable
    <2>3. CASE w = s
      <3>1. job'[j].state = "running" /\ job'[j].token = claims[j] + 1
        BY <2>1, <2>2
      <3>2. hold'[s] = j /\ token'[s] = claims[j] + 1 /\ pc'[s] = "beat"
        BY <1>5, <2>1, <2>3 DEF ClaimOldest
      <3> QED BY <3>1, <3>2 DEF HeldUnder
    <2>4. CASE w # s
      <3>1. pc[s] \in Working => hold[s] # j
        BY <1>1, <2>2 DEF HeldUnder
      <3> QED BY <1>c, <1>5, <2>1, <2>4, <3>1 DEF ClaimOldest
    <2> QED BY <2>3, <2>4
  <1>6. ASSUME NEW w \in Workers, FirstBeat(w) \/ LoopBeat(w) PROVE \E v \in Daemons : ~Doomed(v)'
    <2>1. \A j \in Jobs : job[j].state = "running" =>
                  job'[j].state = "running" /\ job'[j].token = job[j].token
      <3>1. CASE hold[w] \in Jobs /\ MayBeat(job[hold[w]], w, token[w])
        <4>1. job' = [job EXCEPT ![hold[w]] = Beaten(job[hold[w]])]
          BY <1>6, <3>1 DEF FirstBeat, LoopBeat, BeatOn
        <4>2. /\ Beaten(job[hold[w]]).state = job[hold[w]].state
              /\ Beaten(job[hold[w]]).token = job[hold[w]].token
          BY <3>1
        <4> QED BY <3>1, <4>1, <4>2
      <3> QED BY <1>6, <3>1 DEF FirstBeat, LoopBeat, BeatOn
    <2>2. CASE LoopBeat(w)
      BY <1>b, <2>1, <2>2 DEF LoopBeat
    <2>3. CASE FirstBeat(w)
      <3>1. hold'[s] = hold[s] /\ token'[s] = token[s]
        BY <2>3 DEF FirstBeat
      <3>2. pc[s] \in Working => HeldUnder(job'[hold[s]], token[s])
        BY <1>1, <2>1 DEF HeldUnder, ClaimInv
      <3>3. pc'[s] \in {pc[s], "verify"} /\ (pc'[s] = "verify" => pc[s] \in Working)
        BY <2>3 DEF FirstBeat, Working
      <3> QED BY <1>1, <3>1, <3>2, <3>3 DEF Working
    <2> QED BY <1>6, <2>2, <2>3
  <1>7. ASSUME NEW w \in Workers, Complete(w) PROVE \E v \in Daemons : ~Doomed(v)'
    <2>1. hold[w] \in Jobs
      BY <1>7 DEF Complete, ClaimInv, Working
    <2>2. CASE w = s
      BY <1>1, <1>7, <2>2 DEF Complete, Working
    <2>3. CASE w # s
      <3>1. pc[s] \in Working => ~(hold[s] = hold[w] /\ HeldUnder(job[hold[w]], token[w]))
        BY <1>1, <2>1, <2>3 DEF HeldUnder, ClaimInv
      <3>2. pc[s] \in Working => hold[s] \in Jobs /\ job'[hold[s]] = job[hold[s]]
        BY <1>7, <2>1, <3>1 DEF Complete, ClaimInv
      <3> QED BY <1>c, <1>7, <2>3, <3>2 DEF Complete, Conflict, Abandon
    <2> QED BY <2>2, <2>3
  <1>8. ASSUME NEW w \in Workers,
               SweepPayloads(w) \/ ClaimNothing(w) \/ StartLocal(w) \/ Verify(w) \/ LoadPayload(w)
                 \/ Execute(w) \/ DropPayload(w) \/ Restart(w)
        PROVE  \E v \in Daemons : ~Doomed(v)'
    <2>1. CASE w # s
      BY <1>c, <1>8, <2>1 DEF SweepPayloads, ClaimNothing, StartLocal, Verify, LoadPayload,
           Execute, DropPayload, Restart, Conflict, Abandon
    <2>2. CASE w = s
      BY <1>1, <1>8, <2>2 DEF SweepPayloads, ClaimNothing, StartLocal, Verify, LoadPayload,
           Execute, DropPayload, Restart, Abandon, Resting, Working, HeldUnder, Locals
    <2> QED BY <2>1, <2>2
  <1>9. ASSUME NEW w \in Workers, Crash(w) PROVE FALSE
    BY <1>9 DEF Crash
  <1>10. ASSUME NEW c \in Cancellers, CancelStep(c) PROVE \E v \in Daemons : ~Doomed(v)'
    <2>1. CASE MarkRunning(c)
      BY <1>b, <2>1 DEF MarkRunning
    <2>2. CASE CancelQueued(c)
      <3>1. \A j \in Jobs : job[j].state = "running" => job'[j] = job[j]
        BY <2>2 DEF CancelQueued, DeleteInv
      <3> QED BY <1>b, <2>2, <3>1 DEF CancelQueued
    <2> QED BY <1>2, <1>10, <2>1, <2>2 DEF CancelStep, CancelCall, RequestRunning, RecheckQueued,
              PurgePayload
  <1>11. ASSUME NEW j \in Jobs, PassDeadline(j) PROVE \E v \in Daemons : ~Doomed(v)'
    BY <1>b, <1>11 DEF PassDeadline
  <1>12. CASE WebRestart
    BY <1>1, <1>a, <1>12 DEF WebRestart, Locals
  <1> QED
    BY <1>2, <1>3, <1>4, <1>5, <1>6, <1>7, <1>8, <1>9, <1>10, <1>11, <1>12
    DEF Next, WorkerStep

(* With at least one daemon, claim conflicts never end all of them: the    *)
(* uncaught worker_job_claim_conflict of runWorkerDaemon leaves one that   *)
(* recovers and claims.                                                    *)
THEOREM ConflictsSpareOne ==
  ASSUME Daemons # {}
  PROVE  Spec => []Survivor
  <1>1. Init => Survivor
    BY QueueAssumption DEF Init, Survivor, Doomed, Resting, Working
  <1> QED BY <1>1, SurvivorStep, Invariance, PTL DEF Spec

-----------------------------------------------------------------------------
(* PostgreSQL.                                                             *)
USE DEF prismaVars

(* The rows that callers have read are records, whoever moves.             *)
LEMMA SnapshotTypeStep ==
  PrismaTypeOK /\ HeldInv /\ DeleteInv /\ [PrismaNext]_prismaVars => SnapshotTypes'
  <1> SUFFICES ASSUME PrismaTypeOK, HeldInv, DeleteInv, [PrismaNext]_prismaVars PROVE SnapshotTypes'
    OBVIOUS
  <1> USE DEF SnapshotTypes
  <1>t. job \in [Jobs -> JobRecord] /\ SnapshotTypes /\ NoJob \in JobRecord
    BY NoJobTyped DEF PrismaTypeOK, TableTypes
  <1>a. CASE UNCHANGED <<rows, crow>>
    BY <1>a, <1>t
  <1>b. ASSUME NEW w \in Workers, rows' = [rows EXCEPT ![w] = NoRows], UNCHANGED crow
        PROVE  SnapshotTypes'
    BY <1>b, <1>t DEF NoRows
  <1>c. ASSUME NEW w \in Workers, NEW js \in SUBSET Jobs, Read(w, js), UNCHANGED crow
        PROVE  SnapshotTypes'
    BY <1>c, <1>t DEF Read
  <1>d. ASSUME NEW w \in Workers, NEW j, DoneWith(w, j), UNCHANGED crow PROVE SnapshotTypes'
    BY <1>d, <1>t DEF DoneWith
  <1>e. ASSUME NEW c \in Cancellers, NEW r \in JobRecord, crow' = [crow EXCEPT ![c] = r],
               UNCHANGED rows
        PROVE  SnapshotTypes'
    BY <1>e, <1>t
  <1>1. ASSUME NEW w \in Workers, PrismaBeat(w) PROVE SnapshotTypes'
    BY <1>1, <1>t DEF PrismaBeat
  <1>2. ASSUME NEW w \in Workers, ReadCandidates(w) PROVE SnapshotTypes'
    <2>1. Claimable(w) \in SUBSET Jobs
      BY DEF Claimable
    <2> QED BY <1>2, <2>1, <1>c DEF ReadCandidates
  <1>3. ASSUME NEW w \in Workers, TryCandidate(w) PROVE SnapshotTypes'
    BY <1>3, <1>b, <1>d DEF TryCandidate
  <1>4. ASSUME NEW w \in Workers, ReadStale(w) PROVE SnapshotTypes'
    <2>1. StaleJobs \in SUBSET Jobs
      BY DEF StaleJobs
    <2> QED BY <1>4, <2>1, <1>c DEF ReadStale
  <1>5. ASSUME NEW w \in Workers, RecoverRow(w) PROVE SnapshotTypes'
    BY <1>5, <1>d DEF RecoverRow
  <1>6. ASSUME NEW w \in Workers, ReadCompletion(w) PROVE SnapshotTypes'
    <2>1. {hold[w]} \in SUBSET Jobs
      BY <1>6 DEF ReadCompletion, HeldInv, Working
    <2> QED BY <1>6, <2>1, <1>a, <1>c DEF ReadCompletion
  <1>7. ASSUME NEW w \in Workers, WriteCompletion(w) \/ PrismaCrash(w) PROVE SnapshotTypes'
    BY <1>7, <1>b DEF WriteCompletion, PrismaCrash
  <1>8. ASSUME NEW c \in Cancellers,
               ReadRunning(c) \/ ReadQueued(c) \/ WriteMark(c) \/ WriteCancelled(c)
        PROVE  SnapshotTypes'
    <2>1. target[c] \in Jobs => job[target[c]] \in JobRecord
      BY <1>t
    <2>2. ReadRunning(c) \/ ReadQueued(c) => target[c] \in Jobs
      BY DEF ReadRunning, ReadQueued, DeleteInv
    <2> QED BY <1>8, <1>a, <1>e, <1>t, <2>1, <2>2 DEF ReadRunning, ReadQueued, WriteMark, WriteCancelled
  <1>9. CASE PrismaWebRestart
    BY <1>9, <1>t DEF PrismaWebRestart, NoRows
  <1> QED
    BY <1>a, <1>1, <1>2, <1>3, <1>4, <1>5, <1>6, <1>7, <1>8, <1>9
    DEF PrismaNext, RecoverDone

(* What a worker keeps in its variables.                                   *)
LEMMA WorkerTypeStep ==
  PrismaTypeOK /\ HeldInv /\ [PrismaNext]_prismaVars => WorkerTypes'
  <1> SUFFICES ASSUME PrismaTypeOK, HeldInv, [PrismaNext]_prismaVars PROVE WorkerTypes'
    OBVIOUS
  <1> USE DEF WorkerTypes
  <1>t. WorkerTypes /\ DOMAIN rows = Workers /\ \A w \in Workers : DOMAIN rows[w] \subseteq Jobs
    BY DEF PrismaTypeOK, SnapshotTypes
  <1>c. claims \in [Jobs -> Nat] /\ job \in [Jobs -> JobRecord]
    BY DEF PrismaTypeOK, TableTypes
  <1>a. CASE UNCHANGED workerVars
    BY <1>a, <1>t
  <1>b. ASSUME NEW w \in Workers,
               NEW where \in {"off", "recover", "recoverRow", "sweep", "claim", "try", "verify",
                              "load", "execute", "complete", "commit", "drop"},
               pc' = [pc EXCEPT ![w] = where], UNCHANGED <<hold, token, outcome, swept>>
        PROVE  WorkerTypes'
    BY <1>b, <1>t
  <1>d. ASSUME NEW w \in Workers, NEW where \in {"off", "recover", "threw", "down"}, Abandon(w, where)
        PROVE  WorkerTypes'
    BY <1>d, <1>t DEF Abandon
  <1>r. \A w \in Workers : Resting(w) \in {"off", "recover"}
    BY DEF Resting
  <1>1. ASSUME NEW w \in Workers, ReadCandidates(w) \/ ReadStale(w) \/ RecoverDone(w) PROVE WorkerTypes'
    BY <1>1, <1>b, <1>r DEF ReadCandidates, ReadStale, RecoverDone
  <1>2. ASSUME NEW w \in Workers, TryCandidate(w) PROVE WorkerTypes'
    <2>1. PICK j \in DOMAIN rows[w] :
            \/ /\ hold' = [hold EXCEPT ![w] = j]
               /\ token' = [token EXCEPT ![w] = claims[j] + 1]
               /\ pc' = [pc EXCEPT ![w] = "beat"]
            \/ /\ pc' = [pc EXCEPT ![w] = IF DOMAIN rows[w] = {j} THEN Resting(w) ELSE "try"]
               /\ UNCHANGED <<hold, token>>
      BY <1>2 DEF TryCandidate
    <2>2. j \in Jobs /\ claims[j] + 1 \in Nat
      BY <1>t, <1>c
    <2>3. UNCHANGED <<outcome, swept>>
      BY <1>2 DEF TryCandidate
    <2> QED BY <2>1, <2>2, <2>3, <1>t, <1>r, <1>b
  <1>3. ASSUME NEW w \in Workers, RecoverRow(w) PROVE WorkerTypes'
    <2>1. UNCHANGED <<pc, hold, token, outcome>>
      BY <1>3 DEF RecoverRow
    <2>2. swept' \in [Workers -> SUBSET Jobs]
      BY <1>3, <1>t DEF RecoverRow
    <2> QED BY <2>1, <2>2, <1>t
  <1>4. ASSUME NEW w \in Workers, ReadCompletion(w) PROVE WorkerTypes'
    BY <1>4, <1>b, <1>d DEF ReadCompletion, Conflict
  <1>5. ASSUME NEW w \in Workers, WriteCompletion(w) PROVE WorkerTypes'
    BY <1>5, <1>b, <1>d DEF WriteCompletion, Conflict
  <1>6. ASSUME NEW w \in Workers, PrismaCrash(w) PROVE WorkerTypes'
    BY <1>6, <1>d DEF PrismaCrash, Crash, Restart
  <1>7. ASSUME NEW w \in Workers, PrismaBeat(w) PROVE WorkerTypes'
    BY <1>7, <1>a, <1>b DEF PrismaBeat, FirstBeat, LoopBeat, CommitBeat
  <1>8. ASSUME NEW w \in Workers, LocalStep(w) PROVE WorkerTypes'
    <2>1. CASE SweepPayloads(w)
      BY <2>1, <1>t DEF SweepPayloads
    <2>2. CASE Verify(w)
      BY <2>2, <1>b, <1>d DEF Verify, Conflict
    <2>3. CASE LoadPayload(w)
      BY <2>3, <1>t DEF LoadPayload, Outcomes
    <2>4. CASE Execute(w)
      BY <2>4, <1>t DEF Execute, Outcomes
    <2>5. CASE DropPayload(w)
      BY <2>5, <1>d, <1>r DEF DropPayload
    <2>6. CASE StartLocal(w)
      BY <2>6, <1>b DEF StartLocal
    <2> QED BY <1>8, <2>1, <2>2, <2>3, <2>4, <2>5, <2>6 DEF LocalStep
  <1>9. CASE EnvironmentStep
    BY <1>9, <1>a DEF EnvironmentStep, EnqueueStep, AllocateId, SavePayload, SaveRecord, CleanupPayload,
         CancelCall, RequestRunning, RecheckQueued, PurgePayload, PassDeadline
  <1>10. ASSUME NEW c \in Cancellers,
                ReadRunning(c) \/ ReadQueued(c) \/ WriteMark(c) \/ WriteCancelled(c)
         PROVE  WorkerTypes'
    BY <1>10, <1>a DEF ReadRunning, ReadQueued, WriteMark, WriteCancelled
  <1>11. CASE PrismaWebRestart
    BY <1>11, <1>t DEF PrismaWebRestart, WebRestart
  <1>12. CASE UNCHANGED prismaVars
    BY <1>12, <1>a
  <1> QED
    BY <1>1, <1>2, <1>3, <1>4, <1>5, <1>6, <1>7, <1>8, <1>9, <1>10, <1>11, <1>12 DEF PrismaNext

(* What a cancelJob call keeps in its variables.                           *)
LEMMA CancellerTypeStep ==
  PrismaTypeOK /\ [PrismaNext]_prismaVars => CancellerTypes'
  <1> SUFFICES ASSUME PrismaTypeOK, [PrismaNext]_prismaVars PROVE CancellerTypes'
    OBVIOUS
  <1> USE DEF CancellerTypes, PrismaTypeOK
  <1>a. CASE UNCHANGED cancelVars
    BY <1>a
  <1>b. ASSUME NEW c \in Cancellers, NEW r, Return(c, r) PROVE CancellerTypes'
    BY <1>b DEF Return, AnswerFor, Answers
  <1>c. ASSUME NEW c \in Cancellers, NEW where \in {"mark", "markWrite", "cancel", "cancelWrite", "purge"},
               Go(c, where)
        PROVE  CancellerTypes'
    BY <1>c DEF Go
  <1>1. CASE EnvironmentStep
    <2>1. ASSUME NEW c \in Cancellers, NEW j \in Jobs, CancelCall(c, j) PROVE CancellerTypes'
      BY <2>1 DEF CancelCall, Answers
    <2>2. ASSUME NEW c \in Cancellers, RequestRunning(c) \/ RecheckQueued(c) \/ PurgePayload(c)
          PROVE  CancellerTypes'
      BY <2>2, <1>b, <1>c DEF RequestRunning, RecheckQueued, PurgePayload
    <2>3. CASE EnqueueStep \/ \E j \in Jobs : PassDeadline(j)
      BY <2>3, <1>a DEF EnqueueStep, AllocateId, SavePayload, SaveRecord, CleanupPayload, PassDeadline
    <2> QED BY <1>1, <2>1, <2>2, <2>3 DEF EnvironmentStep
  <1>2. ASSUME NEW c \in Cancellers, ReadRunning(c) \/ WriteMark(c) PROVE CancellerTypes'
    BY <1>2, <1>b, <1>c DEF ReadRunning, WriteMark
  <1>3. ASSUME NEW c \in Cancellers, ReadQueued(c) \/ WriteCancelled(c) PROVE CancellerTypes'
    BY <1>3, <1>b, <1>c DEF ReadQueued, WriteCancelled, Found
  <1>4. CASE PrismaWebRestart
    BY <1>4 DEF PrismaWebRestart, WebRestart, Answers
  <1>5. ASSUME NEW w \in Workers, LocalStep(w) PROVE CancellerTypes'
    BY <1>5, <1>a DEF LocalStep, SweepPayloads, Verify, LoadPayload, Execute, DropPayload, StartLocal
  <1>6. ASSUME NEW w \in Workers,
               \/ PrismaBeat(w) \/ ReadCandidates(w) \/ TryCandidate(w)
               \/ ReadStale(w) \/ RecoverRow(w) \/ RecoverDone(w)
               \/ ReadCompletion(w) \/ WriteCompletion(w) \/ PrismaCrash(w)
        PROVE  CancellerTypes'
    BY <1>6, <1>a DEF PrismaBeat, FirstBeat, LoopBeat, CommitBeat, ReadCandidates, TryCandidate, ReadStale,
         RecoverRow, RecoverDone, ReadCompletion, WriteCompletion, PrismaCrash, Crash, Restart
  <1>7. CASE UNCHANGED prismaVars
    BY <1>7, <1>a
  <1> QED BY <1>1, <1>2, <1>3, <1>4, <1>5, <1>6, <1>7 DEF PrismaNext

-----------------------------------------------------------------------------
(* The steps that read the table at most.                                  *)
PrismaQuiet ==
  \/ QuietStep
  \/ \E w \in Workers : \/ ReadCandidates(w) \/ ReadStale(w) \/ RecoverDone(w)
                        \/ ReadCompletion(w) \/ PrismaCrash(w)
  \/ \E c \in Cancellers : ReadRunning(c) \/ ReadQueued(c)
  \/ PrismaWebRestart
  \/ UNCHANGED prismaVars

(* They leave every record and every claim count as it is.                 *)
LEMMA PrismaQuietKeeps == PrismaQuiet => UNCHANGED <<job, claims>>
  BY QuietKeepsJobs
  DEF PrismaQuiet, ReadCandidates, ReadStale, RecoverDone, ReadCompletion, PrismaCrash, Crash, Restart,
      ReadRunning, ReadQueued, PrismaWebRestart, WebRestart

(* A row is rewritten only while its job is queued or running, keeps its   *)
(* input, and carries its last claim unless somebody asked to cancel it.   *)
RowMoves(j) ==
  \/ job'[j] = job[j] /\ claims'[j] = claims[j]
  \/ /\ job[j].state \in Pending /\ job'[j].state # "none" /\ job'[j].input = job[j].input
     /\ LastClaim(job[j], claims[j]) => LastClaim(job'[j], claims'[j])
  \/ /\ job[j].state = "none" /\ web.pc = "record" /\ web.job = j
     /\ job'[j] = NewJob(web.input) /\ claims'[j] = claims[j] /\ web' = Idle

(* Every step moves every row by RowMoves.                                 *)
LEMMA RowsMove ==
  ASSUME PrismaTypeOK, EnqueueInv, DeleteInv, SnapshotInv, HeldInv, [PrismaNext]_prismaVars
  PROVE  /\ job' \in [Jobs -> JobRecord] /\ claims' \in [Jobs -> Nat]
         /\ \A j \in Jobs : RowMoves(j)
  <1> DEFINE Moved == /\ job' \in [Jobs -> JobRecord] /\ claims' \in [Jobs -> Nat]
                     /\ \A j \in Jobs : RowMoves(j)
  <1> SUFFICES Moved
    OBVIOUS
  <1> USE JobsAssumption
  <1>t. job \in [Jobs -> JobRecord] /\ claims \in [Jobs -> Nat]
    BY DEF PrismaTypeOK, TableTypes
  <1>s. /\ \A w \in Workers : DOMAIN rows[w] \subseteq Jobs /\ \A j \in DOMAIN rows[w] : rows[w][j] \in JobRecord
        /\ \A c \in Cancellers : crow[c] \in JobRecord
    BY DEF PrismaTypeOK, SnapshotTypes
  (* Nothing is written, or one row is.                                    *)
  <1>a. CASE UNCHANGED <<job, claims>>
    BY <1>a, <1>t DEF RowMoves
  <1>b. ASSUME NEW j \in Jobs, NEW q \in JobRecord, job' = [job EXCEPT ![j] = q], UNCHANGED claims,
               job[j].state \in Pending, q.state # "none", q.input = job[j].input,
               LastClaim(job[j], claims[j]) => LastClaim(q, claims[j])
        PROVE  Moved
    BY <1>b, <1>t DEF RowMoves
  <1>1. CASE PrismaQuiet
    BY <1>1, <1>a, PrismaQuietKeeps
  <1>2. CASE SaveRecord
    <2>1. CASE UNCHANGED job
      BY <1>2, <2>1, <1>a DEF SaveRecord
    <2>2. CASE job' = [job EXCEPT ![web.job] = NewJob(web.input)] /\ web' = Idle
      <3>1. /\ web.pc = "record" /\ web.job \in Jobs /\ web.input \in Inputs
            /\ job[web.job].state = "none" /\ UNCHANGED claims /\ web' = Idle
        BY <1>2, <2>2 DEF SaveRecord, EnqueueInv
      <3>2. NewJob(web.input) \in JobRecord
        BY <3>1, RecordOps, NoJobTyped
      <3> QED BY <2>2, <3>1, <3>2, <1>t DEF RowMoves
    <2> QED BY <1>2, <2>1, <2>2 DEF SaveRecord
  <1>3. ASSUME NEW j \in Jobs, PassDeadline(j) PROVE Moved
    <2> DEFINE q == Expired(job[j])
    <2>1. q \in JobRecord
      BY <1>t, RecordOps
    <2>2. /\ q.state = "running" /\ q.input = job[j].input /\ q.token = job[j].token
          /\ q.cancel = job[j].cancel
      BY <1>3, <1>t DEF PassDeadline, Expired, JobRecord
    <2>3. job' = [job EXCEPT ![j] = q] /\ UNCHANGED claims /\ job[j].state = "running"
      BY <1>3 DEF PassDeadline
    <2> HIDE DEF q
    <2> QED BY <2>1, <2>2, <2>3, <1>b DEF LastClaim, Pending
  <1>4. ASSUME NEW w \in Workers, PrismaBeat(w) PROVE Moved
    <2>1. CASE UNCHANGED job
      BY <1>4, <2>1, <1>a DEF PrismaBeat, FirstBeat, LoopBeat, CommitBeat
    <2>2. CASE /\ hold[w] \in Jobs /\ MayBeat(job[hold[w]], w, token[w])
               /\ job' = [job EXCEPT ![hold[w]] = Beaten(@)]
      <3> DEFINE q == Beaten(job[hold[w]])
      <3>1. q \in JobRecord
        BY <2>2, <1>t, RecordOps
      <3>2. /\ q.state = "running" /\ q.input = job[hold[w]].input /\ q.token = job[hold[w]].token
            /\ q.cancel = job[hold[w]].cancel /\ job[hold[w]].state = "running"
        BY <2>2, <1>t DEF MayBeat, HeldUnder, Beaten, JobRecord
      <3>3. job' = [job EXCEPT ![hold[w]] = q] /\ UNCHANGED claims
        BY <1>4, <2>2 DEF PrismaBeat, FirstBeat, LoopBeat, CommitBeat
      <3> HIDE DEF q
      <3> QED BY <2>2, <3>1, <3>2, <3>3, <1>b DEF LastClaim, Pending
    <2> QED BY <1>4, <2>1, <2>2 DEF PrismaBeat, FirstBeat, LoopBeat, CommitBeat, BeatOn
  <1>5. ASSUME NEW w \in Workers, TryCandidate(w) PROVE Moved
    <2>1. PICK j \in DOMAIN rows[w] :
            \/ /\ job[j].state = "queued"
               /\ claims' = [claims EXCEPT ![j] = @ + 1]
               /\ job' = [job EXCEPT ![j] = Claimed(@, w, claims[j] + 1)]
            \/ UNCHANGED <<job, claims>>
      BY <1>5 DEF TryCandidate
    <2>2. j \in Jobs
      BY <1>s
    <2>c. claims[j] + 1 \in Nat
      BY <2>2, <1>t
    <2>3. CASE /\ job[j].state = "queued"
               /\ claims' = [claims EXCEPT ![j] = @ + 1]
               /\ job' = [job EXCEPT ![j] = Claimed(@, w, claims[j] + 1)]
      <3> DEFINE q == Claimed(job[j], w, claims[j] + 1)
      <3>1. q \in JobRecord
        BY <2>2, <2>c, <1>t, RecordOps
      <3>2. q.state = "running" /\ q.input = job[j].input /\ q.token = claims[j] + 1
        BY <2>2, <1>t DEF Claimed, JobRecord
      <3>3. job' = [job EXCEPT ![j] = q]
        BY <2>3
      <3> HIDE DEF q
      <3> QED BY <2>2, <2>c, <2>3, <3>1, <3>2, <3>3, <1>t DEF RowMoves, LastClaim, Pending
    <2> QED BY <2>1, <2>3, <1>a
  <1>6. ASSUME NEW w \in Workers, RecoverRow(w) PROVE Moved
    <2>1. PICK j \in DOMAIN rows[w] :
            \/ StaleMatch(rows[w][j], job[j]) /\ job' = [job EXCEPT ![j] = Recovered(rows[w][j])]
            \/ UNCHANGED job
      BY <1>6 DEF RecoverRow
    <2>2. UNCHANGED claims
      BY <1>6 DEF RecoverRow
    <2>3. j \in Jobs /\ rows[w][j] \in JobRecord /\ rows[w][j].input = job[j].input
      BY <1>s DEF SnapshotInv
    <2>4. CASE /\ StaleMatch(rows[w][j], job[j])
               /\ job' = [job EXCEPT ![j] = Recovered(rows[w][j])]
      <3> DEFINE q == Recovered(rows[w][j])
      <3>1. q \in JobRecord
        BY <2>3, RecordOps
      <3>2. q.state \in {"queued", "cancelled", "failed"} /\ q.input = job[j].input
        BY <2>3 DEF Recovered, Requeued, JobRecord
      <3>3. job[j].state = "running" /\ job' = [job EXCEPT ![j] = q]
        BY <2>4 DEF StaleMatch, HeldUnder
      <3> HIDE DEF q
      <3> QED BY <2>2, <2>3, <3>1, <3>2, <3>3, <1>b DEF LastClaim, Pending
    <2> QED BY <2>1, <2>2, <2>4, <1>a
  <1>7. ASSUME NEW w \in Workers, WriteCompletion(w) PROVE Moved
    <2>1. CASE UNCHANGED job
      BY <1>7, <2>1, <1>a DEF WriteCompletion
    <2>2. CASE /\ HeldUnder(job[hold[w]], token[w])
               /\ job' = [job EXCEPT ![hold[w]] = Completed(rows[w][hold[w]], outcome[w])]
      <3> DEFINE q == Completed(rows[w][hold[w]], outcome[w])
      <3>1. /\ hold[w] \in Jobs /\ outcome[w] \in Outcomes /\ hold[w] \in DOMAIN rows[w]
            /\ UNCHANGED claims
        BY <1>7 DEF WriteCompletion, HeldInv
      <3>2. rows[w][hold[w]] \in JobRecord /\ rows[w][hold[w]].input = job[hold[w]].input
        BY <3>1, <1>s DEF SnapshotInv
      <3>3. q \in JobRecord
        BY <3>1, <3>2, RecordOps
      <3>4. q.state = outcome[w] /\ q.input = job[hold[w]].input
        BY <3>2 DEF Completed, JobRecord
      <3>5. job[hold[w]].state = "running" /\ job' = [job EXCEPT ![hold[w]] = q]
        BY <2>2 DEF HeldUnder
      <3> HIDE DEF q
      <3> QED BY <3>1, <3>3, <3>4, <3>5, <1>b DEF LastClaim, Pending, Outcomes
    <2> QED BY <1>7, <2>1, <2>2 DEF WriteCompletion
  <1>8. ASSUME NEW c \in Cancellers, WriteMark(c) PROVE Moved
    <2>1. /\ target[c] \in Jobs /\ crow[c] \in JobRecord /\ crow[c].input = job[target[c]].input
          /\ crow[c].state = "running" /\ UNCHANGED claims
      BY <1>8, <1>s DEF WriteMark, DeleteInv, SnapshotInv
    <2>2. CASE job[target[c]].state = "running"
      <3> DEFINE q == CancelRequested(crow[c])
      <3>1. q \in JobRecord
        BY <2>1, RecordOps
      <3>2. q.state = "running" /\ q.input = job[target[c]].input /\ q.cancel
        BY <2>1 DEF CancelRequested, JobRecord
      <3>3. job' = [job EXCEPT ![target[c]] = q]
        BY <1>8, <2>2 DEF WriteMark
      <3> HIDE DEF q
      <3> QED BY <2>1, <2>2, <3>1, <3>2, <3>3, <1>b DEF LastClaim, Pending
    <2>3. CASE job[target[c]].state # "running"
      BY <1>8, <2>1, <2>3, <1>t, <1>a DEF WriteMark
    <2> QED BY <2>2, <2>3
  <1>9. ASSUME NEW c \in Cancellers, WriteCancelled(c) PROVE Moved
    <2>1. /\ target[c] \in Jobs /\ crow[c] \in JobRecord /\ crow[c].input = job[target[c]].input
          /\ UNCHANGED claims
      BY <1>9, <1>s DEF WriteCancelled, DeleteInv, SnapshotInv
    <2>2. CASE job[target[c]].state = "queued"
      <3> DEFINE q == QueuedCancelled(crow[c])
      <3>1. q \in JobRecord
        BY <2>1, RecordOps
      <3>2. q.state = "cancelled" /\ q.input = job[target[c]].input
        BY <2>1 DEF QueuedCancelled, JobRecord
      <3>3. job' = [job EXCEPT ![target[c]] = q]
        BY <1>9, <2>2 DEF WriteCancelled
      <3> HIDE DEF q
      <3> QED BY <2>1, <2>2, <3>1, <3>2, <3>3, <1>b DEF LastClaim, Pending
    <2>3. CASE job[target[c]].state # "queued"
      BY <1>9, <2>1, <2>3, <1>t, <1>a DEF WriteCancelled
    <2> QED BY <2>2, <2>3
  <1> QED
    BY <1>1, <1>2, <1>3, <1>4, <1>5, <1>6, <1>7, <1>8, <1>9
    DEF PrismaNext, EnvironmentStep, EnqueueStep, LocalStep, PrismaQuiet, QuietStep

(* What the other invariants need of these moves.                          *)
TableMoves ==
  \A j \in Jobs :
    /\ job[j].state # "none" => job'[j].state # "none" /\ job'[j].input = job[j].input
    /\ job[j].state = "none" => job'[j] = job[j] \/ (web.pc = "record" /\ web.job = j /\ web' = Idle)
    /\ job[j].state \in Terminal => job'[j] = job[j]
LEMMA MovesOfTable == (\A j \in Jobs : RowMoves(j)) => TableMoves
  BY DEF RowMoves, TableMoves, Terminal, Pending

-----------------------------------------------------------------------------
(* The rows that were read still exist and have kept their input.          *)
RowsInv == \A w \in Workers : \A j \in DOMAIN rows[w] :
  job[j].state # "none" /\ rows[w][j].input = job[j].input

LEMMA RowsStepInv ==
  PrismaTypeOK /\ HeldInv /\ RowsInv /\ TableMoves /\ [PrismaNext]_prismaVars => RowsInv'
  <1> SUFFICES ASSUME PrismaTypeOK, HeldInv, RowsInv, TableMoves, [PrismaNext]_prismaVars
               PROVE  RowsInv'
    OBVIOUS
  <1>t. DOMAIN rows = Workers /\ \A w \in Workers : DOMAIN rows[w] \subseteq Jobs
    BY DEF PrismaTypeOK, SnapshotTypes
  <1>m. \A j \in Jobs : job[j].state # "none" => job'[j].state # "none" /\ job'[j].input = job[j].input
    BY DEF TableMoves
  <1>a. CASE UNCHANGED rows
    BY <1>a, <1>t, <1>m DEF RowsInv
  <1>b. ASSUME NEW w \in Workers, rows' = [rows EXCEPT ![w] = NoRows] PROVE RowsInv'
    BY <1>b, <1>t, <1>m DEF RowsInv, NoRows
  <1>c. ASSUME NEW w \in Workers, NEW js \in SUBSET Jobs, \A j \in js : job[j].state # "none",
               Read(w, js), UNCHANGED job
        PROVE  RowsInv'
    BY <1>c, <1>t DEF RowsInv, Read
  <1>d. ASSUME NEW w \in Workers, NEW j, DoneWith(w, j) PROVE RowsInv'
    BY <1>d, <1>t, <1>m DEF RowsInv, DoneWith
  <1>1. ASSUME NEW w \in Workers, PrismaBeat(w) PROVE RowsInv'
    BY <1>1, <1>t, <1>m DEF PrismaBeat, RowsInv
  <1>2. ASSUME NEW w \in Workers, ReadCandidates(w) PROVE RowsInv'
    BY <1>2, <1>c DEF ReadCandidates, Claimable
  <1>3. ASSUME NEW w \in Workers, TryCandidate(w) PROVE RowsInv'
    BY <1>3, <1>b, <1>d DEF TryCandidate
  <1>4. ASSUME NEW w \in Workers, ReadStale(w) PROVE RowsInv'
    BY <1>4, <1>c DEF ReadStale, StaleJobs, IsStale
  <1>5. ASSUME NEW w \in Workers, RecoverRow(w) PROVE RowsInv'
    BY <1>5, <1>d DEF RecoverRow
  <1>6. ASSUME NEW w \in Workers, ReadCompletion(w) PROVE RowsInv'
    <2>1. hold[w] \in Jobs
      BY <1>6 DEF ReadCompletion, HeldInv, Working
    <2>2. UNCHANGED rows \/ (Read(w, {hold[w]}) /\ job[hold[w]].state = "running")
      BY <1>6 DEF ReadCompletion, HeldUnder
    <2>3. UNCHANGED job
      BY <1>6 DEF ReadCompletion
    <2> QED BY <2>1, <2>2, <2>3, <1>a, <1>c
  <1>7. ASSUME NEW w \in Workers, WriteCompletion(w) \/ PrismaCrash(w) PROVE RowsInv'
    BY <1>7, <1>b DEF WriteCompletion, PrismaCrash
  <1>8. CASE PrismaWebRestart
    BY <1>8, <1>t, <1>m DEF PrismaWebRestart, RowsInv, NoRows
  <1> QED
    BY <1>a, <1>1, <1>2, <1>3, <1>4, <1>5, <1>6, <1>7, <1>8
    DEF PrismaNext, RecoverDone, ReadRunning, ReadQueued, WriteMark, WriteCancelled

(* A canceller works on a job that exists, on the row it has read, and     *)
(* drops the payload of a settled one.                                     *)
CallInv(c) ==
  /\ cpc[c] # "idle" => target[c] \in Jobs /\ job[target[c]].state # "none"
  /\ cpc[c] = "purge" => job[target[c]].state \in Terminal
  /\ cpc[c] \in {"markWrite", "cancelWrite"} => crow[c].input = job[target[c]].input
  /\ cpc[c] = "markWrite" => crow[c].state = "running"

LEMMA CallsStepInv ==
  PrismaTypeOK /\ (\A c \in Cancellers : CallInv(c)) /\ TableMoves /\ [PrismaNext]_prismaVars
    => (\A c \in Cancellers : CallInv(c))'
  <1> SUFFICES ASSUME PrismaTypeOK, \A c \in Cancellers : CallInv(c), TableMoves,
                      [PrismaNext]_prismaVars, NEW d \in Cancellers
               PROVE  CallInv(d)'
    OBVIOUS
  <1>t. /\ DOMAIN crow = Cancellers /\ DOMAIN cpc = Cancellers /\ DOMAIN target = Cancellers
        /\ job \in [Jobs -> JobRecord] /\ \A c \in Cancellers : crow[c] \in JobRecord
    BY DEF PrismaTypeOK, SnapshotTypes, TableTypes, CancellerTypes
  <1>m. \A j \in Jobs : /\ job[j].state # "none" => job'[j].state # "none" /\ job'[j].input = job[j].input
                        /\ job[j].state \in Terminal => job'[j].state \in Terminal
    BY DEF TableMoves
  <1>i. CallInv(d)
    OBVIOUS
  <1>a. ASSUME cpc'[d] = cpc[d], target'[d] = target[d], crow'[d] = crow[d] PROVE CallInv(d)'
    BY <1>a, <1>i, <1>m DEF CallInv
  <1>b. CASE cpc'[d] = "idle"
    BY <1>b DEF CallInv
  <1>c. ASSUME UNCHANGED <<cpc, target, crow>> PROVE CallInv(d)'
    BY <1>c, <1>a
  (* The call goes on without a row.                                       *)
  <1>e. ASSUME cpc'[d] \in {"mark", "cancel"}, target'[d] = target[d], cpc[d] # "idle" PROVE CallInv(d)'
    BY <1>e, <1>i, <1>m DEF CallInv
  <1>f. ASSUME cpc'[d] = "purge", target'[d] = target[d], cpc[d] # "idle",
               job'[target[d]].state \in Terminal
        PROVE  CallInv(d)'
    BY <1>f, <1>i, <1>m DEF CallInv
  <1>1. CASE EnvironmentStep /\ UNCHANGED <<rows, crow>>
    <2>1. ASSUME NEW c \in Cancellers, NEW j \in Jobs, CancelCall(c, j) PROVE CallInv(d)'
      BY <2>1, <1>1, <1>a, <1>t, <1>m DEF CancelCall, CallInv
    <2>2. ASSUME NEW c \in Cancellers, RequestRunning(c) \/ RecheckQueued(c) \/ PurgePayload(c)
          PROVE  CallInv(d)'
      <3>1. CASE c = d
        BY <2>2, <3>1, <1>b, <1>e, <1>t DEF RequestRunning, RecheckQueued, PurgePayload, Go, Return
      <3>2. CASE c # d
        BY <2>2, <3>2, <1>1, <1>a, <1>t DEF RequestRunning, RecheckQueued, PurgePayload, Go, Return
      <3> QED BY <3>1, <3>2
    <2>3. CASE EnqueueStep \/ \E j \in Jobs : PassDeadline(j)
      BY <2>3, <1>1, <1>c DEF EnqueueStep, AllocateId, SavePayload, SaveRecord, CleanupPayload, PassDeadline
    <2> QED BY <1>1, <2>1, <2>2, <2>3 DEF EnvironmentStep
  <1>2. ASSUME NEW c \in Cancellers, ReadRunning(c) PROVE CallInv(d)'
    <2>1. CASE c = d
      BY <1>2, <2>1, <1>b, <1>t, <1>i DEF ReadRunning, Go, Return, CallInv
    <2>2. CASE c # d
      BY <1>2, <2>2, <1>a, <1>t DEF ReadRunning, Go, Return
    <2> QED BY <2>1, <2>2
  <1>3. ASSUME NEW c \in Cancellers, WriteMark(c) PROVE CallInv(d)'
    <2>1. CASE c = d
      BY <1>3, <2>1, <1>b, <1>t DEF WriteMark, Return
    <2>2. CASE c # d
      BY <1>3, <2>2, <1>a, <1>t DEF WriteMark, Return
    <2> QED BY <2>1, <2>2
  <1>4. ASSUME NEW c \in Cancellers, ReadQueued(c) PROVE CallInv(d)'
    <2>1. CASE c = d /\ job[target[c]].state = "queued"
      BY <1>4, <2>1, <1>t, <1>i DEF ReadQueued, Go, CallInv
    <2>2. CASE c = d /\ job[target[c]].state # "queued"
      <3>1. UNCHANGED job /\ cpc[d] # "idle"
        BY <1>4, <2>2 DEF ReadQueued
      <3>2. \/ cpc'[d] = "idle"
            \/ cpc'[d] = "mark" /\ target'[d] = target[d]
            \/ cpc'[d] = "purge" /\ target'[d] = target[d] /\ job[target[d]].state = "cancelled"
        BY <1>4, <2>2, <1>t DEF ReadQueued, Found, Go, Return
      <3> QED BY <3>1, <3>2, <1>b, <1>e, <1>f DEF Terminal
    <2>3. CASE c # d
      BY <1>4, <2>3, <1>a, <1>t DEF ReadQueued, Found, Go, Return
    <2> QED BY <2>1, <2>2, <2>3
  <1>5. ASSUME NEW c \in Cancellers, WriteCancelled(c) PROVE CallInv(d)'
    <2>1. CASE c = d
      <3> DEFINE r == job[target[d]]
                 written == IF r.state = "queued" THEN QueuedCancelled(crow[d]) ELSE r
      <3>1. target[d] \in Jobs /\ cpc[d] # "idle"
        BY <1>5, <2>1, <1>i DEF WriteCancelled, CallInv
      <3>2. job'[target[d]] = written
        BY <1>5, <2>1, <3>1, <1>t DEF WriteCancelled
      <3>3. \/ cpc'[d] = "idle"
            \/ cpc'[d] = "mark" /\ target'[d] = target[d]
            \/ cpc'[d] = "purge" /\ target'[d] = target[d] /\ written.state = "cancelled"
        BY <1>5, <2>1, <1>t DEF WriteCancelled, Found, Go, Return
      <3> HIDE DEF written
      <3> QED BY <3>1, <3>2, <3>3, <1>b, <1>e, <1>f DEF Terminal
    <2>2. CASE c # d
      BY <1>5, <2>2, <1>a, <1>t DEF WriteCancelled, Found, Go, Return
    <2> QED BY <2>1, <2>2
  <1>6. CASE PrismaWebRestart
    BY <1>6, <1>b DEF PrismaWebRestart, WebRestart
  <1>7. ASSUME NEW w \in Workers, LocalStep(w), UNCHANGED <<rows, crow>> PROVE CallInv(d)'
    BY <1>7, <1>c DEF LocalStep, SweepPayloads, Verify, LoadPayload, Execute, DropPayload, StartLocal
  <1>8. ASSUME NEW w \in Workers,
               \/ PrismaBeat(w) \/ ReadCandidates(w) \/ TryCandidate(w)
               \/ ReadStale(w) \/ RecoverRow(w) \/ RecoverDone(w)
               \/ ReadCompletion(w) \/ WriteCompletion(w) \/ PrismaCrash(w)
        PROVE  CallInv(d)'
    BY <1>8, <1>c DEF PrismaBeat, FirstBeat, LoopBeat, CommitBeat, ReadCandidates, TryCandidate, ReadStale,
         RecoverRow, RecoverDone, ReadCompletion, WriteCompletion, PrismaCrash, Crash, Restart
  <1>9. CASE UNCHANGED prismaVars
    BY <1>9, <1>c
  <1> QED BY <1>1, <1>2, <1>3, <1>4, <1>5, <1>6, <1>7, <1>8, <1>9 DEF PrismaNext

(* A worker completes a job that exists from a row it has read, and drops  *)
(* payloads of settled jobs.                                               *)
WorkInv(w) ==
  /\ pc[w] \in Working \cup {"commit", "drop"} => hold[w] \in Jobs
  /\ pc[w] = "commit" => hold[w] \in DOMAIN rows[w]
  /\ pc[w] \in {"complete", "commit"} => outcome[w] \in Outcomes
  /\ pc[w] = "drop" => job[hold[w]].state \in Terminal
  /\ \A j \in swept[w] : job[j].state \in Terminal

LEMMA WorkStepInv ==
  PrismaTypeOK /\ (\A w \in Workers : WorkInv(w)) /\ TableMoves /\ [PrismaNext]_prismaVars
    => (\A w \in Workers : WorkInv(w))'
  <1> SUFFICES ASSUME PrismaTypeOK, \A w \in Workers : WorkInv(w), TableMoves,
                      [PrismaNext]_prismaVars, NEW v \in Workers
               PROVE  WorkInv(v)'
    OBVIOUS
  <1>t. /\ DOMAIN pc = Workers /\ DOMAIN hold = Workers /\ DOMAIN outcome = Workers
        /\ DOMAIN swept = Workers /\ DOMAIN rows = Workers
        /\ \A w \in Workers : swept[w] \subseteq Jobs /\ DOMAIN rows[w] \subseteq Jobs
        /\ job \in [Jobs -> JobRecord]
    BY DEF PrismaTypeOK, SnapshotTypes, TableTypes, WorkerTypes
  <1>m. \A j \in Jobs : job[j].state \in Terminal => job'[j].state \in Terminal
    BY DEF TableMoves
  <1>i. WorkInv(v)
    OBVIOUS
  <1>a. ASSUME pc'[v] = pc[v], hold'[v] = hold[v], outcome'[v] = outcome[v], swept'[v] = swept[v],
               pc[v] = "commit" => DOMAIN rows'[v] = DOMAIN rows[v]
        PROVE  WorkInv(v)'
    BY <1>a, <1>i, <1>m, <1>t DEF WorkInv, Working
  (* What only another worker does.                                        *)
  <1>b. ASSUME NEW w \in Workers, w # v,
               \/ Abandon(w, "off") \/ Abandon(w, "recover") \/ Abandon(w, "threw")
               \/ Abandon(w, "down")
               \/ \E x : pc' = [pc EXCEPT ![w] = x] /\ UNCHANGED <<hold, outcome, swept>>,
               pc[v] = "commit" => DOMAIN rows'[v] = DOMAIN rows[v]
        PROVE  WorkInv(v)'
    BY <1>b, <1>t, <1>a DEF Abandon
  <1>c. ASSUME \/ Abandon(v, "off") \/ Abandon(v, "recover") \/ Abandon(v, "threw")
               \/ Abandon(v, "down")
        PROVE  WorkInv(v)'
    BY <1>c, <1>t DEF Abandon, WorkInv, Working
  (* The worker goes on with what it holds.                                *)
  <1>d. ASSUME pc'[v] \notin {"complete", "commit", "drop"},
               pc'[v] \in Working => pc[v] \in Working,
               hold'[v] = hold[v], swept'[v] \subseteq swept[v]
        PROVE  WorkInv(v)'
    BY <1>d, <1>i, <1>m, <1>t DEF WorkInv, Working
  <1>r. \A w \in Workers : Resting(w) \in {"off", "recover"}
    BY DEF Resting
  <1>1. ASSUME NEW w \in Workers, LocalStep(w), UNCHANGED <<rows, crow>> PROVE WorkInv(v)'
    <2>1. CASE w # v
      <3>1. /\ pc'[v] = pc[v] /\ hold'[v] = hold[v] /\ outcome'[v] = outcome[v] /\ swept'[v] = swept[v]
        BY <1>1, <2>1, <1>t
        DEF LocalStep, SweepPayloads, Verify, LoadPayload, Execute, DropPayload, StartLocal, Conflict, Abandon
      <3> QED BY <3>1, <1>1, <1>a
    <2>2. CASE w = v
      <3>1. CASE SweepPayloads(v)
        BY <3>1, <1>t, <1>d DEF SweepPayloads, Working
      <3>2. CASE Verify(v)
        BY <3>2, <1>t, <1>c, <1>d DEF Verify, Conflict, Working
      <3>3. CASE LoadPayload(v)
        <4>1. hold[v] \in Jobs /\ hold'[v] = hold[v] /\ swept'[v] = swept[v]
          BY <3>3, <1>i DEF LoadPayload, WorkInv, Working
        <4>2. \/ pc'[v] = "execute" /\ outcome'[v] = outcome[v]
              \/ pc'[v] = "complete" /\ outcome'[v] \in Outcomes
          BY <3>3, <1>t DEF LoadPayload, Outcomes
        <4> QED BY <4>1, <4>2, <1>i, <1>m, <1>t DEF WorkInv, Working
      <3>4. CASE Execute(v)
        <4>1. hold[v] \in Jobs /\ hold'[v] = hold[v] /\ swept'[v] = swept[v]
          BY <3>4, <1>i DEF Execute, WorkInv, Working
        <4>2. pc'[v] = "complete" /\ outcome'[v] \in Outcomes
          BY <3>4, <1>t DEF Execute, Outcomes
        <4> QED BY <4>1, <4>2, <1>i, <1>m, <1>t DEF WorkInv, Working
      <3>5. CASE DropPayload(v)
        BY <3>5, <1>c, <1>r DEF DropPayload
      <3>6. CASE StartLocal(v)
        BY <3>6, <1>t, <1>d DEF StartLocal, Working
      <3> QED BY <1>1, <2>2, <3>1, <3>2, <3>3, <3>4, <3>5, <3>6 DEF LocalStep
    <2> QED BY <2>1, <2>2
  <1>2. ASSUME NEW w \in Workers, PrismaBeat(w) PROVE WorkInv(v)'
    <2>1. pc[v] = "commit" => DOMAIN rows'[v] = DOMAIN rows[v]
      BY <1>2 DEF PrismaBeat
    <2>2. CASE FirstBeat(w)
      <3>1. CASE w = v
        BY <2>2, <3>1, <1>t, <1>d DEF FirstBeat, Working
      <3>2. CASE w # v
        BY <2>2, <3>2, <2>1, <1>t, <1>a DEF FirstBeat
      <3> QED BY <3>1, <3>2
    <2>3. CASE LoopBeat(w) \/ CommitBeat(w)
      BY <2>3, <2>1, <1>a DEF LoopBeat, CommitBeat
    <2> QED BY <1>2, <2>2, <2>3 DEF PrismaBeat
  <1>3. ASSUME NEW w \in Workers, ReadCandidates(w) \/ ReadStale(w) \/ RecoverDone(w)
        PROVE  WorkInv(v)'
    <2>1. /\ UNCHANGED <<hold, outcome, swept>> /\ pc[w] \in {"claim", "recover", "recoverRow"}
          /\ w # v => pc'[v] = pc[v] /\ rows'[v] = rows[v]
          /\ pc'[w] \in {"off", "recover", "recoverRow", "sweep", "try"}
      BY <1>3, <1>r, <1>t DEF ReadCandidates, ReadStale, RecoverDone, Read
    <2>2. CASE w # v
      BY <2>1, <2>2, <1>a
    <2>3. CASE w = v
      BY <2>1, <2>3, <1>d DEF Working
    <2> QED BY <2>2, <2>3
  <1>4. ASSUME NEW w \in Workers, TryCandidate(w) PROVE WorkInv(v)'
    <2>1. PICK j \in DOMAIN rows[w] :
            \/ /\ hold' = [hold EXCEPT ![w] = j]
               /\ pc' = [pc EXCEPT ![w] = "beat"]
               /\ rows' = [rows EXCEPT ![w] = NoRows]
            \/ /\ DoneWith(w, j)
               /\ pc' = [pc EXCEPT ![w] = IF DOMAIN rows[w] = {j} THEN Resting(w) ELSE "try"]
               /\ UNCHANGED hold
      BY <1>4 DEF TryCandidate
    <2>2. UNCHANGED <<outcome, swept>> /\ j \in Jobs
      BY <1>4, <1>t DEF TryCandidate
    <2>3. CASE w # v
      <3>1. pc'[v] = pc[v] /\ hold'[v] = hold[v] /\ rows'[v] = rows[v]
        BY <2>1, <2>3, <1>t DEF DoneWith
      <3> QED BY <3>1, <2>2, <1>a
    <2>4. CASE w = v
      <3>1. \/ pc'[v] = "beat" /\ hold'[v] = j
            \/ pc'[v] \in {"off", "recover", "try"} /\ hold'[v] = hold[v]
        BY <2>1, <2>4, <1>t, <1>r
      <3> QED BY <3>1, <2>2, <1>i, <1>m, <1>t DEF WorkInv, Working
    <2> QED BY <2>3, <2>4
  <1>5. ASSUME NEW w \in Workers, RecoverRow(w) PROVE WorkInv(v)'
    <2>1. PICK j \in DOMAIN rows[w] :
            /\ DoneWith(w, j)
            /\ \/ /\ job' = [job EXCEPT ![j] = Recovered(rows[w][j])]
                  /\ swept' = [swept EXCEPT
                       ![w] = IF Recovered(rows[w][j]).state \in Terminal THEN @ \cup {j} ELSE @]
               \/ UNCHANGED <<job, swept>>
      BY <1>5 DEF RecoverRow
    <2>2. UNCHANGED <<pc, hold, outcome>> /\ pc[w] = "recoverRow" /\ j \in Jobs
      BY <1>5, <1>t DEF RecoverRow
    <2>3. CASE w # v
      <3>1. swept'[v] = swept[v] /\ rows'[v] = rows[v]
        BY <2>1, <2>3, <1>t DEF DoneWith
      <3> QED BY <3>1, <2>2, <1>a
    <2>4. CASE w = v
      <3>1. \A k \in swept'[v] : job'[k].state \in Terminal
        <4> DEFINE q == Recovered(rows[w][j])
        <4>1. CASE UNCHANGED <<job, swept>>
          BY <4>1, <1>i DEF WorkInv
        <4>2. CASE /\ job' = [job EXCEPT ![j] = q]
                   /\ swept' = [swept EXCEPT ![w] = IF q.state \in Terminal THEN @ \cup {j} ELSE @]
          <5> HIDE DEF q
          <5>1. job'[j] = q
            BY <4>2, <2>2, <1>t
          <5>2. \A k \in swept[v] : job'[k].state \in Terminal
            BY <1>i, <1>m, <1>t DEF WorkInv
          <5>3. swept'[v] = IF q.state \in Terminal THEN swept[v] \cup {j} ELSE swept[v]
            BY <4>2, <2>4, <1>t
          <5> QED BY <5>1, <5>2, <5>3
        <4> QED BY <2>1, <4>1, <4>2
      <3> QED BY <3>1, <2>2, <2>4, <1>t DEF WorkInv, Working
    <2> QED BY <2>3, <2>4
  <1>6. ASSUME NEW w \in Workers, ReadCompletion(w) PROVE WorkInv(v)'
    <2>1. CASE w # v
      <3>1. /\ pc'[v] = pc[v] /\ hold'[v] = hold[v] /\ outcome'[v] = outcome[v] /\ swept'[v] = swept[v]
            /\ rows'[v] = rows[v]
        BY <1>6, <2>1, <1>t DEF ReadCompletion, Read, Conflict, Abandon
      <3> QED BY <3>1, <1>a
    <2>2. CASE w = v /\ HeldUnder(job[hold[w]], token[w])
      <3>1. /\ pc[v] = "complete" /\ pc'[v] = "commit" /\ UNCHANGED <<hold, outcome, swept, job>>
            /\ DOMAIN rows'[v] = {hold[v]}
        BY <1>6, <2>2, <1>t DEF ReadCompletion, Read
      <3> QED BY <3>1, <1>i, <1>t DEF WorkInv, Working
    <2>3. CASE w = v /\ ~HeldUnder(job[hold[w]], token[w])
      BY <1>6, <2>3, <1>c DEF ReadCompletion, Conflict
    <2> QED BY <2>1, <2>2, <2>3
  <1>7. ASSUME NEW w \in Workers, WriteCompletion(w) PROVE WorkInv(v)'
    <2>1. CASE w # v
      <3>1. /\ pc'[v] = pc[v] /\ hold'[v] = hold[v] /\ outcome'[v] = outcome[v] /\ swept'[v] = swept[v]
            /\ rows'[v] = rows[v]
        BY <1>7, <2>1, <1>t DEF WriteCompletion, Conflict, Abandon
      <3> QED BY <3>1, <1>a
    <2>2. CASE w = v /\ HeldUnder(job[hold[w]], token[w])
      <3> DEFINE q == Completed(rows[v][hold[v]], outcome[v])
      <3>1. /\ pc[v] = "commit" /\ pc'[v] = "drop" /\ UNCHANGED <<hold, outcome, swept>>
            /\ job' = [job EXCEPT ![hold[v]] = q]
        BY <1>7, <2>2, <1>t DEF WriteCompletion
      <3>2. hold[v] \in Jobs /\ hold[v] \in DOMAIN rows[v] /\ outcome[v] \in Outcomes
        BY <3>1, <1>i DEF WorkInv
      <3>3. rows[v][hold[v]] \in JobRecord
        BY <3>2 DEF PrismaTypeOK, SnapshotTypes
      <3>4. q.state \in Terminal
        BY <3>2, <3>3, RecordFields DEF Outcomes, Terminal
      <3> HIDE DEF q
      <3>5. job'[hold[v]].state \in Terminal
        BY <3>1, <3>2, <3>4, <1>t
      <3> QED BY <3>1, <3>2, <3>5, <1>i, <1>m, <1>t DEF WorkInv, Working
    <2>3. CASE w = v /\ ~HeldUnder(job[hold[w]], token[w])
      BY <1>7, <2>3, <1>c DEF WriteCompletion, Conflict
    <2> QED BY <2>1, <2>2, <2>3
  <1>8. ASSUME NEW w \in Workers, PrismaCrash(w) PROVE WorkInv(v)'
    <2>1. Abandon(w, "down") \/ Abandon(w, "recover")
      BY <1>8 DEF PrismaCrash, Crash, Restart
    <2>2. w # v => rows'[v] = rows[v]
      BY <1>8, <1>t DEF PrismaCrash
    <2> QED BY <2>1, <2>2, <1>b, <1>c
  <1>9. CASE PrismaWebRestart
    <2>1. CASE v \in Locals
      <3>1. pc'[v] = "off" /\ swept'[v] = swept[v]
        BY <1>9, <2>1 DEF PrismaWebRestart, WebRestart
      <3> QED BY <3>1, <1>i, <1>m, <1>t DEF WorkInv, Working
    <2>2. CASE v \notin Locals
      BY <1>9, <2>2, <1>a DEF PrismaWebRestart, WebRestart
    <2> QED BY <2>1, <2>2
  <1>10. CASE EnvironmentStep /\ UNCHANGED <<rows, crow>>
    BY <1>10, <1>a DEF EnvironmentStep, EnqueueStep, AllocateId, SavePayload, SaveRecord, CleanupPayload,
         CancelCall, RequestRunning, RecheckQueued, PurgePayload, PassDeadline
  <1>11. ASSUME NEW c \in Cancellers,
                ReadRunning(c) \/ ReadQueued(c) \/ WriteMark(c) \/ WriteCancelled(c)
         PROVE  WorkInv(v)'
    BY <1>11, <1>a DEF ReadRunning, ReadQueued, WriteMark, WriteCancelled
  <1>12. CASE UNCHANGED prismaVars
    BY <1>12, <1>a
  <1> QED
    BY <1>1, <1>2, <1>3, <1>4, <1>5, <1>6, <1>7, <1>8, <1>9, <1>10, <1>11, <1>12 DEF PrismaNext

-----------------------------------------------------------------------------
(* A payload changes only by the enqueue call that works on its identifier *)
(* or when the job has settled.                                            *)
PayloadMoves ==
  /\ payload' \in [Jobs -> Inputs \cup {None}]
  /\ \A j \in Jobs : \/ payload'[j] = payload[j]
                     \/ job[j].state \in Terminal
                     \/ web.job = j /\ web.pc \in {"payload", "cleanup"}

LEMMA PayloadsMove ==
  PrismaTypeOK /\ (\A w \in Workers : WorkInv(w)) /\ (\A c \in Cancellers : CallInv(c))
    /\ [PrismaNext]_prismaVars => PayloadMoves
  <1> SUFFICES ASSUME PrismaTypeOK, \A w \in Workers : WorkInv(w), \A c \in Cancellers : CallInv(c),
                      [PrismaNext]_prismaVars
               PROVE  PayloadMoves
    OBVIOUS
  <1>t. /\ payload \in [Jobs -> Inputs \cup {None}] /\ web.input \in Inputs \cup {None}
        /\ \A w \in Workers : swept[w] \subseteq Jobs
    BY DEF PrismaTypeOK, TableTypes, WorkerTypes
  <1>a. CASE UNCHANGED payload
    BY <1>a, <1>t DEF PayloadMoves
  <1>b. ASSUME NEW j \in Jobs, job[j].state \in Terminal, payload' = [payload EXCEPT ![j] = None]
        PROVE  PayloadMoves
    BY <1>b, <1>t DEF PayloadMoves
  <1>1. CASE EnqueueStep
    BY <1>1, <1>t DEF PayloadMoves, EnqueueStep, AllocateId, SavePayload, SaveRecord, CleanupPayload
  <1>2. ASSUME NEW w \in Workers, SweepPayloads(w) PROVE PayloadMoves
    BY <1>2, <1>a, <1>b, <1>t DEF SweepPayloads, WorkInv
  <1>3. ASSUME NEW w \in Workers, DropPayload(w) PROVE PayloadMoves
    BY <1>3, <1>a, <1>b DEF DropPayload, WorkInv
  <1>4. ASSUME NEW c \in Cancellers, PurgePayload(c) PROVE PayloadMoves
    BY <1>4, <1>a, <1>b DEF PurgePayload, CallInv
  <1>5. ASSUME NEW w \in Workers,
               \/ PrismaBeat(w) \/ ReadCandidates(w) \/ TryCandidate(w)
               \/ ReadStale(w) \/ RecoverRow(w) \/ RecoverDone(w)
               \/ ReadCompletion(w) \/ WriteCompletion(w) \/ PrismaCrash(w)
        PROVE  PayloadMoves
    BY <1>5, <1>a DEF PrismaBeat, FirstBeat, LoopBeat, CommitBeat, ReadCandidates, TryCandidate, ReadStale,
         RecoverRow, RecoverDone, ReadCompletion, WriteCompletion, PrismaCrash, Crash, Restart
  <1>6. ASSUME NEW c \in Cancellers,
               \/ \E j \in Jobs : CancelCall(c, j)
               \/ RequestRunning(c) \/ RecheckQueued(c)
               \/ ReadRunning(c) \/ ReadQueued(c) \/ WriteMark(c) \/ WriteCancelled(c)
        PROVE  PayloadMoves
    BY <1>6, <1>a DEF CancelCall, RequestRunning, RecheckQueued, ReadRunning, ReadQueued, WriteMark,
         WriteCancelled
  <1>7. ASSUME NEW w \in Workers, Verify(w) \/ LoadPayload(w) \/ Execute(w) \/ StartLocal(w)
        PROVE  PayloadMoves
    BY <1>7, <1>a DEF Verify, LoadPayload, Execute, StartLocal
  <1>8. CASE (\E j \in Jobs : PassDeadline(j)) \/ PrismaWebRestart \/ UNCHANGED prismaVars
    BY <1>8, <1>a DEF PassDeadline, PrismaWebRestart, WebRestart
  <1> QED
    BY <1>1, <1>2, <1>3, <1>4, <1>5, <1>6, <1>7, <1>8 DEF PrismaNext, EnvironmentStep, LocalStep

(* The steps of the enqueuing call; all others leave it alone.             *)
LEMMA WebKept ==
  [PrismaNext]_prismaVars => EnqueueStep \/ PrismaWebRestart \/ UNCHANGED <<webVars, webRestarts>>
  BY DEF PrismaNext, EnvironmentStep, LocalStep, PassDeadline, CancelCall, RequestRunning, RecheckQueued,
     PurgePayload, SweepPayloads, Verify, LoadPayload, Execute, DropPayload, StartLocal, PrismaBeat,
     FirstBeat, LoopBeat, CommitBeat, ReadCandidates, TryCandidate, ReadStale, RecoverRow, RecoverDone,
     ReadCompletion, WriteCompletion, PrismaCrash, Crash, Restart, ReadRunning, ReadQueued, WriteMark,
     WriteCancelled

(* The types of the tables and of the enqueuing call.                      *)
LEMMA TableTypeStep ==
  PrismaTypeOK /\ PayloadMoves /\ job' \in [Jobs -> JobRecord] /\ claims' \in [Jobs -> Nat]
    /\ [PrismaNext]_prismaVars => TableTypes'
  <1> SUFFICES ASSUME PrismaTypeOK, PayloadMoves, job' \in [Jobs -> JobRecord],
                      claims' \in [Jobs -> Nat], [PrismaNext]_prismaVars
               PROVE  TableTypes'
    OBVIOUS
  <1> USE JobsAssumption DEF TableTypes
  <1>t. TableTypes /\ payload' \in [Jobs -> Inputs \cup {None}]
    BY DEF PrismaTypeOK, PayloadMoves
  <1>1. CASE UNCHANGED <<webVars, webRestarts>>
    BY <1>1, <1>t
  <1>2. ASSUME NEW i \in Inputs, AllocateId(i) PROVE TableTypes'
    BY <1>2, <1>t DEF AllocateId
  <1>3. CASE SavePayload \/ SaveRecord \/ CleanupPayload \/ PrismaWebRestart
    <2>1. nextId' \in Nat /\ webRestarts' \in Nat
      BY <1>3, <1>t DEF SavePayload, SaveRecord, CleanupPayload, PrismaWebRestart, WebRestart
    <2>2. web' = Idle \/ \E x \in {"record", "cleanup"} : web' = [web EXCEPT !.pc = x]
      BY <1>3 DEF SavePayload, SaveRecord, CleanupPayload, PrismaWebRestart, WebRestart
    <2> QED BY <2>1, <2>2, <1>t DEF Idle
  <1> QED BY <1>1, <1>2, <1>3, WebKept DEF EnqueueStep

(* enqueueSafe keeps working on an identifier without a row.               *)
LEMMA PrismaEnqueueStep ==
  PrismaTypeOK /\ EnqueueInv /\ TableMoves /\ PayloadMoves /\ [PrismaNext]_prismaVars => EnqueueInv'
  <1> SUFFICES ASSUME PrismaTypeOK, EnqueueInv, TableMoves, PayloadMoves, [PrismaNext]_prismaVars
               PROVE  EnqueueInv'
    OBVIOUS
  <1> USE JobsAssumption, InputsAssumption DEF EnqueueInv, Stored
  <1>t. TableTypes
    BY DEF PrismaTypeOK
  <1>1. ASSUME NEW i \in Inputs, AllocateId(i) PROVE EnqueueInv'
    BY <1>1, <1>t DEF AllocateId, FirstFree, TableTypes
  <1>2. CASE SavePayload
    BY <1>2, <1>t DEF SavePayload, Idle, TableTypes
  <1>3. CASE SaveRecord
    BY <1>3, <1>t DEF SaveRecord, Idle, NewJob, NoJob, TableTypes
  <1>4. CASE CleanupPayload
    BY <1>4, <1>t DEF CleanupPayload, Idle, TableTypes
  <1>5. CASE PrismaWebRestart
    BY <1>5 DEF PrismaWebRestart, WebRestart, Idle
  <1>6. CASE UNCHANGED webVars
    <2>1. \A j \in Jobs : job[j].state = "none" => job'[j].state = "none"
      <3>1. Idle.pc = "idle"
        BY DEF Idle
      <3> QED BY <1>6, <3>1 DEF TableMoves
    <2>2. web.pc = "record" => payload'[web.job] = payload[web.job]
      BY DEF PayloadMoves, Terminal
    <2> QED BY <1>6, <1>t, <2>1, <2>2 DEF TableTypes
  <1> QED BY <1>1, <1>2, <1>3, <1>4, <1>5, <1>6, WebKept DEF EnqueueStep

(* A queued or running job keeps its payload.                              *)
LEMMA PrismaPayloadStep ==
  ASSUME EnqueueInv, LivePayload, PayloadMoves, \A j \in Jobs : RowMoves(j)
  PROVE  LivePayload'
  <1> SUFFICES ASSUME NEW j \in Jobs, job'[j].state \in Pending PROVE payload'[j] = job'[j].input
    BY DEF LivePayload
  <1>1. payload'[j] = payload[j] \/ job[j].state \in Terminal \/ (web.job = j /\ web.pc \in {"payload", "cleanup"})
    BY DEF PayloadMoves
  <1>2. web.job = j /\ web.pc # "idle" => job[j].state = "none"
    BY DEF EnqueueInv
  <1>3. CASE job[j].state \in Pending
    BY <1>1, <1>2, <1>3 DEF RowMoves, LivePayload, Pending, Terminal
  <1>4. CASE job[j].state \notin Pending
    <2>1. CASE job'[j] = job[j]
      BY <1>4, <2>1
    <2>2. CASE job[j].state = "none" /\ web.pc = "record" /\ web.job = j /\ job'[j] = NewJob(web.input)
      BY <1>1, <2>2 DEF EnqueueInv, NewJob, NoJob, Terminal
    <2> QED BY <1>4, <2>1, <2>2 DEF RowMoves
  <1> QED BY <1>3, <1>4

-----------------------------------------------------------------------------
(* The inductive invariant, worker by worker and call by call.             *)
LEMMA InvByProcess ==
  DeleteInv /\ SnapshotInv /\ HeldInv
    <=> /\ RowsInv /\ \A w \in Workers : WorkInv(w)
        /\ \A c \in Cancellers : CallInv(c)
  BY DEF DeleteInv, SnapshotInv, HeldInv, RowsInv, WorkInv, CallInv

(* The empty table satisfies the invariant.                                *)
LEMMA PrismaInitInv == PrismaInit => PrismaInv
  <1> SUFFICES ASSUME PrismaInit PROVE PrismaInv
    OBVIOUS
  <1>1. PrismaTypeOK
    BY NoJobTyped DEF PrismaInit, Init, PrismaTypeOK, TableTypes, WorkerTypes, CancellerTypes,
       SnapshotTypes, NoRows, Idle, Resting, Outcomes, Answers
  <1>2. EnqueueInv /\ TokenInv /\ LivePayload
    BY DEF PrismaInit, Init, EnqueueInv, Idle, TokenInv, LastClaim, LivePayload, NoJob, Pending
  <1>3. DeleteInv /\ SnapshotInv /\ HeldInv
    BY DEF PrismaInit, Init, DeleteInv, SnapshotInv, HeldInv, NoRows, Resting, Working
  <1> QED BY <1>1, <1>2, <1>3 DEF PrismaInv

(* Every step keeps it.                                                    *)
LEMMA PrismaStepInv == PrismaInv /\ [PrismaNext]_prismaVars => PrismaInv'
  <1> SUFFICES ASSUME PrismaInv, [PrismaNext]_prismaVars PROVE PrismaInv'
    OBVIOUS
  <1>1. /\ PrismaTypeOK /\ EnqueueInv /\ DeleteInv /\ SnapshotInv /\ HeldInv /\ TokenInv /\ LivePayload
        /\ RowsInv /\ (\A w \in Workers : WorkInv(w)) /\ (\A c \in Cancellers : CallInv(c))
    BY InvByProcess DEF PrismaInv
  <1>2. /\ job' \in [Jobs -> JobRecord] /\ claims' \in [Jobs -> Nat] /\ \A j \in Jobs : RowMoves(j)
    BY <1>1, RowsMove
  <1>3. TableMoves
    BY <1>2, MovesOfTable
  <1>4. PayloadMoves
    BY <1>1, PayloadsMove
  <1>5. PrismaTypeOK'
    BY <1>1, <1>2, <1>4, TableTypeStep, WorkerTypeStep, CancellerTypeStep, SnapshotTypeStep DEF PrismaTypeOK
  <1>6. EnqueueInv' /\ LivePayload'
    BY <1>1, <1>2, <1>3, <1>4, PrismaEnqueueStep, PrismaPayloadStep
  <1>7. DeleteInv' /\ SnapshotInv' /\ HeldInv'
    <2>1. RowsInv' /\ (\A w \in Workers : WorkInv(w))' /\ (\A c \in Cancellers : CallInv(c))'
      BY <1>1, <1>3, RowsStepInv, WorkStepInv, CallsStepInv
    <2> QED BY <2>1, InvByProcess, PTL
  <1>8. TokenInv'
    <2> SUFFICES ASSUME NEW j \in Jobs PROVE LastClaim(job[j], claims[j])'
      BY DEF TokenInv
    <2>1. LastClaim(job[j], claims[j]) /\ RowMoves(j)
      BY <1>1, <1>2 DEF TokenInv
    <2> QED BY <2>1 DEF RowMoves, LastClaim, NewJob, NoJob
  <1> QED BY <1>5, <1>6, <1>7, <1>8 DEF PrismaInv

(* The inductive invariant of the queue on PostgreSQL holds always.        *)
THEOREM PrismaInvariance == PrismaSpec => []PrismaInv
  BY PrismaInitInv, PrismaStepInv, PTL DEF PrismaSpec

(* Tables, processes and snapshots keep their types.                       *)
THEOREM PrismaTypeCorrect == PrismaSpec => []PrismaTypeOK
  <1>1. PrismaInv => PrismaTypeOK
    BY DEF PrismaInv
  <1> QED BY <1>1, PrismaInvariance, PTL

(* A queued or running job has its own payload, whatever snapshots the     *)
(* processes act on (enqueueSafe, deletePayloadBestEffort, recoverStale).  *)
THEOREM PrismaPayloadSafe == PrismaSpec => []LivePayload
  <1>1. PrismaInv => LivePayload
    BY DEF PrismaInv
  <1> QED BY <1>1, PrismaInvariance, PTL

(* No conditional update rewrites the row of a job that has settled.       *)
THEOREM SettledRowsAreFinal == PrismaSpec => SettledRowsStay
  <1>1. PrismaInv /\ [PrismaNext]_prismaVars
          => [\A j \in Jobs : job[j].state \in Terminal => job'[j] = job[j]]_prismaVars
    BY RowsMove, MovesOfTable DEF PrismaInv, TableMoves
  <1> QED BY <1>1, PrismaInvariance, PTL DEF PrismaSpec, SettledRowsStay

(* A worker whose job was recovered and claimed again cannot complete it,  *)
(* as long as nobody asked to cancel it.                                   *)
THEOREM StaleWorkersFenced == PrismaSpec => LatestClaimCompletes
  <1>1. PrismaInv /\ [PrismaNext]_prismaVars
          => [\A w \in Workers : pc[w] = "commit" /\ pc'[w] = "drop" /\ Uncancelled
                 => token[w] = claims[hold[w]]]_prismaVars
    <2> SUFFICES ASSUME PrismaInv, PrismaNext, NEW w \in Workers, pc[w] = "commit", pc'[w] = "drop",
                        Uncancelled
                 PROVE  token[w] = claims[hold[w]]
      OBVIOUS
    <2>1. hold[w] \in Jobs /\ DOMAIN pc = Workers /\ TokenInv
      BY DEF PrismaInv, HeldInv, PrismaTypeOK, WorkerTypes
    <2>2. HeldUnder(job[hold[w]], token[w])
      <3>1. ASSUME NEW v \in Workers,
                   \/ LocalStep(v) \/ PrismaBeat(v) \/ ReadCandidates(v) \/ TryCandidate(v)
                   \/ ReadStale(v) \/ RecoverRow(v) \/ RecoverDone(v)
                   \/ ReadCompletion(v) \/ PrismaCrash(v)
            PROVE  FALSE
        BY <3>1, <2>1
        DEF LocalStep, SweepPayloads, Verify, LoadPayload, Execute, DropPayload, StartLocal, Conflict,
            PrismaBeat, FirstBeat, LoopBeat, CommitBeat, ReadCandidates, TryCandidate, ReadStale, RecoverRow,
            RecoverDone, ReadCompletion, PrismaCrash, Crash, Restart, Abandon, Resting
      <3>2. ASSUME NEW v \in Workers, WriteCompletion(v) PROVE HeldUnder(job[hold[w]], token[w])
        BY <3>2, <2>1 DEF WriteCompletion, Conflict, Abandon
      <3>3. ASSUME UNCHANGED pc PROVE FALSE
        BY <3>3
      <3>4. CASE EnvironmentStep
        BY <3>4, <3>3 DEF EnvironmentStep, EnqueueStep, AllocateId, SavePayload, SaveRecord, CleanupPayload,
           CancelCall, RequestRunning, RecheckQueued, PurgePayload, PassDeadline
      <3>5. ASSUME NEW c \in Cancellers,
                   ReadRunning(c) \/ WriteMark(c) \/ ReadQueued(c) \/ WriteCancelled(c)
            PROVE  FALSE
        BY <3>5, <3>3 DEF ReadRunning, WriteMark, ReadQueued, WriteCancelled
      <3>6. CASE PrismaWebRestart
        BY <3>6 DEF PrismaWebRestart, WebRestart
      <3> QED BY <3>1, <3>2, <3>4, <3>5, <3>6 DEF PrismaNext
    <2> QED BY <2>1, <2>2 DEF TokenInv, LastClaim, Uncancelled, HeldUnder
  <1> QED BY <1>1, PrismaInvariance, PTL DEF PrismaSpec, LatestClaimCompletes

-----------------------------------------------------------------------------
(* While nobody cancels: how a step moves a row r that was claimed n times *)
(* to q, claimed m times.                                                  *)
FreshMove(r, q, n, m) ==
  \/ q = r /\ m = n
  \/ r.state = "none" /\ m = n /\ \E i \in Inputs : q = NewJob(i)
  \/ /\ r.state = "queued" /\ q.state = "running" /\ m = n + 1
     /\ q.token = m /\ q.cancel = r.cancel /\ q.stale = r.stale
  \/ /\ r.state = "running" /\ q.state = "running" /\ m = n
     /\ q.token = r.token /\ q.cancel = r.cancel /\ q.stale = r.stale
  \/ /\ r.state = "running" /\ q.state \in {"completed", "failed", "rejected"} /\ m = n
     /\ ~q.cancel /\ q.token <= n
  \/ /\ r.state = "running" /\ q.state = "queued" /\ m = n
     /\ ~q.cancel /\ q.token = 0 /\ r.stale < MaxStale /\ q.stale = r.stale + 1

(* Every step moves every row by FreshMove as long as nobody cancels.      *)
LEMMA FreshMoves ==
  ASSUME PrismaInv, FreshInv, NobodyCancels, [PrismaNext]_prismaVars
  PROVE  \A j \in Jobs : FreshMove(job[j], job'[j], claims[j], claims'[j])
  <1> DEFINE Moved == \A j \in Jobs : FreshMove(job[j], job'[j], claims[j], claims'[j])
  <1> SUFFICES Moved
    OBVIOUS
  <1>t. /\ job \in [Jobs -> JobRecord] /\ claims \in [Jobs -> Nat]
        /\ \A w \in Workers : DOMAIN rows[w] \subseteq Jobs /\ \A j \in DOMAIN rows[w] : rows[w][j] \in JobRecord
    BY DEF PrismaInv, PrismaTypeOK, TableTypes, SnapshotTypes
  <1>f. /\ \A j \in Jobs : FreshRow(job[j], claims[j])
        /\ \A w \in Workers : /\ pc[w] \in {"complete", "commit"} => outcome[w] # "cancelled"
                              /\ \A j \in DOMAIN rows[w] : FreshRead(rows[w][j], job[j], claims[j])
    BY DEF FreshInv
  <1>a. CASE UNCHANGED <<job, claims>>
    BY <1>a DEF FreshMove
  <1>b. ASSUME NEW j \in Jobs, NEW q, FreshMove(job[j], q, claims[j], claims[j]),
               job' = [job EXCEPT ![j] = q], UNCHANGED claims
        PROVE  Moved
    BY <1>b, <1>t DEF FreshMove
  <1>1. CASE PrismaQuiet
    BY <1>1, <1>a, PrismaQuietKeeps
  <1>2. CASE SaveRecord
    <2>1. CASE UNCHANGED job
      BY <1>2, <2>1, <1>a DEF SaveRecord
    <2>2. CASE job' = [job EXCEPT ![web.job] = NewJob(web.input)]
      <3>1. web.job \in Jobs /\ web.input \in Inputs /\ job[web.job].state = "none" /\ UNCHANGED claims
        BY <1>2 DEF SaveRecord, PrismaInv, EnqueueInv
      <3>2. FreshMove(job[web.job], NewJob(web.input), claims[web.job], claims[web.job])
        BY <3>1 DEF FreshMove
      <3> QED BY <2>2, <3>1, <3>2, <1>b
    <2> QED BY <1>2, <2>1, <2>2 DEF SaveRecord
  <1>3. ASSUME NEW j \in Jobs, PassDeadline(j) PROVE Moved
    <2> DEFINE q == Expired(job[j])
    <2>1. /\ q.state = "running" /\ q.token = job[j].token /\ q.cancel = job[j].cancel
          /\ q.stale = job[j].stale /\ job[j].state = "running"
      BY <1>3, <1>t DEF PassDeadline, Expired, JobRecord
    <2>2. job' = [job EXCEPT ![j] = q] /\ UNCHANGED claims
      BY <1>3 DEF PassDeadline
    <2> HIDE DEF q
    <2>3. FreshMove(job[j], q, claims[j], claims[j])
      BY <2>1 DEF FreshMove
    <2> QED BY <2>2, <2>3, <1>b
  <1>4. ASSUME NEW w \in Workers, PrismaBeat(w) PROVE Moved
    <2>1. CASE UNCHANGED job
      BY <1>4, <2>1, <1>a DEF PrismaBeat, FirstBeat, LoopBeat, CommitBeat
    <2>2. CASE /\ hold[w] \in Jobs /\ MayBeat(job[hold[w]], w, token[w])
               /\ job' = [job EXCEPT ![hold[w]] = Beaten(@)]
      <3> DEFINE q == Beaten(job[hold[w]])
      <3>1. /\ q.state = "running" /\ q.token = job[hold[w]].token /\ q.cancel = job[hold[w]].cancel
            /\ q.stale = job[hold[w]].stale /\ job[hold[w]].state = "running"
        BY <2>2, <1>t DEF MayBeat, HeldUnder, Beaten, JobRecord
      <3>2. job' = [job EXCEPT ![hold[w]] = q] /\ UNCHANGED claims
        BY <1>4, <2>2 DEF PrismaBeat, FirstBeat, LoopBeat, CommitBeat
      <3> HIDE DEF q
      <3>3. FreshMove(job[hold[w]], q, claims[hold[w]], claims[hold[w]])
        BY <3>1 DEF FreshMove
      <3> QED BY <2>2, <3>2, <3>3, <1>b
    <2> QED BY <1>4, <2>1, <2>2 DEF PrismaBeat, FirstBeat, LoopBeat, CommitBeat, BeatOn
  <1>5. ASSUME NEW w \in Workers, TryCandidate(w) PROVE Moved
    <2>1. PICK j \in DOMAIN rows[w] :
            \/ /\ job[j].state = "queued"
               /\ claims' = [claims EXCEPT ![j] = @ + 1]
               /\ job' = [job EXCEPT ![j] = Claimed(@, w, claims[j] + 1)]
            \/ UNCHANGED <<job, claims>>
      BY <1>5 DEF TryCandidate
    <2>2. j \in Jobs
      BY <1>t
    <2>3. CASE /\ job[j].state = "queued"
               /\ claims' = [claims EXCEPT ![j] = @ + 1]
               /\ job' = [job EXCEPT ![j] = Claimed(@, w, claims[j] + 1)]
      <3> DEFINE q == Claimed(job[j], w, claims[j] + 1)
      <3>1. /\ q.state = "running" /\ q.token = claims[j] + 1 /\ q.cancel = job[j].cancel
            /\ q.stale = job[j].stale
        BY <2>2, <1>t DEF Claimed, JobRecord
      <3>2. job' = [job EXCEPT ![j] = q]
        BY <2>3
      <3> HIDE DEF q
      <3>3. FreshMove(job[j], q, claims[j], claims[j] + 1)
        BY <2>3, <3>1 DEF FreshMove
      <3>4. claims'[j] = claims[j] + 1 /\ job'[j] = q
        BY <2>2, <2>3, <3>2, <1>t
      <3>5. \A k \in Jobs : k # j => job'[k] = job[k] /\ claims'[k] = claims[k]
        BY <2>3, <3>2, <1>t
      <3> QED BY <3>3, <3>4, <3>5 DEF FreshMove
    <2> QED BY <2>1, <2>3, <1>a
  <1>6. ASSUME NEW w \in Workers, RecoverRow(w) PROVE Moved
    <2>1. PICK j \in DOMAIN rows[w] :
            \/ StaleMatch(rows[w][j], job[j]) /\ job' = [job EXCEPT ![j] = Recovered(rows[w][j])]
            \/ UNCHANGED job
      BY <1>6 DEF RecoverRow
    <2>2. UNCHANGED claims
      BY <1>6 DEF RecoverRow
    <2>3. j \in Jobs /\ rows[w][j] \in JobRecord /\ FreshRead(rows[w][j], job[j], claims[j])
      BY <1>t, <1>f
    <2>4. CASE /\ StaleMatch(rows[w][j], job[j])
               /\ job' = [job EXCEPT ![j] = Recovered(rows[w][j])]
      <3> DEFINE r == rows[w][j]
                 q == Recovered(r)
      <3>1. job[j].state = "running" /\ r.stale = job[j].stale /\ ~r.cancel /\ r.token <= claims[j]
        BY <2>3, <2>4 DEF StaleMatch, HeldUnder, FreshRead
      <3>2. CASE r.stale >= MaxStale
        <4>1. q.state = "failed" /\ q.cancel = r.cancel /\ q.token = r.token
          BY <2>3, <3>1, <3>2 DEF Recovered, JobRecord
        <4> HIDE DEF q
        <4>2. FreshMove(job[j], q, claims[j], claims[j])
          BY <3>1, <4>1 DEF FreshMove
        <4> QED BY <2>2, <2>3, <2>4, <4>2, <1>b DEF q
      <3>3. CASE ~(r.stale >= MaxStale)
        <4>1. q.state = "queued" /\ q.cancel = r.cancel /\ q.token = 0 /\ q.stale = r.stale + 1
          BY <2>3, <3>1, <3>3 DEF Recovered, Requeued, JobRecord
        <4>2. r.stale < MaxStale
          BY <2>3, <3>3, MaxStaleAssumption DEF JobRecord
        <4> HIDE DEF q
        <4>3. FreshMove(job[j], q, claims[j], claims[j])
          BY <3>1, <4>1, <4>2 DEF FreshMove
        <4> QED BY <2>2, <2>3, <2>4, <4>3, <1>b DEF q
      <3> QED BY <3>2, <3>3
    <2> QED BY <2>1, <2>2, <2>4, <1>a
  <1>7. ASSUME NEW w \in Workers, WriteCompletion(w) PROVE Moved
    <2>1. CASE UNCHANGED job
      BY <1>7, <2>1, <1>a DEF WriteCompletion
    <2>2. CASE /\ HeldUnder(job[hold[w]], token[w])
               /\ job' = [job EXCEPT ![hold[w]] = Completed(rows[w][hold[w]], outcome[w])]
      <3> DEFINE q == Completed(rows[w][hold[w]], outcome[w])
      <3>1. /\ hold[w] \in Jobs /\ outcome[w] \in Outcomes /\ hold[w] \in DOMAIN rows[w]
            /\ UNCHANGED claims /\ outcome[w] # "cancelled"
        BY <1>7, <1>f DEF WriteCompletion, PrismaInv, HeldInv
      <3>2. /\ rows[w][hold[w]] \in JobRecord
            /\ FreshRead(rows[w][hold[w]], job[hold[w]], claims[hold[w]])
        BY <3>1, <1>t, <1>f
      <3>3. /\ q.state = outcome[w] /\ q.token = rows[w][hold[w]].token
            /\ q.cancel = (rows[w][hold[w]].cancel \/ outcome[w] = "cancelled")
        BY Zenon, <3>2 DEF Completed, JobRecord
      <3>4. ~q.cancel
        BY Zenon, <3>1, <3>2, <3>3 DEF FreshRead
      <3>5. q.token <= claims[hold[w]] /\ q.state \in {"completed", "failed", "rejected"}
        BY <3>1, <3>2, <3>3 DEF FreshRead, Outcomes
      <3>6. job[hold[w]].state = "running" /\ job' = [job EXCEPT ![hold[w]] = q]
        BY <2>2 DEF HeldUnder
      <3> HIDE DEF q
      <3>7. FreshMove(job[hold[w]], q, claims[hold[w]], claims[hold[w]])
        BY <3>4, <3>5, <3>6 DEF FreshMove
      <3> QED BY <3>1, <3>6, <3>7, <1>b
    <2> QED BY <1>7, <2>1, <2>2 DEF WriteCompletion
  <1>8. ASSUME NEW c \in Cancellers, WriteMark(c) \/ WriteCancelled(c) PROVE Moved
    BY <1>8 DEF WriteMark, WriteCancelled, NobodyCancels
  <1> QED
    BY <1>1, <1>2, <1>3, <1>4, <1>5, <1>6, <1>7, <1>8
    DEF PrismaNext, EnvironmentStep, EnqueueStep, LocalStep, PrismaQuiet, QuietStep

(* The moves keep what is said of rows and of rows that were read.         *)
LEMMA FreshMoveKeeps ==
  ASSUME NEW r \in JobRecord, NEW q \in JobRecord, NEW n \in Nat, NEW m \in Nat,
         FreshRow(r, n), FreshMove(r, q, n, m)
  PROVE  /\ FreshRow(q, m)
         /\ \A x \in JobRecord : FreshRead(x, r, n) => FreshRead(x, q, m)
  <1>1. FreshRow(q, m)
    <2>1. CASE \E i \in Inputs : q = NewJob(i) /\ r.state = "none" /\ m = n
      BY <2>1 DEF FreshRow, NewJob, NoJob
    <2>2. CASE ~\E i \in Inputs : q = NewJob(i) /\ r.state = "none" /\ m = n
      BY <2>2 DEF FreshRow, FreshMove, JobRecord
    <2> QED BY <2>1, <2>2
  <1>2. ASSUME NEW x \in JobRecord, FreshRead(x, r, n) PROVE FreshRead(x, q, m)
    <2>1. CASE \E i \in Inputs : q = NewJob(i) /\ r.state = "none" /\ m = n
      BY <1>2, <2>1 DEF FreshRead, NewJob, NoJob
    <2>2. CASE ~\E i \in Inputs : q = NewJob(i) /\ r.state = "none" /\ m = n
      BY <1>2, <2>2 DEF FreshRead, FreshRow, FreshMove, JobRecord
    <2> QED BY <2>1, <2>2
  <1> QED BY <1>1, <1>2

(* A row that is read in a step that writes nothing is fresh.              *)
LEMMA JustRead == \A r \in JobRecord, n \in Nat : FreshRow(r, n) => FreshRead(r, r, n)
  BY DEF FreshRow, FreshRead

(* Nobody has cancelled before if nobody has after a step.                 *)
LEMMA StillNobody ==
  PrismaTypeOK /\ [PrismaNext]_prismaVars /\ NobodyCancels' => NobodyCancels
  <1> SUFFICES ASSUME PrismaTypeOK, [PrismaNext]_prismaVars, NobodyCancels' PROVE NobodyCancels
    OBVIOUS
  <1>t. webRestarts \in Nat /\ DOMAIN cpc = Cancellers /\ DOMAIN answer = Cancellers
    BY DEF PrismaTypeOK, TableTypes, CancellerTypes
  <1>a. CASE UNCHANGED <<cancelVars, webRestarts>>
    BY <1>a DEF NobodyCancels
  <1>b. ASSUME NEW c \in Cancellers, NEW r, Return(c, r) PROVE FALSE
    BY <1>b, <1>t DEF Return, AnswerFor, NobodyCancels
  <1>c. ASSUME NEW c \in Cancellers, NEW x \in {"mark", "markWrite", "cancel", "cancelWrite", "purge"}, Go(c, x)
        PROVE  FALSE
    BY <1>c, <1>t DEF Go, NobodyCancels
  <1>1. ASSUME NEW c \in Cancellers,
               \/ RequestRunning(c) \/ RecheckQueued(c) \/ PurgePayload(c) \/ ReadRunning(c)
               \/ WriteMark(c) \/ ReadQueued(c) \/ WriteCancelled(c)
        PROVE  FALSE
    BY <1>1, <1>b, <1>c
    DEF RequestRunning, RecheckQueued, PurgePayload, ReadRunning, WriteMark, ReadQueued, WriteCancelled, Found
  <1>2. ASSUME NEW c \in Cancellers, NEW j \in Jobs, CancelCall(c, j) PROVE FALSE
    BY <1>2, <1>t DEF CancelCall, NobodyCancels
  <1>3. CASE PrismaWebRestart
    BY <1>3, <1>t DEF PrismaWebRestart, WebRestart, NobodyCancels
  <1>4. CASE EnqueueStep \/ (\E j \in Jobs : PassDeadline(j)) \/ UNCHANGED prismaVars
    BY <1>4, <1>a DEF EnqueueStep, AllocateId, SavePayload, SaveRecord, CleanupPayload, PassDeadline
  <1>5. ASSUME NEW w \in Workers, LocalStep(w) PROVE NobodyCancels
    BY <1>5, <1>a DEF LocalStep, SweepPayloads, Verify, LoadPayload, Execute, DropPayload, StartLocal
  <1>6. ASSUME NEW w \in Workers,
               \/ PrismaBeat(w) \/ ReadCandidates(w) \/ TryCandidate(w)
               \/ ReadStale(w) \/ RecoverRow(w) \/ RecoverDone(w)
               \/ ReadCompletion(w) \/ WriteCompletion(w) \/ PrismaCrash(w)
        PROVE  NobodyCancels
    BY <1>6, <1>a DEF PrismaBeat, FirstBeat, LoopBeat, CommitBeat, ReadCandidates, TryCandidate, ReadStale,
         RecoverRow, RecoverDone, ReadCompletion, WriteCompletion, PrismaCrash, Crash, Restart
  <1> QED BY <1>1, <1>2, <1>3, <1>4, <1>5, <1>6 DEF PrismaNext, EnvironmentStep

(* No worker is about to record a cancellation.                            *)
LEMMA OutcomeStep ==
  ASSUME PrismaInv, FreshInv, NobodyCancels, [PrismaNext]_prismaVars
  PROVE  \A v \in Workers : pc'[v] \in {"complete", "commit"} => outcome'[v] # "cancelled"
  <1> DEFINE Safe(v) == pc'[v] \in {"complete", "commit"} => outcome'[v] # "cancelled"
  <1> SUFFICES ASSUME NEW v \in Workers PROVE Safe(v)
    OBVIOUS
  <1>t. /\ DOMAIN outcome = Workers /\ DOMAIN pc = Workers
        /\ pc[v] \in {"complete", "commit"} => outcome[v] # "cancelled"
    BY DEF PrismaInv, PrismaTypeOK, WorkerTypes, FreshInv
  <1>a. ASSUME pc'[v] = pc[v], outcome'[v] = outcome[v] PROVE Safe(v)
    BY <1>a, <1>t
  <1>b. ASSUME pc'[v] \notin {"complete", "commit"} PROVE Safe(v)
    BY <1>b
  <1>r. \A w \in Workers : Resting(w) \in {"off", "recover"}
    BY DEF Resting
  <1>1. ASSUME NEW w \in Workers, w # v,
               \/ LocalStep(w) \/ PrismaBeat(w) \/ ReadCandidates(w) \/ TryCandidate(w)
               \/ ReadStale(w) \/ RecoverRow(w) \/ RecoverDone(w)
               \/ ReadCompletion(w) \/ WriteCompletion(w) \/ PrismaCrash(w)
        PROVE  Safe(v)
    <2>1. pc'[v] = pc[v] /\ outcome'[v] = outcome[v]
      BY <1>1, <1>t
      DEF LocalStep, SweepPayloads, Verify, LoadPayload, Execute, DropPayload, StartLocal, Conflict, Abandon,
          PrismaBeat, FirstBeat, LoopBeat, CommitBeat, ReadCandidates, TryCandidate, ReadStale, RecoverRow,
          RecoverDone, ReadCompletion, WriteCompletion, PrismaCrash, Crash, Restart
    <2> QED BY <2>1, <1>a
  <1>2. CASE Execute(v)
    <2>1. hold[v] \in Jobs
      BY <1>2 DEF Execute, PrismaInv, HeldInv, Working
    <2>2. job[hold[v]].state # "cancelled" /\ ~job[hold[v]].cancel
      BY <2>1 DEF FreshInv, FreshRow
    <2> QED BY <1>2, <2>2, <1>t DEF Execute
  <1>3. CASE LoadPayload(v)
    <2>1. \/ pc'[v] = "execute" \/ outcome'[v] \in {"failed", "rejected"}
      BY <1>3, <1>t DEF LoadPayload
    <2> QED BY <2>1
  <1>4. CASE ReadCompletion(v)
    <2>1. pc[v] = "complete" /\ (outcome'[v] = outcome[v] \/ pc'[v] \in {"threw", "off"})
      BY <1>4, <1>t DEF ReadCompletion, Conflict, Abandon
    <2> QED BY <2>1, <1>t
  <1>5. CASE \/ SweepPayloads(v) \/ Verify(v) \/ DropPayload(v) \/ StartLocal(v)
             \/ ReadCandidates(v) \/ TryCandidate(v) \/ ReadStale(v) \/ RecoverDone(v)
             \/ WriteCompletion(v) \/ PrismaCrash(v)
    <2>1. \/ pc'[v] \notin {"complete", "commit"}
          \/ pc'[v] = pc[v] /\ outcome'[v] = outcome[v]
      BY <1>5, <1>t, <1>r
      DEF SweepPayloads, Verify, DropPayload, StartLocal, Conflict, Abandon, ReadCandidates, TryCandidate,
          ReadStale, RecoverDone, WriteCompletion, PrismaCrash, Crash, Restart
    <2> QED BY <2>1, <1>a, <1>b
  <1>6. CASE PrismaBeat(v) \/ RecoverRow(v)
    BY <1>6, <1>t, <1>a, <1>b DEF PrismaBeat, FirstBeat, LoopBeat, CommitBeat, RecoverRow
  <1>7. CASE PrismaWebRestart
    BY <1>7, <1>a, <1>b DEF PrismaWebRestart, WebRestart
  <1>8. CASE EnvironmentStep \/ UNCHANGED prismaVars
    BY <1>8, <1>a DEF EnvironmentStep, EnqueueStep, AllocateId, SavePayload, SaveRecord, CleanupPayload,
         CancelCall, RequestRunning, RecheckQueued, PurgePayload, PassDeadline
  <1>9. ASSUME NEW c \in Cancellers,
                ReadRunning(c) \/ ReadQueued(c) \/ WriteMark(c) \/ WriteCancelled(c)
         PROVE  Safe(v)
    BY <1>9, <1>a DEF ReadRunning, ReadQueued, WriteMark, WriteCancelled
  <1> QED
    BY <1>1, <1>2, <1>3, <1>4, <1>5, <1>6, <1>7, <1>8, <1>9 DEF PrismaNext, LocalStep

(* A row that a process has after a step is one it had, or one it read in  *)
(* a step that wrote nothing.                                              *)
LEMMA ReadOrHad ==
  ASSUME PrismaInv, [PrismaNext]_prismaVars, NEW v \in Workers, NEW k \in DOMAIN rows'[v]
  PROVE  \/ k \in DOMAIN rows[v] /\ rows'[v][k] = rows[v][k]
         \/ k \in Jobs /\ rows'[v][k] = job[k] /\ UNCHANGED <<job, claims>>
  <1> DEFINE Had == \/ k \in DOMAIN rows[v] /\ rows'[v][k] = rows[v][k]
                    \/ k \in Jobs /\ rows'[v][k] = job[k] /\ UNCHANGED <<job, claims>>
  <1> SUFFICES Had
    OBVIOUS
  <1>t. DOMAIN rows = Workers
    BY DEF PrismaInv, PrismaTypeOK, SnapshotTypes
  <1>a. CASE UNCHANGED rows
    BY <1>a
  <1>b. ASSUME NEW w \in Workers, rows' = [rows EXCEPT ![w] = NoRows] PROVE Had
    BY <1>b, <1>t DEF NoRows
  <1>c. ASSUME NEW w \in Workers, NEW js \in SUBSET Jobs, Read(w, js), UNCHANGED <<job, claims>> PROVE Had
    BY <1>c, <1>t DEF Read
  <1>d. ASSUME NEW w \in Workers, NEW j, DoneWith(w, j) PROVE Had
    BY <1>d, <1>t DEF DoneWith
  <1>1. ASSUME NEW w \in Workers, PrismaBeat(w) PROVE Had
    BY <1>1, <1>t DEF PrismaBeat
  <1>2. ASSUME NEW w \in Workers, ReadCandidates(w) PROVE Had
    BY <1>2, <1>c DEF ReadCandidates, Claimable
  <1>3. ASSUME NEW w \in Workers, TryCandidate(w) PROVE Had
    BY <1>3, <1>b, <1>d DEF TryCandidate
  <1>4. ASSUME NEW w \in Workers, ReadStale(w) PROVE Had
    BY <1>4, <1>c DEF ReadStale, StaleJobs
  <1>5. ASSUME NEW w \in Workers, RecoverRow(w) PROVE Had
    BY <1>5, <1>d DEF RecoverRow
  <1>6. ASSUME NEW w \in Workers, ReadCompletion(w) PROVE Had
    <2>1. hold[w] \in Jobs
      BY <1>6 DEF ReadCompletion, PrismaInv, HeldInv, Working
    <2>2. (UNCHANGED rows \/ Read(w, {hold[w]})) /\ UNCHANGED <<job, claims>>
      BY <1>6 DEF ReadCompletion
    <2> QED BY <2>1, <2>2, <1>a, <1>c
  <1>7. ASSUME NEW w \in Workers, WriteCompletion(w) \/ PrismaCrash(w) PROVE Had
    BY <1>7, <1>b DEF WriteCompletion, PrismaCrash
  <1>8. CASE PrismaWebRestart
    BY <1>8, <1>t DEF PrismaWebRestart, NoRows
  <1> QED
    BY <1>a, <1>1, <1>2, <1>3, <1>4, <1>5, <1>6, <1>7, <1>8
    DEF PrismaNext, RecoverDone, ReadRunning, ReadQueued, WriteMark, WriteCancelled

(* FreshInv is inductive on top of PrismaInv.                              *)
LEMMA FreshStepInv == PrismaInv /\ PrismaInv' /\ FreshInv /\ [PrismaNext]_prismaVars => FreshInv'
  <1> SUFFICES ASSUME PrismaInv, PrismaInv', FreshInv, [PrismaNext]_prismaVars, NobodyCancels'
               PROVE  /\ \A j \in Jobs : FreshRow(job'[j], claims'[j])
                      /\ \A w \in Workers :
                           /\ pc'[w] \in {"complete", "commit"} => outcome'[w] # "cancelled"
                           /\ \A j \in DOMAIN rows'[w] : FreshRead(rows'[w][j], job'[j], claims'[j])
    BY DEF FreshInv
  <1>1. NobodyCancels
    BY StillNobody DEF PrismaInv
  <1>t. /\ job \in [Jobs -> JobRecord] /\ job' \in [Jobs -> JobRecord]
        /\ claims \in [Jobs -> Nat] /\ claims' \in [Jobs -> Nat]
        /\ \A w \in Workers : DOMAIN rows[w] \subseteq Jobs /\ \A j \in DOMAIN rows[w] : rows[w][j] \in JobRecord
    BY DEF PrismaInv, PrismaTypeOK, TableTypes, SnapshotTypes
  <1>f. /\ \A j \in Jobs : FreshRow(job[j], claims[j])
        /\ \A w \in Workers : \A j \in DOMAIN rows[w] : FreshRead(rows[w][j], job[j], claims[j])
    BY <1>1 DEF FreshInv
  <1>2. \A j \in Jobs : /\ FreshRow(job'[j], claims'[j])
                        /\ \A x \in JobRecord : FreshRead(x, job[j], claims[j]) => FreshRead(x, job'[j], claims'[j])
    BY <1>1, <1>t, <1>f, FreshMoves, FreshMoveKeeps
  <1>3. ASSUME NEW w \in Workers, NEW j \in DOMAIN rows'[w] PROVE FreshRead(rows'[w][j], job'[j], claims'[j])
    <2>1. CASE j \in DOMAIN rows[w] /\ rows'[w][j] = rows[w][j]
      BY <2>1, <1>2, <1>t, <1>f
    <2>2. CASE j \in Jobs /\ rows'[w][j] = job[j] /\ UNCHANGED <<job, claims>>
      BY <2>2, <1>t, <1>f, JustRead
    <2> QED BY <2>1, <2>2, ReadOrHad
  <1> QED BY <1>1, <1>2, <1>3, OutcomeStep

(* On PostgreSQL the split calls of the queue take the steps of            *)
(* JobLifecycle as long as nobody cancels.                                 *)
THEOREM PrismaImplements == PrismaSpec => LifecycleSteps
  <1>1. PrismaInit => FreshInv
    BY DEF PrismaInit, Init, FreshInv, FreshRow, NoJob, NoRows, Resting
  <1>2. PrismaInv /\ PrismaInv' /\ FreshInv /\ [PrismaNext]_prismaVars
          => [NobodyCancels => Lifecycle!Next]_prismaVars
    <2> SUFFICES ASSUME PrismaInv, PrismaInv', FreshInv, [PrismaNext]_prismaVars, NobodyCancels
                 PROVE  Lifecycle!Next
      OBVIOUS
    <2>t. /\ job \in [Jobs -> JobRecord] /\ job' \in [Jobs -> JobRecord]
          /\ claims \in [Jobs -> Nat] /\ claims' \in [Jobs -> Nat]
      BY DEF PrismaInv, PrismaTypeOK, TableTypes
    <2>1. /\ [j \in Jobs |-> PhaseOf(job'[j].state)] \in [Jobs -> Lifecycle!Phases]
          /\ claims' \in [Jobs -> Nat]
          /\ [j \in Jobs |-> job'[j].cancel] \in [Jobs -> BOOLEAN]
      BY <2>t DEF JobRecord, JobStates, PhaseOf, Terminal, Lifecycle!Phases
    <2>2. ASSUME NEW j \in Jobs PROVE Lifecycle!Step(j)
      <3> DEFINE r == job[j]
                 q == job'[j]
      <3>1. /\ FreshMove(r, q, claims[j], claims'[j]) /\ FreshRow(r, claims[j])
            /\ r \in JobRecord /\ q \in JobRecord /\ claims[j] \in Nat
        BY <2>t, FreshMoves DEF FreshInv
      <3>2. r.stale \in Nat /\ r.stale <= MaxStale /\ ~r.cancel /\ r.cancel \in BOOLEAN /\ q.cancel \in BOOLEAN
        BY <3>1, MaxStaleAssumption DEF JobRecord, FreshRow
      <3> USE <2>2, <3>1, <3>2, MaxStaleAssumption DEF PhaseOf, Terminal
      <3> HIDE DEF r, q
      <3>3. CASE q = r /\ claims'[j] = claims[j]
        BY <3>3 DEF Lifecycle!Step, Lifecycle!Rest, Lifecycle!Keep, r, q
      <3>4. CASE r.state = "none" /\ claims'[j] = claims[j] /\ \E i \in Inputs : q = NewJob(i)
        <4>1. q.state = "queued" /\ q.cancel = FALSE
          BY <3>4 DEF NewJob, NoJob
        <4> QED BY <3>4, <4>1 DEF Lifecycle!Step, Lifecycle!Submit, Lifecycle!Keep, r, q
      <3>5. CASE /\ r.state = "queued" /\ q.state = "running" /\ q.cancel = r.cancel
                 /\ claims'[j] = claims[j] + 1
        <4>1. claims[j] <= MaxStale
          BY <3>5 DEF FreshRow
        <4> QED BY <3>5, <4>1 DEF Lifecycle!Step, Lifecycle!HandOut, r, q
      <3>6. CASE /\ r.state = "running" /\ q.state = "queued" /\ ~q.cancel
                 /\ r.stale < MaxStale /\ claims'[j] = claims[j]
        <4>1. claims[j] <= MaxStale
          BY <3>6 DEF FreshRow
        <4> QED BY <3>6, <4>1 DEF Lifecycle!Step, Lifecycle!PutBack, Lifecycle!Keep, r, q
      <3>7. CASE r.state = "running" /\ q.state = "running" /\ q.cancel = r.cancel /\ claims'[j] = claims[j]
        BY <3>7 DEF Lifecycle!Step, Lifecycle!Rest, Lifecycle!Keep, r, q
      <3>8. CASE /\ r.state = "running" /\ q.state \in {"completed", "failed", "rejected"}
                 /\ claims'[j] = claims[j]
        BY <3>8 DEF Lifecycle!Step, Lifecycle!Settle, r, q
      <3> QED BY <3>3, <3>4, <3>5, <3>6, <3>7, <3>8 DEF FreshMove
    <2> QED BY <2>1, <2>2 DEF Lifecycle!Next
  <1> QED BY <1>1, <1>2, FreshStepInv, PrismaInvariance, PTL DEF PrismaSpec, LifecycleSteps

-----------------------------------------------------------------------------
(* The queue over the JSON files.  The callers of the two files are of     *)
(* four sorts, and no name is of two of them.                              *)
CallersApart ==
  /\ Workers \cap Cancellers = {} /\ Workers \cap Timers = {} /\ Cancellers \cap Timers = {}
  /\ Web \notin Workers \cup Cancellers \cup Timers

(* Who shares a process, and with it a lock.                               *)
LEMMA Processes ==
  ASSUME CallersApart
  PROVE  /\ \A d \in Daemons : /\ d \in Callers /\ TimerOf(d) \in Callers /\ d # TimerOf(d)
                               /\ Process(d) = d /\ Process(TimerOf(d)) = d
         /\ \A w \in Locals : w \in Callers /\ Process(w) = Web
         /\ \A c \in Cancellers \ Daemons : Process(c) = Web
         /\ Web \in Callers /\ Process(Web) = Web
  <1> USE QueueAssumption DEF CallersApart, Callers, Timers, Process, Locals
  <1>1. \A d \in Daemons : TimerOf(d) \in Timers /\ TimerOf(d)[2] = d
    BY DEF TimerOf
  <1>2. \A d \in Daemons : d \in Workers /\ d \notin Timers
    OBVIOUS
  <1>3. Web \notin Daemons
    BY <1>2
  <1> QED BY <1>1, <1>2, <1>3

(* At most one caller of a process is between its read and its write.      *)
Alone(file) ==
  /\ DOMAIN file = Callers
  /\ \A a, b \in Callers : a # b /\ Process(a) = Process(b) => file[a] = None \/ file[b] = None

(* What was read is what is stored.                                        *)
Copies(file, stored) == \A a \in Callers : file[a] # None => file[a] = stored

(* What one step does with the copies of the job file, and of the payload  *)
(* file.                                                                   *)
JobFileStep ==
  \/ UNCHANGED <<job, jobFile>>
  \/ \E a \in Callers : /\ Turn(jobFile, a) /\ UNCHANGED job
                        /\ jobFile' = [jobFile EXCEPT ![a] = job]
  \/ \E a \in Callers : Replace(a, job')
  \/ \E j \in Jobs : JsonPassDeadline(j)
  \/ \E p : Forget(p) /\ UNCHANGED job
PayloadFileStep ==
  \/ UNCHANGED <<payload, payloadFile>>
  \/ \E a \in Callers : /\ Turn(payloadFile, a) /\ UNCHANGED payload
                        /\ payloadFile' = [payloadFile EXCEPT ![a] = payload]
  \/ \E a \in Callers : ReplacePayloads(a, payload')
  \/ \E p : Forget(p) /\ UNCHANGED payload

(* The steps in memory write neither file.                                 *)
LEMMA InMemoryKeeps == InMemory => UNCHANGED <<job, payload, claims>>
  BY DEF InMemory, AllocateId, SweepPayloads, StartLocal, Verify, LoadPayload, Execute,
         CancelCall, RequestRunning, RecheckQueued

(* Every step treats the copies of both files in one of these ways, and    *)
(* what has been torn stays torn.                                          *)
LEMMA FileSteps == [JsonNext]_jsonVars => JobFileStep /\ PayloadFileStep /\ (torn => torn')
  <1> SUFFICES ASSUME [JsonNext]_jsonVars PROVE JobFileStep /\ PayloadFileStep /\ (torn => torn')
    OBVIOUS
  <1> USE DEF Callers
  (* A write of the job file, and one of the payload file.                 *)
  <1>a. ASSUME NEW a \in Callers, NEW f, Replace(a, f)
        PROVE  JobFileStep /\ PayloadFileStep /\ (torn => torn')
    BY <1>a DEF Replace, JobFileStep, PayloadFileStep, TornBy
  <1>b. ASSUME NEW a \in Callers, NEW f, ReplacePayloads(a, f)
        PROVE  JobFileStep /\ PayloadFileStep /\ (torn => torn')
    BY <1>b DEF ReplacePayloads, JobFileStep, PayloadFileStep, TornBy
  <1>1. CASE InMemory /\ UNCHANGED fileVars
    BY <1>1, InMemoryKeeps DEF fileVars, JobFileStep, PayloadFileStep
  <1>2. ASSUME NEW a \in Callers, ReadJobs(a) PROVE JobFileStep /\ PayloadFileStep /\ (torn => torn')
    BY <1>2 DEF ReadJobs, JobFileStep, PayloadFileStep
  <1>3. ASSUME NEW a \in Callers, ReadPayloads(a) PROVE JobFileStep /\ PayloadFileStep /\ (torn => torn')
    BY <1>3 DEF ReadPayloads, JobFileStep, PayloadFileStep
  <1>4. CASE WriteRecord
    BY <1>4, <1>a DEF WriteRecord
  <1>5. CASE WritePayload
    BY <1>5, <1>b DEF WritePayload
  <1>6. CASE DeleteUnused
    BY <1>6, <1>b DEF DeleteUnused, Delete
  <1>7. ASSUME NEW d \in Daemons, ReadForTimer(d) PROVE JobFileStep /\ PayloadFileStep /\ (torn => torn')
    BY <1>7 DEF ReadForTimer, JobFileStep, PayloadFileStep, Timers
  <1>8. ASSUME NEW d \in Daemons, WriteBeatOfTimer(d)
        PROVE  JobFileStep /\ PayloadFileStep /\ (torn => torn')
    BY <1>8, <1>a DEF WriteBeatOfTimer, Timers
  <1>9. ASSUME NEW d \in Daemons, JsonCrash(d) PROVE JobFileStep /\ PayloadFileStep /\ (torn => torn')
    BY <1>9 DEF JsonCrash, Crash, Forget, JobFileStep, PayloadFileStep
  <1>10. ASSUME NEW w \in Workers,
                \/ WriteRecovered(w) \/ WriteClaimed(w) \/ FoundNoneQueued(w)
                \/ WriteFirstBeat(w) \/ WriteCompleted(w)
         PROVE  JobFileStep /\ PayloadFileStep /\ (torn => torn')
    BY <1>10, <1>a DEF WriteRecovered, WriteClaimed, FoundNoneQueued, WriteFirstBeat, WriteCompleted
  <1>11. ASSUME NEW w \in Workers, FoundClaimGone(w)
         PROVE  JobFileStep /\ PayloadFileStep /\ (torn => torn')
    BY <1>11 DEF FoundClaimGone, Complete, fileVars, JobFileStep, PayloadFileStep
  <1>12. ASSUME NEW w \in Workers, DeleteSwept(w) \/ DeleteDone(w)
         PROVE  JobFileStep /\ PayloadFileStep /\ (torn => torn')
    BY <1>12, <1>b DEF DeleteSwept, DeleteDone, Delete
  <1>13. ASSUME NEW w \in Workers, Restart(w) /\ UNCHANGED fileVars
         PROVE  JobFileStep /\ PayloadFileStep /\ (torn => torn')
    BY <1>13 DEF Restart, fileVars, JobFileStep, PayloadFileStep
  <1>14. ASSUME NEW c \in Cancellers, WriteMarked(c) \/ WriteQueuedCancelled(c) \/ DeleteCancelled(c)
         PROVE  JobFileStep /\ PayloadFileStep /\ (torn => torn')
    BY <1>14, <1>a, <1>b DEF WriteMarked, WriteQueuedCancelled, DeleteCancelled, Delete
  <1>15. ASSUME NEW j \in Jobs, JsonPassDeadline(j)
         PROVE  JobFileStep /\ PayloadFileStep /\ (torn => torn')
    BY <1>15 DEF JsonPassDeadline, PassDeadline, JobFileStep, PayloadFileStep
  <1>16. CASE JsonWebRestart
    BY <1>16 DEF JsonWebRestart, WebRestart, Forget, JobFileStep, PayloadFileStep
  <1>17. CASE UNCHANGED jsonVars
    BY <1>17 DEF jsonVars, fileVars, JobFileStep, PayloadFileStep
  <1> HIDE DEF Callers
  <1> QED
    BY <1>1, <1>2, <1>3, <1>4, <1>5, <1>6, <1>7, <1>8, <1>9, <1>10, <1>11, <1>12, <1>13,
       <1>14, <1>15, <1>16, <1>17 DEF JsonNext

(* withMutationLock: the callers of one process stay one at a time.        *)
LEMMA AloneStep ==
  /\ Alone(jobFile) /\ JobFileStep => Alone(jobFile')
  /\ Alone(payloadFile) /\ PayloadFileStep => Alone(payloadFile')
  <1>1. ASSUME NEW file, NEW next, Alone(file), DOMAIN next = Callers,
               \A a \in Callers : file[a] = None => next[a] = None
        PROVE  Alone(next)
    BY <1>1 DEF Alone
  <1>2. ASSUME NEW file, NEW a \in Callers, NEW stored, Alone(file), Turn(file, a)
        PROVE  Alone([file EXCEPT ![a] = stored])
    BY <1>2 DEF Alone, Turn
  <1>3. ASSUME Alone(jobFile), JobFileStep PROVE Alone(jobFile')
    <2>1. ASSUME NEW a \in Callers, Replace(a, job') PROVE Alone(jobFile')
      BY <1>1, <1>3, <2>1 DEF Replace, Alone
    <2>2. ASSUME NEW j \in Jobs, JsonPassDeadline(j) PROVE Alone(jobFile')
      BY <1>1, <1>3, <2>2 DEF JsonPassDeadline
    <2>3. ASSUME NEW p, Forget(p) PROVE Alone(jobFile')
      BY <1>1, <1>3, <2>3 DEF Forget
    <2> QED BY <1>2, <1>3, <2>1, <2>2, <2>3 DEF JobFileStep
  <1>4. ASSUME Alone(payloadFile), PayloadFileStep PROVE Alone(payloadFile')
    <2>1. ASSUME NEW a \in Callers, ReplacePayloads(a, payload') PROVE Alone(payloadFile')
      BY <1>1, <1>4, <2>1 DEF ReplacePayloads, Alone
    <2>2. ASSUME NEW p, Forget(p) PROVE Alone(payloadFile')
      BY <1>1, <1>4, <2>2 DEF Forget
    <2> QED BY <1>2, <1>4, <2>1, <2>2 DEF PayloadFileStep
  <1> QED BY <1>3, <1>4

(* A step that tears nothing leaves no obsolete copy: whoever writes is    *)
(* alone in its process, and nobody else has read the file.                *)
LEMMA CopiesStep ==
  /\ Alone(jobFile) /\ Copies(jobFile, job) /\ JobFileStep /\ ~torn' => Copies(jobFile', job')
  /\ Alone(payloadFile) /\ Copies(payloadFile, payload) /\ PayloadFileStep /\ ~torn'
       => Copies(payloadFile', payload')
  <1>1. ASSUME Alone(jobFile), Copies(jobFile, job), JobFileStep, ~torn'
        PROVE  Copies(jobFile', job')
    <2>1. ASSUME NEW a \in Callers, Replace(a, job') PROVE Copies(jobFile', job')
      BY <1>1, <2>1 DEF Replace, TornBy, Alone, Copies
    <2>2. ASSUME NEW j \in Jobs, JsonPassDeadline(j) PROVE Copies(jobFile', job')
      BY <1>1, <2>2 DEF JsonPassDeadline, PassDeadline, Copies
    <2>3. ASSUME NEW p, Forget(p), UNCHANGED job PROVE Copies(jobFile', job')
      BY <1>1, <2>3 DEF Forget, Copies
    <2> QED BY <1>1, <2>1, <2>2, <2>3 DEF JobFileStep, Copies, Alone
  <1>2. ASSUME Alone(payloadFile), Copies(payloadFile, payload), PayloadFileStep, ~torn'
        PROVE  Copies(payloadFile', payload')
    <2>1. ASSUME NEW a \in Callers, ReplacePayloads(a, payload') PROVE Copies(payloadFile', payload')
      BY <1>2, <2>1 DEF ReplacePayloads, TornBy, Alone, Copies
    <2>2. ASSUME NEW p, Forget(p), UNCHANGED payload PROVE Copies(payloadFile', payload')
      BY <1>2, <2>2 DEF Forget, Copies
    <2> QED BY <1>2, <2>1, <2>2 DEF PayloadFileStep, Copies, Alone
  <1> QED BY <1>1, <1>2

(* What else holds while nothing is torn.  A copy of the job file belongs  *)
(* to a call that is still going on: a record the Web saves, a worker that *)
(* is not between its calls, a local run that has the lock of its job, and *)
(* a timer whose daemon has kept its claim.                                *)
ReaderInv ==
  /\ jobFile[Web] # None => web.pc = "record"
  /\ \A w \in Workers : jobFile[w] # None => pc[w] \notin {"verify", "load", "execute"}
  /\ \A w \in Locals : jobFile[w] # None /\ pc[w] = "complete" => LockFree(hold[w])
  /\ \A d \in Daemons : jobFile[TimerOf(d)] # None =>
       pc[d] \in {"verify", "load", "execute", "complete"} /\ MayBeat(job[hold[d]], d, token[d])

(* A running record names its worker.                                      *)
NamedInv == \A j \in Jobs : job[j].state = "running" => job[j].worker \in Workers

(* The inductive invariant of the queue over the JSON files.               *)
Untorn ==
  /\ IInv /\ NamedInv /\ ReaderInv
  /\ Copies(jobFile, job) /\ Copies(payloadFile, payload)
JsonInv == Alone(jobFile) /\ Alone(payloadFile) /\ (~torn => Untorn)

(* As long as nothing is torn, every step of the JSON stores is a step of  *)
(* the queue with atomic calls, or changes nothing of it.                  *)
LEMMA AtomicStep == JsonInv /\ ~torn /\ [JsonNext]_jsonVars => [Next]_vars
  <1> SUFFICES ASSUME JsonInv, ~torn, [JsonNext]_jsonVars PROVE [Next]_vars
    OBVIOUS
  <1> USE DEF JsonInv, Untorn, Callers
  <1>t. TypeOK /\ ClaimInv /\ DeleteInv /\ ReaderInv /\ NamedInv
    BY DEF IInv
  <1>j. \A a \in Callers : jobFile[a] # None => jobFile[a] = job
    BY DEF Copies
  <1>p. \A a \in Callers : payloadFile[a] # None => payloadFile[a] = payload
    BY DEF Copies
  <1> HIDE DEF JsonInv, Untorn
  <1>f. job = [j \in Jobs |-> job[j]] /\ payload = [j \in Jobs |-> payload[j]]
    BY <1>t DEF TypeOK
  <1>1. CASE InMemory /\ UNCHANGED fileVars
    BY <1>1 DEF InMemory, Next, EnqueueStep, WorkerStep, CancelStep
  <1>2. ASSUME NEW a \in Callers, ReadJobs(a) \/ ReadPayloads(a) PROVE [Next]_vars
    BY <1>2 DEF ReadJobs, ReadPayloads
  <1>3. CASE WriteRecord
    <2>1. SaveRecord
      BY <1>3, <1>j, <1>t DEF WriteRecord, Replace, SaveRecord, ReaderInv
    <2> QED BY <2>1 DEF Next, EnqueueStep
  <1>4. CASE WritePayload
    <2>1. SavePayload
      BY <1>4, <1>p DEF WritePayload, ReplacePayloads, SavePayload
    <2> QED BY <2>1 DEF Next, EnqueueStep
  <1>5. CASE DeleteUnused
    <2>1. CleanupPayload
      BY <1>5, <1>p DEF DeleteUnused, Delete, ReplacePayloads, CleanupPayload
    <2> QED BY <2>1 DEF Next, EnqueueStep
  <1>6. ASSUME NEW d \in Daemons, ReadForTimer(d) PROVE [Next]_vars
    BY <1>6 DEF ReadForTimer
  <1>7. ASSUME NEW d \in Daemons, WriteBeatOfTimer(d) PROVE [Next]_vars
    <2>1. TimerOf(d) \in Callers /\ jobFile[TimerOf(d)] # None /\ d \in Workers
      BY <1>7, QueueAssumption DEF WriteBeatOfTimer, Timers
    <2>2. /\ jobFile[TimerOf(d)] = job
          /\ pc[d] \in {"verify", "load", "execute", "complete"}
          /\ MayBeat(job[hold[d]], d, token[d])
      BY <2>1, <1>j, <1>t DEF ReaderInv
    <2>3. hold[d] \in Jobs /\ hold[d] # 0
      BY <2>1, <2>2, <1>t, JobsAssumption DEF ClaimInv, Working
    <2>4. job[hold[d]].state = "running" /\ job[hold[d]].worker = d
      BY <2>1, <2>2, <2>3, <1>t, WorkersAssumption DEF MayBeat, HeldUnder, NamedInv
    <2>5. {j \in Jobs : job[j].state = "running" /\ job[j].worker = d /\ hold[d] \in {0, j}}
            = {hold[d]}
      BY <2>3, <2>4
    <2>6. job' = [j \in Jobs |-> IF j \in {hold[d]} THEN Beaten(job[j]) ELSE job[j]]
      BY <1>7, <2>2, <2>5 DEF WriteBeatOfTimer, Replace
    <2>7. job' = [job EXCEPT ![hold[d]] = Beaten(@)]
      BY <2>3, <2>6, <1>f
    <2>8. LoopBeat(d)
      BY <1>7, <2>2, <2>3, <2>7 DEF WriteBeatOfTimer, Replace, LoopBeat, BeatOn
    <2> QED BY <2>1, <2>8 DEF Next
  <1>8. ASSUME NEW d \in Daemons, JsonCrash(d) PROVE [Next]_vars
    BY <1>8, QueueAssumption DEF JsonCrash, Next
  <1>9. ASSUME NEW w \in Workers, WriteRecovered(w) PROVE [Next]_vars
    <2>1. jobFile[w] = job
      BY <1>9, <1>j DEF WriteRecovered
    <2>2. job' = [j \in Jobs |-> IF j \in StaleJobs THEN Recovered(job[j]) ELSE job[j]]
      BY <1>9, <2>1, <1>f DEF WriteRecovered, Replace, StaleJobs
    <2>3. {j \in StaleJobs : Recovered(job[j]).state \in Terminal}
            = {j \in StaleJobs : job'[j].state \in Terminal}
      BY <2>2 DEF StaleJobs
    <2>4. RecoverStale(w)
      BY <1>9, <2>1, <2>2, <2>3 DEF WriteRecovered, Replace, RecoverStale, StaleJobs
    <2> QED BY <2>4 DEF Next, WorkerStep
  <1>10. ASSUME NEW w \in Workers, WriteClaimed(w) PROVE [Next]_vars
    <2>1. jobFile[w] = job
      BY <1>10, <1>j DEF WriteClaimed
    <2>2. ClaimOldest(w)
      BY <1>10, <2>1 DEF WriteClaimed, Replace, ClaimOldest, Claimable
    <2> QED BY <2>2 DEF Next, WorkerStep
  <1>11. ASSUME NEW w \in Workers, FoundNoneQueued(w) PROVE [Next]_vars
    <2>1. jobFile[w] = job
      BY <1>11, <1>j DEF FoundNoneQueued, Replace
    <2>2. ClaimNothing(w)
      BY <1>11, <2>1 DEF FoundNoneQueued, Replace, ClaimNothing, Claimable
    <2> QED BY <2>2 DEF Next, WorkerStep
  <1>12. ASSUME NEW w \in Workers, WriteFirstBeat(w) PROVE [Next]_vars
    <2>1. jobFile[w] = job /\ hold[w] \in Jobs
      BY <1>12, <1>j, <1>t DEF WriteFirstBeat, ClaimInv, Working
    <2>2. FirstBeat(w)
      BY <1>12, <2>1 DEF WriteFirstBeat, Replace, FirstBeat, BeatOn
    <2> QED BY <2>2 DEF Next, WorkerStep
  <1>13. ASSUME NEW w \in Workers, WriteCompleted(w) PROVE [Next]_vars
    <2>1. jobFile[w] = job /\ (w \in Locals => LockFree(hold[w]))
      BY <1>13, <1>j, <1>t DEF WriteCompleted, ReaderInv
    <2>2. Complete(w)
      BY <1>13, <2>1 DEF WriteCompleted, Replace, Complete
    <2> QED BY <2>2 DEF Next, WorkerStep
  <1>14. ASSUME NEW w \in Workers, FoundClaimGone(w) PROVE [Next]_vars
    BY <1>14 DEF FoundClaimGone, Next, WorkerStep
  <1>15. ASSUME NEW w \in Workers, DeleteSwept(w) PROVE [Next]_vars
    <2>1. SweepPayloads(w)
      BY <1>15, <1>p DEF DeleteSwept, Delete, ReplacePayloads, SweepPayloads
    <2> QED BY <2>1 DEF Next, WorkerStep
  <1>16. ASSUME NEW w \in Workers, DeleteDone(w) PROVE [Next]_vars
    <2>1. DropPayload(w)
      BY <1>16, <1>p DEF DeleteDone, Delete, ReplacePayloads, DropPayload
    <2> QED BY <2>1 DEF Next, WorkerStep
  <1>17. ASSUME NEW w \in Workers, Restart(w) PROVE [Next]_vars
    BY <1>17 DEF Next
  <1>18. ASSUME NEW c \in Cancellers, WriteMarked(c) PROVE [Next]_vars
    <2>1. jobFile[c] = job /\ target[c] \in Jobs
      BY <1>18, <1>j, <1>t DEF WriteMarked, DeleteInv
    <2>2. job = [job EXCEPT ![target[c]] = job[target[c]]]
      BY <1>f
    <2>3. MarkRunning(c)
      BY <1>18, <2>1, <2>2 DEF WriteMarked, Replace, MarkRunning
    <2> QED BY <2>3 DEF Next, CancelStep
  <1>19. ASSUME NEW c \in Cancellers, WriteQueuedCancelled(c) PROVE [Next]_vars
    <2>1. jobFile[c] = job
      BY <1>19, <1>j DEF WriteQueuedCancelled
    <2>2. CancelQueued(c)
      BY <1>19, <2>1 DEF WriteQueuedCancelled, Replace, CancelQueued
    <2> QED BY <2>2 DEF Next, CancelStep
  <1>20. ASSUME NEW c \in Cancellers, DeleteCancelled(c) PROVE [Next]_vars
    <2>1. PurgePayload(c)
      BY <1>20, <1>p DEF DeleteCancelled, Delete, ReplacePayloads, PurgePayload
    <2> QED BY <2>1 DEF Next, CancelStep
  <1>21. ASSUME NEW j \in Jobs, JsonPassDeadline(j) PROVE [Next]_vars
    BY <1>21 DEF JsonPassDeadline, Next
  <1>22. CASE JsonWebRestart
    BY <1>22 DEF JsonWebRestart, Next
  <1>23. CASE UNCHANGED jsonVars
    BY <1>23 DEF jsonVars
  <1> HIDE DEF Callers
  <1> QED
    BY <1>1, <1>2, <1>3, <1>4, <1>5, <1>6, <1>7, <1>8, <1>9, <1>10, <1>11, <1>12, <1>13, <1>14,
       <1>15, <1>16, <1>17, <1>18, <1>19, <1>20, <1>21, <1>22, <1>23 DEF JsonNext

(* Only a claim makes a record running, and it names the worker.           *)
LEMMA NamedStep == TypeOK /\ NamedInv /\ [Next]_vars => NamedInv'
  <1> SUFFICES ASSUME TypeOK, NamedInv, [Next]_vars PROVE NamedInv'
    OBVIOUS
  <1> USE DEF TypeOK, NamedInv
  <1>a. ASSUME NEW j \in Jobs, NEW q, job' = [job EXCEPT ![j] = q],
               q.state = "running" => q.worker \in Workers
        PROVE  NamedInv'
    BY <1>a
  <1>b. ASSUME NEW r \in JobRecord
        PROVE  /\ Beaten(r).worker = r.worker /\ Beaten(r).state = r.state
               /\ Expired(r).worker = r.worker /\ Expired(r).state = r.state
               /\ Recovered(r).state # "running"
               /\ QueuedCancelled(r).state # "running"
               /\ \A o : Completed(r, o).worker = r.worker
               /\ CancelRequested(r).worker = r.worker
    <2>1. Recovered(r).state \in {"cancelled", "failed", "queued"}
      BY DEF JobRecord, Recovered, Requeued
    <2> QED BY <2>1 DEF JobRecord, Beaten, Expired, QueuedCancelled, Completed, CancelRequested
  <1>1. CASE QuietStep \/ UNCHANGED vars
    BY <1>1, QuietKeepsJobs
  <1>2. CASE SaveRecord
    <2>1. \A i : NewJob(i).state = "queued"
      BY DEF NewJob, NoJob
    <2>2. CASE job' = [job EXCEPT ![web.job] = NewJob(web.input)]
      BY <2>1, <2>2
    <2> QED BY <1>2, <2>2 DEF SaveRecord
  <1>3. ASSUME NEW w \in Workers, RecoverStale(w) PROVE NamedInv'
    BY <1>3, <1>b DEF RecoverStale
  <1>4. ASSUME NEW w \in Workers, ClaimOldest(w) PROVE NamedInv'
    BY <1>4, <1>a DEF ClaimOldest, Claimable, Claimed, JobRecord
  <1>5. ASSUME NEW w \in Workers, FirstBeat(w) \/ LoopBeat(w) PROVE NamedInv'
    <2>1. CASE hold[w] \in Jobs /\ MayBeat(job[hold[w]], w, token[w])
      <3>1. job' = [job EXCEPT ![hold[w]] = Beaten(job[hold[w]])]
        BY <1>5, <2>1 DEF FirstBeat, LoopBeat, BeatOn
      <3>2. Beaten(job[hold[w]]).worker \in Workers
        BY <2>1, <1>b DEF MayBeat, HeldUnder
      <3> QED BY <1>a, <2>1, <3>1, <3>2
    <2> QED BY <1>5, <2>1 DEF FirstBeat, LoopBeat, BeatOn
  <1>6. ASSUME NEW w \in Workers, Complete(w) PROVE NamedInv'
    <2>1. CASE HeldUnder(job[hold[w]], token[w])
      <3>1. job' = [job EXCEPT ![hold[w]] = Completed(job[hold[w]], outcome[w])]
        BY <1>6, <2>1 DEF Complete
      <3>2. hold[w] \in Jobs => Completed(job[hold[w]], outcome[w]).worker \in Workers
        BY <2>1, <1>b DEF HeldUnder
      <3> QED BY <3>1, <3>2
    <2> QED BY <1>6, <2>1 DEF Complete
  <1>7. ASSUME NEW c \in Cancellers, MarkRunning(c) PROVE NamedInv'
    BY <1>7 DEF MarkRunning, CancelRequested, JobRecord
  <1>8. ASSUME NEW c \in Cancellers, CancelQueued(c) PROVE NamedInv'
    BY <1>8, <1>b DEF CancelQueued
  <1>9. ASSUME NEW j \in Jobs, PassDeadline(j) PROVE NamedInv'
    BY <1>9, <1>b DEF PassDeadline
  <1> QED
    BY <1>1, <1>2, <1>3, <1>4, <1>5, <1>6, <1>7, <1>8, <1>9
    DEF Next, EnqueueStep, WorkerStep, CancelStep, QuietStep

(* Who holds a copy of the job file after a step held it before, or has    *)
(* just read it.                                                           *)
LEMMA ReaderOrigin ==
  ASSUME CallersApart, Alone(jobFile), [JsonNext]_jsonVars, NEW a \in Callers, jobFile'[a] # None
  PROVE  \/ jobFile[a] # None
         \/ ReadJobs(a)
         \/ \E d \in Daemons : a = TimerOf(d) /\ ReadForTimer(d)
  <1> USE DEF Alone, Callers
  <1>1. ASSUME NEW b \in Callers, NEW f, Replace(b, f) PROVE jobFile[a] # None
    BY <1>1 DEF Replace
  <1>2. ASSUME NEW b \in Callers, ReadJobs(b) PROVE b = a \/ jobFile[a] # None
    BY <1>2 DEF ReadJobs
  <1>3. ASSUME NEW d \in Daemons, ReadForTimer(d) PROVE a = TimerOf(d) \/ jobFile[a] # None
    BY <1>3 DEF ReadForTimer
  <1>4. ASSUME UNCHANGED jobFile PROVE jobFile[a] # None
    BY <1>4
  <1>5. ASSUME NEW p, Forget(p) PROVE jobFile[a] # None
    BY <1>5 DEF Forget
  <1>6. ASSUME NEW j \in Jobs, JsonPassDeadline(j) PROVE jobFile[a] # None
    BY <1>6 DEF JsonPassDeadline
  <1>7. ASSUME NEW d \in Daemons, WriteBeatOfTimer(d) PROVE jobFile[a] # None
    BY <1>7, <1>1 DEF WriteBeatOfTimer, Timers
  <1>8. ASSUME NEW w \in Workers,
               \/ WriteRecovered(w) \/ WriteClaimed(w) \/ FoundNoneQueued(w)
               \/ WriteFirstBeat(w) \/ WriteCompleted(w)
        PROVE  jobFile[a] # None
    BY <1>8, <1>1 DEF WriteRecovered, WriteClaimed, FoundNoneQueued, WriteFirstBeat, WriteCompleted
  <1>9. ASSUME NEW c \in Cancellers, WriteMarked(c) \/ WriteQueuedCancelled(c) PROVE jobFile[a] # None
    BY <1>9, <1>1 DEF WriteMarked, WriteQueuedCancelled
  <1>10. CASE WriteRecord
    BY <1>10, <1>1 DEF WriteRecord
  <1>11. ASSUME NEW b \in Callers, ReadPayloads(b) PROVE jobFile[a] # None
    BY <1>11, <1>4 DEF ReadPayloads
  <1>12. CASE WritePayload \/ DeleteUnused
    BY <1>12, <1>4 DEF WritePayload, DeleteUnused, Delete, ReplacePayloads
  <1>13. ASSUME NEW w \in Workers, FoundClaimGone(w) \/ DeleteSwept(w) \/ DeleteDone(w)
         PROVE  jobFile[a] # None
    BY <1>13, <1>4 DEF FoundClaimGone, fileVars, DeleteSwept, DeleteDone, Delete, ReplacePayloads
  <1>14. ASSUME NEW c \in Cancellers, DeleteCancelled(c) PROVE jobFile[a] # None
    BY <1>14, <1>4 DEF DeleteCancelled, Delete, ReplacePayloads
  <1>15. CASE UNCHANGED fileVars \/ UNCHANGED jsonVars
    BY <1>15, <1>4 DEF fileVars, jsonVars
  <1> HIDE DEF Callers, Alone
  <1> QED
    BY <1>2, <1>3, <1>5, <1>6, <1>7, <1>8, <1>9, <1>10, <1>11, <1>12, <1>13, <1>14, <1>15
    DEF JsonNext, JsonCrash, JsonWebRestart

(* What a step may do to the place and the claim of a worker: nothing,     *)
(* unless its process stops, its call on the job file ends, or it goes on  *)
(* without one.                                                            *)
Before == {"verify", "load", "execute"}
WorkerMove(w) ==
  \/ pc'[w] = pc[w] /\ hold'[w] = hold[w] /\ token'[w] = token[w]
  \/ jobFile'[w] = None /\ (w \in Daemons => jobFile'[TimerOf(w)] = None)
     /\ pc'[w] \in {"down", "off"}
  \/ jobFile[w] # None /\ jobFile'[w] = None
  \/ pc[w] \in {"off", "sweep", "drop", "threw", "down"} /\ pc'[w] \in {"claim", "recover", "off"}
  \/ /\ pc[w] \in Before /\ pc'[w] \in {"load", "execute", "complete"}
     /\ hold'[w] = hold[w] /\ token'[w] = token[w] /\ UNCHANGED jobFile
  \/ /\ pc[w] \in {"verify", "complete"} /\ ~HeldUnder(job[hold[w]], token[w])
     /\ pc'[w] \in {"threw", "off"} /\ UNCHANGED jobFile

LEMMA WorkerMoves ==
  ASSUME CallersApart, Alone(jobFile), TypeOK, [JsonNext]_jsonVars, NEW w \in Workers
  PROVE  WorkerMove(w)
  <1> USE DEF TypeOK, WorkerMove
  <1>a. ASSUME UNCHANGED workerVars PROVE WorkerMove(w)
    BY <1>a
  <1>b. w \in Callers /\ DOMAIN jobFile = Callers
    BY DEF Callers, Alone
  <1>1. ASSUME NEW v \in Workers, UNCHANGED jobFile,
               \/ StartLocal(v) \/ Verify(v) \/ LoadPayload(v) \/ Execute(v) \/ Restart(v)
               \/ swept[v] = {} /\ SweepPayloads(v)
        PROVE  WorkerMove(w)
    BY <1>1 DEF StartLocal, Verify, LoadPayload, Execute, Restart, SweepPayloads, Conflict, Abandon,
                Before
  <1>2. CASE InMemory /\ UNCHANGED fileVars
    BY <1>1, <1>2, <1>a
    DEF InMemory, AllocateId, CancelCall, RequestRunning, RecheckQueued, fileVars
  <1>3. ASSUME NEW b \in Callers, ReadJobs(b) \/ ReadPayloads(b) PROVE WorkerMove(w)
    BY <1>3 DEF ReadJobs, ReadPayloads
  <1>4. CASE WriteRecord \/ WritePayload \/ DeleteUnused
    BY <1>4, <1>a DEF WriteRecord, WritePayload, DeleteUnused
  <1>5. ASSUME NEW d \in Daemons, ReadForTimer(d) \/ WriteBeatOfTimer(d) PROVE WorkerMove(w)
    BY <1>5, <1>a DEF ReadForTimer, WriteBeatOfTimer
  <1>6. ASSUME NEW d \in Daemons, JsonCrash(d) PROVE WorkerMove(w)
    <2>1. CASE w # d
      BY <1>6, <2>1 DEF JsonCrash, Crash, Abandon
    <2>2. CASE w = d
      BY <1>6, <2>2, <1>b, Processes DEF JsonCrash, Crash, Abandon, Forget
    <2> QED BY <2>1, <2>2
  <1>7. ASSUME NEW v \in Workers,
               \/ WriteRecovered(v) \/ WriteClaimed(v) \/ FoundNoneQueued(v)
               \/ WriteFirstBeat(v) \/ WriteCompleted(v)
        PROVE  WorkerMove(w)
    <2>1. v = w => jobFile[w] # None /\ jobFile'[w] = None
      BY <1>7, <1>b DEF WriteRecovered, WriteClaimed, FoundNoneQueued, WriteFirstBeat,
                        WriteCompleted, Replace
    <2>2. v # w => pc'[w] = pc[w] /\ hold'[w] = hold[w] /\ token'[w] = token[w]
      BY <1>7 DEF WriteRecovered, WriteClaimed, FoundNoneQueued, WriteFirstBeat,
                  WriteCompleted, Conflict, Abandon
    <2> QED BY <2>1, <2>2
  <1>8. ASSUME NEW v \in Workers, FoundClaimGone(v) PROVE WorkerMove(w)
    BY <1>8 DEF FoundClaimGone, Complete, Conflict, Abandon, fileVars
  <1>9. ASSUME NEW v \in Workers, DeleteSwept(v) \/ DeleteDone(v) PROVE WorkerMove(w)
    BY <1>9 DEF DeleteSwept, DeleteDone, Abandon, Resting
  <1>10. ASSUME NEW v \in Workers, Restart(v) /\ UNCHANGED fileVars PROVE WorkerMove(w)
    BY <1>1, <1>10 DEF fileVars
  <1>11. ASSUME NEW c \in Cancellers, WriteMarked(c) \/ WriteQueuedCancelled(c) \/ DeleteCancelled(c)
         PROVE  WorkerMove(w)
    BY <1>11, <1>a DEF WriteMarked, WriteQueuedCancelled, DeleteCancelled
  <1>12. ASSUME NEW j \in Jobs, JsonPassDeadline(j) PROVE WorkerMove(w)
    BY <1>12, <1>a DEF JsonPassDeadline, PassDeadline
  <1>13. CASE JsonWebRestart
    <2>1. CASE w \in Locals
      BY <1>13, <2>1, <1>b, Processes DEF JsonWebRestart, WebRestart, Forget, Locals
    <2>2. CASE w \notin Locals
      BY <1>13, <2>2 DEF JsonWebRestart, WebRestart
    <2> QED BY <2>1, <2>2
  <1>14. CASE UNCHANGED jsonVars
    BY <1>14, <1>a DEF jsonVars
  <1> HIDE DEF TypeOK, WorkerMove
  <1> QED
    BY <1>2, <1>3, <1>4, <1>5, <1>6, <1>7, <1>8, <1>9, <1>10, <1>11, <1>12, <1>13, <1>14 DEF JsonNext

(* What a step may do to a cancelJob call that has the lock of its job     *)
(* afterwards: it had it before, or it takes it while no local run is      *)
(* about to complete the job.                                              *)
LEMMA CancelMoves ==
  ASSUME TypeOK, [JsonNext]_jsonVars, NEW c \in Cancellers, InLock(c)'
  PROVE  target'[c] = target[c] /\ (InLock(c) \/ NotCompleting(target[c]))
  <1> USE DEF TypeOK, InLock
  <1>a. ASSUME UNCHANGED cancelVars PROVE target'[c] = target[c] /\ InLock(c)
    BY <1>a
  <1>1. ASSUME NEW e \in Cancellers, NEW j \in Jobs, CancelCall(e, j)
        PROVE  target'[c] = target[c] /\ InLock(c)
    BY <1>1 DEF CancelCall
  <1>2. ASSUME NEW e \in Cancellers, NotCompleting(target[e]), RequestRunning(e) \/ RecheckQueued(e)
        PROVE  target'[c] = target[c] /\ (InLock(c) \/ NotCompleting(target[c]))
    BY <1>2 DEF RequestRunning, RecheckQueued, Go, Return
  <1>3. ASSUME NEW w \in Workers,
               \/ StartLocal(w) \/ Verify(w) \/ LoadPayload(w) \/ Execute(w) \/ SweepPayloads(w)
        PROVE  target'[c] = target[c] /\ InLock(c)
    BY <1>3, <1>a DEF StartLocal, Verify, LoadPayload, Execute, SweepPayloads
  <1>4. CASE InMemory
    BY <1>1, <1>2, <1>3, <1>4, <1>a DEF InMemory, AllocateId
  <1>5. ASSUME NEW b \in Callers, ReadJobs(b) \/ ReadPayloads(b)
        PROVE  target'[c] = target[c] /\ InLock(c)
    BY <1>5, <1>a DEF ReadJobs, ReadPayloads
  <1>6. CASE WriteRecord \/ WritePayload \/ DeleteUnused
    BY <1>6, <1>a DEF WriteRecord, WritePayload, DeleteUnused
  <1>7. ASSUME NEW d \in Daemons, ReadForTimer(d) \/ WriteBeatOfTimer(d) \/ JsonCrash(d)
        PROVE  target'[c] = target[c] /\ InLock(c)
    BY <1>7, <1>a DEF ReadForTimer, WriteBeatOfTimer, JsonCrash, Crash
  <1>8. ASSUME NEW w \in Workers,
               \/ WriteRecovered(w) \/ WriteClaimed(w) \/ FoundNoneQueued(w)
               \/ WriteFirstBeat(w) \/ WriteCompleted(w) \/ FoundClaimGone(w)
               \/ DeleteSwept(w) \/ DeleteDone(w) \/ Restart(w)
        PROVE  target'[c] = target[c] /\ InLock(c)
    BY <1>8, <1>a DEF WriteRecovered, WriteClaimed, FoundNoneQueued, WriteFirstBeat, WriteCompleted,
                      FoundClaimGone, Complete, DeleteSwept, DeleteDone, Restart
  <1>9. ASSUME NEW e \in Cancellers, WriteMarked(e) \/ WriteQueuedCancelled(e) \/ DeleteCancelled(e)
        PROVE  target'[c] = target[c] /\ InLock(c)
    BY <1>9 DEF WriteMarked, WriteQueuedCancelled, DeleteCancelled, Go, Return
  <1>10. ASSUME NEW j \in Jobs, JsonPassDeadline(j) PROVE target'[c] = target[c] /\ InLock(c)
    BY <1>10, <1>a DEF JsonPassDeadline, PassDeadline
  <1>11. CASE JsonWebRestart
    BY <1>11 DEF JsonWebRestart, WebRestart
  <1>12. CASE UNCHANGED jsonVars
    BY <1>12, <1>a DEF jsonVars
  <1> HIDE DEF TypeOK, InLock
  <1> QED
    BY <1>4, <1>5, <1>6, <1>7, <1>8, <1>9, <1>10, <1>11, <1>12 DEF JsonNext

(* The call of the Web stays at the saving of a record while it has the    *)
(* copy.                                                                   *)
LEMMA WebStays ==
  ASSUME CallersApart, Alone(jobFile), [JsonNext]_jsonVars, jobFile[Web] # None, web.pc = "record",
         jobFile'[Web] # None
  PROVE  web'.pc = "record"
  <1> USE DEF Alone
  <1>a. ASSUME UNCHANGED web PROVE web'.pc = "record"
    BY <1>a
  <1>1. CASE InMemory
    BY <1>1, <1>a DEF InMemory, AllocateId, SweepPayloads, StartLocal, Verify, LoadPayload, Execute,
                      CancelCall, RequestRunning, RecheckQueued
  <1>2. CASE WriteRecord
    BY <1>2, Processes DEF WriteRecord, Replace
  <1>3. CASE JsonWebRestart
    BY <1>3, Processes DEF JsonWebRestart, Forget
  <1>4. ASSUME NEW b \in Callers, ReadJobs(b) \/ ReadPayloads(b) PROVE web'.pc = "record"
    BY <1>4, <1>a DEF ReadJobs, ReadPayloads
  <1>5. ASSUME NEW d \in Daemons, ReadForTimer(d) \/ WriteBeatOfTimer(d) \/ JsonCrash(d)
        PROVE  web'.pc = "record"
    BY <1>5, <1>a DEF ReadForTimer, WriteBeatOfTimer, JsonCrash, Crash
  <1>6. ASSUME NEW w \in Workers,
               \/ WriteRecovered(w) \/ WriteClaimed(w) \/ FoundNoneQueued(w)
               \/ WriteFirstBeat(w) \/ WriteCompleted(w) \/ FoundClaimGone(w)
               \/ DeleteSwept(w) \/ DeleteDone(w) \/ Restart(w)
        PROVE  web'.pc = "record"
    BY <1>6, <1>a DEF WriteRecovered, WriteClaimed, FoundNoneQueued, WriteFirstBeat, WriteCompleted,
                      FoundClaimGone, Complete, DeleteSwept, DeleteDone, Restart
  <1>7. ASSUME NEW e \in Cancellers, WriteMarked(e) \/ WriteQueuedCancelled(e) \/ DeleteCancelled(e)
        PROVE  web'.pc = "record"
    BY <1>7, <1>a DEF WriteMarked, WriteQueuedCancelled, DeleteCancelled
  <1>8. ASSUME NEW j \in Jobs, JsonPassDeadline(j) PROVE web'.pc = "record"
    BY <1>8, <1>a DEF JsonPassDeadline, PassDeadline
  <1>9. CASE WritePayload \/ DeleteUnused
    BY <1>9 DEF WritePayload, DeleteUnused
  <1>10. CASE UNCHANGED jsonVars
    BY <1>10, <1>a DEF jsonVars
  <1> HIDE DEF Alone
  <1> QED BY <1>1, <1>2, <1>3, <1>4, <1>5, <1>6, <1>7, <1>8, <1>9, <1>10 DEF JsonNext

(* A record under a copy that is not obsolete moves only when its deadline *)
(* passes.                                                                 *)
LEMMA CopyGuards ==
  ASSUME CallersApart, Alone(jobFile), JobFileStep, ~torn', NEW a \in Callers,
         jobFile[a] # None, jobFile'[a] # None
  PROVE  UNCHANGED job \/ \E j \in Jobs : PassDeadline(j)
  <1>1. ASSUME NEW b \in Callers, Replace(b, job') PROVE UNCHANGED job
    <2>1. a # b
      BY <1>1 DEF Replace, Alone
    <2>2. Process(a) # Process(b)
      BY <1>1, <2>1 DEF Replace, Alone
    <2> QED BY <1>1, <2>2 DEF Replace, TornBy
  <1> QED BY <1>1 DEF JobFileStep, JsonPassDeadline

(* While nothing is torn, the invariant of the copies survives every step. *)
LEMMA ReaderStep ==
  CallersApart /\ Alone(jobFile) /\ ~torn' /\ IInv /\ ReaderInv /\ [JsonNext]_jsonVars => ReaderInv'
  <1> SUFFICES ASSUME CallersApart, Alone(jobFile), ~torn', IInv, ReaderInv, [JsonNext]_jsonVars
               PROVE  ReaderInv'
    OBVIOUS
  <1>t. TypeOK /\ ClaimInv /\ DeleteInv
    BY DEF IInv
  <1>f. JobFileStep
    BY FileSteps
  <1>m. \A w \in Workers : WorkerMove(w)
    BY WorkerMoves, <1>t
  <1>n. \A w \in Workers : w \in Callers /\ w \notin Cancellers /\ w \notin Timers /\ w # Web
    BY DEF CallersApart, Callers
  <1>1. jobFile'[Web] # None => web'.pc = "record"
    <2> SUFFICES ASSUME jobFile'[Web] # None PROVE web'.pc = "record"
      OBVIOUS
    <2>1. CASE jobFile[Web] # None
      BY <2>1, WebStays DEF ReaderInv
    <2>2. CASE ReadJobs(Web)
      BY <2>2 DEF ReadJobs, CallsJobs, CallersApart
    <2>3. ASSUME NEW d \in Daemons, Web = TimerOf(d) PROVE FALSE
      BY <2>3 DEF CallersApart, Timers
    <2> QED BY <2>1, <2>2, <2>3, ReaderOrigin, Processes
  (* A worker with a copy had it, or has just read it.                     *)
  <1>2. ASSUME NEW w \in Workers, jobFile'[w] # None
        PROVE  \/ jobFile[w] # None
               \/ /\ UNCHANGED vars /\ pc[w] \in {"recover", "beat", "claim", "complete"}
                  /\ w \in Locals /\ pc[w] = "complete" => LockFree(hold[w])
    <2>1. CASE ReadJobs(w)
      BY <2>1, <1>n DEF ReadJobs, CallsJobs
    <2>2. ASSUME NEW d \in Daemons, w = TimerOf(d) PROVE FALSE
      BY <2>2, <1>n DEF Timers
    <2> QED BY <1>2, <2>1, <2>2, <1>n, ReaderOrigin
  <1>3. ASSUME NEW w \in Workers, jobFile'[w] # None PROVE pc'[w] \notin {"verify", "load", "execute"}
    BY <1>2, <1>3, <1>m DEF WorkerMove, ReaderInv, Before
  <1>4. ASSUME NEW w \in Locals, jobFile'[w] # None, pc'[w] = "complete" PROVE LockFree(hold[w])'
    <2>0. w \in Workers
      BY DEF Locals
    <2>1. CASE UNCHANGED vars
      <3>1. jobFile[w] # None \/ LockFree(hold[w])
        BY <1>2, <1>4, <2>0, <2>1
      <3>2. LockFree(hold[w])
        BY <3>1, <1>4, <2>1 DEF ReaderInv
      <3> QED BY <2>1, <3>2 DEF LockFree, InLock
    <2>2. CASE jobFile[w] # None
      <3>1. pc[w] = "complete" /\ hold'[w] = hold[w]
        BY <1>4, <2>0, <2>2, <1>m DEF WorkerMove, ReaderInv, Before
      <3>2. LockFree(hold[w]) /\ ~NotCompleting(hold[w])
        BY <2>2, <3>1 DEF ReaderInv, NotCompleting
      <3>3. \A c \in Cancellers : ~(InLock(c)' /\ target'[c] = hold[w])
        BY <3>2, <1>t, CancelMoves DEF LockFree
      <3>4. ASSUME NEW v \in Locals, pc'[v] \in {"commit", "drop"}, hold'[v] = hold[w] PROVE FALSE
        <4>1. v \in Workers /\ v # w
          BY <1>4, <3>4 DEF Locals
        <4>2. jobFile[v] = None
          BY <2>2, <4>1, Processes DEF Alone
        <4>3. pc'[v] = pc[v] /\ hold'[v] = hold[v]
          BY <3>4, <4>1, <4>2, <1>m DEF WorkerMove
        <4> QED BY <3>2, <3>4, <4>3 DEF LockFree
      <3> QED BY <3>1, <3>3, <3>4 DEF LockFree
    <2> QED BY <1>2, <1>4, <2>0, <2>1, <2>2
  <1>5. ASSUME NEW d \in Daemons, jobFile'[TimerOf(d)] # None
        PROVE  /\ pc'[d] \in {"verify", "load", "execute", "complete"}
               /\ MayBeat(job'[hold'[d]], d, token'[d])
    <2>0. d \in Workers /\ TimerOf(d) \in Callers /\ TimerOf(d) \in Timers
      BY QueueAssumption, Processes DEF Timers
    <2>1. CASE ReadJobs(TimerOf(d))
      BY <2>0, <2>1 DEF ReadJobs, CallsJobs, CallersApart
    <2>2. ASSUME NEW e \in Daemons, TimerOf(d) = TimerOf(e), ReadForTimer(e)
          PROVE  /\ pc'[d] \in {"verify", "load", "execute", "complete"}
                 /\ MayBeat(job'[hold'[d]], d, token'[d])
      <3>1. d = e /\ UNCHANGED vars
        BY <2>2 DEF TimerOf, ReadForTimer
      <3>2. pc[d] # "drop"
        BY <2>0, <2>2, <3>1, <1>t DEF ReadForTimer, MayBeat, HeldUnder, DeleteInv, Terminal
      <3> QED BY <2>2, <3>1, <3>2 DEF ReadForTimer
    <2>3. CASE jobFile[TimerOf(d)] # None
      <3>1. /\ pc[d] \in {"verify", "load", "execute", "complete"}
            /\ MayBeat(job[hold[d]], d, token[d]) /\ hold[d] \in Jobs
        BY <2>0, <2>3, <1>t DEF ReaderInv, ClaimInv, Working
      <3>2. jobFile[d] = None
        BY <2>3, Processes DEF Alone
      <3>3. /\ pc'[d] \in {"verify", "load", "execute", "complete"}
            /\ hold'[d] = hold[d] /\ token'[d] = token[d]
        BY <1>5, <2>0, <3>1, <3>2, <1>m DEF WorkerMove, MayBeat
      <3>4. MayBeat(job'[hold[d]], d, token[d])
        <4>1. CASE UNCHANGED job
          BY <3>1, <4>1
        <4>2. ASSUME NEW j \in Jobs, PassDeadline(j) PROVE MayBeat(job'[hold[d]], d, token[d])
          <5>1. \A r \in JobRecord : /\ Expired(r).state = r.state /\ Expired(r).token = r.token
                                      /\ Expired(r).worker = r.worker
            BY DEF JobRecord, Expired
          <5>2. job[j] \in JobRecord /\ job' = [job EXCEPT ![j] = Expired(job[j])]
            BY <4>2, <1>t DEF PassDeadline, TypeOK
          <5> QED BY <3>1, <5>1, <5>2, <1>t DEF MayBeat, HeldUnder, TypeOK
        <4> QED BY <4>1, <4>2, <1>5, <1>f, <2>0, <2>3, CopyGuards
      <3> QED BY <3>3, <3>4
    <2> QED BY <1>5, <2>0, <2>1, <2>2, <2>3, ReaderOrigin
  <1> QED BY <1>1, <1>3, <1>4, <1>5 DEF ReaderInv

(* The invariant holds at first, and every step keeps it.                  *)
LEMMA JsonInitInv == JsonInit => JsonInv
  <1> SUFFICES ASSUME JsonInit PROVE JsonInv
    OBVIOUS
  <1>1. IInv /\ NamedInv
    BY InitInv DEF JsonInit, Init, NamedInv, NoJob
  <1>2. Alone(jobFile) /\ Alone(payloadFile) /\ Copies(jobFile, job) /\ Copies(payloadFile, payload)
    BY DEF JsonInit, Alone, Copies
  <1>3. ReaderInv
    BY QueueAssumption DEF JsonInit, ReaderInv, Callers, Timers, Locals
  <1> QED BY <1>1, <1>2, <1>3 DEF JsonInv, Untorn

LEMMA JsonStepInv == CallersApart /\ JsonInv /\ [JsonNext]_jsonVars => JsonInv'
  <1> SUFFICES ASSUME CallersApart, JsonInv, [JsonNext]_jsonVars PROVE JsonInv'
    OBVIOUS
  <1>1. JobFileStep /\ PayloadFileStep /\ (torn => torn')
    BY FileSteps
  <1>2. Alone(jobFile)' /\ Alone(payloadFile)'
    BY <1>1, AloneStep DEF JsonInv, Alone
  <1>3. ASSUME ~torn' PROVE Untorn'
    <2>1. ~torn /\ Untorn
      BY <1>1, <1>3 DEF JsonInv
    <2>2. [Next]_vars
      BY <2>1, AtomicStep
    <2>3. IInv' /\ NamedInv'
      BY <2>1, <2>2, StepInv, NamedStep DEF Untorn, IInv
    <2>4. Copies(jobFile', job') /\ Copies(payloadFile', payload')
      BY <1>1, <1>3, <2>1, CopiesStep DEF JsonInv, Untorn
    <2>5. ReaderInv'
      BY <1>3, <2>1, ReaderStep DEF JsonInv, Untorn
    <2> QED BY <2>3, <2>4, <2>5 DEF Untorn, Copies
  <1> QED BY <1>2, <1>3 DEF JsonInv

(* As long as no process has written over what another one was about to    *)
(* change, everything that is proved of the queue with atomic calls holds  *)
(* over the JSON files: payloads, budget, tokens and identifiers.          *)
THEOREM JsonInvariance == CallersApart => (JsonSpec => [](~torn => IInv))
  <1> SUFFICES ASSUME CallersApart PROVE JsonSpec => [](~torn => IInv)
    OBVIOUS
  <1>1. JsonInv => (~torn => IInv)
    BY DEF JsonInv, Untorn
  <1> QED BY <1>1, JsonInitInv, JsonStepInv, PTL DEF JsonSpec

(* As long as no process has written over what another one was about to    *)
(* change, the queue over the JSON files takes the steps of the queue with *)
(* atomic calls: withMutationLock is lock enough for one process, or for   *)
(* processes that take turns.                                              *)
THEOREM JsonCallsAreAtomic == CallersApart => (JsonSpec => CallsAtomic)
  <1> SUFFICES ASSUME CallersApart PROVE JsonSpec => CallsAtomic
    OBVIOUS
  <1>1. JsonInv /\ [JsonNext]_jsonVars => JsonInv'
    BY JsonStepInv
  <1>2. JsonInv /\ [JsonNext]_jsonVars => [~torn => [Next]_vars]_jsonVars
    BY AtomicStep
  <1> QED BY <1>1, <1>2, JsonInitInv, PTL DEF JsonSpec, CallsAtomic

(* The tokens of the claims on one job differ even if copies are torn.     *)
TokensApart ==
  /\ claims \in [Jobs -> Nat] /\ token \in [Workers -> Nat] /\ hold \in [Workers -> Jobs \cup {0}]
  /\ \A w \in Workers : hold[w] \in Jobs => token[w] <= claims[hold[w]]
  /\ \A v, w \in Workers : hold[v] \in Jobs /\ hold[v] = hold[w] /\ token[v] = token[w] => v = w

LEMMA TokenStep == TokensApart /\ [JsonNext]_jsonVars => TokensApart'
  <1> SUFFICES ASSUME TokensApart, [JsonNext]_jsonVars PROVE TokensApart'
    OBVIOUS
  <1> USE JobsAssumption DEF TokensApart
  <1>a. ASSUME UNCHANGED <<hold, token, claims>> PROVE TokensApart'
    BY <1>a
  (* A worker that leaves its claim, or keeps it.                          *)
  <1>b. ASSUME NEW w \in Workers, NEW where, Abandon(w, where), UNCHANGED claims PROVE TokensApart'
    BY <1>b DEF Abandon
  <1>c. ASSUME NEW w \in Workers, Conflict(w), UNCHANGED claims PROVE TokensApart'
    BY <1>b, <1>c DEF Conflict
  <1>1. ASSUME NEW w \in Workers, WriteClaimed(w) PROVE TokensApart'
    <2>1. PICK j \in Jobs : /\ hold' = [hold EXCEPT ![w] = j]
                            /\ token' = [token EXCEPT ![w] = claims[j] + 1]
                            /\ claims' = [claims EXCEPT ![j] = @ + 1]
      BY <1>1 DEF WriteClaimed
    <2>2. /\ claims' \in [Jobs -> Nat] /\ token' \in [Workers -> Nat]
          /\ hold' \in [Workers -> Jobs \cup {0}]
      BY <2>1
    <2>3. /\ claims'[j] = claims[j] + 1 /\ hold'[w] = j /\ token'[w] = claims[j] + 1
          /\ \A k \in Jobs \ {j} : claims'[k] = claims[k]
          /\ \A v \in Workers \ {w} : hold'[v] = hold[v] /\ token'[v] = token[v]
      BY <2>1
    <2>4. ASSUME NEW v \in Workers, hold'[v] \in Jobs PROVE token'[v] <= claims'[hold'[v]]
      <3>1. CASE v = w
        BY <2>2, <2>3, <3>1
      <3>2. CASE v # w
        <4>1. hold'[v] = hold[v] /\ token'[v] = token[v] /\ token[v] <= claims[hold[v]]
          BY <2>3, <2>4, <3>2
        <4>2. claims[hold[v]] \in Nat /\ token[v] \in Nat
          BY <2>4, <4>1
        <4>3. claims[hold[v]] <= claims'[hold[v]]
          <5>1. CASE hold[v] = j
            BY <2>3, <4>2, <5>1
          <5>2. CASE hold[v] # j
            <6>1. hold[v] \in Jobs
              BY <2>4, <4>1
            <6>2. claims'[hold[v]] = claims[hold[v]]
              BY <2>1, <5>2, <6>1
            <6> QED BY <4>2, <6>2
          <5> QED BY <5>1, <5>2
        <4>4. claims'[hold[v]] \in Nat
          BY <2>2, <2>4, <4>1
        <4> QED BY <4>1, <4>2, <4>3, <4>4
      <3> QED BY <3>1, <3>2
    <2>5. ASSUME NEW v \in Workers \ {w}, hold'[v] = j PROVE token'[v] # token'[w]
      BY <2>2, <2>3, <2>5
    <2>6. ASSUME NEW u \in Workers, NEW v \in Workers,
                 hold'[u] \in Jobs, hold'[u] = hold'[v], token'[u] = token'[v]
          PROVE  u = v
      <3>1. CASE u # w /\ v # w
        BY <2>3, <2>6, <3>1
      <3> QED BY <2>3, <2>5, <2>6, <3>1
    <2> QED BY <2>2, <2>4, <2>6
  <1>2. CASE InMemory
    BY <1>2, <1>a, <1>c
    DEF InMemory, AllocateId, SweepPayloads, StartLocal, Verify, LoadPayload, Execute,
        CancelCall, RequestRunning, RecheckQueued
  <1>3. ASSUME NEW b \in Callers, ReadJobs(b) \/ ReadPayloads(b) PROVE TokensApart'
    BY <1>3, <1>a DEF ReadJobs, ReadPayloads
  <1>4. CASE WriteRecord \/ WritePayload \/ DeleteUnused
    BY <1>4, <1>a DEF WriteRecord, WritePayload, DeleteUnused, Delete, ReplacePayloads
  <1>5. ASSUME NEW d \in Daemons, ReadForTimer(d) \/ WriteBeatOfTimer(d) PROVE TokensApart'
    BY <1>5, <1>a DEF ReadForTimer, WriteBeatOfTimer
  <1>6. ASSUME NEW d \in Daemons, JsonCrash(d) PROVE TokensApart'
    BY <1>6, <1>b, QueueAssumption DEF JsonCrash, Crash
  <1>7. ASSUME NEW w \in Workers, WriteRecovered(w) \/ FoundNoneQueued(w) \/ WriteFirstBeat(w)
        PROVE  TokensApart'
    BY <1>7, <1>a DEF WriteRecovered, FoundNoneQueued, WriteFirstBeat
  <1>8. ASSUME NEW w \in Workers, WriteCompleted(w) \/ FoundClaimGone(w) PROVE TokensApart'
    BY <1>8, <1>a, <1>c DEF WriteCompleted, FoundClaimGone, Complete
  <1>9. ASSUME NEW w \in Workers, DeleteSwept(w) \/ DeleteDone(w) \/ Restart(w) PROVE TokensApart'
    BY <1>9, <1>a, <1>b DEF DeleteSwept, DeleteDone, Delete, ReplacePayloads, Restart
  <1>10. ASSUME NEW c \in Cancellers, WriteMarked(c) \/ WriteQueuedCancelled(c) \/ DeleteCancelled(c)
         PROVE  TokensApart'
    BY <1>10, <1>a DEF WriteMarked, WriteQueuedCancelled, DeleteCancelled, Delete, ReplacePayloads
  <1>11. ASSUME NEW j \in Jobs, JsonPassDeadline(j) PROVE TokensApart'
    BY <1>11, <1>a DEF JsonPassDeadline, PassDeadline
  <1>12. CASE JsonWebRestart
    BY <1>12 DEF JsonWebRestart, WebRestart
  <1>13. CASE UNCHANGED jsonVars
    BY <1>13, <1>a DEF jsonVars
  <1> HIDE DEF TokensApart
  <1> QED
    BY <1>1, <1>2, <1>3, <1>4, <1>5, <1>6, <1>7, <1>8, <1>9, <1>10, <1>11, <1>12, <1>13 DEF JsonNext

(* Whatever copies are torn, only one worker can still record a heartbeat  *)
(* or a result under the claim of a record.                                *)
THEOREM JsonHolderUnique == JsonSpec => []OneHolder
  <1>1. JsonInit => TokensApart
    BY JobsAssumption DEF JsonInit, Init, TokensApart
  <1>2. TokensApart => OneHolder
    BY DEF TokensApart, OneHolder, HeldUnder
  <1> QED BY <1>1, <1>2, TokenStep, PTL DEF JsonSpec
=============================================================================
