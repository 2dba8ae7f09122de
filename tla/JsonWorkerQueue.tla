--------------------------- MODULE JsonWorkerQueue ---------------------------
(***************************************************************************)
(* The worker queue over the JSON files worker-jobs.json and               *)
(* worker-payloads.json (worker-job-repositories.ts and                    *)
(* worker-job-payload-repositories.ts).  The processes are those of        *)
(* WorkerQueue.  A mutating call reads the whole file, changes it in       *)
(* memory and replaces the file (temporary file and rename); withMutation- *)
(* Lock queues these calls per file, but the queue is a module variable:   *)
(* it orders the calls of one process only.  The Web is one process and    *)
(* every daemon is another one.                                            *)
(*                                                                         *)
(* Reading the file and replacing it are an action each; what happens in   *)
(* memory is taken with the second one.  The reads of getById take no lock *)
(* and see a whole file.                                                   *)
(***************************************************************************)
EXTENDS WorkerQueue

CONSTANT MaxClaims   \* bound: claims of one job (lost updates reset its count)
ASSUME MaxClaimsAssumption == MaxClaims \in Nat

VARIABLES
  jobFile,      \* jobFile[a]: the job file as a's call has read it, or None
  payloadFile,  \* payloadFile[a]: the same for the payload file
  torn          \* history: a process replaced a file another one had read

fileVars == <<jobFile, payloadFile, torn>>
jsonVars == <<vars, fileVars>>

Web == <<"web">>                     \* enqueueSafe
TimerOf(d) == <<"timer", d>>         \* the heartbeat timer of a daemon
Timers == {TimerOf(d) : d \in Daemons}
Callers == Workers \cup Cancellers \cup Timers \cup {Web}
Process(a) ==
  IF a \in Timers THEN a[2] ELSE IF a \in Daemons THEN a ELSE Web

JsonInit ==
  /\ Init
  /\ jobFile = [a \in Callers |-> None]
  /\ payloadFile = [a \in Callers |-> None]
  /\ torn = FALSE

-----------------------------------------------------------------------------
(* Mutant: there is no lock.                                               *)
MutUnlocked(file, a) == file[a] = None

(* withMutationLock: the calls of one process on one file take turns.      *)
Turn(file, a) == \A b \in Callers : Process(b) = Process(a) => file[b] = None

(* A local run completes its job in the job mutation lock of the Web.      *)
NotCompleting(j) ==
  \A w \in Locals : ~(pc[w] = "complete" /\ jobFile[w] # None /\ hold[w] = j)

CallsJobs(a) ==
  \/ a = Web /\ web.pc = "record"
  \/ a \in Workers /\ pc[a] \in {"recover", "beat"}
  \/ a \in Workers /\ pc[a] = "claim" /\ \A j \in Jobs : claims[j] < MaxClaims
  \/ /\ a \in Workers /\ pc[a] = "complete" /\ HeldUnder(job[hold[a]], token[a])
     /\ a \in Locals => LockFree(hold[a])
  \/ a \in Cancellers /\ cpc[a] \in {"mark", "cancel"}

ReadJobs(a) ==
  /\ CallsJobs(a) /\ Turn(jobFile, a)
  /\ jobFile' = [jobFile EXCEPT ![a] = job]
  /\ UNCHANGED <<vars, payloadFile, torn>>

ReadForTimer(d) ==
  /\ pc[d] \in {"verify", "load", "execute", "complete", "drop"}
  /\ Turn(jobFile, TimerOf(d)) /\ MayBeat(job[hold[d]], d, token[d])
  /\ jobFile' = [jobFile EXCEPT ![TimerOf(d)] = job]
  /\ UNCHANGED <<vars, payloadFile, torn>>

(* The copy of another process is obsolete once a has changed the file.    *)
TornBy(a, file, changed) ==
  torn \/ (changed /\ \E b \in Callers : file[b] # None /\ Process(b) # Process(a))

(* The call of a ends: the file is replaced, or left when f is the file.   *)
Replace(a, f) ==
  /\ jobFile[a] # None /\ job' = f
  /\ jobFile' = [jobFile EXCEPT ![a] = None]
  /\ torn' = TornBy(a, jobFile, f # job)
  /\ UNCHANGED <<payload, payloadFile>>

(* The timer's call, whose claim the worker may have given up meanwhile.   *)
WriteBeatOfTimer(d) ==
  LET file == jobFile[TimerOf(d)]
      mine == {j \in Jobs : file[j].state = "running" /\ file[j].worker = d
                             /\ hold[d] \in {0, j}}
  IN
  /\ file # None
  /\ Replace(TimerOf(d), [j \in Jobs |-> IF j \in mine THEN Beaten(file[j]) ELSE file[j]])
  /\ UNCHANGED <<webVars, workerVars, cancelVars, claims, counters>>

WriteRecord ==
  /\ \/ /\ Replace(Web, [jobFile[Web] EXCEPT ![web.job] = NewJob(web.input)])
        /\ web' = Idle
     \/ /\ Replace(Web, job)          \* the save failed
        /\ web' = [web EXCEPT !.pc = "cleanup"]
  /\ UNCHANGED <<nextId, workerVars, cancelVars, claims, counters>>

WriteRecovered(w) ==
  LET file == jobFile[w]
      stale == {j \in Jobs : IsStale(file[j])}
  IN  /\ pc[w] = "recover" /\ jobFile[w] # None
      /\ Replace(w, IF stale = {} THEN job
                    ELSE [j \in Jobs |-> IF j \in stale THEN Recovered(file[j]) ELSE file[j]])
      /\ swept' = [swept EXCEPT ![w] = {j \in stale : Recovered(file[j]).state \in Terminal}]
      /\ pc' = [pc EXCEPT ![w] = "sweep"]
      /\ UNCHANGED <<webVars, hold, token, outcome, cancelVars, claims, counters>>

(* Mutant: every claim of a job has the same token.                        *)
MutSameTokenInFile(w) ==
  LET file == jobFile[w]
      queued == {j \in Jobs : file[j].state = "queued" /\ file[j].input \in Scope[w]}
  IN  /\ pc[w] = "claim" /\ jobFile[w] # None
      /\ \E j \in queued :
           /\ \A k \in queued : j <= k
           /\ Replace(w, [file EXCEPT ![j] = Claimed(@, w, 1)])
           /\ hold' = [hold EXCEPT ![w] = j]
           /\ token' = [token EXCEPT ![w] = 1]
           /\ claims' = [claims EXCEPT ![j] = @ + 1]
           /\ pc' = [pc EXCEPT ![w] = "beat"]
      /\ UNCHANGED <<webVars, outcome, swept, cancelVars, counters>>

WriteClaimed(w) ==
  LET file == jobFile[w]
      queued == {j \in Jobs : file[j].state = "queued" /\ file[j].input \in Scope[w]}
  IN  /\ pc[w] = "claim" /\ jobFile[w] # None
      /\ \E j \in queued :
           /\ \A k \in queued : j <= k
           /\ Replace(w, [file EXCEPT ![j] = Claimed(@, w, claims[j] + 1)])
           /\ hold' = [hold EXCEPT ![w] = j]
           /\ token' = [token EXCEPT ![w] = claims[j] + 1]
           /\ claims' = [claims EXCEPT ![j] = @ + 1]
           /\ pc' = [pc EXCEPT ![w] = "beat"]
      /\ UNCHANGED <<webVars, outcome, swept, cancelVars, counters>>

FoundNoneQueued(w) ==
  /\ pc[w] = "claim"
  /\ Replace(w, job)
  /\ \A j \in Jobs : jobFile[w][j].state = "queued" => jobFile[w][j].input \notin Scope[w]
  /\ pc' = [pc EXCEPT ![w] = Resting(w)]
  /\ UNCHANGED <<webVars, hold, token, outcome, swept, cancelVars, claims, counters>>

WriteFirstBeat(w) ==
  LET file == jobFile[w]
  IN  /\ pc[w] = "beat" /\ jobFile[w] # None
      /\ Replace(w, IF MayBeat(file[hold[w]], w, token[w])
                    THEN [file EXCEPT ![hold[w]] = Beaten(@)] ELSE job)
      /\ pc' = [pc EXCEPT ![w] = "verify"]
      /\ UNCHANGED <<webVars, hold, token, outcome, swept, cancelVars, claims, counters>>

(* completeClaimed; the getById before it may find the claim gone already. *)
WriteCompleted(w) ==
  LET file == jobFile[w]
  IN  /\ pc[w] = "complete" /\ jobFile[w] # None
      /\ IF HeldUnder(file[hold[w]], token[w])
         THEN /\ Replace(w, [file EXCEPT ![hold[w]] = Completed(@, outcome[w])])
              /\ pc' = [pc EXCEPT ![w] = "drop"]
              /\ UNCHANGED <<hold, token, outcome, swept>>
         ELSE Replace(w, job) /\ Conflict(w)
      /\ UNCHANGED <<webVars, cancelVars, claims, counters>>

FoundClaimGone(w) ==
  /\ pc[w] = "complete" /\ jobFile[w] = None
  /\ ~HeldUnder(job[hold[w]], token[w])
  /\ Complete(w) /\ UNCHANGED fileVars

WriteMarked(c) ==
  LET file == jobFile[c]
      r == file[target[c]]
  IN  /\ cpc[c] = "mark" /\ jobFile[c] # None
      /\ Replace(c, IF r.state = "running"
                    THEN [file EXCEPT ![target[c]] = CancelRequested(@)] ELSE job)
      /\ Return(c, IF r.state = "running" THEN CancelRequested(r) ELSE r)
      /\ UNCHANGED <<webVars, workerVars, claims, counters>>

WriteQueuedCancelled(c) ==
  LET file == jobFile[c]
      r == file[target[c]]
  IN  /\ cpc[c] = "cancel" /\ jobFile[c] # None
      /\ IF r.state = "queued"
         THEN /\ Replace(c, [file EXCEPT ![target[c]] = QueuedCancelled(@)])
              /\ Go(c, "purge")
         ELSE /\ Replace(c, job)
              /\ IF r.state = "running" THEN Go(c, "mark")
                 ELSE IF r.state = "cancelled" THEN Go(c, "purge") ELSE Return(c, r)
      /\ UNCHANGED <<webVars, workerVars, claims, counters>>

-----------------------------------------------------------------------------
(* The payload file: save, and deleteByJobId, which always replaces it.    *)
CallsPayloads(a) ==
  \/ a = Web /\ web.pc \in {"payload", "cleanup"}
  \/ a \in Workers /\ (pc[a] = "drop" \/ (pc[a] = "sweep" /\ swept[a] # {}))
  \/ a \in Cancellers /\ cpc[a] = "purge"

ReadPayloads(a) ==
  /\ CallsPayloads(a) /\ Turn(payloadFile, a)
  /\ payloadFile' = [payloadFile EXCEPT ![a] = payload]
  /\ UNCHANGED <<vars, jobFile, torn>>

ReplacePayloads(a, f) ==
  /\ payloadFile[a] # None
  /\ payload' = f
  /\ payloadFile' = [payloadFile EXCEPT ![a] = None]
  /\ torn' = TornBy(a, payloadFile, f # payload)
  /\ UNCHANGED <<job, jobFile, claims, counters>>

(* A deletion is best effort: it succeeds, or fails and leaves the file.   *)
Delete(a, j) ==
  ReplacePayloads(a, [payloadFile[a] EXCEPT ![j] = None]) \/ ReplacePayloads(a, payload)

WritePayload ==
  /\ web.pc = "payload"
  /\ \/ /\ ReplacePayloads(Web, [payloadFile[Web] EXCEPT ![web.job] = web.input])
        /\ web' = [web EXCEPT !.pc = "record"]
     \/ /\ ReplacePayloads(Web, payload)
        /\ web' = Idle
  /\ UNCHANGED <<nextId, workerVars, cancelVars>>

DeleteUnused ==
  /\ web.pc = "cleanup" /\ Delete(Web, web.job)
  /\ web' = Idle
  /\ UNCHANGED <<nextId, workerVars, cancelVars>>

DeleteSwept(w) ==
  /\ pc[w] = "sweep"
  /\ \E j \in swept[w] :
       /\ \A k \in swept[w] : j <= k
       /\ Delete(w, j)
       /\ swept' = [swept EXCEPT ![w] = @ \ {j}]
  /\ UNCHANGED <<webVars, pc, hold, token, outcome, cancelVars>>

DeleteDone(w) ==
  /\ pc[w] = "drop" /\ Delete(w, hold[w])
  /\ Abandon(w, Resting(w))
  /\ UNCHANGED <<webVars, cancelVars>>

DeleteCancelled(c) ==
  /\ cpc[c] = "purge" /\ Delete(c, target[c])
  /\ Return(c, job[target[c]])
  /\ UNCHANGED <<webVars, workerVars>>

-----------------------------------------------------------------------------
(* What needs no file, or only reads one.                                  *)
InMemory ==
  \/ \E i \in Inputs : AllocateId(i)
  \/ \E w \in Workers :
       \/ /\ swept[w] = {}
          /\ SweepPayloads(w)
       \/ StartLocal(w) \/ Verify(w) \/ LoadPayload(w) \/ Execute(w)
  \/ \E c \in Cancellers :
       \/ \E j \in Jobs : CancelCall(c, j)
       \/ /\ NotCompleting(target[c])
          /\ RequestRunning(c) \/ RecheckQueued(c)

(* Time passes a deadline in the file and in every copy of it.             *)
JsonPassDeadline(j) ==
  /\ PassDeadline(j)
  /\ jobFile' = [a \in Callers |->
       IF jobFile[a] = None THEN None ELSE [jobFile[a] EXCEPT ![j] = Expired(@)]]
  /\ UNCHANGED <<payloadFile, torn>>

(* A process that ends forgets what it has read.                           *)
Forget(p) ==
  LET gone == {a \in Callers : Process(a) = p} IN
  /\ jobFile' = [a \in Callers |-> IF a \in gone THEN None ELSE jobFile[a]]
  /\ payloadFile' = [a \in Callers |-> IF a \in gone THEN None ELSE payloadFile[a]]
  /\ UNCHANGED torn

JsonCrash(d) == Crash(d) /\ Forget(d)
JsonWebRestart == WebRestart /\ Forget(Web)

JsonNext ==
  \/ (InMemory /\ UNCHANGED fileVars)
  \/ \E a \in Callers : ReadJobs(a) \/ ReadPayloads(a)
  \/ WriteRecord \/ WritePayload \/ DeleteUnused
  \/ \E d \in Daemons : ReadForTimer(d) \/ WriteBeatOfTimer(d) \/ JsonCrash(d)
  \/ \E w \in Workers :
       \/ WriteRecovered(w) \/ WriteClaimed(w) \/ FoundNoneQueued(w)
       \/ WriteFirstBeat(w) \/ WriteCompleted(w) \/ FoundClaimGone(w)
       \/ DeleteSwept(w) \/ DeleteDone(w) \/ (Restart(w) /\ UNCHANGED fileVars)
  \/ \E c \in Cancellers : WriteMarked(c) \/ WriteQueuedCancelled(c) \/ DeleteCancelled(c)
  \/ \E j \in Jobs : JsonPassDeadline(j)
  \/ JsonWebRestart

JsonSpec == JsonInit /\ [][JsonNext]_jsonVars

-----------------------------------------------------------------------------
(* As long as no process has written over what another one was about to    *)
(* change, every call is atomic, whatever else its own process does        *)
(* meanwhile: withMutationLock makes one process, or processes that take   *)
(* turns, an implementation of the queue.                                  *)
CallsAtomic == [][~torn => [Next]_vars]_jsonVars
=============================================================================
