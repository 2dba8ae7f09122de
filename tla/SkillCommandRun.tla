--------------------------- MODULE SkillCommandRun ---------------------------
(***************************************************************************)
(* One skill command that runs as a worker job: the records of the run in  *)
(* the workbench repositories and everybody who writes them.               *)
(*  - enqueueProjectSkillCommand (packages/api/src/index.ts) saves the     *)
(*    run, its tool observation and its first events, enqueues the job and *)
(*    links it; when one of the last two fails it compensates.             *)
(*  - finalizeWorkerBackedSkillCommand (skill-command-worker-queue.ts)     *)
(*    brings the result of a settled job into these records.  The worker   *)
(*    that settled the job calls it, if it has workbench repositories, and *)
(*    so does the recovery action resume_worker_finalization.              *)
(*  - interruptTask (task-interrupts.ts) cancels the job of the task.      *)
(* Grain: one action per save, and per read whose answer is used after an  *)
(* await.  A failed save ends its caller as a crash does.                  *)
(*                                                                         *)
(* The worker job itself is what JobLifecycle promises of it.  The copies  *)
(* of the run and the observation that the callers hold need no variable:  *)
(* every save overwrites state, result and completion time, and nothing    *)
(* else ever changes.  Payloads of events, time stamps, messages and the   *)
(* checks of skill and permissions before the first save are left out;     *)
(* blocked handoffs to the deployer are left out as well.                  *)
(***************************************************************************)
EXTENDS Naturals, FiniteSetsExt

CONSTANTS
  Finalizers,       \* concurrent calls of the finalizer
  Interrupters      \* calls of interruptTask, one each

ASSUME RunAssumption ==
  "enqueue" \notin Finalizers \cup Interrupters /\ Finalizers \cap Interrupters = {}

VARIABLES
  store,    \* the workbench repositories, chosen once by the environment
  job,      \* the state of the worker job, "none" before it is enqueued
  cancel,   \* the job has a recorded cancellation request
  run,      \* the state of the run record, "none" before it is saved
  obs,      \* the state of the tool observation
  events,   \* the run events that are stored
  epc,      \* what enqueueProjectSkillCommand does next
  fpc,      \* what each finalizer does next
  plan,     \* the terminal events a finalizer is going to save
  ipc,      \* what each interruptTask does next
  heard,    \* heard[i]: the job state that cancelJob returned
  seq       \* the next sequence number as a caller has computed it

jobVars == <<job, cancel>>
finalVars == <<fpc, plan>>
interruptVars == <<ipc, heard>>
vars == <<store, jobVars, run, obs, events, epc, finalVars, interruptVars, seq>>

JobTerminal == {"completed", "failed", "rejected", "cancelled"}
Terminal == {"completed", "failed", "cancelled"}
RecordStates == {"none", "running"} \cup Terminal

(* A terminal event is a kind ("tool" or "run") with the state it reports; *)
(* ours says that it carries the identifiers of this job and observation.  *)
Event ==
  [kind: {"started", "linked", "tool", "run", "request", "cancelled"},
   state: Terminal \cup {"none"}, seq: Nat, ours: BOOLEAN,
   by: Finalizers \cup Interrupters \cup {"enqueue"}]

(* Types; in particular the records only ever take the states that         *)
(* toRecordTerminalState produces, never the "rejected" of a worker job.   *)
TypeOK ==
  /\ store \in {"file", "postgres"}
  /\ job \in {"none", "queued", "running"} \cup JobTerminal /\ cancel \in BOOLEAN
  /\ run \in RecordStates /\ obs \in RecordStates
  /\ events \subseteq Event
  /\ epc \in {"run", "observation", "started", "toolStarted", "job", "link",
              "withdraw", "failObs", "failTool", "failEvent", "failRun", "done"}
  /\ fpc \in [Finalizers -> {"idle", "link", "read", "tool", "event", "obs", "run"}]
  /\ plan \in [Finalizers -> SUBSET {"tool", "run"}]
  /\ ipc \in [Interrupters -> {"idle", "cancel", "readSeq", "request", "mark", "readSeq2",
                               "cancelled", "markOnly", "done"}]
  /\ heard \in [Interrupters -> {"none", "queued", "running"} \cup JobTerminal]
  /\ seq \in [Finalizers \cup Interrupters -> Nat]

Init ==
  /\ store \in {"file", "postgres"}
  /\ job = "none" /\ cancel = FALSE /\ run = "none" /\ obs = "none" /\ events = {}
  /\ epc = "run"
  /\ fpc = [f \in Finalizers |-> "idle"] /\ plan = [f \in Finalizers |-> {}]
  /\ ipc = [i \in Interrupters |-> "idle"] /\ heard = [i \in Interrupters |-> "none"]
  /\ seq = [a \in Finalizers \cup Interrupters |-> 0]

Linked == \E e \in events : e.kind = "linked"
TerminalEvents == {e \in events : e.kind \in {"tool", "run"}}
Recorded(kind) == \E e \in events : e.kind = kind
NextSequence == Max({e.seq : e \in events} \cup {0}) + 1

(* toRecordTerminalState.                                                  *)
RecordState(s) == IF s = "rejected" THEN "failed" ELSE s

(* runEvents.save; PostgreSQL has @@unique([runId, sequence]).             *)
Save(kind, state, n, ours, by) ==
  /\ store = "postgres" => \A e \in events : e.seq # n
  /\ events' = events \cup {[kind |-> kind, state |-> state, seq |-> n, ours |-> ours, by |-> by]}

-----------------------------------------------------------------------------
(* enqueueProjectSkillCommand.                                             *)
EnqueueDoes(where) == epc' = where /\ UNCHANGED <<finalVars, interruptVars, seq>>

SaveRun ==
  /\ epc = "run" /\ run' = "running" /\ EnqueueDoes("observation")
  /\ UNCHANGED <<jobVars, obs, events>>

SaveObservation ==
  /\ epc = "observation" /\ obs' = "running" /\ EnqueueDoes("started")
  /\ UNCHANGED <<jobVars, run, events>>

(* run.started and tool.started: events of the enqueue are numbered by a   *)
(* counter of its own.                                                     *)
SaveStarted ==
  /\ \/ epc = "started" /\ Save("started", "none", 1, FALSE, "enqueue") /\ EnqueueDoes("toolStarted")
     \/ epc = "toolStarted" /\ Save("started", "none", 2, FALSE, "enqueue") /\ EnqueueDoes("job")
  /\ UNCHANGED <<jobVars, run, obs>>

EnqueueJob ==
  /\ epc = "job"
  /\ \/ job' = "queued" /\ EnqueueDoes("link")
     \/ job' = job /\ EnqueueDoes("failObs")
  /\ UNCHANGED <<cancel, run, obs, events>>

SaveLink ==
  /\ epc = "link"
  /\ \/ Save("linked", "none", 3, TRUE, "enqueue") /\ EnqueueDoes("done")
     \/ events' = events /\ EnqueueDoes("withdraw")
  /\ UNCHANGED <<jobVars, run, obs>>

(* cancelJob.  A job that goes from running to queued between its two      *)
(* looks at it is returned as it is (WorkerQueue, RequestRunning).         *)
Cancel ==
  \/ job = "queued" /\ job' = "cancelled" /\ cancel' = TRUE
  \/ job = "running" /\ job' = job /\ cancel' = TRUE
  \/ ~(job = "running") /\ UNCHANGED jobVars

(* cancelQueuedWorkerJobBestEffort.                                        *)
Withdraw ==
  /\ epc = "withdraw"
  /\ Cancel \/ UNCHANGED jobVars
  /\ EnqueueDoes("failObs")
  /\ UNCHANGED <<run, obs, events>>

(* markQueuedSkillCommandRunFailedBestEffort.                              *)
FailObservation ==
  /\ epc = "failObs" /\ obs' = "failed" /\ EnqueueDoes("failTool")
  /\ UNCHANGED <<jobVars, run, events>>

FailEvents ==
  /\ \/ epc = "failTool" /\ Save("tool", "failed", 3, job # "none", "enqueue") /\ EnqueueDoes("failEvent")
     \/ epc = "failEvent" /\ Save("run", "failed", 4, job # "none", "enqueue") /\ EnqueueDoes("failRun")
  /\ UNCHANGED <<jobVars, run, obs>>

FailRun ==
  /\ epc = "failRun" /\ run' = "failed" /\ EnqueueDoes("done")
  /\ UNCHANGED <<jobVars, obs, events>>

(* The Web stops, or a save fails that nobody compensates.                 *)
EnqueueStops ==
  /\ epc # "done" /\ EnqueueDoes("done")
  /\ UNCHANGED <<jobVars, run, obs, events>>

-----------------------------------------------------------------------------
(* The job.                                                                *)
JobStarts ==
  /\ job = "queued" /\ job' = "running"
  /\ UNCHANGED <<cancel, run, obs, events, epc, finalVars, interruptVars, seq>>

JobRequeued ==
  /\ job = "running" /\ ~cancel /\ job' = "queued"
  /\ UNCHANGED <<cancel, run, obs, events, epc, finalVars, interruptVars, seq>>

(* The worker completes the job, and may have a finalizer to call; or the  *)
(* job is settled as stale, which nobody finalizes.                        *)
JobSettles ==
  /\ job = "running"
  /\ \E s \in JobTerminal :
       /\ s = "cancelled" => cancel
       /\ job' = s
  /\ \/ UNCHANGED fpc
     \/ \E f \in Finalizers : fpc[f] = "idle" /\ fpc' = [fpc EXCEPT ![f] = "link"]
  /\ UNCHANGED <<cancel, run, obs, events, epc, plan, interruptVars, seq>>

-----------------------------------------------------------------------------
(* deriveRunLifecycleView, as far as resume_worker_finalization goes: a    *)
(* terminal run event decides, then the linked job.                        *)

OffersResume == ~Recorded("run") /\ Linked /\ job \in JobTerminal

FinalizerDoes(f, where) == fpc' = [fpc EXCEPT ![f] = where]

(* executeRunRecoveryAction derives the view again before it acts.         *)
Resume(f) ==
  /\ fpc[f] = "idle" /\ OffersResume
  /\ FinalizerDoes(f, "link")
  /\ UNCHANGED <<jobVars, run, obs, events, epc, plan, interruptVars, seq>>

FindLink(f) ==
  /\ fpc[f] = "link"
  /\ FinalizerDoes(f, IF Linked THEN "read" ELSE "idle")
  /\ UNCHANGED <<jobVars, run, obs, events, epc, plan, interruptVars, seq>>

(* Mutant: an event that a stopped finalizer left is taken for a conflict.  *)
MutAccepts == TerminalEvents = {}

(* The terminal events that are there belong to this job and agree with it.*)
Accepts ==
  \A e \in TerminalEvents : e.ours /\ e.state = RecordState(job)

ReadEvents(f) ==
  /\ fpc[f] = "read"
  /\ IF Accepts
     THEN /\ plan' = [plan EXCEPT ![f] = {k \in {"tool", "run"} : ~Recorded(k)}]
          /\ seq' = [seq EXCEPT ![f] = NextSequence]
          /\ FinalizerDoes(f, "tool")
     ELSE FinalizerDoes(f, "idle") /\ UNCHANGED <<plan, seq>>
  /\ UNCHANGED <<jobVars, run, obs, events, epc, interruptVars>>

SaveToolEvent(f) ==
  /\ fpc[f] = "tool"
  /\ IF "tool" \in plan[f]
     THEN /\ Save("tool", RecordState(job), seq[f], TRUE, f)
          /\ seq' = [seq EXCEPT ![f] = @ + 1]
     ELSE UNCHANGED <<events, seq>>
  /\ FinalizerDoes(f, "event")
  /\ UNCHANGED <<jobVars, run, obs, epc, plan, interruptVars>>

(* Mutant: the sequence number is computed anew.                           *)
MutSaveRunEvent(f) ==
  /\ fpc[f] = "event"
  /\ IF "run" \in plan[f] THEN Save("run", RecordState(job), NextSequence, TRUE, f)
                          ELSE UNCHANGED events
  /\ FinalizerDoes(f, "obs")
  /\ UNCHANGED <<jobVars, run, obs, epc, plan, interruptVars, seq>>

SaveRunEvent(f) ==
  /\ fpc[f] = "event"
  /\ IF "run" \in plan[f] THEN Save("run", RecordState(job), seq[f], TRUE, f)
                          ELSE UNCHANGED events
  /\ FinalizerDoes(f, "obs")
  /\ UNCHANGED <<jobVars, run, obs, epc, plan, interruptVars, seq>>

UpdateObservation(f) ==
  /\ fpc[f] = "obs"
  /\ obs' = RecordState(job)
  /\ FinalizerDoes(f, "run")
  /\ UNCHANGED <<jobVars, run, events, epc, plan, interruptVars, seq>>

UpdateRun(f) ==
  /\ fpc[f] = "run"
  /\ run' = RecordState(job)
  /\ FinalizerDoes(f, "idle")
  /\ UNCHANGED <<jobVars, obs, events, epc, plan, interruptVars, seq>>

FinalizerStops(f) ==
  /\ fpc[f] # "idle" /\ FinalizerDoes(f, "idle")
  /\ UNCHANGED <<jobVars, run, obs, events, epc, plan, interruptVars, seq>>

-----------------------------------------------------------------------------
(* interruptTask.                                                          *)
InterruptDoes(i, where) == ipc' = [ipc EXCEPT ![i] = where]

(* findLatestInterruptTarget: the linked job as it is now.                 *)
FindTarget(i) ==
  /\ ipc[i] = "idle"
  /\ InterruptDoes(i, IF ~Linked \/ job \in JobTerminal \ {"cancelled"} THEN "done"
                      ELSE IF job = "cancelled" THEN "markOnly" ELSE "cancel")
  /\ UNCHANGED <<jobVars, run, obs, events, epc, finalVars, heard, seq>>

CallCancelJob(i) ==
  /\ ipc[i] = "cancel"
  /\ Cancel
  /\ heard' = [heard EXCEPT ![i] = job']
  /\ InterruptDoes(i, IF job' \in JobTerminal \ {"cancelled"} THEN "done" ELSE "readSeq")
  /\ UNCHANGED <<run, obs, events, epc, finalVars, seq>>

(* saveRunEvent reads the events of the run before it saves.               *)
ReadSequence(i) ==
  /\ \/ ipc[i] = "readSeq" /\ InterruptDoes(i, "request")
     \/ ipc[i] = "readSeq2" /\ InterruptDoes(i, "cancelled")
  /\ seq' = [seq EXCEPT ![i] = NextSequence]
  /\ UNCHANGED <<jobVars, run, obs, events, epc, finalVars, heard>>

(* Mutant: every interrupted run is marked as cancelled.                   *)
MutSaveRequest(i) ==
  /\ ipc[i] = "request" /\ Save("request", "none", seq[i], TRUE, i)
  /\ InterruptDoes(i, "mark")
  /\ UNCHANGED <<jobVars, run, obs, epc, finalVars, heard, seq>>

SaveRequest(i) ==
  /\ ipc[i] = "request" /\ Save("request", "none", seq[i], TRUE, i)
  /\ InterruptDoes(i, IF heard[i] = "cancelled" THEN "mark" ELSE "done")
  /\ UNCHANGED <<jobVars, run, obs, epc, finalVars, heard, seq>>

MarkRunCancelled(i) ==
  /\ ipc[i] \in {"mark", "markOnly"} /\ run' = "cancelled"
  /\ InterruptDoes(i, IF ipc[i] = "mark" THEN "readSeq2" ELSE "done")
  /\ UNCHANGED <<jobVars, obs, events, epc, finalVars, heard, seq>>

SaveCancelled(i) ==
  /\ ipc[i] = "cancelled" /\ Save("cancelled", "none", seq[i], TRUE, i)
  /\ InterruptDoes(i, "done")
  /\ UNCHANGED <<jobVars, run, obs, epc, finalVars, heard, seq>>

InterruptStops(i) ==
  /\ ipc[i] \notin {"idle", "done"} /\ InterruptDoes(i, "done")
  /\ UNCHANGED <<jobVars, run, obs, events, epc, finalVars, heard, seq>>

-----------------------------------------------------------------------------
EnqueueNext ==
  \/ SaveRun \/ SaveObservation \/ SaveStarted \/ EnqueueJob \/ SaveLink \/ Withdraw
  \/ FailObservation \/ FailEvents \/ FailRun \/ EnqueueStops

FinalizerNext(f) ==
  \/ Resume(f) \/ FindLink(f) \/ ReadEvents(f) \/ SaveToolEvent(f) \/ SaveRunEvent(f)
  \/ UpdateObservation(f) \/ UpdateRun(f) \/ FinalizerStops(f)

InterruptNext(i) ==
  \/ FindTarget(i) \/ CallCancelJob(i) \/ ReadSequence(i) \/ SaveRequest(i)
  \/ MarkRunCancelled(i) \/ SaveCancelled(i) \/ InterruptStops(i)

Next ==
  /\ \/ EnqueueNext
     \/ JobStarts \/ JobRequeued \/ JobSettles
     \/ \E f \in Finalizers : FinalizerNext(f)
     \/ \E i \in Interrupters : InterruptNext(i)
  /\ UNCHANGED store

Spec == Init /\ [][Next]_vars

-----------------------------------------------------------------------------
(* The properties.                                                         *)

(* What the records of a linked run report is what became of its job,      *)
(* whoever finalizes, resumes or interrupts at the same time: no record    *)
(* and no event claims an end that the job did not have, so the lifecycle  *)
(* view never finds conflicting terminal events.  A rejected job counts as *)
(* failed.                                                                 *)
Reports(s) ==
  s = job \/ (s = "failed" /\ job = "rejected")
RunFollowsJob ==
  Linked =>
    /\ run \in Terminal => Reports(run)
    /\ obs \in Terminal => Reports(obs)
    /\ \A e \in TerminalEvents : Reports(e.state)

(* Whenever the view offers to finalize a linked run of a settled job, the *)
(* finalizer accepts what finalizers, interrupts and failed saves have left*)
(* of it: the action is never offered in vain, as the events that are      *)
(* stored without the terminal run event agree with the job.               *)
Resumable == OffersResume => Accepts

(* The finalizer duplicates no terminal event, however many calls overlap, *)
(* on PostgreSQL: the unique sequence number makes a second writer fail at *)
(* the number the first one took.                                          *)
NoDuplicates == \A d, e \in TerminalEvents : d.kind = e.kind => d = e
TerminalEventOnce == store = "postgres" => NoDuplicates

=============================================================================
