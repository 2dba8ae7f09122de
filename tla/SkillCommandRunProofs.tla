------------------------ MODULE SkillCommandRunProofs ------------------------
(***************************************************************************)
(* The records of a linked run follow its job, for every number of         *)
(* overlapping finalizers and interrupts.                                  *)
(***************************************************************************)
EXTENDS SkillCommandRun, TLAPS

FinalizerPCs == {"idle", "link", "read", "tool", "event", "obs", "run"}
InterruptPCs == {"idle", "cancel", "readSeq", "request", "mark", "readSeq2", "cancelled",
                 "markOnly", "done"}

(* The control of the callers.                                             *)
CallTypes ==
  /\ fpc \in [Finalizers -> FinalizerPCs]
  /\ ipc \in [Interrupters -> InterruptPCs]
  /\ DOMAIN heard = Interrupters

(* The enqueue writes ends only when it could not link the job, the        *)
(* terminal events only after everything else, and it is done once it has  *)
(* linked it.                                                              *)
NoJobYet == {"run", "observation", "started", "toolStarted", "job"}
Early == NoJobYet \cup {"link"}
Untold == Early \cup {"withdraw", "failObs", "failTool"}
EnqueueInv ==
  /\ Linked => epc = "done"
  /\ epc \in NoJobYet => job = "none"
  /\ epc \in Early => run \notin Terminal /\ obs \notin Terminal
  /\ epc \in Untold => TerminalEvents = {}

(* A finalizer works on a settled job, and writes only when it is linked;  *)
(* an interrupt works on a linked run, and marks it only when it knows     *)
(* that the job is cancelled.                                              *)
CallInv ==
  /\ \A f \in Finalizers :
       /\ fpc[f] # "idle" => job \in JobTerminal
       /\ fpc[f] \notin {"idle", "link"} => Linked
  /\ \A i \in Interrupters :
       /\ ipc[i] \notin {"idle", "done"} => Linked
       /\ heard[i] = "cancelled" => job = "cancelled"
       /\ ipc[i] \in {"mark", "markOnly"} => job = "cancelled"

(* What a linked run shows of an end is the end of its job.                *)
Tells(s) == job \in JobTerminal /\ s = RecordState(job)
RecordInv ==
  Linked =>
    /\ run \in Terminal => Tells(run)
    /\ obs \in Terminal => Tells(obs)
    /\ \A e \in TerminalEvents : Tells(e.state) /\ e.ours = TRUE

IInv == CallTypes /\ EnqueueInv /\ CallInv /\ RecordInv

-----------------------------------------------------------------------------
(* Steps that write no event and no end keep what is said of the records.  *)
LEMMA QuietKeepsRecords ==
  ASSUME RecordInv, UNCHANGED events, run' = run \/ run' \notin Terminal,
         obs' = obs \/ obs' \notin Terminal, job \in JobTerminal => job' = job
  PROVE  RecordInv'
  BY DEF RecordInv, Linked, TerminalEvents, Tells, RecordState

LEMMA CancelKeepsEnds == Cancel => (job \in JobTerminal => job' = job)
  BY DEF Cancel, jobVars, JobTerminal

LEMMA InitIInv == Init => IInv
  BY DEF Init, IInv, CallTypes, EnqueueInv, CallInv, RecordInv, Linked, TerminalEvents,
         FinalizerPCs, InterruptPCs, Terminal

-----------------------------------------------------------------------------
LEMMA EnqueueKeeps == ASSUME IInv, EnqueueNext PROVE IInv'
<1>1. UNCHANGED <<fpc, ipc, heard>> /\ epc # "done"
  BY DEF EnqueueNext, SaveRun, SaveObservation, SaveStarted, EnqueueJob, SaveLink, Withdraw,
         FailObservation, FailEvents, FailRun, EnqueueStops, EnqueueDoes, finalVars, interruptVars
<1>2. ~Linked
  BY <1>1 DEF IInv, EnqueueInv
<1>3. CallTypes'
  BY <1>1 DEF IInv, CallTypes
<1>4. job \in JobTerminal => job' = job
  <2>1. CASE EnqueueJob
    BY <2>1 DEF EnqueueJob, IInv, EnqueueInv, NoJobYet, JobTerminal
  <2>2. CASE ~EnqueueJob
    BY <2>2, CancelKeepsEnds
       DEF EnqueueNext, SaveRun, SaveObservation, SaveStarted, SaveLink, Withdraw,
           FailObservation, FailEvents, FailRun, EnqueueStops, jobVars
  <2> QED
    BY <2>1, <2>2
<1>5. CASE SaveRun \/ SaveObservation \/ EnqueueJob \/ Withdraw \/ FailObservation \/ FailRun \/ EnqueueStops
  <2>1. UNCHANGED events
    BY <1>5 DEF SaveRun, SaveObservation, EnqueueJob, Withdraw, FailObservation, FailRun, EnqueueStops
  <2>2. ~Linked' /\ TerminalEvents' = TerminalEvents
    BY <1>2, <2>1 DEF Linked, TerminalEvents
  <2>3. /\ epc' \in Early =>
             /\ epc \in Early /\ (run' = run \/ run' = "running") /\ (obs' = obs \/ obs' = "running")
        /\ epc' \in Untold => epc \in Untold
        /\ epc' \in NoJobYet => epc \in NoJobYet /\ job' = job
    BY <1>5 DEF SaveRun, SaveObservation, EnqueueJob, Withdraw, FailObservation, FailRun,
                EnqueueStops, EnqueueDoes, Early, Untold, NoJobYet, jobVars
  <2>4. EnqueueInv'
    BY <2>2, <2>3 DEF IInv, EnqueueInv, Terminal
  <2> QED
    BY <1>1, <1>2, <1>3, <1>4, <2>2, <2>4 DEF IInv, CallInv, RecordInv, JobTerminal
<1>6. CASE SaveStarted \/ FailEvents
  <2>1. PICK kind \in {"started", "tool", "run"}, state \in {"none", "failed"}, n \in {1, 2, 3, 4},
             ours \in BOOLEAN :
          /\ events' = events \cup {[kind |-> kind, state |-> state, seq |-> n, ours |-> ours, by |-> "enqueue"]}
          /\ kind # "started" => epc' \notin Untold
    BY <1>6, Zenon DEF SaveStarted, FailEvents, Save, EnqueueDoes, Untold, Early, NoJobYet
  <2> DEFINE e == [kind |-> kind, state |-> state, seq |-> n, ours |-> ours, by |-> "enqueue"]
  <2>2. events' = events \cup {e} /\ e.kind = kind
    BY <2>1, Zenon
  <2> HIDE DEF e
  <2>3. /\ UNCHANGED <<job, run, obs>> /\ (epc' \in Early => epc \in Early)
        /\ epc' \in NoJobYet => epc \in NoJobYet
        /\ epc' \in Untold => epc \in Untold
    BY <1>6, Zenon DEF SaveStarted, FailEvents, EnqueueDoes, Early, Untold, NoJobYet, jobVars
  <2>4. ~Linked'
    BY <1>2, <2>1, <2>2 DEF Linked
  <2>5. EnqueueInv'
    BY <2>1, <2>2, <2>3, <2>4 DEF IInv, EnqueueInv, TerminalEvents
  <2> QED
    BY <1>1, <1>2, <1>3, <1>4, <2>3, <2>4, <2>5 DEF IInv, CallInv, RecordInv, JobTerminal
<1>7. CASE SaveLink
  <2>1. UNCHANGED <<job, run, obs>> /\ epc = "link" /\ epc \in Early /\ epc \in Untold
    BY <1>7 DEF SaveLink, jobVars, Early, Untold
  <2>2. \/ epc' = "done" /\ \E e : events' = events \cup {e} /\ e.kind = "linked"
        \/ epc' = "withdraw" /\ events' = events
    <3>1. \/ epc' = "done" /\ Save("linked", "none", 3, TRUE, "enqueue")
          \/ epc' = "withdraw" /\ events' = events
      BY <1>7, Zenon DEF SaveLink, EnqueueDoes
    <3> DEFINE e == [kind |-> "linked", state |-> "none", seq |-> 3, ours |-> TRUE, by |-> "enqueue"]
    <3>2. \/ epc' = "done" /\ events' = events \cup {e}
          \/ epc' = "withdraw" /\ events' = events
      BY <3>1, Zenon DEF Save
    <3>3. e.kind = "linked"
      OBVIOUS
    <3> HIDE DEF e
    <3> QED
      BY <3>2, <3>3
  <2>3. TerminalEvents' = {}
    BY <2>1, <2>2 DEF IInv, EnqueueInv, TerminalEvents
  <2>4. EnqueueInv'
    BY <1>2, <2>2, <2>3 DEF EnqueueInv, Early, NoJobYet, Linked
  <2>5. RecordInv'
    BY <2>1, <2>3 DEF IInv, EnqueueInv, RecordInv
  <2>6. CallInv'
    BY <1>1, <1>2, <2>1 DEF IInv, CallInv
  <2> QED
    BY <1>3, <2>4, <2>5, <2>6 DEF IInv
<1> QED
  BY <1>5, <1>6, <1>7 DEF EnqueueNext

LEMMA JobKeeps == ASSUME IInv, JobStarts \/ JobRequeued \/ JobSettles PROVE IInv'
<1>1. UNCHANGED <<run, obs, events, epc, ipc, heard>> /\ job \notin JobTerminal
  BY DEF JobStarts, JobRequeued, JobSettles, interruptVars, JobTerminal
<1>2. Linked' = Linked /\ TerminalEvents' = TerminalEvents
  BY <1>1 DEF Linked, TerminalEvents
<1>3. RecordInv'
  BY <1>1, QuietKeepsRecords DEF IInv
<1>4. EnqueueInv'
  <2>1. epc \notin NoJobYet
    BY DEF IInv, EnqueueInv, JobStarts, JobRequeued, JobSettles
  <2> QED
    BY <1>1, <1>2, <2>1 DEF IInv, EnqueueInv
<1>5. \A f \in Finalizers : fpc[f] = "idle"
  BY <1>1 DEF IInv, CallInv
<1>6. /\ fpc' \in [Finalizers -> FinalizerPCs]
      /\ \A f \in Finalizers : fpc'[f] \in {"idle", "link"}
      /\ (\E f \in Finalizers : fpc'[f] # "idle") => job' \in JobTerminal
  BY <1>5 DEF JobStarts, JobRequeued, JobSettles, finalVars, IInv, CallTypes, FinalizerPCs, JobTerminal
<1>7. CallInv' /\ CallTypes'
  BY <1>1, <1>2, <1>6 DEF IInv, CallInv, CallTypes, JobTerminal
<1> QED
  BY <1>3, <1>4, <1>7 DEF IInv

-----------------------------------------------------------------------------
LEMMA FinalizerKeeps == ASSUME IInv, NEW f \in Finalizers, FinalizerNext(f) PROVE IInv'
<1>1. UNCHANGED <<job, epc, ipc, heard>> /\ \E w \in FinalizerPCs : fpc' = [fpc EXCEPT ![f] = w]
  BY DEF FinalizerNext, Resume, FindLink, ReadEvents, SaveToolEvent, SaveRunEvent,
         UpdateObservation, UpdateRun, FinalizerStops, FinalizerDoes, jobVars, interruptVars, FinalizerPCs
<1>2. /\ CallTypes' /\ \A g \in Finalizers : g # f => fpc'[g] = fpc[g]
  BY <1>1 DEF IInv, CallTypes
<1>3. fpc'[f] # "idle" => job \in JobTerminal
  BY <1>1 DEF FinalizerNext, Resume, FindLink, ReadEvents, SaveToolEvent, SaveRunEvent,
         UpdateObservation, UpdateRun, FinalizerStops, FinalizerDoes, OffersResume, IInv, CallInv, CallTypes
<1>4. fpc'[f] \notin {"idle", "link"} => Linked
  BY <1>1 DEF FinalizerNext, Resume, FindLink, ReadEvents, SaveToolEvent, SaveRunEvent,
         UpdateObservation, UpdateRun, FinalizerStops, FinalizerDoes, OffersResume, IInv, CallInv, CallTypes
<1>5. CASE UNCHANGED <<events, run, obs>>
  <2>1. Linked' = Linked /\ TerminalEvents' = TerminalEvents
    BY <1>5 DEF Linked, TerminalEvents
  <2>2. RecordInv'
    BY <1>1, <1>5, QuietKeepsRecords DEF IInv
  <2> QED
    BY <1>1, <1>2, <1>3, <1>4, <1>5, <2>1, <2>2 DEF IInv, EnqueueInv, CallInv
<1>6. CASE UNCHANGED events /\ (UpdateObservation(f) \/ UpdateRun(f))
  <2>1. Linked' = Linked /\ TerminalEvents' = TerminalEvents
    BY <1>6 DEF Linked, TerminalEvents
  <2>2. Linked /\ job \in JobTerminal
    BY <1>6 DEF UpdateObservation, UpdateRun, IInv, CallInv
  <2>3. /\ run' = run \/ run' = RecordState(job)
        /\ obs' = obs \/ obs' = RecordState(job)
    BY <1>6 DEF UpdateObservation, UpdateRun
  <2>4. RecordInv' /\ EnqueueInv'
    BY <1>1, <2>1, <2>2, <2>3 DEF IInv, RecordInv, EnqueueInv, Tells, RecordState, Early, Untold, NoJobYet
  <2> QED
    BY <1>1, <1>2, <1>3, <1>4, <2>1, <2>4 DEF IInv, CallInv
<1>7. ASSUME NEW e, events' = events \cup {e}, e.state = RecordState(job), e.ours = TRUE,
             SaveToolEvent(f) \/ SaveRunEvent(f)
      PROVE  IInv'
  <2>1. Linked /\ job \in JobTerminal /\ UNCHANGED <<run, obs>>
    BY <1>7 DEF SaveToolEvent, SaveRunEvent, IInv, CallInv
  <2>2. Linked' /\ TerminalEvents' \subseteq TerminalEvents \cup {e}
    BY <1>7, <2>1 DEF Linked, TerminalEvents
  <2>3. RecordInv' /\ EnqueueInv'
    BY <1>1, <1>7, <2>1, <2>2 DEF IInv, RecordInv, EnqueueInv, Tells, RecordState, Early, Untold, NoJobYet
  <2> QED
    BY <1>1, <1>2, <1>3, <2>2, <2>3 DEF IInv, CallInv
<1>8. \/ UNCHANGED <<events, run, obs>>
      \/ UNCHANGED events /\ (UpdateObservation(f) \/ UpdateRun(f))
      \/ \E e : /\ events' = events \cup {e} /\ e.state = RecordState(job) /\ e.ours = TRUE
                /\ SaveToolEvent(f) \/ SaveRunEvent(f)
  <2>1. CASE SaveToolEvent(f) \/ SaveRunEvent(f)
    <3>1. \/ UNCHANGED <<events, run, obs>>
          \/ Save("tool", RecordState(job), seq[f], TRUE, f)
          \/ Save("run", RecordState(job), seq[f], TRUE, f)
      BY <2>1, Zenon DEF SaveToolEvent, SaveRunEvent
    <3>2. ASSUME NEW kind, Save(kind, RecordState(job), seq[f], TRUE, f)
          PROVE  \E e : events' = events \cup {e} /\ e.state = RecordState(job) /\ e.ours = TRUE
      <4> DEFINE e == [kind |-> kind, state |-> RecordState(job), seq |-> seq[f], ours |-> TRUE, by |-> f]
      <4>1. events' = events \cup {e}
        BY <3>2, Zenon DEF Save
      <4>2. e.state = RecordState(job)
        OBVIOUS
      <4>3. e.ours = TRUE
        BY Zenon
      <4> HIDE DEF e
      <4> QED
        BY <4>1, <4>2, <4>3, Zenon
    <3> QED
      BY <2>1, <3>1, <3>2, Zenon
  <2>2. CASE ~(SaveToolEvent(f) \/ SaveRunEvent(f))
    BY <2>2, Zenon DEF FinalizerNext, Resume, FindLink, ReadEvents, UpdateObservation, UpdateRun, FinalizerStops
  <2> QED
    BY <2>1, <2>2
<1> QED
  BY <1>5, <1>6, <1>7, <1>8

LEMMA InterruptKeeps == ASSUME IInv, NEW i \in Interrupters, InterruptNext(i) PROVE IInv'
<1>1. /\ UNCHANGED <<epc, fpc, obs>> /\ (job \in JobTerminal => job' = job)
      /\ \E w \in InterruptPCs : ipc' = [ipc EXCEPT ![i] = w]
  BY CancelKeepsEnds
     DEF InterruptNext, FindTarget, CallCancelJob, ReadSequence, SaveRequest, MarkRunCancelled,
         SaveCancelled, InterruptStops, InterruptDoes, finalVars, jobVars, InterruptPCs
<1>2. CallTypes' /\ \A k \in Interrupters : k # i => ipc'[k] = ipc[k] /\ heard'[k] = heard[k]
  BY <1>1 DEF IInv, CallTypes, InterruptNext, FindTarget, CallCancelJob, ReadSequence, SaveRequest,
         MarkRunCancelled, SaveCancelled, InterruptStops
<1>3. ipc'[i] \notin {"idle", "done"} => Linked
  BY <1>1 DEF IInv, CallTypes, CallInv, InterruptNext, FindTarget, CallCancelJob, ReadSequence,
         SaveRequest, MarkRunCancelled, SaveCancelled, InterruptStops, InterruptDoes
<1>4. heard'[i] = "cancelled" => job' = "cancelled"
  BY <1>1 DEF IInv, CallTypes, CallInv, InterruptNext, FindTarget, CallCancelJob, ReadSequence,
         SaveRequest, MarkRunCancelled, SaveCancelled, InterruptStops, JobTerminal
<1>5. ipc'[i] \in {"mark", "markOnly"} => job' = "cancelled"
  BY <1>1 DEF IInv, CallTypes, CallInv, InterruptNext, FindTarget, CallCancelJob, ReadSequence,
         SaveRequest, MarkRunCancelled, SaveCancelled, InterruptStops, InterruptDoes, JobTerminal
<1>6. CASE UNCHANGED <<events, run>>
  <2>1. Linked' = Linked /\ TerminalEvents' = TerminalEvents
    BY <1>6 DEF Linked, TerminalEvents
  <2>2. RecordInv'
    BY <1>1, <1>6, QuietKeepsRecords DEF IInv
  <2> QED
    <3>1. epc \notin NoJobYet \/ job' = job
      BY DEF InterruptNext, FindTarget, CallCancelJob, ReadSequence, SaveRequest, MarkRunCancelled,
             SaveCancelled, InterruptStops, jobVars, IInv, EnqueueInv, CallInv, NoJobYet
    <3>2. EnqueueInv'
      BY <1>1, <1>6, <2>1, <3>1 DEF IInv, EnqueueInv
    <3> QED
      BY <1>1, <1>2, <1>3, <1>4, <1>5, <2>1, <2>2, <3>2 DEF IInv, CallInv, JobTerminal
<1>7. CASE MarkRunCancelled(i)
  <2>1. Linked /\ job = "cancelled" /\ run' = "cancelled" /\ UNCHANGED <<events, job>>
    BY <1>7 DEF MarkRunCancelled, IInv, CallInv, jobVars
  <2>2. Linked' /\ TerminalEvents' = TerminalEvents
    BY <2>1 DEF Linked, TerminalEvents
  <2>3. RecordInv' /\ EnqueueInv'
    BY <1>1, <2>1, <2>2 DEF IInv, RecordInv, EnqueueInv, Tells, RecordState, JobTerminal, Early, Untold, NoJobYet
  <2> QED
    BY <1>1, <1>2, <1>3, <1>4, <1>5, <2>1, <2>2, <2>3 DEF IInv, CallInv
<1>8. CASE SaveRequest(i) \/ SaveCancelled(i)
  <2>1. /\ \E e : events' = events \cup {e} /\ e.kind \in {"request", "cancelled"}
        /\ UNCHANGED <<job, run>> /\ Linked
    <3>1. PICK kind \in {"request", "cancelled"} :
            events' = events \cup {[kind |-> kind, state |-> "none", seq |-> seq[i], ours |-> TRUE, by |-> i]}
      BY <1>8, Zenon DEF SaveRequest, SaveCancelled, Save
    <3> DEFINE e == [kind |-> kind, state |-> "none", seq |-> seq[i], ours |-> TRUE, by |-> i]
    <3>2. events' = events \cup {e} /\ e.kind = kind
      BY <3>1
    <3> HIDE DEF e
    <3> QED
      BY <1>8, <3>2 DEF SaveRequest, SaveCancelled, IInv, CallInv, jobVars
  <2>2. Linked' /\ TerminalEvents' = TerminalEvents
    BY <2>1 DEF Linked, TerminalEvents
  <2>3. RecordInv' /\ EnqueueInv'
    BY <1>1, <2>1, <2>2 DEF IInv, RecordInv, EnqueueInv, Tells, Early, Untold, NoJobYet
  <2> QED
    BY <1>1, <1>2, <1>3, <1>4, <1>5, <2>1, <2>2, <2>3 DEF IInv, CallInv
<1> QED
  BY <1>6, <1>7, <1>8, Zenon DEF InterruptNext, FindTarget, CallCancelJob, ReadSequence, InterruptStops

LEMMA NextKeeps == IInv /\ [Next]_vars => IInv'
<1> SUFFICES ASSUME IInv, [Next]_vars PROVE IInv'
  OBVIOUS
<1>1. CASE UNCHANGED vars
  BY <1>1 DEF vars, jobVars, finalVars, interruptVars, IInv, CallTypes, EnqueueInv, CallInv,
              RecordInv, Linked, TerminalEvents, Tells, RecordState
<1> QED
  BY <1>1, EnqueueKeeps, JobKeeps, FinalizerKeeps, InterruptKeeps DEF Next

THEOREM Invariance == Spec => []IInv
  BY InitIInv, NextKeeps, PTL DEF Spec

(* No record and no event of a linked run claims an end that its job did   *)
(* not have.                                                               *)
THEOREM RecordsFollowJob == Spec => []RunFollowsJob
<1>1. IInv => RunFollowsJob
  BY DEF IInv, RecordInv, RunFollowsJob, Tells, Reports, RecordState
<1> QED
  BY <1>1, Invariance, PTL

(* A finalization that the view offers is accepted.                        *)
THEOREM AlwaysResumable == Spec => []Resumable
<1>1. ASSUME IInv, OffersResume PROVE Accepts
  <2>1. Linked
    BY <1>1 DEF OffersResume
  <2>2. \A e \in TerminalEvents : e.ours = TRUE /\ e.state = RecordState(job)
    BY <1>1, <2>1 DEF IInv, RecordInv, Tells
  <2> QED
    BY <2>2, Zenon DEF Accepts
<1>2. IInv => Resumable
  BY <1>1 DEF Resumable
<1> QED
  BY <1>2, Invariance, PTL
-----------------------------------------------------------------------------
(* Sequence numbers on PostgreSQL.  The stored events are numbered 1..m,   *)
(* so a save succeeds at m + 1 only, and whoever has read before somebody  *)
(* else saved fails.                                                       *)
EnqueueAt(m) ==
  /\ epc \in {"run", "observation", "started"} => m = 0
  /\ epc = "toolStarted" => m = 1
  /\ epc \in {"job", "link", "withdraw", "failObs", "failTool"} => m = 2
  /\ epc = "failEvent" => m = 3 /\ ~Recorded("run")

(* A finalizer that plans to save a terminal event that is there by now    *)
(* holds a number that is taken.                                           *)
FinalizerAt(f, m) ==
  /\ fpc[f] \in {"tool", "event"} => seq[f] \in 1..(m + 1)
  /\ fpc[f] = "tool" => \A k \in plan[f] : Recorded(k) => seq[f] <= m
  /\ fpc[f] = "event" /\ "run" \in plan[f] /\ Recorded("run") => seq[f] <= m

InterruptAt(i, m) == ipc[i] \in {"request", "cancelled"} => seq[i] \in 1..(m + 1)

Taken == {e.seq : e \in events}
SeqTypes ==
  /\ plan \in [Finalizers -> SUBSET {"tool", "run"}]
  /\ seq \in [Finalizers \cup Interrupters -> Nat]
SeqAt(m) ==
  /\ SeqTypes
  /\ Taken = 1..m
  /\ EnqueueAt(m)
  /\ \A f \in Finalizers : FinalizerAt(f, m)
  /\ \A i \in Interrupters : InterruptAt(i, m)
  /\ NoDuplicates

SeqInv == store = "postgres" => \E m \in Nat : SeqAt(m)

LEMMA NextIsNext == ASSUME NEW m \in Nat, Taken = 1..m PROVE NextSequence = m + 1
<1>1. Taken \cup {0} = 0..m
  BY SMT
<1>2. m \in 0..m /\ \A y \in 0..m : m >= y
  BY SMT
<1>3. Max(0..m) = m
  BY <1>2, SMT DEF Max
<1> QED
  BY <1>1, <1>3 DEF NextSequence, Taken

LEMMA Adding ==
  ASSUME NEW m \in Nat, Taken = 1..m, NoDuplicates, NEW e, events' = events \cup {e}, e.seq = m + 1,
         e.kind \in {"tool", "run"} => ~Recorded(e.kind)
  PROVE  Taken' = 1..(m + 1) /\ NoDuplicates'
<1>1. Taken' = Taken \cup {m + 1}
  BY DEF Taken
<1>2. TerminalEvents' \subseteq TerminalEvents \cup {e} /\ \A d \in TerminalEvents : d.kind # e.kind
  BY DEF TerminalEvents, Recorded
<1>3. NoDuplicates'
  BY <1>2 DEF NoDuplicates
<1> QED
  BY <1>1, <1>3

(* A save of somebody else only takes numbers away; other steps leave them.*)
LEMMA OthersLose ==
  ASSUME NEW m \in Nat, NEW f \in Finalizers, FinalizerAt(f, m),
         fpc'[f] = fpc[f], plan'[f] = plan[f], seq'[f] = seq[f]
  PROVE  FinalizerAt(f, m + 1)' /\ (events' = events => FinalizerAt(f, m)')
  BY DEF FinalizerAt, Recorded

LEMMA OthersWait ==
  ASSUME NEW m \in Nat, NEW i \in Interrupters, InterruptAt(i, m), ipc'[i] = ipc[i], seq'[i] = seq[i]
  PROVE  InterruptAt(i, m)' /\ InterruptAt(i, m + 1)'
  BY DEF InterruptAt

LEMMA QuietSeq ==
  ASSUME NEW m \in Nat, SeqAt(m), events' = events
  PROVE  Taken' = 1..m /\ NoDuplicates' /\ (epc' = epc => EnqueueAt(m)')
  BY DEF SeqAt, Taken, NoDuplicates, TerminalEvents, EnqueueAt, Recorded

LEMMA EnqueueKeepsSeq ==
  ASSUME IInv, NEW m \in Nat, SeqAt(m), EnqueueNext, store = "postgres"
  PROVE  \E n \in Nat : SeqAt(n)'
<1>1. UNCHANGED <<fpc, plan, ipc, seq>> /\ ~Linked
  BY DEF EnqueueNext, SaveRun, SaveObservation, SaveStarted, EnqueueJob, SaveLink, Withdraw,
         FailObservation, FailEvents, FailRun, EnqueueStops, EnqueueDoes, finalVars, interruptVars,
         IInv, EnqueueInv
<1>2. /\ \A f \in Finalizers : fpc[f] \notin {"tool", "event"}
      /\ \A i \in Interrupters : ipc[i] \notin {"request", "cancelled"}
  BY <1>1 DEF IInv, CallInv
<1>3. ASSUME NEW n \in Nat
      PROVE  SeqTypes' /\ (\A f \in Finalizers : FinalizerAt(f, n)')
                       /\ (\A i \in Interrupters : InterruptAt(i, n)')
  BY <1>1, <1>2 DEF SeqAt, SeqTypes, FinalizerAt, InterruptAt
<1>4. CASE events' = events
  <2>1. ~SaveStarted /\ ~FailEvents /\ (SaveLink => epc' = "withdraw")
    <3> DEFINE e(kind, state, n, ours) ==
                 [kind |-> kind, state |-> state, seq |-> n, ours |-> ours, by |-> "enqueue"]
    <3>1. ASSUME NEW kind, NEW state, NEW n, NEW ours, \A d \in events : d.seq # n,
                 events' = events \cup {e(kind, state, n, ours)}
          PROVE  FALSE
      <4>1. e(kind, state, n, ours).seq = n
        BY Zenon
      <4> HIDE DEF e
      <4> QED
        BY <1>4, <3>1, <4>1
    <3> QED
      BY <3>1, Zenon DEF SaveStarted, FailEvents, SaveLink, Save, EnqueueDoes
  <2>2. EnqueueAt(m)'
    <3>1. \/ epc = "run" /\ epc' = "observation"
          \/ epc = "observation" /\ epc' = "started"
          \/ epc = "job" /\ epc' \in {"link", "failObs"}
          \/ epc \in {"link", "withdraw", "failObs"} /\ epc' \in {"withdraw", "failObs", "failTool"}
          \/ epc' = "done"
      BY <2>1 DEF EnqueueNext, SaveRun, SaveObservation, EnqueueJob, SaveLink, Withdraw, FailObservation,
             FailRun, EnqueueStops, EnqueueDoes
    <3> QED
      BY <3>1 DEF SeqAt, EnqueueAt
  <2> QED
    BY <1>3, <1>4, <2>2, QuietSeq DEF SeqAt
<1>5. CASE events' # events
  <2>1. PICK kind \in {"started", "tool", "run", "linked"}, state \in {"none", "failed"},
             n \in {1, 2, 3, 4}, ours \in BOOLEAN :
          /\ events' = events \cup {[kind |-> kind, state |-> state, seq |-> n, ours |-> ours, by |-> "enqueue"]}
          /\ \A e \in events : e.seq # n
          /\ \/ kind = "started" /\ epc = "started" /\ n = 1 /\ epc' = "toolStarted"
             \/ kind = "started" /\ epc = "toolStarted" /\ n = 2 /\ epc' = "job"
             \/ kind = "linked" /\ epc = "link" /\ n = 3 /\ epc' = "done"
             \/ kind = "tool" /\ epc = "failTool" /\ n = 3 /\ epc' = "failEvent"
             \/ kind = "run" /\ epc = "failEvent" /\ n = 4 /\ epc' = "failRun"
    BY <1>5, Zenon DEF EnqueueNext, SaveRun, SaveObservation, SaveStarted, EnqueueJob, SaveLink,
           Withdraw, FailObservation, FailEvents, FailRun, EnqueueStops, EnqueueDoes, Save
  <2> DEFINE e == [kind |-> kind, state |-> state, seq |-> n, ours |-> ours, by |-> "enqueue"]
  <2>2. events' = events \cup {e} /\ e.kind = kind /\ e.seq = n
    BY <2>1, Zenon
  <2> HIDE DEF e
  <2>3. n = m + 1
    BY <2>1 DEF SeqAt, EnqueueAt
  <2>4. kind \in {"tool", "run"} => ~Recorded(kind)
    <3>1. epc = "failTool" => TerminalEvents = {}
      BY DEF IInv, EnqueueInv, Untold
    <3> QED
      BY <2>1, <3>1 DEF SeqAt, EnqueueAt, TerminalEvents, Recorded
  <2>5. Taken' = 1..(m + 1) /\ NoDuplicates'
    BY <2>2, <2>3, <2>4, Adding DEF SeqAt
  <2>6. epc = "failTool" => ~Recorded("run")'
    <3>1. epc = "failTool" => TerminalEvents = {} /\ kind = "tool"
      BY <2>1 DEF IInv, EnqueueInv, Untold
    <3> QED
      BY <2>2, <3>1 DEF Recorded, TerminalEvents
  <2>7. EnqueueAt(m + 1)'
    BY <2>1, <2>3, <2>6 DEF EnqueueAt
  <2> QED
    BY <1>3, <2>5, <2>7 DEF SeqAt
<1> QED
  BY <1>4, <1>5

LEMMA FinalizerKeepsSeq ==
  ASSUME IInv, NEW m \in Nat, SeqAt(m), NEW f \in Finalizers, FinalizerNext(f), store = "postgres"
  PROVE  \E n \in Nat : SeqAt(n)'
<1>1. /\ UNCHANGED <<epc, ipc>>
      /\ \A g \in Finalizers \ {f} : fpc'[g] = fpc[g] /\ plan'[g] = plan[g] /\ seq'[g] = seq[g]
      /\ \A i \in Interrupters : seq'[i] = seq[i]
  BY RunAssumption
     DEF FinalizerNext, Resume, FindLink, ReadEvents, SaveToolEvent, SaveRunEvent, UpdateObservation,
         UpdateRun, FinalizerStops, FinalizerDoes, interruptVars, IInv, CallTypes, SeqAt, SeqTypes
<1>2. /\ \A g \in Finalizers \ {f} : FinalizerAt(g, m + 1)' /\ (events' = events => FinalizerAt(g, m)')
      /\ \A i \in Interrupters : InterruptAt(i, m)' /\ InterruptAt(i, m + 1)'
  BY <1>1, OthersLose, OthersWait DEF SeqAt
<1>3. /\ \/ UNCHANGED <<plan, seq>>
         \/ plan' = plan /\ seq' = [seq EXCEPT ![f] = @ + 1]
         \/ /\ plan' = [plan EXCEPT ![f] = {k \in {"tool", "run"} : ~Recorded(k)}]
            /\ seq' = [seq EXCEPT ![f] = m + 1]
            /\ events' = events /\ fpc' = [fpc EXCEPT ![f] = "tool"]
      /\ SeqTypes'
  <2>1. NextSequence = m + 1
    BY NextIsNext DEF SeqAt
  <2>2. \/ UNCHANGED <<plan, seq>>
        \/ plan' = plan /\ seq' = [seq EXCEPT ![f] = @ + 1]
        \/ /\ plan' = [plan EXCEPT ![f] = {k \in {"tool", "run"} : ~Recorded(k)}]
           /\ seq' = [seq EXCEPT ![f] = NextSequence]
           /\ events' = events /\ fpc' = [fpc EXCEPT ![f] = "tool"]
    BY Zenon DEF FinalizerNext, Resume, FindLink, ReadEvents, SaveToolEvent, SaveRunEvent, UpdateObservation,
         UpdateRun, FinalizerStops, FinalizerDoes
  <2> QED
    BY <2>1, <2>2 DEF SeqAt, SeqTypes
<1>4. CASE events' = events
  <2>1. \/ fpc'[f] \notin {"tool", "event"}
        \/ ReadEvents(f) /\ fpc' = [fpc EXCEPT ![f] = "tool"]
        \/ fpc[f] = "tool" /\ fpc'[f] = "event" /\ UNCHANGED <<plan, seq>>
    <3>1. CASE SaveToolEvent(f)
      <4>1. "tool" \notin plan[f]
        <5> SUFFICES ASSUME "tool" \in plan[f] PROVE FALSE
          OBVIOUS
        <5> DEFINE e == [kind |-> "tool", state |-> RecordState(job), seq |-> seq[f], ours |-> TRUE, by |-> f]
        <5>1. events' = events \cup {e} /\ \A d \in events : d.seq # seq[f]
          BY <3>1, Zenon DEF SaveToolEvent, Save
        <5>2. e.seq = seq[f]
          BY Zenon
        <5> HIDE DEF e
        <5> QED
          BY <1>4, <5>1, <5>2
      <4> QED
        BY <3>1, <4>1, Zenon DEF SaveToolEvent, FinalizerDoes, IInv, CallTypes
    <3>2. CASE ReadEvents(f)
      BY <3>2 DEF ReadEvents, FinalizerDoes, IInv, CallTypes
    <3>3. CASE ~SaveToolEvent(f) /\ ~ReadEvents(f)
      <4>1. \E w \in {"idle", "link", "read", "obs", "run"} : fpc' = [fpc EXCEPT ![f] = w]
        BY <3>3, Zenon DEF FinalizerNext, Resume, FindLink, SaveRunEvent, UpdateObservation, UpdateRun,
             FinalizerStops, FinalizerDoes
      <4> QED
        BY <4>1 DEF IInv, CallTypes
    <3> QED
      BY <3>1, <3>2, <3>3
  <2>2. FinalizerAt(f, m)'
    <3>1. CASE ReadEvents(f) /\ fpc' = [fpc EXCEPT ![f] = "tool"]
      <4>1. plan'[f] = {k \in {"tool", "run"} : ~Recorded(k)} /\ seq'[f] = m + 1
        BY <3>1, NextIsNext DEF ReadEvents, FinalizerDoes, IInv, CallTypes, SeqAt, SeqTypes
      <4> QED
        BY <1>4, <3>1, <4>1 DEF FinalizerAt, Recorded, IInv, CallTypes
    <3> QED
      BY <1>4, <2>1, <3>1 DEF FinalizerAt, SeqAt, Recorded
  <2> QED
    BY <1>1, <1>2, <1>3, <1>4, <2>2, QuietSeq DEF SeqAt
<1>5. CASE events' # events
  <2>1. PICK kind \in {"tool", "run"} :
          /\ events' = events \cup {[kind |-> kind, state |-> RecordState(job), seq |-> seq[f], ours |-> TRUE, by |-> f]}
          /\ \A e \in events : e.seq # seq[f]
          /\ kind \in plan[f] /\ plan' = plan
          /\ \/ kind = "tool" /\ fpc[f] = "tool" /\ seq' = [seq EXCEPT ![f] = @ + 1]
                /\ fpc' = [fpc EXCEPT ![f] = "event"]
             \/ kind = "run" /\ fpc[f] = "event" /\ seq' = seq /\ fpc' = [fpc EXCEPT ![f] = "obs"]
    BY <1>5, Zenon DEF FinalizerNext, Resume, FindLink, ReadEvents, SaveToolEvent, SaveRunEvent,
           UpdateObservation, UpdateRun, FinalizerStops, FinalizerDoes, Save
  <2> DEFINE e == [kind |-> kind, state |-> RecordState(job), seq |-> seq[f], ours |-> TRUE, by |-> f]
  <2>2. events' = events \cup {e} /\ e.kind = kind /\ e.seq = seq[f]
    BY <2>1, Zenon
  <2> HIDE DEF e
  <2>3. seq[f] = m + 1
    BY <2>1 DEF SeqAt, FinalizerAt, Taken
  <2>4. ~Recorded(kind) /\ (kind = "tool" /\ "run" \in plan[f] => ~Recorded("run"))
    BY <2>1, <2>3 DEF SeqAt, FinalizerAt
  <2>5. Taken' = 1..(m + 1) /\ NoDuplicates'
    BY <2>2, <2>3, <2>4, Adding DEF SeqAt
  <2>6. EnqueueAt(m + 1)'
    <3>1. epc = "done"
      BY <2>1 DEF IInv, CallInv, EnqueueInv
    <3> QED
      BY <1>1, <3>1 DEF EnqueueAt
  <2>7. kind = "tool" /\ "run" \in plan[f] => ~Recorded("run")'
    BY <2>2, <2>4 DEF Recorded
  <2>8. FinalizerAt(f, m + 1)'
    BY <2>1, <2>3, <2>7 DEF FinalizerAt, SeqAt, SeqTypes, IInv, CallTypes
  <2> QED
    BY <1>2, <1>3, <2>5, <2>6, <2>8 DEF SeqAt
<1> QED
  BY <1>4, <1>5

LEMMA InterruptKeepsSeq ==
  ASSUME IInv, NEW m \in Nat, SeqAt(m), NEW i \in Interrupters, InterruptNext(i), store = "postgres"
  PROVE  \E n \in Nat : SeqAt(n)'
<1>1. /\ UNCHANGED <<epc, fpc, plan>>
      /\ \A k \in Interrupters \ {i} : ipc'[k] = ipc[k] /\ seq'[k] = seq[k]
      /\ \A f \in Finalizers : seq'[f] = seq[f]
  BY RunAssumption
     DEF InterruptNext, FindTarget, CallCancelJob, ReadSequence, SaveRequest, MarkRunCancelled, SaveCancelled,
         InterruptStops, InterruptDoes, finalVars, IInv, CallTypes, SeqAt, SeqTypes
<1>2. /\ \A f \in Finalizers : FinalizerAt(f, m + 1)' /\ (events' = events => FinalizerAt(f, m)')
      /\ \A k \in Interrupters \ {i} : InterruptAt(k, m)' /\ InterruptAt(k, m + 1)'
  BY <1>1, OthersLose, OthersWait DEF SeqAt
<1>3. /\ seq' = seq \/ seq' = [seq EXCEPT ![i] = m + 1]
      /\ SeqTypes'
  <2>1. NextSequence = m + 1
    BY NextIsNext DEF SeqAt
  <2>2. plan' = plan /\ (seq' = seq \/ seq' = [seq EXCEPT ![i] = NextSequence])
    BY Zenon DEF InterruptNext, FindTarget, CallCancelJob, ReadSequence, SaveRequest, MarkRunCancelled,
         SaveCancelled, InterruptStops, finalVars
  <2> QED
    BY <2>1, <2>2 DEF SeqAt, SeqTypes
<1>4. CASE events' = events
  <2>1. ipc'[i] \in {"request", "cancelled"} => ReadSequence(i)
    <3>1. ~ReadSequence(i) =>
            \E w \in InterruptPCs \ {"request", "cancelled"} : ipc' = [ipc EXCEPT ![i] = w]
      BY DEF InterruptNext, FindTarget, CallCancelJob, SaveRequest, MarkRunCancelled, SaveCancelled,
             InterruptStops, InterruptDoes, InterruptPCs
    <3> QED
      BY <3>1 DEF IInv, CallTypes
  <2>2. ReadSequence(i) => seq'[i] = m + 1
    BY NextIsNext DEF ReadSequence, SeqAt, SeqTypes
  <2>3. InterruptAt(i, m)'
    BY <2>1, <2>2 DEF InterruptAt
  <2> QED
    BY <1>1, <1>2, <1>3, <1>4, <2>3, QuietSeq DEF SeqAt
<1>5. CASE events' # events
  <2>1. PICK kind \in {"request", "cancelled"} :
          /\ events' = events \cup {[kind |-> kind, state |-> "none", seq |-> seq[i], ours |-> TRUE, by |-> i]}
          /\ \A e \in events : e.seq # seq[i]
          /\ ipc[i] \in {"request", "cancelled"} /\ ipc'[i] \in {"mark", "done"}
    <3>1. SaveRequest(i) \/ SaveCancelled(i)
      BY <1>5, Zenon DEF InterruptNext, FindTarget, CallCancelJob, ReadSequence, MarkRunCancelled, InterruptStops
    <3>2. ipc[i] \in {"request", "cancelled"} /\ ipc'[i] \in {"mark", "done"}
      BY <3>1 DEF SaveRequest, SaveCancelled, InterruptDoes, IInv, CallTypes
    <3> QED
      BY <3>1, <3>2, Zenon DEF SaveRequest, SaveCancelled, Save
  <2> DEFINE e == [kind |-> kind, state |-> "none", seq |-> seq[i], ours |-> TRUE, by |-> i]
  <2>2. events' = events \cup {e} /\ e.kind = kind /\ e.seq = seq[i]
    BY <2>1, Zenon
  <2> HIDE DEF e
  <2>3. seq[i] = m + 1
    BY <2>1 DEF SeqAt, InterruptAt, Taken
  <2>4. Taken' = 1..(m + 1) /\ NoDuplicates'
    BY <2>2, <2>3, Adding DEF SeqAt
  <2>5. EnqueueAt(m + 1)'
    <3>1. epc = "done"
      BY <2>1 DEF IInv, CallInv, EnqueueInv
    <3> QED
      BY <1>1, <3>1 DEF EnqueueAt
  <2>6. InterruptAt(i, m + 1)'
    BY <2>1 DEF InterruptAt
  <2> QED
    BY <1>2, <1>3, <2>4, <2>5, <2>6 DEF SeqAt
<1> QED
  BY <1>4, <1>5

LEMMA JobKeepsSeq ==
  ASSUME IInv, NEW m \in Nat, SeqAt(m), JobStarts \/ JobRequeued \/ JobSettles
  PROVE  SeqAt(m)'
<1>1. UNCHANGED <<events, epc, ipc, plan, seq>>
  BY DEF JobStarts, JobRequeued, JobSettles, finalVars, interruptVars
<1>2. \A f \in Finalizers : fpc[f] = "idle"
  BY DEF JobStarts, JobRequeued, JobSettles, JobTerminal, IInv, CallInv
<1>3. \A f \in Finalizers : fpc'[f] \in {"idle", "link"}
  BY <1>2 DEF JobStarts, JobRequeued, JobSettles, finalVars, IInv, CallTypes
<1>4. \A f \in Finalizers : FinalizerAt(f, m)'
  BY <1>3 DEF FinalizerAt
<1>5. SeqTypes' /\ \A i \in Interrupters : InterruptAt(i, m)'
  BY <1>1 DEF SeqAt, SeqTypes, InterruptAt
<1> QED
  BY <1>1, <1>4, <1>5, QuietSeq DEF SeqAt

(* The finalizer duplicates no terminal event on PostgreSQL.               *)
THEOREM TerminalEventsOnce == Spec => []TerminalEventOnce
<1>1. Init => SeqInv
  <2> SUFFICES ASSUME Init PROVE SeqAt(0)
    BY DEF SeqInv
  <2>1. Taken = 1..0 /\ NoDuplicates
    BY DEF Init, Taken, NoDuplicates, TerminalEvents
  <2> QED
    BY <2>1 DEF Init, SeqAt, SeqTypes, EnqueueAt, FinalizerAt, InterruptAt
<1>2. IInv /\ SeqInv /\ [Next]_vars => SeqInv'
  <2> SUFFICES ASSUME IInv, SeqInv, [Next]_vars, store' = "postgres" PROVE \E n \in Nat : SeqAt(n)'
    BY DEF SeqInv
  <2>1. store = "postgres"
    BY DEF Next, vars
  <2>2. PICK m \in Nat : SeqAt(m)
    BY <2>1 DEF SeqInv
  <2>3. CASE UNCHANGED vars
    <3>1. SeqAt(m)'
      BY <2>2, <2>3 DEF vars, jobVars, finalVars, interruptVars, SeqAt, SeqTypes, EnqueueAt, FinalizerAt,
             InterruptAt, Taken, NoDuplicates, TerminalEvents, Recorded
    <3> QED
      BY <3>1
  <2> QED
    BY <2>1, <2>2, <2>3, EnqueueKeepsSeq, FinalizerKeepsSeq, InterruptKeepsSeq, JobKeepsSeq DEF Next
<1>3. SeqInv => TerminalEventOnce
  BY DEF SeqInv, SeqAt, TerminalEventOnce
<1> QED
  BY <1>1, <1>2, <1>3, Invariance, PTL DEF Spec
=============================================================================
