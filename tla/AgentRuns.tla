------------------------------ MODULE AgentRuns ------------------------------
(***************************************************************************)
(* The agent runs of one LP task: planner, builder, reviewer, deployer.    *)
(*  - runAgentStep (run-orchestrator.ts) is one run: its record, the       *)
(*    handoffs it consumes (agent-handoffs.ts), its events.                *)
(*  - createBriefFromPrompt, generatePageVersion, reviewPageVersion and    *)
(*    approveAndCreateDeployment (packages/api/src/index.ts) do a run and  *)
(*    save what it made.                                                   *)
(*  - runLpAgentChainForTask (workbench-store.ts) calls them in turn for a *)
(*    prompt and keeps the snapshot of the task.                           *)
(*  - retryRun (run-recovery.ts) repeats one failed run.                   *)
(* Chains and retries of one or more processes over the same repositories. *)
(*                                                                         *)
(* Grain: one action per save, and per read whose answer is used after an  *)
(* await; the reads of one check are one step.  Any save may fail and any  *)
(* process may stop, MaxFaults times together.  What a brief, a page or a  *)
(* finding says, model events inside a run, the context pack, the files of *)
(* a page and messages of the assistant are left out; the ids of handoffs  *)
(* are those of the run that saved them.                                   *)
(***************************************************************************)
EXTENDS Naturals, Sequences, FiniteSets, FiniteSetsExt, Functions

CONSTANTS
  Chains, Retries,  \* calls of submitTaskPrompt and of executeRunRecoveryAction
  Processes, Home,  \* Home[c]: the process of the caller c
  MaxFaults,        \* bound: saves and runs that fail, processes that stop
  None

Callers == Chains \cup Retries

ASSUME AgentRunsAssumption ==
  /\ Chains \cap Retries = {} /\ Home \in [Callers -> Processes]
  /\ MaxFaults \in Nat /\ None \notin Callers \cup Nat

VARIABLES
  asked,       \* how many prompts the task has
  runs,        \* the run records, by id
  events,      \* the run events
  handoffs,    \* the agent handoffs, by the run that made them
  briefs,      \* briefs[b]: the run that made the brief b
  pages,       \* pages[p]: the brief, the run, the review status and whether the
               \* findings of the page p have one that blocks its deployment
  deployments, \* the pages that have a deployment record
  requested,   \* requested[p]: how often the deployment adapter was called for p
  snapshot,    \* the brief and the page that the task shows
  reserved,    \* reserved[x]: the ids that the process x has reserved
  idLock, retryLock,  \* the caller that holds the lock of the process, or None
  me,          \* the local state of each caller
  faults

records == <<runs, events, handoffs, briefs, pages, deployments, requested>>
vars == <<asked, records, snapshot, reserved, idLock, retryLock, me, faults>>

Roles == {"planner", "builder", "reviewer", "deployer"}
RunId == [role: Roles, no: Nat, retries: Seq(Nat)]
Verdicts == {"passed", "failed"}

(* Which role comes after which.                                           *)
After == [planner |-> "builder", builder |-> "reviewer", reviewer |-> "deployer"]

TypeOK ==
  /\ asked \in Nat /\ faults \in 0..MaxFaults
  /\ \A r \in DOMAIN runs : r \in RunId /\ runs[r].state \in {"running", "completed", "failed"}
  /\ \A r \in DOMAIN handoffs :
       r \in DOMAIN runs /\ handoffs[r].state \in {"ready", "blocked", "consumed"}
  /\ \A p \in DOMAIN pages : pages[p].status \in Verdicts \cup {"pending"}
  /\ deployments \subseteq DOMAIN pages
  /\ snapshot.brief \in DOMAIN briefs \cup {None} /\ snapshot.page \in DOMAIN pages \cup {None}
  /\ \A x \in Processes : {idLock[x], retryLock[x]} \subseteq Callers \cup {None}

Idle == [pc |-> "idle", role |-> "planner", run |-> None, brief |-> None, page |-> None,
         seq |-> 1, got |-> {}, good |-> TRUE, target |-> None, marked |-> None]

Init ==
  /\ asked = 0
  /\ runs = <<>> /\ events = {} /\ handoffs = <<>> /\ briefs = <<>> /\ pages = <<>>
  /\ deployments = {} /\ requested = <<>>
  /\ snapshot = [brief |-> None, page |-> None]
  /\ reserved = [x \in Processes |-> {}]
  /\ idLock = [x \in Processes |-> None] /\ retryLock = [x \in Processes |-> None]
  /\ me = [c \in Callers |-> Idle]
  /\ faults = 0

-----------------------------------------------------------------------------
Put(f, k, v) == [x \in DOMAIN f \cup {k} |-> IF x = k THEN v ELSE f[x]]

At(c, pc) == me[c].pc = pc
Go(c, pc) == me' = [me EXCEPT ![c].pc = pc]

EventsOf(r) == {e \in events : e.run = r}

(* Saving an event under the id <run>_event_<sequence>: an event of the    *)
(* same id is overwritten.                                                 *)
WithEvent(r, n, type, ref) ==
  {e \in events : ~(e.run = r /\ e.seq = n)}
  \cup {[run |-> r, seq |-> n, type |-> type, ref |-> ref]}

(* reserveRepositoryId with nextSequentialId.                              *)
NextId(c, kind, used) ==
  Max(used \cup {i.no : i \in {j \in reserved[Home[c]] : j.kind = kind}} \cup {0}) + 1

Reserve(c, kinds) == reserved' = [reserved EXCEPT ![Home[c]] = @ \cup kinds]

(* The finally blocks of the services.                                     *)
Release(c) == reserved' = [reserved EXCEPT ![Home[c]] = {i \in @ : i.by # c}]

IdLockFree(c) == idLock[Home[c]] = None

OriginalRuns(role) == {r.no : r \in {q \in DOMAIN runs : q.role = role /\ q.retries = <<>>}}

-----------------------------------------------------------------------------
(* The chain of a prompt (workbench-store.ts).                             *)

(* prepareLpTaskPrompt for a task that exists: the prompt becomes a        *)
(* message of the task.                                                    *)
Ask(c) ==
  /\ c \in Chains /\ At(c, "idle")
  /\ asked' = asked + 1 /\ Go(c, "begin")
  /\ UNCHANGED <<records, snapshot, reserved, idLock, retryLock, faults>>

(* The service of a role begins.  A retry has chosen the id of its run.    *)
NewRun(c) ==
  LET role == me[c].role
  IN IF c \in Retries THEN me[c].run
     ELSE [role |-> role, no |-> NextId(c, role, OriginalRuns(role)), retries |-> <<>>]

ReservedRun(c) ==
  IF c \in Retries THEN {} ELSE {[kind |-> me[c].role, no |-> NewRun(c).no, by |-> c]}

Begins(c, role) ==
  /\ At(c, "begin") /\ me[c].role = role /\ IdLockFree(c)
  /\ UNCHANGED <<asked, records, snapshot, idLock, retryLock, faults>>

Started(c) ==
  [me EXCEPT ![c] = [@ EXCEPT !.pc = "saveRun", !.run = NewRun(c), !.seq = 1, !.got = {}]]

BeginPlanner(c) ==
  LET b == NextId(c, "brief", DOMAIN briefs)
  IN /\ Begins(c, "planner")
     /\ Reserve(c, ReservedRun(c) \cup {[kind |-> "brief", no |-> b, by |-> c]})
     /\ me' = [Started(c) EXCEPT ![c].brief = b]

BeginBuilder(c) ==
  LET p == NextId(c, "page", DOMAIN pages)
  IN /\ Begins(c, "builder")
     /\ Reserve(c, ReservedRun(c) \cup {[kind |-> "page", no |-> p, by |-> c]})
     /\ me' = [Started(c) EXCEPT ![c].page = p]

(* A page that is deployed is not reviewed again.                          *)
BeginReviewer(c) ==
  /\ Begins(c, "reviewer")
  /\ IF me[c].page \in deployments THEN Go(c, "shown") /\ UNCHANGED reserved
     ELSE Reserve(c, ReservedRun(c)) /\ me' = Started(c)

(* The latest handoff of the page and its review must allow a deployment.  *)
MayDeploy(p) ==
  LET inbound == {h \in Range(handoffs) : h.to = "deployer" /\ h.page = p}
  IN /\ \A h \in inbound : h.state = "blocked" => \E g \in inbound : g.at > h.at
     /\ pages[p].status = "passed"

BeginDeployer(c) ==
  /\ Begins(c, "deployer")
  /\ IF MayDeploy(me[c].page) /\ me[c].page \notin deployments
     THEN Reserve(c, ReservedRun(c)) /\ me' = Started(c)
     ELSE /\ Go(c, IF MayDeploy(me[c].page) /\ c \in Chains THEN "done" ELSE "error")
          /\ UNCHANGED reserved

-----------------------------------------------------------------------------
(* runAgentStep.                                                           *)

(* The record of the run.  prompt is what selectUserMessageForRun finds    *)
(* for it later, knew what existed when it started; a run that completed   *)
(* is never retried and keeps neither.                                     *)
SaveRun(c) ==
  /\ At(c, "saveRun")
  /\ runs' = Put(runs, me[c].run,
       [state |-> "running", prompt |-> asked,
        knewBriefs |-> DOMAIN briefs, knewPages |-> DOMAIN pages])
  /\ Go(c, IF me[c].role = "planner" THEN "start" ELSE "list")
  /\ UNCHANGED <<asked, events, handoffs, briefs, pages, deployments, requested, snapshot,
                 reserved, idLock, retryLock, faults>>

(* markInboundHandoffsConsumed reads the handoffs; what it will save later *)
(* is made of the records it has read.                                     *)
Matching(c, h) ==
  /\ h.to = me[c].role
  /\ IF me[c].role = "builder" THEN h.brief = me[c].brief ELSE h.page = me[c].page

ListReady(c) ==
  /\ At(c, "list")
  /\ LET ready == {r \in DOMAIN handoffs : handoffs[r].state = "ready" /\ Matching(c, handoffs[r])}
     IN me' = [me EXCEPT ![c] = [@ EXCEPT !.got = ready,
                                          !.pc = IF ready = {} THEN "start" ELSE "consume"]]
  /\ UNCHANGED <<asked, records, snapshot, reserved, idLock, retryLock, faults>>

(* updatedAt, as the order of the handoffs of one brief and page.          *)
Now(b, p) == Max({h.at : h \in {g \in Range(handoffs) : g.brief = b /\ g.page = p}} \cup {0}) + 1

Marked(r, state) ==
  handoffs' = [handoffs EXCEPT ![r] = [@ EXCEPT !.state = state,
                                                !.at = Now(handoffs[r].brief, handoffs[r].page)]]

(* beforePersist.                                                          *)
(* Mutant: only the copy that was read is marked.                          *)
MutTake(r) == UNCHANGED handoffs
Take(r) == Marked(r, "consumed")

Consume(c) ==
  /\ At(c, "consume")
  /\ \E r \in me[c].got :
       Take(r) /\ me' = [me EXCEPT ![c] = [@ EXCEPT !.pc = "consumed", !.marked = r]]
  /\ UNCHANGED <<asked, runs, events, briefs, pages, deployments, requested, snapshot,
                 reserved, idLock, retryLock, faults>>

(* Then the event; when that fails rollbackPersist makes the handoff ready *)
(* again, or fails as well.                                                *)
Rollback(r) == Marked(r, "ready") \/ UNCHANGED handoffs

ConsumedEvent(c) ==
  /\ At(c, "consumed")
  /\ LET r == me[c].marked
         left == me[c].got \ {r}
     IN \/ /\ events' = WithEvent(me[c].run, me[c].seq, "handoff.consumed", r)
           /\ me' = [me EXCEPT ![c] = [@ EXCEPT !.seq = me[c].seq + 1, !.got = left,
                                                !.pc = IF left = {} THEN "start" ELSE "consume"]]
           /\ UNCHANGED <<handoffs, faults>>
        \/ /\ faults < MaxFaults /\ faults' = faults + 1
           /\ Rollback(r) /\ Go(c, "fail") /\ events' = events
  /\ UNCHANGED <<asked, runs, briefs, pages, deployments, requested, snapshot,
                 reserved, idLock, retryLock>>

Start(c) ==
  /\ At(c, "start")
  /\ events' = WithEvent(me[c].run, me[c].seq, "run.started", None)
  /\ me' = [me EXCEPT ![c] = [@ EXCEPT !.seq = me[c].seq + 1, !.pc = "runtime"]]
  /\ UNCHANGED <<asked, runs, handoffs, briefs, pages, deployments, requested, snapshot,
                 reserved, idLock, retryLock, faults>>

(* executeRuntimeStep and finalizeResult: the run completes, fails or      *)
(* throws.  good: what it returns passes the checks of its service, or the *)
(* review finds no blocker.                                                *)
Runtime(c) ==
  /\ At(c, "runtime")
  /\ \/ \E g \in (IF me[c].role \in {"builder", "reviewer"} THEN BOOLEAN ELSE {TRUE}) :
          me' = [me EXCEPT ![c] = [@ EXCEPT !.pc = "complete", !.good = g]] /\ faults' = faults
     \/ faults < MaxFaults /\ faults' = faults + 1 /\ Go(c, "fail")
  /\ UNCHANGED <<asked, records, snapshot, reserved, idLock, retryLock>>

Ended(c, state) ==
  LET kept == IF state = "failed" THEN runs[me[c].run]
              ELSE [state |-> state, prompt |-> 0, knewBriefs |-> {}, knewPages |-> {}]
  IN runs' = [runs EXCEPT ![me[c].run] = [kept EXCEPT !.state = state]]

(* The catch block, and a result that reports a failure: record, then      *)
(* event, then the service throws.                                         *)
FailRun(c) ==
  /\ \/ At(c, "fail") /\ Ended(c, "failed") /\ Go(c, "failEvent") /\ events' = events
     \/ /\ At(c, "failEvent") /\ Go(c, "error") /\ runs' = runs
        /\ events' = WithEvent(me[c].run, me[c].seq, "run.failed", None)
  /\ UNCHANGED <<asked, handoffs, briefs, pages, deployments, requested, snapshot,
                 reserved, idLock, retryLock, faults>>

CompleteRun(c) ==
  /\ \/ At(c, "complete") /\ Ended(c, "completed") /\ Go(c, "completeEvent") /\ events' = events
     \/ /\ At(c, "completeEvent") /\ runs' = runs
        /\ events' = WithEvent(me[c].run, me[c].seq, "run.completed", None)
        /\ me' = [me EXCEPT ![c] = [@ EXCEPT !.seq = me[c].seq + 1, !.pc = "output"]]
  /\ UNCHANGED <<asked, handoffs, briefs, pages, deployments, requested, snapshot,
                 reserved, idLock, retryLock, faults>>

-----------------------------------------------------------------------------
(* What the services save after a completed run.                           *)

SaveBrief(c) ==
  /\ At(c, "output") /\ me[c].role = "planner" /\ IdLockFree(c)
  /\ briefs' = Put(briefs, me[c].brief, me[c].run)
  /\ Go(c, "handoff")
  /\ UNCHANGED <<asked, runs, events, handoffs, pages, deployments, requested, snapshot,
                 reserved, idLock, retryLock, faults>>

(* The artifacts are looked at after the run has completed.                *)
SavePage(c) ==
  /\ At(c, "output") /\ me[c].role = "builder" /\ IdLockFree(c)
  /\ \/ ~me[c].good /\ Go(c, "error") /\ pages' = pages
     \/ /\ me[c].good /\ Go(c, "created")
        /\ pages' = Put(pages, me[c].page,
                        [run |-> me[c].run, brief |-> me[c].brief, status |-> "pending", blocker |-> FALSE])
  /\ UNCHANGED <<asked, runs, events, handoffs, briefs, deployments, requested, snapshot,
                 reserved, idLock, retryLock, faults>>

(* saveArtifactWorkspaceCreatedEvent.                                      *)
CreatedEvent(c) ==
  /\ At(c, "created")
  /\ events' = WithEvent(me[c].run, me[c].seq, "artifact_workspace.created", None)
  /\ me' = [me EXCEPT ![c] = [@ EXCEPT !.seq = me[c].seq + 1, !.pc = "handoff"]]
  /\ UNCHANGED <<asked, runs, handoffs, briefs, pages, deployments, requested, snapshot,
                 reserved, idLock, retryLock, faults>>

(* The page record that was read before the run is saved with the findings *)
(* and the verdict; handoff and chain go by the verdict.                   *)
(* Mutant: a finding of severity blocking does not block deployment.       *)
MutVerdict(c) == "passed"
Verdict(c) == IF me[c].good THEN "passed" ELSE "failed"

SaveReview(c) ==
  /\ At(c, "output") /\ me[c].role = "reviewer"
  /\ pages' = [pages EXCEPT ![me[c].page] =
                 [@ EXCEPT !.status = Verdict(c), !.blocker = ~me[c].good]]
  /\ Go(c, "handoff")
  /\ UNCHANGED <<asked, runs, events, handoffs, briefs, deployments, requested, snapshot,
                 reserved, idLock, retryLock, faults>>

(* In the lock the deployer looks again for a deployment before it asks    *)
(* the adapter for one; its save ends the locked section.                  *)
RequestDeployment(c) ==
  /\ At(c, "output") /\ me[c].role = "deployer" /\ IdLockFree(c)
  /\ LET p == me[c].page
     IN \/ /\ p \in deployments /\ Go(c, IF c \in Retries THEN "error" ELSE "done")
           /\ UNCHANGED <<requested, idLock>>
        \/ /\ p \notin deployments /\ Go(c, "saveDeployment")
           /\ requested' = Put(requested, p, IF p \in DOMAIN requested THEN requested[p] + 1 ELSE 1)
           /\ idLock' = [idLock EXCEPT ![Home[c]] = c]
  /\ UNCHANGED <<asked, runs, events, handoffs, briefs, pages, deployments, snapshot,
                 reserved, retryLock, faults>>

SaveDeployment(c) ==
  /\ At(c, "saveDeployment")
  /\ deployments' = deployments \cup {me[c].page}
  /\ idLock' = [idLock EXCEPT ![Home[c]] = None]
  /\ Go(c, "done")
  /\ UNCHANGED <<asked, runs, events, handoffs, briefs, pages, requested, snapshot,
                 reserved, retryLock, faults>>

(* saveHandoffForRun: the handoff, then its event.                         *)
HandoffSequence(c) == me[c].seq

HandoffState(c) == IF me[c].role = "reviewer" /\ Verdict(c) # "passed" THEN "blocked" ELSE "ready"

SaveHandoff(c) ==
  /\ \/ /\ At(c, "handoff") /\ Go(c, "handoffEvent") /\ events' = events
        /\ handoffs' = Put(handoffs, me[c].run,
             [to |-> After[me[c].role], brief |-> me[c].brief, page |-> me[c].page,
              state |-> HandoffState(c), at |-> Now(me[c].brief, me[c].page)])
     \/ /\ At(c, "handoffEvent") /\ Go(c, "shown") /\ handoffs' = handoffs
        /\ events' = WithEvent(me[c].run, HandoffSequence(c), "handoff", me[c].run)
  /\ UNCHANGED <<asked, runs, briefs, pages, deployments, requested, snapshot,
                 reserved, idLock, retryLock, faults>>

-----------------------------------------------------------------------------
(* The caller goes on.  A chain shows the brief, then the page, and calls  *)
(* the next service; the deployer only for a page that passed.             *)
Shown(c) == IF me[c].role = "planner" THEN [brief |-> me[c].brief, page |-> None]
            ELSE [brief |-> me[c].brief, page |-> me[c].page]

NextService(c) ==
  /\ c \in Chains /\ At(c, "shown")
  /\ Release(c)
  /\ snapshot' = IF me[c].role \in {"planner", "builder"} THEN Shown(c) ELSE snapshot
  /\ IF me[c].role = "reviewer" /\ Verdict(c) # "passed" THEN Go(c, "done")
     ELSE me' = [me EXCEPT ![c] = [@ EXCEPT !.pc = "begin", !.role = After[me[c].role]]]
  /\ UNCHANGED <<asked, records, idLock, retryLock, faults>>

(* completePreparedLpTaskPrompt: the snapshot once more, then the message  *)
(* of the assistant; after an error only the message.                      *)
Answer(c) ==
  /\ c \in Chains
  /\ \/ At(c, "done") /\ snapshot' = Shown(c) /\ Go(c, "answered")
     \/ At(c, "error") /\ snapshot' = snapshot /\ Go(c, "failed")
  /\ Release(c)
  /\ UNCHANGED <<asked, records, idLock, retryLock, faults>>

-----------------------------------------------------------------------------
(* Recovery (run-lifecycle.ts, run-recovery.ts).                           *)

Terminals(r) == {e \in EventsOf(r) : e.type \in {"run.completed", "run.failed"}}

(* deriveRunLifecycleView for runs without worker job: the terminal event  *)
(* wins, two that differ are left to people, a blocked handoff to the role *)
(* hides the state of the record.                                          *)
BlockedFor(r) == \E h \in DOMAIN handoffs : handoffs[h].state = "blocked" /\ handoffs[h].to = r.role

OffersRetry(r) ==
  IF Terminals(r) # {} THEN \A e \in Terminals(r) : e.type = "run.failed"
  ELSE ~BlockedFor(r) /\ runs[r].state = "failed"

(* executeRunRecoveryAction, up to the lock of retryRun.                   *)
AskRetry(c) ==
  /\ c \in Retries /\ At(c, "idle")
  /\ \E r \in DOMAIN runs :
       /\ OffersRetry(r)
       /\ me' = [me EXCEPT ![c] = [@ EXCEPT !.pc = "wait", !.target = r, !.role = r.role]]
  /\ UNCHANGED <<asked, records, snapshot, reserved, idLock, retryLock, faults>>

(* What the consumed handoffs of a run say of its brief or page.           *)
Consumed(r) == {handoffs[e.ref] : e \in {x \in EventsOf(r) : x.type = "handoff.consumed"}}

(* nextRetryRunId: the first number that is free, not reserved.            *)
RetryId(r) ==
  LET Numbered(n) == [r EXCEPT !.retries = Append(@, n)]
  IN Numbered(CHOOSE n \in 1..(Cardinality(DOMAIN runs) + 1) :
                /\ Numbered(n) \notin DOMAIN runs
                /\ \A m \in 1..(n - 1) : Numbered(m) \in DOMAIN runs)

(* A failed planner run is repeated for the latest prompt only, when it is *)
(* the last one that failed for it and the snapshot shows nothing newer.   *)
(* The order of completion is that of the ids within one prompt.           *)
NewerShown(r) ==
  \/ snapshot.brief # None /\ snapshot.brief \notin runs[r].knewBriefs
  \/ snapshot.page # None /\ snapshot.page \notin runs[r].knewPages

LastFailedPlanner(r) ==
  \A q \in DOMAIN runs :
    q.role = "planner" /\ runs[q].state = "failed" /\ runs[q].prompt = runs[r].prompt /\ q # r =>
      Len(q.retries) <= Len(r.retries) /\ q.no <= r.no

PlannerRetry(r) ==
  runs[r].prompt = asked /\ LastFailedPlanner(r) /\ ~NewerShown(r)

(* The brief of a builder: that of the handoff it consumed, if the task    *)
(* still shows it without a page, else the one the task shows.             *)
BuilderBriefs(r) ==
  IF snapshot.brief = None \/ snapshot.page # None THEN {}
  ELSE IF Consumed(r) # {} THEN {h.brief : h \in Consumed(r)} \cap {snapshot.brief}
  ELSE IF NewerShown(r) THEN {} ELSE {snapshot.brief}

(* The page of a reviewer or deployer.                                     *)
ReviewedPages(r) ==
  IF Consumed(r) # {} THEN {h.page : h \in Consumed(r)}
  ELSE IF snapshot.page = None \/ snapshot.page \notin runs[r].knewPages THEN {}
  ELSE {snapshot.page}

(* The checks of retryRun: what the retry of r works on, or nothing.       *)
RetryInputs(r) ==
  CASE r.role = "planner" -> IF PlannerRetry(r) THEN {[brief |-> None, page |-> None]} ELSE {}
    [] r.role = "builder" -> {[brief |-> b, page |-> None] : b \in BuilderBriefs(r)}
    [] r.role = "reviewer" ->
         {[brief |-> pages[p].brief, page |-> p] :
            p \in {q \in ReviewedPages(r) : pages[q].status = "pending" /\ ~pages[q].blocker}}
    [] r.role = "deployer" ->
         {[brief |-> pages[p].brief, page |-> p] : p \in ReviewedPages(r) \ deployments}

(* withRepositoryRetryLock.                                                *)
(* Mutant: retries of one process do not wait for each other.              *)
MutRetryTurn(c) == TRUE
RetryTurn(c) == retryLock[Home[c]] = None

Retry(c) ==
  /\ c \in Retries /\ At(c, "wait") /\ RetryTurn(c)
  /\ \/ /\ RetryInputs(me[c].target) = {}
        /\ Go(c, "refused") /\ retryLock' = retryLock
     \/ \E input \in RetryInputs(me[c].target) :
          /\ retryLock' = [retryLock EXCEPT ![Home[c]] = c]
          /\ me' = [me EXCEPT ![c] = [@ EXCEPT !.pc = "begin", !.run = RetryId(me[c].target),
                                              !.brief = input.brief, !.page = input.page]]
  /\ UNCHANGED <<asked, records, snapshot, reserved, idLock, faults>>

(* The end of a retry: a planner or builder retry shows what it made.      *)
EndRetry(c) ==
  /\ c \in Retries /\ me[c].pc \in {"shown", "done", "error"}
  /\ snapshot' = IF At(c, "shown") /\ me[c].role \in {"planner", "builder"} THEN Shown(c) ELSE snapshot
  /\ Go(c, IF At(c, "error") THEN "failed" ELSE "answered")
  /\ Release(c)
  /\ retryLock' = [retryLock EXCEPT ![Home[c]] = None]
  /\ UNCHANGED <<asked, records, idLock, faults>>

-----------------------------------------------------------------------------
(* A save fails.  Within the try block of runAgentStep the run fails, else *)
(* the service throws and the run stays as it is.                          *)
(* Mutant: withRepositoryIdLock releases its lock on success only.         *)
MutIdLockAfterError(c) == idLock
IdLockAfterError(c) == [idLock EXCEPT ![Home[c]] = IF @ = c THEN None ELSE @]

SaveFails(c) ==
  /\ faults < MaxFaults /\ faults' = faults + 1
  /\ \/ me[c].pc \in {"list", "consume", "start"} /\ Go(c, "fail") /\ idLock' = idLock
     \/ /\ me[c].pc \in {"saveRun", "fail", "failEvent", "complete", "completeEvent", "output",
                         "created", "handoff", "handoffEvent", "shown", "saveDeployment"}
        /\ Go(c, "error")
        /\ idLock' = IdLockAfterError(c)
  /\ UNCHANGED <<asked, records, snapshot, reserved, retryLock>>

(* A process stops: its calls, locks and reservations are gone.            *)
Stop(x) ==
  /\ faults < MaxFaults /\ faults' = faults + 1
  /\ me' = [c \in Callers |-> IF Home[c] = x /\ ~At(c, "idle")
                              THEN [me[c] EXCEPT !.pc = "stopped"] ELSE me[c]]
  /\ reserved' = [reserved EXCEPT ![x] = {}]
  /\ idLock' = [idLock EXCEPT ![x] = None] /\ retryLock' = [retryLock EXCEPT ![x] = None]
  /\ UNCHANGED <<asked, records, snapshot>>

Step(c) ==
  \/ Ask(c) \/ BeginPlanner(c) \/ BeginBuilder(c) \/ BeginReviewer(c) \/ BeginDeployer(c)
  \/ SaveRun(c) \/ ListReady(c) \/ Consume(c) \/ ConsumedEvent(c)
  \/ Start(c) \/ Runtime(c) \/ FailRun(c) \/ CompleteRun(c)
  \/ SaveBrief(c) \/ SavePage(c) \/ CreatedEvent(c) \/ SaveReview(c)
  \/ RequestDeployment(c) \/ SaveDeployment(c) \/ SaveHandoff(c)
  \/ NextService(c) \/ Answer(c) \/ Retry(c) \/ EndRetry(c)

Next ==
  \/ \E c \in Callers : Step(c) \/ AskRetry(c) \/ SaveFails(c)
  \/ \E x \in Processes : Stop(x)

Spec == Init /\ [][Next]_vars

(* Every call that has begun goes on: node runs its continuations.         *)
Fairness == \A c \in Callers : WF_vars(~At(c, "idle") /\ Step(c))
FairSpec == Spec /\ Fairness

-----------------------------------------------------------------------------
(* Properties.                                                             *)

(* Locks and reserved ids are those of a process.                          *)
OneProcess == \A c, d \in Callers : Home[c] = Home[d]

(* Nobody retries a run of a task with several prompts.  A retry takes the *)
(* brief or the page that the task shows when its run has consumed no      *)
(* handoff (builderRetryBriefIdForRun), and that may be the one which the  *)
(* chain of another prompt is working on; nothing keeps the two apart.     *)
RetriesApart == asked <= 1 \/ \A c \in Retries : At(c, "idle")

(* A handoff is consumed by one run, in an event that survived.            *)
ConsumedOnce ==
  RetriesApart =>
    \A r \in DOMAIN handoffs :
      Cardinality({e \in events : e.type = "handoff.consumed" /\ e.ref = r}) <= 1

(* A failed builder is repeated with success once: a second retry finds    *)
(* that the task shows a page and is refused.  (When the first fails after *)
(* its page was saved, the brief is built again.)                          *)
BuiltOnce ==
  RetriesApart =>
    \A c, d \in Retries :
      /\ me[c].role = "builder" /\ me[d].role = "builder"
      /\ At(c, "answered") /\ At(d, "answered")
      => c = d

(* No deployment is asked for while the findings of the page have a        *)
(* blocker, or its latest handoff to the deployer is blocked.              *)
NoBlockerDeployed ==
  RetriesApart => \A p \in DOMAIN requested : ~pages[p].blocker /\ MayDeploy(p)

(* A prompt is answered, and a retry returns, unless the process stops:    *)
(* no lock is left behind, however many saves fail.                        *)
Returned(c) == me[c].pc \in {"answered", "failed", "refused", "stopped"}
EveryCallReturns == \A c \in Callers : ~At(c, "idle") ~> Returned(c)

=============================================================================
