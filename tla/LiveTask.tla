------------------------------- MODULE LiveTask -------------------------------
(***************************************************************************)
(* One browser tab of the workbench against the Web server.                *)
(*  - StreamingWorkbench (streaming-workbench.tsx): the composer.  A prompt*)
(*    goes to /api/chat/stream, or to /api/tasks/submit when the page shows*)
(*    an LP task or the stream answers fallback.required, or to the server *)
(*    action of the form when that fallback is not for an LP.              *)
(*  - LiveTaskPanel (live-task-panel.tsx): polls /api/tasks/<id>/state     *)
(*    until the server calls the task terminal, then refreshes once.       *)
(*  - submitTaskPrompt, startLiveTaskPrompt, getLiveTaskState and          *)
(*    getPageState (workbench-store.ts): the server's side of them.        *)
(*                                                                         *)
(* Grain: a request is sent, handled in the steps the live state can tell  *)
(* apart, and answered, each when it pleases; the events of a stream are   *)
(* read one by one; a render is one step.  One project; no task is         *)
(* deleted; the content of messages, runs and pages, the stop button and   *)
(* the selected preview element are left out.  AgentRuns and ChatStream    *)
(* are the detail of a chain and of a chat.                                *)
(***************************************************************************)
EXTENDS Naturals, Sequences, SequencesExt, FiniteSets

CONSTANTS
  MaxPrompts,   \* bound: prompts the user submits
  MaxUpsets,    \* bound: failing runs, lost answers, broken streams, links the
                \* user follows
  MaxBusy,      \* bound: prompts still worked on when the user submits another
  None

ASSUME LiveTaskAssumption ==
  /\ MaxPrompts \in Nat /\ MaxUpsets \in Nat /\ MaxBusy \in Nat
  /\ None \notin Nat

VARIABLES
  kinds,     \* kinds[p]: what classifyTaskPrompt says of the prompt p
  tasks,     \* the tasks of the store, by number
  jobs,      \* jobs[p]: the work on the server for the submitted prompt p
  posts,     \* posts[p]: the submission of p, to the route or as a form
  streams,   \* streams[p]: the chat stream of p and its reader
  composer,  \* the state of StreamingWorkbench
  cookie,    \* the cookie of the current task
  url,       \* the address: the task it names, if any, and whether it asks for none
  wanted,    \* a render of the page is requested
  page,      \* what the last render got: the task and its type
  panel,     \* the state of LiveTaskPanel
  upsets

server == <<kinds, tasks, jobs, upsets>>
vars == <<kinds, tasks, jobs, posts, streams, composer, cookie, url, wanted, page, panel, upsets>>

Prompts == 1..MaxPrompts
Kinds == {"general_chat", "lp_generation", "project_setup"}
Roles == {"planner", "builder", "reviewer", "deployer"}

(* made: how far the page of the job is.                                   *)
NoJob == [pc |-> "none", role |-> None, task |-> None, made |-> "none"]
(* at: the task a request names.  awaited, read: the tab waits for it.     *)
NoPost == [pc |-> "none", native |-> FALSE, at |-> None, awaited |-> FALSE]
NoStream == [pc |-> "none", at |-> None, task |-> None, todo |-> <<>>, read |-> FALSE]
NoPanel == [task |-> None, terminal |-> TRUE, refreshed |-> FALSE,
            poll |-> "off", answer |-> None]

(* createInitialStreamingWorkbenchState and the refs of the component.     *)
(* moved: since the last submission the user followed a link; early: the   *)
(* prompts submitted before the streams of those before them had ended.    *)
FirstComposer ==
  [status |-> "idle", task |-> None, latest |-> 0, pending |-> None, submitted |-> FALSE,
   fallback |-> None, skip |-> FALSE, moved |-> FALSE, early |-> {},
   accepted |-> None]

(* The address without parameters, the one of the new-task entry (as of a  *)
(* project without a task), and the one of a task.                         *)
Home == [task |-> None, new |-> FALSE]
NewTaskEntry == [task |-> None, new |-> TRUE]
AddressOf(t) == [task |-> t, new |-> FALSE]

Init ==
  /\ kinds = <<>> /\ tasks = <<>>
  /\ jobs = [p \in Prompts |-> NoJob]
  /\ posts = [p \in Prompts |-> NoPost]
  /\ streams = [p \in Prompts |-> NoStream]
  /\ composer = FirstComposer
  /\ cookie = None /\ url = Home /\ wanted = FALSE
  /\ page = [task |-> None, type |-> None]
  /\ panel = NoPanel
  /\ upsets = 0

TypeOK ==
  /\ kinds \in Seq(Kinds) /\ Len(kinds) <= MaxPrompts
  /\ \A t \in DOMAIN tasks :
       /\ tasks[t].type \in Kinds /\ tasks[t].last \in {"user", "assistant"}
       /\ tasks[t].shows \in Prompts \cup {None} /\ tasks[t].running \subseteq Prompts
  /\ {cookie, url.task, page.task, panel.task} \subseteq DOMAIN tasks \cup {None}
  /\ composer.status \in {"idle", "streaming", "completed", "error", "fallback_required"}
  /\ panel.poll \in {"off", "due", "got"}

-----------------------------------------------------------------------------
(* The store.  Every change of a task is recent activity and changes its   *)
(* state version: fresh says that no panel has started from that version.  *)
NewTask(type, p) ==
  [type |-> type, said |-> <<p>>, last |-> "user", shows |-> None,
   running |-> {}, broken |-> FALSE, recent |-> TRUE, fresh |-> TRUE]

Changed(t, task) == [tasks EXCEPT ![t] = [task EXCEPT !.fresh = TRUE, !.recent = TRUE]]

Said(task, p) == [task EXCEPT !.said = Append(task.said, p), !.last = "user"]
Starts(task, p) == [task EXCEPT !.running = task.running \cup {p}]
Ends(task, p, ok) == [task EXCEPT !.running = task.running \ {p}, !.broken = task.broken \/ ~ok]

IsLp(t) == t # None /\ tasks[t].type = "lp_generation"

(* What the page that the snapshot of the task names has come to.          *)
Shown(t) == IF tasks[t].shows = None THEN "none" ELSE jobs[tasks[t].shows].made

(* isLiveTaskTerminal.                                                     *)
Terminal(t) ==
  /\ tasks[t].running = {}
  /\ IsLp(t) =>
       CASE Shown(t) = "none" -> tasks[t].broken \/ tasks[t].last = "assistant"
         [] Shown(t) = "pending" -> FALSE
         [] Shown(t) = "passed" -> ~tasks[t].recent
         [] OTHER -> TRUE

(* The transition grace of hasRecentLiveTaskActivity passes, while it is   *)
(* asked for.                                                              *)
Age(t) ==
  /\ tasks[t].recent /\ Shown(t) = "passed"
  /\ tasks' = [tasks EXCEPT ![t].recent = FALSE]
  /\ UNCHANGED <<kinds, jobs, posts, streams, composer, cookie, url, wanted, page, panel, upsets>>

client == <<composer, url, wanted, page, panel>>
transport == <<posts, streams, cookie>>

MayBe(ok) == ok \/ upsets < MaxUpsets
Counted(ok) == upsets' = IF ok THEN upsets ELSE upsets + 1

-----------------------------------------------------------------------------
(* The work for a prompt: runLpAgentChainForTask with its four roles, or   *)
(* answerLpTaskChatInPlace with one run of the assistant.                  *)
Job(p, pc) == jobs[p].pc = pc
Busy(p) == jobs[p].pc \notin {"none", "done"} \/ posts[p].pc \in {"sent", "routing"}
JobGoes(p, pc) == jobs' = [jobs EXCEPT ![p].pc = pc]

StartRun(p) ==
  /\ Job(p, "start")
  /\ tasks' = Changed(jobs[p].task, Starts(tasks[jobs[p].task], p))
  /\ JobGoes(p, "run")
  /\ UNCHANGED <<kinds, upsets, transport, client>>

EndRun(p, ok) ==
  /\ jobs[p].pc \in {"run", "suggesting"} /\ MayBe(ok)
  /\ tasks' = Changed(jobs[p].task, Ends(tasks[jobs[p].task], p, ok))
  /\ JobGoes(p, IF Job(p, "suggesting") THEN "cache"
                ELSE IF ok /\ jobs[p].role \in Roles THEN "save" ELSE "tell")
  /\ Counted(ok)
  /\ UNCHANGED <<kinds, transport, client>>

(* What the services and saveTaskSnapshot save after a run, up to the      *)
(* start of the next one.                                                  *)
Made == [planner |-> {"none"}, builder |-> {"pending"}, reviewer |-> {"passed", "failed"},
         deployer |-> {"deployed"}]

Following == [planner |-> "builder", builder |-> "reviewer", reviewer |-> "deployer"]

SaveRun(p, made) ==
  LET job == jobs[p]  t == job.task  last == made \in {"failed", "deployed"}
      saved == [tasks[t] EXCEPT !.shows = IF job.role = "planner" THEN None ELSE p]
  IN
  /\ Job(p, "save") /\ made \in Made[job.role]
  /\ tasks' = Changed(t, IF last THEN saved ELSE Starts(saved, p))
  /\ jobs' = [jobs EXCEPT ![p] =
       IF last THEN [job EXCEPT !.made = made, !.pc = "tell"]
       ELSE [job EXCEPT !.made = made, !.pc = "run", !.role = Following[job.role]]]
  /\ UNCHANGED <<kinds, upsets, transport, client>>

(* The message of the assistant - the answer, the summary or the failure - *)
(* and the start of the run of generateTaskFollowupSuggestions.            *)
Tell(p) ==
  LET t == jobs[p].task IN
  /\ Job(p, "tell")
  /\ tasks' = Changed(t, Starts([tasks[t] EXCEPT !.last = "assistant"], p))
  /\ JobGoes(p, "suggesting")
  /\ UNCHANGED <<kinds, upsets, transport, client>>

(* taskFollowupSuggestionCache.set: the suggestions become visible.        *)
CacheSuggestions(p) ==
  /\ Job(p, "cache")
  /\ tasks' = Changed(jobs[p].task, tasks[jobs[p].task])
  /\ JobGoes(p, "done")
  /\ UNCHANGED <<kinds, upsets, transport, client>>

JobStep(p) ==
  \/ StartRun(p) \/ \E ok \in BOOLEAN : EndRun(p, ok)
  \/ \E made \in {"none", "pending", "passed", "failed", "deployed"} : SaveRun(p, made)
  \/ Tell(p) \/ CacheSuggestions(p)

-----------------------------------------------------------------------------
(* /api/tasks/submit and the action of the form on the server.             *)

(* A request that names no task means the one of the cookie                *)
(* (getStringOrNullOrSessionValue, submitPromptAction).                    *)
Requested(p) == IF posts[p].at # None THEN posts[p].at ELSE cookie

PostGoes(p, pc) == posts' = [posts EXCEPT ![p].pc = pc]

(* A prompt for an LP task that exists starts the run of                   *)
(* routeTaskInputIntent.                                                   *)
StartRouting(p) ==
  LET t == Requested(p) IN
  /\ posts[p].pc = "sent" /\ IsLp(t)
  /\ tasks' = Changed(t, Starts(tasks[t], p))
  /\ posts' = [posts EXCEPT ![p] = [@ EXCEPT !.pc = "routing", !.at = t]]
  /\ UNCHANGED <<kinds, jobs, streams, cookie, upsets, client>>

(* normalizeTaskInputIntentOutput: what is not an intent asks back.        *)
Intents(ok) == IF ok THEN {"chat_in_task", "agent_continue", "agent_new_task", "clarify"}
               ELSE {"clarify"}

(* The first step of the work: the prompt becomes a message of the task    *)
(* t.  The route answers for a chain at once and for the others when they  *)
(* are done; the form always waits.                                        *)
Begin(p, t, pc, role) ==
  /\ jobs' = [jobs EXCEPT ![p] = [NoJob EXCEPT !.pc = pc, !.role = role, !.task = t]]
  /\ PostGoes(p, IF role = "planner" /\ ~posts[p].native THEN "ready" ELSE "working")

(* prepareLpTaskPrompt for what is no LP task yet: a chat becomes one, or  *)
(* there is a new task.                                                    *)
Prepare(p, t) ==
  IF t # None /\ tasks[t].type = "general_chat"
  THEN /\ tasks' = Changed(t, [Said(tasks[t], p) EXCEPT !.type = "lp_generation"])
       /\ Begin(p, t, "start", "planner")
  ELSE /\ tasks' = Append(tasks, NewTask("lp_generation", p))
       /\ Begin(p, Len(tasks) + 1, "start", "planner")

(* The run of the router ends and its intent is followed.                  *)
Route(p, ok, intent) ==
  LET t == posts[p].at  ended == Ends(tasks[t], p, ok) IN
  /\ posts[p].pc = "routing" /\ MayBe(ok) /\ intent \in Intents(ok) /\ Counted(ok)
  /\ CASE intent = "chat_in_task" ->
            tasks' = Changed(t, Said(ended, p)) /\ Begin(p, t, "start", "assistant")
       [] intent = "clarify" ->
            tasks' = Changed(t, Said(ended, p)) /\ Begin(p, t, "tell", "assistant")
       [] intent = "agent_continue" ->
            tasks' = Changed(t, Said(ended, p)) /\ Begin(p, t, "start", "planner")
       [] OTHER ->
            /\ tasks' = Append(Changed(t, ended), NewTask("lp_generation", p))
            /\ Begin(p, Len(tasks) + 1, "start", "planner")
  /\ UNCHANGED <<kinds, streams, cookie, client>>

(* A prompt for no LP task is what classifyTaskPrompt says; the form keeps *)
(* another one with a ready answer (saveTaskThread).                       *)
Classify(p) ==
  LET t == Requested(p) IN
  /\ posts[p].pc = "sent" /\ ~IsLp(t)
  /\ IF kinds[p] = "lp_generation" THEN Prepare(p, t)
     ELSE IF ~posts[p].native THEN PostGoes(p, "refused") /\ UNCHANGED <<tasks, jobs>>
     ELSE /\ tasks' = Append(tasks, [NewTask(kinds[p], p) EXCEPT !.last = "assistant"])
          /\ jobs' = [jobs EXCEPT ![p] = [NoJob EXCEPT !.pc = "done", !.task = Len(tasks) + 1]]
          /\ PostGoes(p, "working")
  /\ UNCHANGED <<kinds, streams, cookie, upsets, client>>

FinishWork(p) ==
  /\ posts[p].pc = "working" /\ Job(p, "done")
  /\ PostGoes(p, "ready")
  /\ UNCHANGED <<kinds, tasks, jobs, streams, cookie, upsets, client>>

PostStep(p) ==
  \/ StartRouting(p) \/ Classify(p) \/ FinishWork(p)
  \/ \E ok \in BOOLEAN, i \in Intents(TRUE) : Route(p, ok, i)

-----------------------------------------------------------------------------
(* /api/chat/stream on the server: the events it sends.                    *)
Event(type, t) == [type |-> type, task |-> t]
Send(p, pc, t, events) ==
  streams' = [streams EXCEPT ![p] = [@ EXCEPT !.pc = pc, !.task = t, !.todo = streams[p].todo \o events]]

(* Mutant: the message is saved before the prompt is classified.           *)
MutOpenStream(p, ok) ==
  LET t == streams[p].at
      new == IF t = None THEN Len(tasks) + 1 ELSE t IN
  /\ streams[p].pc = "sent" /\ MayBe(ok) /\ Counted(ok)
  /\ tasks' = IF t = None THEN Append(tasks, NewTask("general_chat", p))
              ELSE Changed(t, Said(tasks[t], p))
  /\ IF kinds[p] # "general_chat"
     THEN ok /\ Send(p, "closed", None, <<Event("fallback", None)>>) /\ UNCHANGED cookie
     ELSE /\ cookie' = new
          /\ Send(p, IF ok THEN "open" ELSE "closed", new,
                  <<Event("created", new), Event(IF ok THEN "running" ELSE "error", new)>>)
  /\ UNCHANGED <<kinds, jobs, posts, client>>

(* startStreamingChatPrompt: not a chat, a task that is no chat, a run     *)
(* that cannot start, or a message in the task and an empty answer.        *)
OpenStream(p, ok) ==
  LET t == streams[p].at IN
  /\ streams[p].pc = "sent" /\ MayBe(ok) /\ Counted(ok)
  /\ IF kinds[p] # "general_chat"
     THEN ok /\ Send(p, "closed", None, <<Event("fallback", None)>>) /\ UNCHANGED <<tasks, cookie>>
     ELSE IF t # None /\ tasks[t].type # "general_chat"
     THEN ok /\ Send(p, "closed", None, <<Event("error", None)>>) /\ UNCHANGED <<tasks, cookie>>
     ELSE LET in == IF t = None THEN Len(tasks) + 1 ELSE t IN
       /\ LET last == IF ok THEN "assistant" ELSE "user" IN
          tasks' = IF t = None THEN Append(tasks, [NewTask("general_chat", p) EXCEPT !.last = last])
                   ELSE Changed(t, [Said(tasks[t], p) EXCEPT !.last = last])
       /\ cookie' = in
       /\ IF ok THEN Send(p, "open", in, <<Event("created", in), Event("running", in)>>)
                ELSE Send(p, "closed", in, <<Event("created", in), Event("error", None)>>)
  /\ UNCHANGED <<kinds, jobs, posts, client>>

(* The answer that stays empty is taken away.                              *)
Abandoned(p) ==
  LET t == streams[p].task IN
  Changed(t, IF Last(tasks[t].said) = p THEN [tasks[t] EXCEPT !.last = "user"] ELSE tasks[t])

CloseStream(p, ok) ==
  LET t == streams[p].task IN
  /\ streams[p].pc = "open" /\ MayBe(ok) /\ Counted(ok)
  /\ IF ok THEN /\ Send(p, "closed", t, <<Event("delta", t), Event("completed", t), Event("completed", t)>>)
                /\ tasks' = Changed(t, tasks[t])
           ELSE /\ Send(p, "closed", t, <<Event("failed", t), Event("error", None)>>)
                /\ tasks' = Abandoned(p)
  /\ UNCHANGED <<kinds, jobs, posts, cookie, client>>

StreamStep(p) == \E ok \in BOOLEAN : OpenStream(p, ok) \/ CloseStream(p, ok)

-----------------------------------------------------------------------------
(* The composer.                                                           *)

(* getPromptSubmissionControlState: may the user type?                     *)
Usable == composer.status # "streaming" /\ composer.pending = None /\ composer.fallback = None

(* The page's task as streamingTaskId and as liveTaskId.                   *)
ChatTask == IF page.type = "general_chat" THEN page.task ELSE None
LiveTaskShown == IF page.type = "lp_generation" THEN page.task ELSE None

Post(p, native, at) ==
  posts' = [posts EXCEPT ![p] = [NoPost EXCEPT !.pc = "sent", !.native = native, !.at = at,
                                               !.awaited = TRUE]]

(* startLiveTaskSubmitHandoff.                                             *)
Handoff(c) == [c EXCEPT !.submitted = TRUE, !.pending = c.latest]

(* submitStreamingPrompt.                                                  *)
Submit(kind) ==
  LET p == Len(kinds) + 1
      c == [FirstComposer EXCEPT !.status = "streaming", !.latest = p,
              !.early = composer.early \cup {q \in {p} : \E r \in Prompts : streams[r].read}]
  IN
  /\ p <= MaxPrompts /\ Usable /\ Cardinality({q \in Prompts : Busy(q)}) <= MaxBusy
  /\ kinds' = Append(kinds, kind)
  /\ IF LiveTaskShown # None
     THEN Post(p, FALSE, LiveTaskShown) /\ composer' = Handoff(c) /\ UNCHANGED streams
     ELSE /\ streams' = [streams EXCEPT ![p] =
               [NoStream EXCEPT !.pc = "sent", !.at = ChatTask, !.read = TRUE]]
          /\ composer' = c /\ UNCHANGED posts
  /\ UNCHANGED <<tasks, jobs, cookie, url, wanted, page, panel, upsets>>

(* reduceStreamingWorkbenchEvent.                                          *)
StatusAfter == [created |-> "streaming", running |-> "streaming", delta |-> "streaming",
                completed |-> "completed", failed |-> "error", error |-> "error",
                fallback |-> "fallback_required"]

Reduced(e) == [composer EXCEPT !.status = StatusAfter[e.type],
                               !.task = IF e.task # None THEN e.task ELSE composer.task]

(* dispatchEvent with startLiveTaskFallbackHandoff: the prompt that was    *)
(* submitted last goes to the live task, or to the form.                   *)
ReadEvent(p) ==
  /\ streams[p].read /\ streams[p].todo # <<>>
  /\ streams' = [streams EXCEPT ![p].todo = Tail(@)]
  /\ LET e == Head(streams[p].todo)  c == Reduced(e) IN
     IF e.type # "fallback" \/ c.submitted
     THEN composer' = c /\ UNCHANGED posts
     ELSE IF kinds[p] = "lp_generation"
     THEN composer' = Handoff(c) /\ Post(c.latest, FALSE, streams[p].at)
     ELSE /\ composer' = [c EXCEPT !.submitted = TRUE, !.skip = TRUE, !.fallback = c.latest]
          /\ UNCHANGED posts
  /\ UNCHANGED <<server, cookie, url, wanted, page, panel>>

(* requestSubmit after the commit of the hidden prompt, which handleSubmit *)
(* lets through.                                                           *)
SubmitForm ==
  /\ composer.fallback # None /\ composer.skip
  /\ composer' = [composer EXCEPT !.skip = FALSE]
  /\ Post(composer.fallback, TRUE, ChatTask)
  /\ UNCHANGED <<server, streams, cookie, url, wanted, page, panel>>

(* Mutant: the task that was on the page goes before that of the answer.   *)
MutGoTo(candidates) ==
  LET found == {i \in DOMAIN candidates : candidates[i] # None} IN
  /\ url' = IF found = {} THEN NewTaskEntry ELSE AddressOf(candidates[Max(found)])
  /\ wanted' = TRUE

(* replaceWithTerminalTaskRoute and router.refresh: the first of these     *)
(* tasks that there is.                                                    *)
GoTo(candidates) ==
  LET found == {i \in DOMAIN candidates : candidates[i] # None} IN
  /\ url' = IF found = {} THEN NewTaskEntry ELSE AddressOf(candidates[Min(found)])
  /\ wanted' = TRUE

(* refreshAndClearTerminalState.                                           *)
EndReading(p, c) ==
  /\ streams' = [streams EXCEPT ![p] = [NoStream EXCEPT !.pc = "closed"]]
  /\ composer' = c
  /\ IF c.status \in {"completed", "error"} THEN GoTo(<<c.task, streams[p].at>>)
     ELSE UNCHANGED <<url, wanted>>

ReadEnd(p) ==
  /\ streams[p].read /\ streams[p].pc = "closed" /\ streams[p].todo = <<>>
  /\ EndReading(p, composer)
  /\ UNCHANGED <<server, posts, cookie, page, panel>>

(* The connection breaks: the request never arrives, or the server hears   *)
(* of it and abandons the answer.                                          *)
Break(p) ==
  /\ streams[p].read /\ upsets < MaxUpsets /\ upsets' = upsets + 1
  /\ EndReading(p, [composer EXCEPT !.status = "error"])
  /\ tasks' = IF streams[p].pc = "open" THEN Abandoned(p) ELSE tasks
  /\ UNCHANGED <<kinds, jobs, posts, cookie, page, panel>>

(* completeLiveTaskFallbackHandoff: an answer of another token is ignored. *)
Completed(p, ok) ==
  IF composer.pending # p THEN composer
  ELSE IF ok THEN [FirstComposer EXCEPT !.submitted = TRUE, !.latest = composer.latest,
                                        !.moved = composer.moved, !.early = composer.early,
                                        !.accepted = p]
  ELSE [composer EXCEPT !.status = "error", !.pending = None]

(* completeLiveTaskFromFallback, and the redirect of the action.           *)
Accepted(p) ==
  LET t == jobs[p].task IN
  /\ posts[p].awaited /\ posts[p].pc = "ready"
  /\ posts' = [posts EXCEPT ![p] = [NoPost EXCEPT !.pc = "ready"]] /\ cookie' = t
  /\ IF posts[p].native
     THEN url' = Home /\ wanted' = TRUE /\ UNCHANGED composer
     ELSE /\ composer' = Completed(p, TRUE)
          /\ IF composer.pending = p THEN GoTo(<<t, composer.task, posts[p].at>>)
             ELSE UNCHANGED <<url, wanted>>
  /\ UNCHANGED <<server, streams, page, panel>>

(* A refusal, or an answer that is lost while the server goes on.          *)
Refused(p) ==
  /\ posts[p].awaited /\ ~posts[p].native
  /\ IF posts[p].pc = "refused" THEN UNCHANGED upsets
     ELSE upsets < MaxUpsets /\ upsets' = upsets + 1
  /\ posts' = [posts EXCEPT ![p].awaited = FALSE]
  /\ composer' = Completed(p, FALSE)
  /\ UNCHANGED <<kinds, tasks, jobs, streams, cookie, url, wanted, page, panel>>

(* The effect that clears a completed turn once the page shows its task;   *)
(* when React runs it depends on how it batches the updates.               *)
ClearTurn ==
  /\ composer.status = "completed" /\ composer.task # None /\ page.task = composer.task
  /\ composer' = [composer EXCEPT !.status = "idle", !.task = None]
  /\ UNCHANGED <<server, transport, url, wanted, page, panel>>

-----------------------------------------------------------------------------
(* The page and the panel.                                                 *)

(* A link to a task, or to the new-task entry.                             *)
Navigate(to) ==
  /\ upsets < MaxUpsets /\ upsets' = upsets + 1
  /\ to # url
  /\ url' = to /\ wanted' = TRUE
  /\ composer' = [composer EXCEPT !.moved = TRUE]
  /\ UNCHANGED <<kinds, tasks, jobs, transport, page, panel>>

(* HomePage: which task the page is about.                                 *)
TaskOfUrl == IF url.new THEN None ELSE IF url.task # None THEN url.task ELSE cookie

(* The effect of LiveTaskPanel: it starts again for another task or        *)
(* another version of its state, and polls at once unless that is          *)
(* terminal.                                                               *)
Mounted(t) ==
  [NoPanel EXCEPT !.task = t, !.terminal = Terminal(t), !.refreshed = Terminal(t),
                  !.poll = IF Terminal(t) THEN "off" ELSE "due"]

Render ==
  LET t == TaskOfUrl IN
  /\ wanted /\ wanted' = FALSE
  /\ page' = [task |-> t, type |-> IF t = None THEN None ELSE tasks[t].type]
  /\ IF IsLp(t) THEN /\ panel' = IF panel.task = t /\ ~tasks[t].fresh THEN panel ELSE Mounted(t)
                     /\ tasks' = [tasks EXCEPT ![t].fresh = FALSE]
     ELSE panel' = NoPanel /\ UNCHANGED tasks
  /\ UNCHANGED <<kinds, jobs, upsets, transport, composer, url>>

(* getLiveTaskState for a poll, whose answer may be lost.                  *)
ReadLiveState(ok) ==
  /\ panel.poll = "due" /\ MayBe(ok) /\ Counted(ok)
  /\ panel' = [panel EXCEPT !.poll = "got",
                            !.answer = IF ok THEN [terminal |-> Terminal(panel.task)] ELSE None]
  /\ UNCHANGED <<kinds, tasks, jobs, transport, composer, url, wanted, page>>

(* shouldPollLiveTask, getNextPollMs and getLiveTaskFailureRetryMs: the    *)
(* next poll is due after a while, or never.                               *)
NextPoll(terminal) == IF terminal THEN "off" ELSE "due"

(* Mutant: a poll whose answer is lost is not repeated.                    *)
MutRetryPoll(terminal) == "off"

RetryPoll(terminal) == IF terminal THEN "off" ELSE "due"

(* applyPayload and dispatchRefreshError.                                  *)
ApplyPoll ==
  /\ panel.poll = "got"
  /\ IF panel.answer = None
     THEN panel' = [panel EXCEPT !.poll = RetryPoll(panel.terminal)] /\ UNCHANGED wanted
     ELSE LET terminal == panel.answer.terminal IN
       /\ panel' = [panel EXCEPT !.terminal = terminal, !.answer = None,
                                 !.refreshed = panel.refreshed \/ terminal,
                                 !.poll = NextPoll(terminal)]
       /\ wanted' = (wanted \/ (terminal /\ ~panel.refreshed))
  /\ UNCHANGED <<server, transport, composer, url, page>>

-----------------------------------------------------------------------------
PanelStep == \/ \E ok \in BOOLEAN : ReadLiveState(ok)
             \/ ApplyPoll

Next ==
  \/ \E p \in Prompts :
       \/ JobStep(p) \/ PostStep(p) \/ StreamStep(p)
       \/ ReadEvent(p) \/ ReadEnd(p) \/ Break(p) \/ Accepted(p) \/ Refused(p)
  \/ \E kind \in Kinds : Submit(kind)
  \/ \E t \in DOMAIN tasks : Age(t)
  \/ \E to \in {AddressOf(t) : t \in DOMAIN tasks} \cup {NewTaskEntry} : Navigate(to)
  \/ SubmitForm \/ ClearTurn \/ Render \/ PanelStep

Spec == Init /\ [][Next]_vars

(* The server, the network and React go on; the user need not.             *)
Fairness ==
  /\ \A p \in Prompts :
       /\ WF_vars(JobStep(p)) /\ WF_vars(PostStep(p)) /\ WF_vars(StreamStep(p))
       /\ WF_vars(ReadEvent(p) \/ ReadEnd(p))
       /\ WF_vars(Accepted(p) \/ Refused(p))
       /\ WF_vars(\E t \in DOMAIN tasks : t = p /\ Age(t))
  /\ WF_vars(SubmitForm) /\ WF_vars(Render) /\ WF_vars(PanelStep)

FairSpec == Spec /\ Fairness

-----------------------------------------------------------------------------
(* A prompt is kept as a message at most once, whichever of the three ways *)
(* to the server it took and whatever was lost (the handoff state of       *)
(* streaming-workbench.tsx, the order of startStreamingChatPrompt), unless *)
(* it was submitted before the streams before it had ended: a fallback of  *)
(* one of them submits it again.                                           *)
PromptOnce ==
  \A p \in Prompts \ composer.early, s, t \in DOMAIN tasks :
    \A i \in DOMAIN tasks[s].said, j \in DOMAIN tasks[t].said :
      tasks[s].said[i] = p /\ tasks[t].said[j] = p => s = t /\ i = j

(* Once everything is read and rendered, the page shows the task that the  *)
(* last prompt went to, unless the user followed a link since, is told of  *)
(* an error, or submitted it before the streams before it had ended        *)
(* (replaceWithTerminalTaskRoute, HomePage).                               *)
LandsOnTask ==
  (~wanted /\ ~composer.moved /\ composer.latest \notin composer.early /\ \A p \in Prompts : ~streams[p].read) =>
    /\ composer.accepted # None /\ composer.status = "idle" => page.task = jobs[composer.accepted].task
    /\ composer.status = "completed" => page.task = composer.task

(* The tab never hangs: again and again the user may type, unless a prompt *)
(* went to the form, and the panel knows an end of its task, unless the    *)
(* review of its page failed (StreamingWorkbench, LiveTaskPanel,           *)
(* isLiveTaskTerminal).                                                    *)
TabSettles ==
  /\ []<>(Usable \/ composer.fallback # None)
  /\ []<>(panel.task = None \/ panel.terminal \/ Shown(panel.task) = "pending")

=============================================================================
