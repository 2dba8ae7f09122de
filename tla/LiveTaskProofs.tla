--------------------------- MODULE LiveTaskProofs ---------------------------
(***************************************************************************)
(* For any number of prompts and of upsets: a prompt is kept once, and     *)
(* the page ends on the task that the last prompt went to.                 *)
(*                                                                         *)
(* First what a change of a task, a stream or the composer does to the     *)
(* types and to the messages that are kept; then the kinds of steps (Quiet,*)
(* ServerSteps, TabSteps) with what each may change; then one lemma for    *)
(* each part of the invariant.                                             *)
(***************************************************************************)
EXTENDS LiveTask, TLAPS

(* The types of the variables that requests, streams and answers go        *)
(* through.                                                                *)
Task ==
  [type : Kinds, said : Seq(Prompts), last : {"user", "assistant"},
   shows : Prompts \cup {None}, running : SUBSET Prompts,
   broken : BOOLEAN, recent : BOOLEAN, fresh : BOOLEAN]
JobRecord ==
  [pc : {"none", "start", "run", "save", "tell", "suggesting", "cache", "done"},
   role : Roles \cup {"assistant", None}, task : Nat \cup {None},
   made : {"none", "pending", "passed", "failed", "deployed"}]
PostRecord ==
  [pc : {"none", "sent", "routing", "working", "ready", "refused"}, native : BOOLEAN,
   at : Nat \cup {None}, awaited : BOOLEAN]
EventRecord == [type : DOMAIN StatusAfter, task : Nat \cup {None}]
StreamRecord ==
  [pc : {"none", "sent", "open", "closed"}, at : Nat \cup {None}, task : Nat \cup {None},
   todo : Seq(EventRecord), read : BOOLEAN]
ComposerRecord ==
  [status : {"idle", "streaming", "completed", "error", "fallback_required"},
   task : Nat \cup {None}, latest : Nat, pending : Nat \cup {None}, submitted : BOOLEAN,
   fallback : Nat \cup {None}, skip : BOOLEAN, moved : BOOLEAN, early : SUBSET Nat,
   accepted : Nat \cup {None}]
Addresses == [task : Nat \cup {None}, new : BOOLEAN]

TypeInv ==
  /\ kinds \in Seq(Kinds) /\ Len(kinds) <= MaxPrompts
  /\ tasks \in Seq(Task)
  /\ jobs \in [Prompts -> JobRecord]
  /\ \A p \in Prompts : jobs[p].pc = "save" => jobs[p].role \in Roles
  /\ posts \in [Prompts -> PostRecord]
  /\ streams \in [Prompts -> StreamRecord]
  /\ composer \in ComposerRecord
  /\ cookie \in Nat \cup {None}
  /\ url \in Addresses /\ (url.new => url.task = None)
  /\ wanted \in BOOLEAN
  /\ page.task \in Nat \cup {None}

-----------------------------------------------------------------------------
(* The prompt submitted last is the one of the composer; unless it was     *)
(* early, no stream but its own is read.                                   *)
LatestInv ==
  /\ composer.latest = Len(kinds)
  /\ composer.early \subseteq 1..Len(kinds)
  /\ composer.latest \notin composer.early =>
       \A r \in Prompts : streams[r].read => r = composer.latest
  /\ composer.fallback # None => composer.fallback = composer.latest

(* A stream that waits to be opened has no events, and a fallback is the   *)
(* only event of its stream.                                               *)
EventsInv ==
  \A p \in Prompts :
    /\ streams[p].pc \in {"none", "sent"} => streams[p].todo = <<>>
    /\ \A i \in DOMAIN streams[p].todo :
         /\ streams[p].todo[i].type = "fallback" =>
              streams[p].pc = "closed" /\ Len(streams[p].todo) = 1
         /\ streams[p].todo[i].type = "completed" => streams[p].todo[i].task # None
    /\ streams[p].pc = "open" => streams[p].task # None

(* The ways on which a prompt is to the store: its stream will be opened,  *)
(* the stream tells the tab to take another one, the form will be          *)
(* submitted, the request is on the server, it is kept at a place.         *)
Streaming(p) == streams[p].pc = "sent"
Returning(p) == \E i \in DOMAIN streams[p].todo : streams[p].todo[i].type = "fallback"
Waiting(p) == composer.fallback = p /\ composer.skip
Posted(p) == posts[p].pc \in {"sent", "routing"}
KeptAt(t, i, p) == t \in DOMAIN tasks /\ i \in DOMAIN tasks[t].said /\ tasks[t].said[i] = p
Kept(p) == \E t, i \in Nat : KeptAt(t, i, p)

(* A prompt is on one of them, or on none.                                 *)
OneWay(p) ==
  /\ Kept(p) => ~Posted(p) /\ ~Waiting(p) /\ ~Returning(p) /\ ~Streaming(p)
  /\ Posted(p) => ~Waiting(p) /\ ~Returning(p) /\ ~Streaming(p)
  /\ Waiting(p) => ~Returning(p) /\ ~Streaming(p)
  /\ ~Returning(p) \/ ~Streaming(p)
  /\ \A s, t, i, j \in Nat : KeptAt(s, i, p) /\ KeptAt(t, j, p) => s = t /\ i = j

WaysInv ==
  /\ \A p \in Prompts \ composer.early : OneWay(p)
  /\ \A p \in Prompts : p > Len(kinds) =>
       ~Kept(p) /\ ~Posted(p) /\ streams[p] = NoStream

-----------------------------------------------------------------------------
(* Since its submission the prompt is undisturbed: no link was followed,   *)
(* and no older stream is read.                                            *)
Undisturbed == ~composer.moved /\ composer.latest \notin composer.early

(* A prompt is handed over once: to a request, to the form, or accepted.   *)
HandoffInv ==
  /\ composer.pending # None => composer.pending = composer.latest /\ composer.fallback = None
  /\ ~composer.submitted => composer.pending = None /\ composer.fallback = None
  /\ composer.accepted # None =>
       composer.submitted /\ composer.pending = None /\ composer.fallback = None
  /\ composer.latest \notin composer.early /\ composer.submitted =>
       \A p \in Prompts : p = composer.latest =>
         streams[p].pc \in {"none", "closed"} /\ streams[p].todo = <<>>
  /\ \A p \in Prompts : posts[p].native /\ posts[p].awaited => composer.fallback # None
  /\ composer.latest \notin composer.early /\ composer.fallback # None =>
       composer.status \in {"fallback_required", "error"}

(* What is worked on has a task.                                           *)
WorkInv ==
  \A p \in Prompts :
    /\ posts[p].pc = "routing" => posts[p].at # None
    /\ posts[p].pc \in {"working", "ready"} => jobs[p].task # None

(* The page is that of the address, and the address that of the answer.    *)
AddressInv ==
  /\ url.task # None /\ ~wanted => page.task = url.task
  /\ composer.status = "completed" =>
       /\ composer.task # None
       /\ \/ \E p \in Prompts : streams[p].read
          \/ Undisturbed => url = AddressOf(composer.task)
  /\ composer.accepted # None /\ Undisturbed =>
       /\ composer.accepted = composer.latest
       /\ composer.accepted \in Prompts
       /\ posts[composer.accepted].pc = "ready"
       /\ composer.status \in {"idle", "error"}
       /\ composer.status = "idle" => url = AddressOf(jobs[composer.accepted].task)

IInv ==
  /\ TypeInv /\ WorkInv /\ EventsInv /\ LatestInv
  /\ WaysInv /\ HandoffInv /\ AddressInv

-----------------------------------------------------------------------------
(* What Append, Tail and EXCEPT do to a sequence.                          *)
LEMMA Elements ==
  ASSUME NEW S, NEW s \in Seq(S)
  PROVE  /\ Len(s) \in Nat /\ DOMAIN s = 1..Len(s) /\ DOMAIN s \subseteq Nat
         /\ \A i \in DOMAIN s : s[i] \in S
  OBVIOUS

LEMMA Appended ==
  ASSUME NEW S, NEW s \in Seq(S), NEW x \in S
  PROVE  /\ Append(s, x) \in Seq(S) /\ Len(s) + 1 \in Nat
         /\ \A i \in DOMAIN Append(s, x) :
              \/ i = Len(s) + 1 /\ Append(s, x)[i] = x
              \/ i \in DOMAIN s /\ Append(s, x)[i] = s[i]
         /\ DOMAIN s \subseteq DOMAIN Append(s, x)
  OBVIOUS

LEMMA Replaced ==
  ASSUME NEW S, NEW s \in Seq(S), NEW i, NEW x, i \in DOMAIN s => x \in S
  PROVE  /\ [s EXCEPT ![i] = x] \in Seq(S) /\ DOMAIN [s EXCEPT ![i] = x] = DOMAIN s
         /\ i \in DOMAIN s => [s EXCEPT ![i] = x][i] = x
         /\ \A j \in DOMAIN s : j # i => [s EXCEPT ![i] = x][j] = s[j]
  <1> DEFINE r == [s EXCEPT ![i] = x]
  <1>1. DOMAIN r = DOMAIN s /\ DOMAIN s = 1..Len(s) /\ Len(s) \in Nat
    OBVIOUS
  <1>2. /\ i \in DOMAIN s => r[i] = x
        /\ \A j \in DOMAIN s : j # i => r[j] = s[j]
    OBVIOUS
  <1>3. \A j \in 1..Len(s) : r[j] \in S
    BY <1>1, <1>2, Elements
  <1>4. r \in [1..Len(s) -> S]
    BY <1>1, <1>3
  <1> HIDE DEF r
  <1>5. r \in Seq(S)
    BY <1>1, <1>4
  <1> QED BY <1>1, <1>2, <1>5 DEF r

(* Types.  A task stays one when it is changed.                            *)
LEMMA Rows ==
  ASSUME NEW task \in Task, NEW p \in Prompts, NEW ok \in BOOLEAN
  PROVE  /\ Said(task, p) \in Task /\ Said(task, p).said = Append(task.said, p)
         /\ Starts(task, p) \in Task /\ Starts(task, p).said = task.said
         /\ Ends(task, p, ok) \in Task /\ Ends(task, p, ok).said = task.said
  <1>1. Said(task, p) \in Task /\ Said(task, p).said = Append(task.said, p)
    <2>1. Append(task.said, p) \in Seq(Prompts)
      BY DEF Task
    <2> DEFINE longer == Append(task.said, p)
    <2>2. [task EXCEPT !.said = longer, !.last = "user"] \in Task
      <3> HIDE DEF longer
      <3> QED BY <2>1 DEF Task, longer
    <2>3. [task EXCEPT !.said = longer, !.last = "user"].said = longer
      <3> HIDE DEF longer
      <3> QED BY DEF Task
    <2> QED BY <2>2, <2>3 DEF Said
  <1>2. Starts(task, p) \in Task /\ Starts(task, p).said = task.said
    BY DEF Task, Starts
  <1>3. Ends(task, p, ok) \in Task /\ Ends(task, p, ok).said = task.said
    BY DEF Task, Ends
  <1> QED BY <1>1, <1>2, <1>3

LEMMA Fields ==
  ASSUME NEW task \in Task
  PROVE  /\ \A last \in {"user", "assistant"} :
              [task EXCEPT !.last = last] \in Task /\ [task EXCEPT !.last = last].said = task.said
         /\ \A shows \in Prompts \cup {None} :
              [task EXCEPT !.shows = shows] \in Task /\ [task EXCEPT !.shows = shows].said = task.said
         /\ \A b \in BOOLEAN :
              /\ [task EXCEPT !.recent = b] \in Task /\ [task EXCEPT !.recent = b].said = task.said
              /\ [task EXCEPT !.fresh = b] \in Task /\ [task EXCEPT !.fresh = b].said = task.said
         /\ \A type \in Kinds :
              [task EXCEPT !.type = type] \in Task /\ [task EXCEPT !.type = type].said = task.said
  BY DEF Task

LEMMA NewRows ==
  ASSUME NEW type \in Kinds, NEW p \in Prompts, NEW last \in {"user", "assistant"}
  PROVE  /\ NewTask(type, p) \in Task /\ NewTask(type, p).said = <<p>>
         /\ [NewTask(type, p) EXCEPT !.last = last] \in Task
         /\ [NewTask(type, p) EXCEPT !.last = last].said = <<p>>
  <1>1. <<p>> \in Seq(Prompts)
    OBVIOUS
  <1> DEFINE first == <<p>>
  <1> HIDE DEF first
  <1>2. first \in Seq(Prompts)
    BY <1>1 DEF first
  <1>3. NewTask(type, p) = [type |-> type, said |-> first, last |-> "user", shows |-> None,
                            running |-> {}, broken |-> FALSE, recent |-> TRUE, fresh |-> TRUE]
    BY DEF NewTask, first
  <1>4. NewTask(type, p) \in Task /\ NewTask(type, p).said = first
    BY <1>2, <1>3 DEF Task
  <1>5. [NewTask(type, p) EXCEPT !.last = last] \in Task /\ [NewTask(type, p) EXCEPT !.last = last].said = first
    BY <1>4 DEF Task
  <1> QED BY <1>4, <1>5 DEF first

LEMMA Changes ==
  ASSUME tasks \in Seq(Task), NEW t, NEW task, t \in DOMAIN tasks => task \in Task
  PROVE  /\ Changed(t, task) \in Seq(Task) /\ DOMAIN Changed(t, task) = DOMAIN tasks
         /\ t \in DOMAIN tasks => Changed(t, task)[t].said = task.said
         /\ \A s \in DOMAIN tasks : s # t => Changed(t, task)[s] = tasks[s]
  <1> DEFINE row == [task EXCEPT !.fresh = TRUE, !.recent = TRUE]
  <1>1. t \in DOMAIN tasks => row \in Task /\ row.said = task.said
    BY DEF Task
  <1>2. Changed(t, task) = [tasks EXCEPT ![t] = row]
    BY DEF Changed
  <1> HIDE DEF row
  <1>3. /\ [tasks EXCEPT ![t] = row] \in Seq(Task)
        /\ DOMAIN [tasks EXCEPT ![t] = row] = DOMAIN tasks
        /\ t \in DOMAIN tasks => [tasks EXCEPT ![t] = row][t] = row
        /\ \A s \in DOMAIN tasks : s # t => [tasks EXCEPT ![t] = row][s] = tasks[s]
    BY <1>1, Replaced
  <1> QED BY <1>1, <1>2, <1>3

(* The places at which a sequence of tasks keeps a prompt.                 *)
At(ts, t, i, q) == t \in DOMAIN ts /\ i \in DOMAIN ts[t].said /\ ts[t].said[i] = q

(* No new place; one more, for p.                                          *)
SaysNothing(ts) == \A t, i \in Nat : \A q : At(ts, t, i, q) => KeptAt(t, i, q)
Says(ts, p) ==
  \E u, k \in Nat : \A t, i \in Nat : \A q :
    At(ts, t, i, q) => KeptAt(t, i, q) \/ (t = u /\ i = k /\ q = p)

LEMMA ChangesSay ==
  ASSUME tasks \in Seq(Task), NEW t, NEW task, t \in DOMAIN tasks => task \in Task
  PROVE  /\ (t \in DOMAIN tasks => task.said = tasks[t].said) => SaysNothing(Changed(t, task))
         /\ \A p \in Prompts : (t \in DOMAIN tasks => task.said = Append(tasks[t].said, p))
              => Says(Changed(t, task), p)
  <1>1. ASSUME t \in DOMAIN tasks => task.said = tasks[t].said PROVE SaysNothing(Changed(t, task))
    BY <1>1, Changes DEF SaysNothing, At, KeptAt
  <1>2. ASSUME NEW p \in Prompts, t \in DOMAIN tasks => task.said = Append(tasks[t].said, p)
        PROVE  Says(Changed(t, task), p)
    <2>1. CASE t \notin DOMAIN tasks
      BY <2>1, Changes DEF Says, At, KeptAt
    <2>2. CASE t \in DOMAIN tasks
      <3>1. tasks[t].said \in Seq(Prompts) /\ t \in Nat
        <4>1. t \in Nat /\ tasks[t] \in Task
          BY <2>2, Elements
        <4> QED BY <4>1 DEF Task
      <3>2. \A i \in DOMAIN Append(tasks[t].said, p) :
              \/ i = Len(tasks[t].said) + 1 /\ Append(tasks[t].said, p)[i] = p
              \/ i \in DOMAIN tasks[t].said /\ Append(tasks[t].said, p)[i] = tasks[t].said[i]
        BY <3>1, Appended
      <3>3. Len(tasks[t].said) + 1 \in Nat
        BY <3>1, Appended
      <3>4. \A u, i \in Nat : \A q : At(Changed(t, task), u, i, q) =>
              KeptAt(u, i, q) \/ (u = t /\ i = Len(tasks[t].said) + 1 /\ q = p)
        BY <1>2, <2>2, <3>2, Changes DEF At, KeptAt
      <3> QED BY <3>1, <3>3, <3>4 DEF Says
    <2> QED BY <2>1, <2>2
  <1> QED BY <1>1, <1>2

LEMMA AppendSays ==
  ASSUME tasks \in Seq(Task), NEW ts \in Seq(Task), SaysNothing(ts), NEW task \in Task,
         NEW p \in Prompts, task.said = <<p>>
  PROVE  Append(ts, task) \in Seq(Task) /\ Says(Append(ts, task), p)
  <1>1. \A t \in DOMAIN Append(ts, task) :
          \/ t = Len(ts) + 1 /\ Append(ts, task)[t] = task
          \/ t \in DOMAIN ts /\ Append(ts, task)[t] = ts[t]
    BY Appended
  <1>2. \A i : i \in DOMAIN <<p>> => i = 1 /\ <<p>>[i] = p
    OBVIOUS
  <1>3. \A t, i \in Nat : \A q : At(Append(ts, task), t, i, q) =>
          KeptAt(t, i, q) \/ (t = Len(ts) + 1 /\ i = 1 /\ q = p)
    BY <1>1, <1>2 DEF At, SaysNothing
  <1>4. Len(ts) + 1 \in Nat /\ 1 \in Nat /\ Append(ts, task) \in Seq(Task)
    BY Appended
  <1>5. Says(Append(ts, task), p)
    BY <1>3, <1>4 DEF Says
  <1> QED BY <1>4, <1>5

(* The steps that keep no prompt.                                          *)
LEMMA QuietChange ==
  ASSUME tasks \in Seq(Task), NEW t, NEW task,
         t \in DOMAIN tasks => task \in Task /\ task.said = tasks[t].said
  PROVE  Changed(t, task) \in Seq(Task) /\ SaysNothing(Changed(t, task))
  BY Changes, ChangesSay

LEMMA QuietTasks ==
  ASSUME TypeInv, NEW p \in Prompts,
         \/ StartRun(p) \/ \E ok \in BOOLEAN : EndRun(p, ok)
         \/ \E made \in {"none", "pending", "passed", "failed", "deployed"} : SaveRun(p, made)
         \/ Tell(p) \/ CacheSuggestions(p) \/ StartRouting(p)
         \/ \E ok \in BOOLEAN : CloseStream(p, ok)
         \/ Break(p)
  PROVE  tasks' \in Seq(Task) /\ SaysNothing(tasks')
  <1> USE DEF TypeInv
  <1>t. \A t \in DOMAIN tasks : tasks[t] \in Task
    BY Elements
  <1>0. tasks \in Seq(Task) /\ SaysNothing(tasks)
    BY DEF SaysNothing, At, KeptAt
  <1>a. \A t : t \in DOMAIN tasks => Starts(tasks[t], p) \in Task /\ Starts(tasks[t], p).said = tasks[t].said
    BY <1>t, Rows
  <1>b. Abandoned(p) \in Seq(Task) /\ SaysNothing(Abandoned(p))
    <2> DEFINE t == streams[p].task
               task == IF Last(tasks[t].said) = p THEN [tasks[t] EXCEPT !.last = "user"] ELSE tasks[t]
    <2>1. t \in DOMAIN tasks => task \in Task /\ task.said = tasks[t].said
      <3> HIDE DEF t
      <3> QED BY <1>t, Fields
    <2>2. Abandoned(p) = Changed(t, task)
      BY DEF Abandoned
    <2> HIDE DEF task, t
    <2> QED BY <2>1, <2>2, QuietChange
  <1>1. CASE StartRun(p)
    BY <1>1, <1>a, QuietChange DEF StartRun
  <1>2. ASSUME NEW ok \in BOOLEAN, EndRun(p, ok) PROVE tasks' \in Seq(Task) /\ SaysNothing(tasks')
    <2>1. \A t : t \in DOMAIN tasks =>
            Ends(tasks[t], p, ok) \in Task /\ Ends(tasks[t], p, ok).said = tasks[t].said
      BY <1>t, Rows
    <2> QED BY <1>2, <2>1, QuietChange DEF EndRun
  <1>3. ASSUME NEW made, SaveRun(p, made) PROVE tasks' \in Seq(Task) /\ SaysNothing(tasks')
    <2> DEFINE t == jobs[p].task
               saved == [tasks[t] EXCEPT !.shows = IF jobs[p].role = "planner" THEN None ELSE p]
               last == made \in {"failed", "deployed"}
               task == IF last THEN saved ELSE Starts(saved, p)
    <2>1. t \in DOMAIN tasks => saved \in Task /\ saved.said = tasks[t].said
      <3> DEFINE shows == IF jobs[p].role = "planner" THEN None ELSE p
      <3>1. shows \in Prompts \cup {None} /\ saved = [tasks[t] EXCEPT !.shows = shows]
        OBVIOUS
      <3> HIDE DEF shows, saved, t
      <3> QED BY <1>t, <3>1, Fields
    <2>2. t \in DOMAIN tasks => task \in Task /\ task.said = tasks[t].said
      <3> HIDE DEF saved, last
      <3> QED BY <2>1, Rows
    <2>3. tasks' = Changed(t, task)
      BY <1>3 DEF SaveRun
    <2> HIDE DEF task, t
    <2> QED BY <2>2, <2>3, QuietChange
  <1>4. CASE Tell(p)
    <2> DEFINE t == jobs[p].task
               told == [tasks[t] EXCEPT !.last = "assistant"]
    <2>1. t \in DOMAIN tasks => told \in Task /\ told.said = tasks[t].said
      <3> HIDE DEF t
      <3> QED BY <1>t, Fields
    <2>2. tasks' = Changed(t, Starts(told, p))
      BY <1>4 DEF Tell
    <2> HIDE DEF told, t
    <2>3. t \in DOMAIN tasks => Starts(told, p) \in Task /\ Starts(told, p).said = tasks[t].said
      BY <2>1, Rows
    <2> QED BY <2>2, <2>3, QuietChange
  <1>5. CASE CacheSuggestions(p)
    BY <1>5, <1>t, QuietChange DEF CacheSuggestions
  <1>6. CASE StartRouting(p)
    BY <1>6, <1>a, QuietChange DEF StartRouting
  <1>7. ASSUME NEW ok \in BOOLEAN, CloseStream(p, ok) PROVE tasks' \in Seq(Task) /\ SaysNothing(tasks')
    BY <1>7, <1>b, <1>t, QuietChange DEF CloseStream
  <1>8. CASE Break(p)
    BY <1>8, <1>0, <1>b DEF Break
  <1> QED BY <1>1, <1>2, <1>3, <1>4, <1>5, <1>6, <1>7, <1>8

LEMMA SameSaid ==
  ASSUME TypeInv, NEW ts \in Seq(Task), DOMAIN ts = DOMAIN tasks,
         \A t \in DOMAIN tasks : ts[t].said = tasks[t].said
  PROVE  SaysNothing(ts)
  BY DEF SaysNothing, At, KeptAt

LEMMA AgedTasks ==
  ASSUME TypeInv, Render \/ \E t \in DOMAIN tasks : Age(t)
  PROVE  tasks' \in Seq(Task) /\ SaysNothing(tasks')
  <1> USE DEF TypeInv
  <1>t. \A t \in DOMAIN tasks : tasks[t] \in Task
    BY Elements
  <1>1. ASSUME NEW t \in DOMAIN tasks, NEW row \in Task, row.said = tasks[t].said,
               tasks' = [tasks EXCEPT ![t] = row]
        PROVE  tasks' \in Seq(Task) /\ SaysNothing(tasks')
    <2>1. /\ tasks' \in Seq(Task) /\ DOMAIN tasks' = DOMAIN tasks /\ tasks'[t] = row
          /\ \A s \in DOMAIN tasks : s # t => tasks'[s] = tasks[s]
      BY <1>1, Replaced
    <2>2. \A s \in DOMAIN tasks : tasks'[s].said = tasks[s].said
      BY <1>1, <2>1
    <2> QED BY <2>1, <2>2, SameSaid
  <1>2. CASE \E t \in DOMAIN tasks : Age(t)
    <2> PICK t \in DOMAIN tasks : Age(t)
      BY <1>2
    <2> DEFINE row == [tasks[t] EXCEPT !.recent = FALSE]
    <2>1. row \in Task /\ row.said = tasks[t].said
      BY <1>t DEF Task
    <2>2. tasks' = [tasks EXCEPT ![t] = row]
      BY DEF Age
    <2> HIDE DEF row
    <2> QED BY <1>1, <2>1, <2>2
  <1>3. CASE Render /\ UNCHANGED tasks
    BY <1>3, SameSaid
  <1>4. CASE Render /\ ~UNCHANGED tasks
    <2> DEFINE t == TaskOfUrl
               row == [tasks[t] EXCEPT !.fresh = FALSE]
    <2>2. tasks' = [tasks EXCEPT ![t] = row]
      BY <1>4 DEF Render
    <2>3. CASE t \notin DOMAIN tasks
      BY <1>4, <2>2, <2>3
    <2>4. CASE t \in DOMAIN tasks
      <3>1. row \in Task /\ row.said = tasks[t].said
        BY <1>t, <2>4 DEF Task
      <3> HIDE DEF row, t
      <3> QED BY <1>1, <2>2, <2>4, <3>1
    <2> QED BY <2>3, <2>4
  <1> QED BY <1>2, <1>3, <1>4

(* The steps that may keep a prompt keep one, that of the request.         *)
LEMMA SaidTasks ==
  ASSUME TypeInv, NEW p \in Prompts, NEW t, NEW task,
         t \in DOMAIN tasks => task \in Task /\ task.said = Append(tasks[t].said, p)
  PROVE  Changed(t, task) \in Seq(Task) /\ Says(Changed(t, task), p)
  BY Changes, ChangesSay DEF TypeInv

LEMMA OpenTasks ==
  ASSUME TypeInv, NEW p \in Prompts, NEW ok \in BOOLEAN, OpenStream(p, ok)
  PROVE  \/ kinds[p] # "general_chat" /\ UNCHANGED tasks
         \/ kinds[p] = "general_chat" /\ UNCHANGED tasks
         \/ kinds[p] = "general_chat" /\ tasks' \in Seq(Task) /\ Says(tasks', p)
  <1> USE DEF TypeInv
  <1>t. \A t \in DOMAIN tasks : tasks[t] \in Task
    BY Elements
  <1> DEFINE t == streams[p].at
             last == IF ok THEN "assistant" ELSE "user"
  <1>1. \/ UNCHANGED tasks
        \/ /\ kinds[p] = "general_chat"
           /\ tasks' = IF t = None THEN Append(tasks, [NewTask("general_chat", p) EXCEPT !.last = last])
                       ELSE Changed(t, [Said(tasks[t], p) EXCEPT !.last = last])
    BY DEF OpenStream
  <1>2. last \in {"user", "assistant"} /\ "general_chat" \in Kinds
    BY DEF Kinds
  <1> HIDE DEF t, last
  <1>3. SaysNothing(tasks)
    BY DEF SaysNothing, At, KeptAt
  <1>4. /\ Append(tasks, [NewTask("general_chat", p) EXCEPT !.last = last]) \in Seq(Task)
        /\ Says(Append(tasks, [NewTask("general_chat", p) EXCEPT !.last = last]), p)
    <2> DEFINE row == [NewTask("general_chat", p) EXCEPT !.last = last]
    <2>1. row \in Task /\ row.said = <<p>>
      BY <1>2, NewRows
    <2> HIDE DEF row
    <2>2. Append(tasks, row) \in Seq(Task) /\ Says(Append(tasks, row), p)
      BY <2>1, <1>3, AppendSays
    <2> QED BY <2>2 DEF row
  <1>5. /\ Changed(t, [Said(tasks[t], p) EXCEPT !.last = last]) \in Seq(Task)
        /\ Says(Changed(t, [Said(tasks[t], p) EXCEPT !.last = last]), p)
    <2> DEFINE row == [Said(tasks[t], p) EXCEPT !.last = last]
    <2>1. t \in DOMAIN tasks => row \in Task /\ row.said = Append(tasks[t].said, p)
      <3> DEFINE said == Said(tasks[t], p)
      <3>1. t \in DOMAIN tasks => said \in Task /\ said.said = Append(tasks[t].said, p)
        BY <1>t, Rows
      <3> HIDE DEF said
      <3>2. t \in DOMAIN tasks => /\ [said EXCEPT !.last = last] \in Task
                                  /\ [said EXCEPT !.last = last].said = Append(tasks[t].said, p)
        BY <1>2, <3>1, Fields
      <3> QED BY <3>2 DEF said
    <2> HIDE DEF row
    <2>2. Changed(t, row) \in Seq(Task) /\ Says(Changed(t, row), p)
      BY <2>1, SaidTasks
    <2> QED BY <2>2 DEF row
  <1> QED BY <1>1, <1>4, <1>5

LEMMA PrepareTasks ==
  ASSUME TypeInv, NEW p \in Prompts, NEW t, Prepare(p, t)
  PROVE  tasks' \in Seq(Task) /\ Says(tasks', p)
  <1> USE DEF TypeInv
  <1>t. \A s \in DOMAIN tasks : tasks[s] \in Task
    BY Elements
  <1>0. "lp_generation" \in Kinds /\ SaysNothing(tasks)
    BY DEF Kinds, SaysNothing, At, KeptAt
  <1>1. ASSUME tasks' = Changed(t, [Said(tasks[t], p) EXCEPT !.type = "lp_generation"])
        PROVE  tasks' \in Seq(Task) /\ Says(tasks', p)
    <2> DEFINE row == [Said(tasks[t], p) EXCEPT !.type = "lp_generation"]
    <2>1. t \in DOMAIN tasks => row \in Task /\ row.said = Append(tasks[t].said, p)
      <3> DEFINE said == Said(tasks[t], p)
      <3>1. t \in DOMAIN tasks => said \in Task /\ said.said = Append(tasks[t].said, p)
        BY <1>t, Rows
      <3> HIDE DEF said
      <3>2. t \in DOMAIN tasks => /\ [said EXCEPT !.type = "lp_generation"] \in Task
                                  /\ [said EXCEPT !.type = "lp_generation"].said = Append(tasks[t].said, p)
        BY <1>0, <3>1, Fields
      <3> QED BY <3>2 DEF said
    <2>2. tasks' = Changed(t, row)
      BY <1>1
    <2> HIDE DEF row
    <2> QED BY <2>1, <2>2, SaidTasks
  <1>2. ASSUME tasks' = Append(tasks, NewTask("lp_generation", p))
        PROVE  tasks' \in Seq(Task) /\ Says(tasks', p)
    BY <1>0, <1>2, NewRows, AppendSays
  <1> QED BY <1>1, <1>2 DEF Prepare

LEMMA RouteTasks ==
  ASSUME TypeInv, NEW p \in Prompts, NEW ok \in BOOLEAN, NEW intent, Route(p, ok, intent)
  PROVE  tasks' \in Seq(Task) /\ Says(tasks', p)
  <1> USE DEF TypeInv
  <1>t. \A s \in DOMAIN tasks : tasks[s] \in Task
    BY Elements
  <1> DEFINE t == posts[p].at
             ended == Ends(tasks[t], p, ok)
  <1>0. "lp_generation" \in Kinds
    BY DEF Kinds
  <1>1. \/ tasks' = Changed(t, Said(ended, p))
        \/ tasks' = Append(Changed(t, ended), NewTask("lp_generation", p))
    BY DEF Route
  <1> HIDE DEF t
  <1>2. t \in DOMAIN tasks => ended \in Task /\ ended.said = tasks[t].said
    BY <1>t, Rows
  <1> HIDE DEF ended
  <1>3. t \in DOMAIN tasks => Said(ended, p) \in Task /\ Said(ended, p).said = Append(tasks[t].said, p)
    BY <1>2, Rows
  <1>4. Changed(t, ended) \in Seq(Task) /\ SaysNothing(Changed(t, ended))
    BY <1>2, QuietChange
  <1>5. CASE tasks' = Changed(t, Said(ended, p))
    BY <1>3, <1>5, SaidTasks
  <1>6. CASE tasks' = Append(Changed(t, ended), NewTask("lp_generation", p))
    <2>1. NewTask("lp_generation", p) \in Task /\ NewTask("lp_generation", p).said = <<p>>
      BY <1>0, NewRows
    <2> QED BY <1>4, <1>6, <2>1, AppendSays
  <1> QED BY <1>1, <1>5, <1>6

LEMMA ClassifyTasks ==
  ASSUME TypeInv, NEW p \in Prompts, p <= Len(kinds), Classify(p)
  PROVE  \/ UNCHANGED tasks
         \/ tasks' \in Seq(Task) /\ Says(tasks', p)
  <1> USE DEF TypeInv
  <1>0. kinds[p] \in Kinds
    BY LiveTaskAssumption, Elements DEF Prompts
  <1>1. SaysNothing(tasks)
    BY DEF SaysNothing, At, KeptAt
  <1>2. ASSUME tasks' = Append(tasks, [NewTask(kinds[p], p) EXCEPT !.last = "assistant"])
        PROVE  tasks' \in Seq(Task) /\ Says(tasks', p)
    <2> DEFINE row == [NewTask(kinds[p], p) EXCEPT !.last = "assistant"]
    <2>1. row \in Task /\ row.said = <<p>>
      BY <1>0, NewRows
    <2>2. tasks' = Append(tasks, row)
      BY <1>2
    <2> HIDE DEF row
    <2> QED BY <1>1, <2>1, <2>2, AppendSays
  <1> QED BY <1>2, PrepareTasks DEF Classify

-----------------------------------------------------------------------------
(* What a stream sends comes behind what it sent.                          *)
LEMMA Joined ==
  ASSUME NEW S, NEW s \in Seq(S), NEW u \in Seq(S)
  PROVE  /\ s \o u \in Seq(S) /\ (s = <<>> => s \o u = u)
         /\ \A i \in DOMAIN (s \o u) :
              \/ i \in DOMAIN s /\ (s \o u)[i] = s[i]
              \/ \E j \in DOMAIN u : (s \o u)[i] = u[j]
  <1>1. \A i \in DOMAIN (s \o u) :
          \/ i \in DOMAIN s /\ (s \o u)[i] = s[i]
          \/ i - Len(s) \in DOMAIN u /\ (s \o u)[i] = u[i - Len(s)]
    OBVIOUS
  <1>2. s \o u \in Seq(S) /\ (s = <<>> => s \o u = u)
    OBVIOUS
  <1> QED BY <1>1, <1>2

LEMMA Events ==
  ASSUME NEW t \in Nat \cup {None}
  PROVE  \A type \in DOMAIN StatusAfter : Event(type, t) \in EventRecord
  BY DEF Event, EventRecord

LEMMA Types == DOMAIN StatusAfter = {"created", "running", "delta", "completed", "failed", "error", "fallback"}
  BY DEF StatusAfter

LEMMA Sending ==
  ASSUME TypeInv, NEW p \in Prompts, NEW pc \in {"open", "closed"}, NEW t \in Nat \cup {None},
         NEW events \in Seq(EventRecord), Send(p, pc, t, events)
  PROVE  /\ streams' \in [Prompts -> StreamRecord]
         /\ \A q \in Prompts : q # p => streams'[q] = streams[q]
         /\ streams'[p].pc = pc /\ streams'[p].task = t
         /\ streams'[p].todo = streams[p].todo \o events
         /\ streams'[p].read = streams[p].read /\ streams'[p].at = streams[p].at
  <1> DEFINE todo == streams[p].todo \o events
             row == [streams[p] EXCEPT !.pc = pc, !.task = t, !.todo = todo]
  <1>1. streams[p] \in StreamRecord
    BY DEF TypeInv
  <1>2. todo \in Seq(EventRecord)
    BY <1>1, Joined DEF StreamRecord
  <1>3. streams' = [streams EXCEPT ![p] = row]
    BY DEF Send
  <1> HIDE DEF todo
  <1>4. /\ row \in StreamRecord /\ row.pc = pc /\ row.task = t /\ row.todo = todo
        /\ row.read = streams[p].read /\ row.at = streams[p].at
    BY <1>1, <1>2 DEF StreamRecord
  <1> HIDE DEF row
  <1> QED BY <1>3, <1>4 DEF TypeInv, todo

-----------------------------------------------------------------------------
(* The types of the other variables, step by step.                         *)
JobTypes ==
  /\ jobs \in [Prompts -> JobRecord] /\ posts \in [Prompts -> PostRecord]
  /\ \A p \in Prompts : jobs[p].pc = "save" => jobs[p].role \in Roles

LEMMA JobStepTypes ==
  ASSUME TypeInv, NEW p \in Prompts, JobStep(p)
  PROVE  /\ JobTypes' /\ UNCHANGED <<kinds, transport, client>>
         /\ \A q \in Prompts : jobs'[q].task = jobs[q].task
  <1> USE DEF TypeInv, JobRecord, transport, JobTypes
  <1>1. ASSUME NEW pc \in {"start", "run", "tell", "suggesting", "cache", "done"}, JobGoes(p, pc), UNCHANGED posts
        PROVE  JobTypes' /\ \A q \in Prompts : jobs'[q].task = jobs[q].task
    BY <1>1 DEF JobGoes
  <1>2. CASE StartRun(p)
    BY <1>1, <1>2 DEF StartRun
  <1>3. ASSUME NEW ok \in BOOLEAN, EndRun(p, ok)
        PROVE  /\ JobTypes' /\ UNCHANGED <<kinds, transport, client>>
               /\ \A q \in Prompts : jobs'[q].task = jobs[q].task
    <2>1. \/ JobGoes(p, "cache") \/ JobGoes(p, "tell")
          \/ JobGoes(p, "save") /\ jobs[p].role \in Roles
      BY <1>3 DEF EndRun
    <2>2. CASE JobGoes(p, "save") /\ jobs[p].role \in Roles
      <3>1. jobs' = [jobs EXCEPT ![p].pc = "save"] /\ jobs[p].role \in Roles /\ UNCHANGED posts
        BY <1>3, <2>2 DEF EndRun, JobGoes
      <3>2. JobTypes' /\ \A q \in Prompts : jobs'[q].task = jobs[q].task
        BY <3>1
      <3> QED BY <1>3, <3>2 DEF EndRun
    <2> QED BY <1>1, <1>3, <2>1, <2>2 DEF EndRun
  <1>4. ASSUME NEW made \in {"none", "pending", "passed", "failed", "deployed"}, SaveRun(p, made)
        PROVE  /\ JobTypes' /\ UNCHANGED <<kinds, transport, client>>
               /\ \A q \in Prompts : jobs'[q].task = jobs[q].task
    <2>1. jobs[p].role \in Roles /\ made \in Made[jobs[p].role]
      BY <1>4 DEF SaveRun, Job
    <2>2. \/ made \in {"failed", "deployed"}
          \/ Following[jobs[p].role] \in Roles
      BY <2>1 DEF Made, Following, Roles
    <2>3. \/ jobs' = [jobs EXCEPT ![p] = [jobs[p] EXCEPT !.made = made, !.pc = "tell"]]
          \/ /\ Following[jobs[p].role] \in Roles
             /\ jobs' = [jobs EXCEPT ![p] = [jobs[p] EXCEPT !.made = made, !.pc = "run",
                                                            !.role = Following[jobs[p].role]]]
      BY <1>4, <2>2 DEF SaveRun
    <2>4. PICK row : /\ jobs' = [jobs EXCEPT ![p] = row]
                     /\ row \in JobRecord /\ row.pc \in {"tell", "run"} /\ row.task = jobs[p].task
      <3>1. jobs[p] \in JobRecord
        OBVIOUS
      <3> DEFINE told == [jobs[p] EXCEPT !.made = made, !.pc = "tell"]
                 next == [jobs[p] EXCEPT !.made = made, !.pc = "run", !.role = Following[jobs[p].role]]
      <3>2. told \in JobRecord /\ told.pc = "tell" /\ told.task = jobs[p].task
        BY <3>1
      <3>3. ASSUME Following[jobs[p].role] \in Roles
            PROVE  next \in JobRecord /\ next.pc = "run" /\ next.task = jobs[p].task
        BY <3>1, <3>3
      <3>4. \/ jobs' = [jobs EXCEPT ![p] = told]
            \/ Following[jobs[p].role] \in Roles /\ jobs' = [jobs EXCEPT ![p] = next]
        BY <2>3
      <3> HIDE DEF told, next
      <3> QED BY <3>2, <3>3, <3>4
    <2>5. JobTypes' /\ \A q \in Prompts : jobs'[q].task = jobs[q].task
      <3>1. UNCHANGED posts
        BY <1>4 DEF SaveRun
      <3> QED BY <2>4, <3>1
    <2> QED BY <1>4, <2>5 DEF SaveRun
  <1>5. CASE Tell(p)
    BY <1>1, <1>5 DEF Tell
  <1>6. CASE CacheSuggestions(p)
    BY <1>1, <1>6 DEF CacheSuggestions
  <1> QED BY <1>2, <1>3, <1>4, <1>5, <1>6 DEF JobStep

LEMMA BeginTypes ==
  ASSUME TypeInv, NEW p \in Prompts, NEW t \in Nat \cup {None}, NEW pc \in {"start", "tell"},
         NEW role \in {"planner", "assistant"}, Begin(p, t, pc, role)
  PROVE  /\ JobTypes' /\ jobs'[p].task = t
         /\ posts'[p].pc \in {"working", "ready"} /\ posts'[p].at = posts[p].at
         /\ posts'[p].native = posts[p].native /\ posts'[p].awaited = posts[p].awaited
         /\ \A q \in Prompts : q # p => jobs'[q] = jobs[q] /\ posts'[q] = posts[q]
  <1>1. [NoJob EXCEPT !.pc = pc, !.role = role, !.task = t] \in JobRecord
    BY DEF NoJob, JobRecord, Roles
  <1>2. PICK to \in {"working", "ready"} : posts' = [posts EXCEPT ![p].pc = to]
    BY DEF Begin, PostGoes
  <1>3. jobs' = [jobs EXCEPT ![p] = [NoJob EXCEPT !.pc = pc, !.role = role, !.task = t]]
    BY DEF Begin
  <1> QED BY <1>1, <1>2, <1>3 DEF TypeInv, JobTypes, NoJob, PostRecord

LEMMA PostStepTypes ==
  ASSUME TypeInv, WorkInv, NEW p \in Prompts, PostStep(p)
  PROVE  /\ JobTypes' /\ WorkInv' /\ UNCHANGED <<kinds, streams, cookie, client>>
         /\ \A q \in Prompts : q # p => jobs'[q] = jobs[q] /\ posts'[q] = posts[q]
         /\ posts'[p].native = posts[p].native /\ posts'[p].awaited = posts[p].awaited
         /\ posts[p].pc \in {"sent", "routing", "working"}
  <1> USE DEF TypeInv, PostRecord
  <1> DEFINE Goal == /\ JobTypes' /\ WorkInv'
                     /\ \A q \in Prompts : q # p => jobs'[q] = jobs[q] /\ posts'[q] = posts[q]
                     /\ posts'[p].native = posts[p].native /\ posts'[p].awaited = posts[p].awaited
  <1>n. Len(tasks) + 1 \in Nat \cup {None} /\ Len(tasks) + 1 # None
    BY LiveTaskAssumption
  <1>1. ASSUME NEW pc \in {"refused", "ready"}, PostGoes(p, pc), UNCHANGED jobs,
               pc = "ready" => posts[p].pc = "working"
        PROVE  Goal
    BY <1>1 DEF PostGoes, WorkInv, JobTypes
  <1>2. ASSUME NEW t \in Nat \cup {None}, t # None, NEW pc \in {"start", "tell"},
               NEW role \in {"planner", "assistant"}, Begin(p, t, pc, role)
        PROVE  Goal
    <2>1. /\ JobTypes' /\ jobs'[p].task = t /\ posts'[p].pc \in {"working", "ready"}
          /\ posts'[p].native = posts[p].native /\ posts'[p].awaited = posts[p].awaited
          /\ \A q \in Prompts : q # p => jobs'[q] = jobs[q] /\ posts'[q] = posts[q]
      BY <1>2, BeginTypes
    <2>2. WorkInv'
      BY <1>2, <2>1 DEF WorkInv
    <2> QED BY <2>1, <2>2
  <1>3. ASSUME NEW t \in Nat \cup {None}, Prepare(p, t)
        PROVE  Goal
    BY <1>2, <1>3, <1>n DEF Prepare
  <1>4. CASE StartRouting(p)
    <2> DEFINE t == Requested(p)
    <2>1. t \in Nat \cup {None} /\ t # None
      BY <1>4 DEF StartRouting, IsLp, Requested
    <2>2. posts' = [posts EXCEPT ![p] = [posts[p] EXCEPT !.pc = "routing", !.at = t]] /\ UNCHANGED jobs
      BY <1>4 DEF StartRouting
    <2> HIDE DEF t
    <2>3. Goal
      BY <2>1, <2>2 DEF WorkInv, JobTypes
    <2> QED BY <1>4, <2>3 DEF StartRouting, client
  <1>5. CASE FinishWork(p)
    BY <1>1, <1>5 DEF FinishWork
  <1>6. CASE Classify(p)
    <2>1. Requested(p) \in Nat \cup {None}
      BY DEF Requested
    <2>2. CASE Prepare(p, Requested(p))
      BY <1>3, <1>6, <2>1, <2>2 DEF Classify
    <2>3. CASE PostGoes(p, "refused") /\ UNCHANGED <<tasks, jobs>>
      BY <1>1, <1>6, <2>3 DEF Classify
    <2>4. CASE /\ jobs' = [jobs EXCEPT ![p] = [NoJob EXCEPT !.pc = "done", !.task = Len(tasks) + 1]]
               /\ PostGoes(p, "working")
      <3>1. /\ [NoJob EXCEPT !.pc = "done", !.task = Len(tasks) + 1] \in JobRecord
            /\ [NoJob EXCEPT !.pc = "done", !.task = Len(tasks) + 1].task = Len(tasks) + 1
            /\ [NoJob EXCEPT !.pc = "done", !.task = Len(tasks) + 1].pc = "done"
        BY <1>n DEF NoJob, JobRecord
      <3>2. Goal
        BY <1>n, <2>4, <3>1 DEF PostGoes, WorkInv, JobTypes
      <3> QED BY <1>6, <3>2 DEF Classify
    <2> QED BY <1>6, <2>2, <2>3, <2>4 DEF Classify
  <1>7. ASSUME NEW ok \in BOOLEAN, NEW intent, Route(p, ok, intent)
        PROVE  Goal /\ UNCHANGED <<kinds, streams, cookie, client>> /\ posts[p].pc = "routing"
    <2>1. posts[p].pc = "routing" /\ posts[p].at \in Nat \cup {None} /\ posts[p].at # None
      BY <1>7 DEF Route, WorkInv
    <2>2. \E t \in {posts[p].at, Len(tasks) + 1}, pc \in {"start", "tell"},
             role \in {"planner", "assistant"} : Begin(p, t, pc, role)
      BY <1>7 DEF Route
    <2>3. Goal
      BY <1>2, <1>n, <2>1, <2>2
    <2> QED BY <1>7, <2>1, <2>3 DEF Route
  <1> QED BY <1>4, <1>5, <1>6, <1>7 DEF PostStep

(* A request is posted for the prompt n.                                   *)
LEMMA PostTypes ==
  ASSUME TypeInv, NEW n, NEW native \in BOOLEAN, NEW at \in Nat \cup {None}, Post(n, native, at)
  PROVE  /\ posts' \in [Prompts -> PostRecord]
         /\ \A q \in Prompts : q # n => posts'[q] = posts[q]
         /\ n \in Prompts => posts'[n].pc = "sent" /\ posts'[n].native = native /\ posts'[n].awaited
  <1> DEFINE row == [NoPost EXCEPT !.pc = "sent", !.native = native, !.at = at, !.awaited = TRUE]
  <1>1. row \in PostRecord /\ row.pc = "sent" /\ row.native = native /\ row.awaited = TRUE
    BY DEF NoPost, PostRecord
  <1>2. posts' = [posts EXCEPT ![n] = row]
    BY DEF Post
  <1> HIDE DEF row
  <1> QED BY <1>1, <1>2 DEF TypeInv

LEMMA HandoffTypes ==
  ASSUME NEW c \in ComposerRecord
  PROVE  Handoff(c) \in ComposerRecord /\ Handoff(c) = [c EXCEPT !.submitted = TRUE, !.pending = c.latest]
  BY DEF Handoff, ComposerRecord

LEMMA FirstTypes == FirstComposer \in ComposerRecord
  BY DEF FirstComposer, ComposerRecord

(* What the composer becomes when a prompt is submitted.                   *)
Fresh(p) ==
  [FirstComposer EXCEPT !.status = "streaming", !.latest = p,
     !.early = composer.early \cup {q \in {p} : \E r \in Prompts : streams[r].read}]

LEMMA FreshTypes ==
  ASSUME TypeInv, NEW p \in Nat
  PROVE  /\ Fresh(p) \in ComposerRecord
         /\ Fresh(p).latest = p /\ Fresh(p).status = "streaming" /\ Fresh(p).task = None
         /\ Fresh(p).pending = None /\ ~Fresh(p).submitted /\ Fresh(p).fallback = None
         /\ ~Fresh(p).skip /\ Fresh(p).accepted = None
         /\ Fresh(p).early = composer.early \cup {q \in {p} : \E r \in Prompts : streams[r].read}
  <1> DEFINE early == composer.early \cup {q \in {p} : \E r \in Prompts : streams[r].read}
  <1>1. early \in SUBSET Nat
    BY DEF TypeInv, ComposerRecord
  <1>2. Fresh(p) = [FirstComposer EXCEPT !.status = "streaming", !.latest = p, !.early = early]
    BY DEF Fresh
  <1> HIDE DEF early
  <1> QED BY <1>1, <1>2 DEF FirstComposer, ComposerRecord, early

LEMMA SubmitTypes ==
  ASSUME TypeInv, NEW kind \in Kinds, Submit(kind)
  PROVE  LET p == Len(kinds) + 1 IN
         /\ p \in Prompts /\ Usable /\ kinds' = Append(kinds, kind)
         /\ kinds' \in Seq(Kinds) /\ Len(kinds') = p
         /\ UNCHANGED <<tasks, jobs, cookie, url, wanted, page>>
         /\ \/ /\ composer' = Handoff(Fresh(p)) /\ UNCHANGED streams
               /\ posts' \in [Prompts -> PostRecord]
               /\ \A q \in Prompts : q # p => posts'[q] = posts[q]
               /\ posts'[p].pc = "sent" /\ ~posts'[p].native
            \/ /\ composer' = Fresh(p) /\ UNCHANGED posts
               /\ streams' \in [Prompts -> StreamRecord]
               /\ \A q \in Prompts : q # p => streams'[q] = streams[q]
               /\ streams'[p].pc = "sent" /\ streams'[p].todo = <<>> /\ streams'[p].read
         /\ TypeInv'
  <1> DEFINE p == Len(kinds) + 1
  <1>1. p \in Nat /\ p \in Prompts
    BY LiveTaskAssumption DEF Submit, Prompts, TypeInv
  <1>2. kinds' = Append(kinds, kind) /\ kinds' \in Seq(Kinds) /\ Len(kinds') = p /\ Len(kinds') <= MaxPrompts
    BY LiveTaskAssumption DEF Submit, TypeInv
  <1>3. Usable /\ UNCHANGED <<tasks, jobs, cookie, url, wanted, page>>
    BY DEF Submit
  <1>4. CASE LiveTaskShown # None
    <2>1. Post(p, FALSE, LiveTaskShown) /\ composer' = Handoff(Fresh(p)) /\ UNCHANGED streams
      BY <1>4 DEF Submit, Fresh
    <2>2. LiveTaskShown \in Nat \cup {None}
      BY DEF LiveTaskShown, TypeInv
    <2> HIDE DEF p
    <2>3. /\ posts' \in [Prompts -> PostRecord]
          /\ \A q \in Prompts : q # p => posts'[q] = posts[q]
          /\ posts'[p].pc = "sent" /\ ~posts'[p].native
      BY <1>1, <2>1, <2>2, PostTypes
    <2>4. composer' \in ComposerRecord
      BY <1>1, <2>1, FreshTypes, HandoffTypes
    <2>5. TypeInv'
      BY <1>2, <1>3, <2>1, <2>3, <2>4 DEF TypeInv
    <2> QED BY <1>1, <1>2, <1>3, <2>1, <2>3, <2>5 DEF p
  <1>5. CASE LiveTaskShown = None
    <2> DEFINE row == [NoStream EXCEPT !.pc = "sent", !.at = ChatTask, !.read = TRUE]
    <2>1. streams' = [streams EXCEPT ![p] = row] /\ composer' = Fresh(p) /\ UNCHANGED posts
      BY <1>5 DEF Submit, Fresh
    <2>2. row \in StreamRecord /\ row.pc = "sent" /\ row.todo = <<>> /\ row.read = TRUE
      <3> DEFINE at == ChatTask
                 none == <<>>
      <3>1. at \in Nat \cup {None} /\ none \in Seq(EventRecord)
        BY DEF ChatTask, TypeInv
      <3>2. NoStream = [pc |-> "none", at |-> None, task |-> None, todo |-> none, read |-> FALSE]
        BY DEF NoStream
      <3> HIDE DEF at, none
      <3>3. NoStream \in StreamRecord /\ NoStream.todo = none
        BY <3>1, <3>2 DEF StreamRecord
      <3>4. /\ [NoStream EXCEPT !.pc = "sent", !.at = at, !.read = TRUE] \in StreamRecord
            /\ [NoStream EXCEPT !.pc = "sent", !.at = at, !.read = TRUE].pc = "sent"
            /\ [NoStream EXCEPT !.pc = "sent", !.at = at, !.read = TRUE].todo = none
            /\ [NoStream EXCEPT !.pc = "sent", !.at = at, !.read = TRUE].read = TRUE
        BY <3>1, <3>3 DEF StreamRecord
      <3> QED BY <3>4 DEF at, none
    <2> HIDE DEF p, row
    <2>3. /\ streams' \in [Prompts -> StreamRecord]
          /\ \A q \in Prompts : q # p => streams'[q] = streams[q]
          /\ streams'[p].pc = "sent" /\ streams'[p].todo = <<>> /\ streams'[p].read
      BY <1>1, <2>1, <2>2 DEF TypeInv
    <2>4. composer' \in ComposerRecord
      BY <1>1, <2>1, FreshTypes
    <2>5. TypeInv'
      BY <1>2, <1>3, <2>1, <2>3, <2>4 DEF TypeInv
    <2> QED BY <1>1, <1>2, <1>3, <2>1, <2>3, <2>5 DEF p
  <1> QED BY <1>4, <1>5

LEMMA Tails ==
  ASSUME NEW S, NEW s \in Seq(S), s # <<>>
  PROVE  /\ Head(s) \in S /\ Head(s) = s[1] /\ 1 \in DOMAIN s
         /\ Tail(s) \in Seq(S) /\ Len(Tail(s)) = Len(s) - 1
         /\ \A i \in DOMAIN Tail(s) : i + 1 \in DOMAIN s /\ Tail(s)[i] = s[i + 1]
  OBVIOUS

LEMMA ReducedTypes ==
  ASSUME TypeInv, NEW e \in EventRecord
  PROVE  /\ Reduced(e) \in ComposerRecord
         /\ Reduced(e) = [composer EXCEPT !.status = StatusAfter[e.type],
                                          !.task = IF e.task # None THEN e.task ELSE composer.task]
         /\ Reduced(e).status = StatusAfter[e.type]
         /\ Reduced(e).task = IF e.task # None THEN e.task ELSE composer.task
         /\ Reduced(e).latest = composer.latest /\ Reduced(e).pending = composer.pending
         /\ Reduced(e).submitted = composer.submitted /\ Reduced(e).fallback = composer.fallback
         /\ Reduced(e).skip = composer.skip /\ Reduced(e).moved = composer.moved
         /\ Reduced(e).early = composer.early /\ Reduced(e).accepted = composer.accepted
  <1> DEFINE status == StatusAfter[e.type]
             task == IF e.task # None THEN e.task ELSE composer.task
  <1>1. status \in {"idle", "streaming", "completed", "error", "fallback_required"}
    BY DEF EventRecord, StatusAfter
  <1>2. task \in Nat \cup {None}
    BY DEF EventRecord, TypeInv, ComposerRecord
  <1>3. Reduced(e) = [composer EXCEPT !.status = status, !.task = task]
    BY DEF Reduced
  <1> HIDE DEF status, task
  <1>4. composer \in ComposerRecord
    BY DEF TypeInv
  <1>5. /\ [composer EXCEPT !.status = status, !.task = task] \in ComposerRecord
        /\ [composer EXCEPT !.status = status, !.task = task].status = status
        /\ [composer EXCEPT !.status = status, !.task = task].task = task
    BY <1>1, <1>2, <1>4 DEF ComposerRecord
  <1> QED BY <1>3, <1>4, <1>5 DEF ComposerRecord, status, task

(* An event is read; the fallback of a stream posts or hands to the form   *)
(* the prompt submitted last.                                              *)
LEMMA ReadTypes ==
  ASSUME TypeInv, NEW p \in Prompts, ReadEvent(p)
  PROVE  LET e == streams[p].todo[1]  c == Reduced(e) IN
         /\ streams[p].read /\ 1 \in DOMAIN streams[p].todo /\ e \in EventRecord
         /\ UNCHANGED <<server, cookie, url, wanted, page>>
         /\ streams' \in [Prompts -> StreamRecord]
         /\ \A q \in Prompts : q # p => streams'[q] = streams[q]
         /\ streams'[p].pc = streams[p].pc /\ streams'[p].read = streams[p].read
         /\ streams'[p].at = streams[p].at /\ streams'[p].task = streams[p].task
         /\ streams'[p].todo = Tail(streams[p].todo)
         /\ \/ (e.type # "fallback" \/ c.submitted) /\ composer' = c /\ UNCHANGED posts
            \/ /\ e.type = "fallback" /\ ~c.submitted
               /\ composer' = Handoff(c)
               /\ posts' \in [Prompts -> PostRecord]
               /\ \A q \in Prompts : q # composer.latest => posts'[q] = posts[q]
               /\ composer.latest \in Prompts =>
                    posts'[composer.latest].pc = "sent" /\ ~posts'[composer.latest].native
            \/ /\ e.type = "fallback" /\ ~c.submitted
               /\ composer' = [c EXCEPT !.submitted = TRUE, !.skip = TRUE, !.fallback = c.latest]
               /\ UNCHANGED posts
         /\ TypeInv'
  <1> DEFINE e == Head(streams[p].todo)
  <1>1. streams[p].read /\ streams[p].todo # <<>>
    BY DEF ReadEvent
  <1>2. streams[p] \in StreamRecord /\ streams[p].todo \in Seq(EventRecord)
    BY DEF TypeInv, StreamRecord
  <1>3. /\ e \in EventRecord /\ e = streams[p].todo[1] /\ 1 \in DOMAIN streams[p].todo
        /\ Tail(streams[p].todo) \in Seq(EventRecord)
    BY <1>1, <1>2, Tails
  <1>4. UNCHANGED <<kinds, tasks, jobs, upsets, cookie, url, wanted, page>>
    BY DEF ReadEvent, server
  <1>5. /\ streams' \in [Prompts -> StreamRecord]
        /\ \A q \in Prompts : q # p => streams'[q] = streams[q]
        /\ streams'[p].pc = streams[p].pc /\ streams'[p].read = streams[p].read
        /\ streams'[p].at = streams[p].at /\ streams'[p].task = streams[p].task
        /\ streams'[p].todo = Tail(streams[p].todo)
    <2> DEFINE rest == Tail(streams[p].todo)
    <2>1. streams' = [streams EXCEPT ![p].todo = rest]
      BY DEF ReadEvent
    <2>2. rest \in Seq(EventRecord)
      BY <1>3
    <2> HIDE DEF rest
    <2>3. streams' \in [Prompts -> StreamRecord] /\ streams'[p].todo = rest
      BY <1>2, <2>1, <2>2 DEF TypeInv, StreamRecord
    <2> QED BY <1>2, <2>1, <2>3 DEF TypeInv, StreamRecord, rest
  <1> DEFINE c == Reduced(e)
  <1>6. c \in ComposerRecord /\ c.latest = composer.latest
    BY <1>3, ReducedTypes
  <1>7. \/ (e.type # "fallback" \/ c.submitted) /\ composer' = c /\ UNCHANGED posts
        \/ /\ e.type = "fallback" /\ ~c.submitted
           /\ composer' = Handoff(c) /\ Post(c.latest, FALSE, streams[p].at)
        \/ /\ e.type = "fallback" /\ ~c.submitted
           /\ composer' = [c EXCEPT !.submitted = TRUE, !.skip = TRUE, !.fallback = c.latest]
           /\ UNCHANGED posts
    BY DEF ReadEvent
  <1> HIDE DEF c, e
  <1>8. CASE (e.type # "fallback" \/ c.submitted) /\ composer' = c /\ UNCHANGED posts
    <2>1. TypeInv'
      BY <1>4, <1>5, <1>6, <1>8 DEF TypeInv
    <2> QED BY <1>1, <1>3, <1>4, <1>5, <1>8, <2>1 DEF c, server
  <1>9. CASE /\ e.type = "fallback" /\ ~c.submitted
             /\ composer' = Handoff(c) /\ Post(c.latest, FALSE, streams[p].at)
    <2>1. streams[p].at \in Nat \cup {None}
      BY <1>2 DEF StreamRecord
    <2>2. /\ posts' \in [Prompts -> PostRecord]
          /\ \A q \in Prompts : q # composer.latest => posts'[q] = posts[q]
          /\ composer.latest \in Prompts =>
               posts'[composer.latest].pc = "sent" /\ ~posts'[composer.latest].native
      BY <1>6, <1>9, <2>1, PostTypes
    <2>3. composer' \in ComposerRecord
      BY <1>6, <1>9, HandoffTypes
    <2>4. TypeInv'
      BY <1>4, <1>5, <2>2, <2>3 DEF TypeInv
    <2> QED BY <1>1, <1>3, <1>4, <1>5, <1>9, <2>2, <2>4 DEF c, server
  <1>10. CASE /\ e.type = "fallback" /\ ~c.submitted
              /\ composer' = [c EXCEPT !.submitted = TRUE, !.skip = TRUE, !.fallback = c.latest]
              /\ UNCHANGED posts
    <2>1. composer' \in ComposerRecord
      BY <1>6, <1>10 DEF ComposerRecord
    <2>2. TypeInv'
      BY <1>4, <1>5, <1>10, <2>1 DEF TypeInv
    <2> QED BY <1>1, <1>3, <1>4, <1>5, <1>10, <2>2 DEF c, server
  <1> QED BY <1>7, <1>8, <1>9, <1>10

LEMMA FormTypes ==
  ASSUME TypeInv, SubmitForm
  PROVE  /\ composer.fallback # None /\ composer.skip
         /\ composer' = [composer EXCEPT !.skip = FALSE]
         /\ UNCHANGED <<server, streams, cookie, url, wanted, page>>
         /\ posts' \in [Prompts -> PostRecord]
         /\ \A q \in Prompts : q # composer.fallback => posts'[q] = posts[q]
         /\ composer.fallback \in Prompts => posts'[composer.fallback].pc = "sent"
         /\ TypeInv'
  <1>1. /\ composer.fallback # None /\ composer.skip
        /\ composer' = [composer EXCEPT !.skip = FALSE]
        /\ UNCHANGED <<kinds, tasks, jobs, upsets, streams, cookie, url, wanted, page>>
        /\ Post(composer.fallback, TRUE, ChatTask)
    BY DEF SubmitForm, server
  <1>2. ChatTask \in Nat \cup {None}
    BY DEF ChatTask, TypeInv
  <1>3. /\ posts' \in [Prompts -> PostRecord]
        /\ \A q \in Prompts : q # composer.fallback => posts'[q] = posts[q]
        /\ composer.fallback \in Prompts => posts'[composer.fallback].pc = "sent"
    BY <1>1, <1>2, PostTypes
  <1>4. composer' \in ComposerRecord
    BY <1>1 DEF TypeInv, ComposerRecord
  <1>5. TypeInv'
    BY <1>1, <1>3, <1>4 DEF TypeInv
  <1> QED BY <1>1, <1>3, <1>5 DEF server

(* Of two tasks the first that there is; of three too.                     *)
LEMMA GoToTypes ==
  ASSUME NEW candidates \in Seq(Nat \cup {None}), Len(candidates) <= 3, GoTo(candidates)
  PROVE  /\ url' \in Addresses /\ (url'.new => url'.task = None) /\ wanted' = TRUE
         /\ candidates # <<>> /\ candidates[1] # None => url' = AddressOf(candidates[1])
  <1> DEFINE found == {i \in DOMAIN candidates : candidates[i] # None}
  <1>1. wanted' = TRUE /\ url' = IF found = {} THEN NewTaskEntry ELSE AddressOf(candidates[Min(found)])
    BY DEF GoTo
  <1>2. found \subseteq Nat /\ \A i \in found : i >= 1
    OBVIOUS
  <1>3. ASSUME 1 \in found PROVE Min(found) = 1
    BY <1>2, <1>3 DEF Min
  <1>4. NewTaskEntry \in Addresses /\ NewTaskEntry.task = None
    BY DEF NewTaskEntry, Addresses
  <1>5. ASSUME NEW t \in Nat \cup {None}
        PROVE  AddressOf(t) \in Addresses /\ ~AddressOf(t).new
    BY DEF AddressOf, Addresses
  <1>6. ASSUME found # {} PROVE Min(found) \in found
    <2>1. found \subseteq {1, 2, 3}
      BY Elements
    <2> HIDE DEF found
    <2>2. \E m \in found : \A n \in found : m =< n
      <3>1. CASE 1 \in found
        BY <2>1, <3>1
      <3>2. CASE 1 \notin found /\ 2 \in found
        BY <2>1, <3>2
      <3>3. CASE 1 \notin found /\ 2 \notin found
        <4>1. 3 \in found /\ \A n \in found : n = 3
          BY <1>6, <2>1, <3>3
        <4> QED BY <4>1
      <3> QED BY <3>1, <3>2, <3>3
    <2> QED BY <2>2 DEF Min
  <1>7. found # {} => candidates[Min(found)] \in Nat \cup {None}
    BY <1>6, Elements
  <1>8. candidates # <<>> /\ candidates[1] # None => 1 \in found
    OBVIOUS
  <1> HIDE DEF found
  <1> QED BY <1>1, <1>3, <1>4, <1>5, <1>7, <1>8

(* The end of a reading: the composer may go to the task of the answer.    *)
LEMMA EndingTypes ==
  ASSUME TypeInv, NEW p \in Prompts, NEW c \in ComposerRecord, EndReading(p, c)
  PROVE  /\ composer' = c
         /\ streams' \in [Prompts -> StreamRecord]
         /\ \A q \in Prompts : q # p => streams'[q] = streams[q]
         /\ streams'[p].pc = "closed" /\ streams'[p].todo = <<>> /\ ~streams'[p].read
         /\ url' \in Addresses /\ (url'.new => url'.task = None) /\ wanted' \in BOOLEAN
         /\ UNCHANGED <<url, wanted>> \/ wanted' = TRUE
         /\ c.status \notin {"completed", "error"} => UNCHANGED <<url, wanted>>
         /\ c.status = "completed" /\ c.task # None => url' = AddressOf(c.task)
  <1>1. composer' = c /\ streams' = [streams EXCEPT ![p] = [NoStream EXCEPT !.pc = "closed"]]
    BY DEF EndReading
  <1>2. /\ [NoStream EXCEPT !.pc = "closed"] \in StreamRecord
        /\ [NoStream EXCEPT !.pc = "closed"].pc = "closed"
        /\ [NoStream EXCEPT !.pc = "closed"].todo = <<>>
        /\ ~[NoStream EXCEPT !.pc = "closed"].read
    <2> DEFINE none == <<>>
    <2>1. none \in Seq(EventRecord)
      OBVIOUS
    <2>2. NoStream = [pc |-> "none", at |-> None, task |-> None, todo |-> none, read |-> FALSE]
      BY DEF NoStream
    <2> HIDE DEF none
    <2>3. NoStream \in StreamRecord /\ NoStream.todo = none /\ NoStream.read = FALSE
      BY <2>1, <2>2 DEF StreamRecord
    <2>4. /\ [NoStream EXCEPT !.pc = "closed"] \in StreamRecord
          /\ [NoStream EXCEPT !.pc = "closed"].pc = "closed"
          /\ [NoStream EXCEPT !.pc = "closed"].todo = none
          /\ ~[NoStream EXCEPT !.pc = "closed"].read
      BY <2>3 DEF StreamRecord
    <2> QED BY <2>4 DEF none
  <1> DEFINE row == [NoStream EXCEPT !.pc = "closed"]
  <1> HIDE DEF row
  <1>3. /\ streams' \in [Prompts -> StreamRecord]
        /\ \A q \in Prompts : q # p => streams'[q] = streams[q]
        /\ streams'[p].pc = "closed" /\ streams'[p].todo = <<>> /\ ~streams'[p].read
    BY <1>1, <1>2 DEF TypeInv, row
  <1>4. CASE c.status \notin {"completed", "error"}
    <2>1. UNCHANGED <<url, wanted>>
      BY <1>4 DEF EndReading
    <2> QED BY <1>1, <1>3, <1>4, <2>1 DEF TypeInv
  <1>5. CASE c.status \in {"completed", "error"}
    <2> DEFINE candidates == <<c.task, streams[p].at>>
    <2>1. GoTo(candidates)
      BY <1>5 DEF EndReading
    <2>2. c.task \in Nat \cup {None} /\ streams[p].at \in Nat \cup {None}
      BY DEF TypeInv, ComposerRecord, StreamRecord
    <2>3. /\ candidates \in Seq(Nat \cup {None}) /\ Len(candidates) <= 3
          /\ candidates # <<>> /\ candidates[1] = c.task
      BY <2>2
    <2> HIDE DEF candidates
    <2>4. /\ url' \in Addresses /\ (url'.new => url'.task = None) /\ wanted' = TRUE
          /\ c.task # None => url' = AddressOf(c.task)
      BY <2>1, <2>3, GoToTypes
    <2> QED BY <1>1, <1>3, <1>5, <2>4
  <1> QED BY <1>4, <1>5

LEMMA CompletedTypes ==
  ASSUME TypeInv, NEW p \in Prompts
  PROVE  /\ composer.pending # p => \A ok \in BOOLEAN : Completed(p, ok) = composer
         /\ composer.pending = p =>
              /\ Completed(p, TRUE) \in ComposerRecord
              /\ Completed(p, TRUE).status = "idle" /\ Completed(p, TRUE).task = None
              /\ Completed(p, TRUE).pending = None /\ Completed(p, TRUE).fallback = None
              /\ Completed(p, TRUE).submitted /\ ~Completed(p, TRUE).skip
              /\ Completed(p, TRUE).latest = composer.latest
              /\ Completed(p, TRUE).moved = composer.moved
              /\ Completed(p, TRUE).early = composer.early
              /\ Completed(p, TRUE).accepted = p
              /\ Completed(p, FALSE) \in ComposerRecord
              /\ Completed(p, FALSE) = [composer EXCEPT !.status = "error", !.pending = None]
  <1>1. composer.pending # p => \A ok \in BOOLEAN : Completed(p, ok) = composer
    BY DEF Completed
  <1>2. ASSUME composer.pending = p
        PROVE  Completed(p, TRUE) = [FirstComposer EXCEPT !.submitted = TRUE, !.latest = composer.latest,
                                        !.moved = composer.moved, !.early = composer.early,
                                        !.accepted = p]
    BY <1>2 DEF Completed
  <1>3. composer \in ComposerRecord /\ composer.latest \in Nat /\ composer.moved \in BOOLEAN
        /\ composer.early \in SUBSET Nat /\ p \in Nat
    BY LiveTaskAssumption DEF TypeInv, ComposerRecord, Prompts
  <1>4. composer.pending = p =>
          /\ Completed(p, FALSE) = [composer EXCEPT !.status = "error", !.pending = None]
          /\ Completed(p, FALSE) \in ComposerRecord
    BY <1>3 DEF Completed, ComposerRecord
  <1> QED BY <1>1, <1>2, <1>3, <1>4 DEF FirstComposer, ComposerRecord

LEMMA AcceptedTypes ==
  ASSUME TypeInv, WorkInv, NEW p \in Prompts, Accepted(p)
  PROVE  /\ posts[p].awaited /\ posts[p].pc = "ready"
         /\ UNCHANGED <<server, streams, page>>
         /\ posts' \in [Prompts -> PostRecord]
         /\ \A q \in Prompts : q # p => posts'[q] = posts[q]
         /\ posts'[p].pc = "ready" /\ ~posts'[p].awaited /\ ~posts'[p].native
         /\ url' \in Addresses /\ (url'.new => url'.task = None)
         /\ UNCHANGED <<url, wanted>> \/ wanted' = TRUE
         /\ \/ posts[p].native /\ url' = Home /\ UNCHANGED composer
            \/ ~posts[p].native /\ composer.pending # p /\ UNCHANGED <<composer, url, wanted>>
            \/ /\ ~posts[p].native /\ composer.pending = p
               /\ composer' = Completed(p, TRUE) /\ url' = AddressOf(jobs[p].task)
         /\ TypeInv'
  <1> DEFINE row == [NoPost EXCEPT !.pc = "ready"]
             t == jobs[p].task
  <1>1. /\ posts[p].awaited /\ posts[p].pc = "ready"
        /\ UNCHANGED <<kinds, tasks, jobs, upsets, streams, page>>
        /\ posts' = [posts EXCEPT ![p] = row] /\ cookie' = t
    BY DEF Accepted, server
  <1>2. row \in PostRecord /\ row.pc = "ready" /\ ~row.awaited /\ ~row.native
    BY DEF NoPost, PostRecord
  <1>3. t \in Nat \cup {None} /\ t # None
    BY <1>1 DEF TypeInv, JobRecord, WorkInv
  <1>4. /\ posts' \in [Prompts -> PostRecord]
        /\ \A q \in Prompts : q # p => posts'[q] = posts[q]
        /\ posts'[p].pc = "ready" /\ ~posts'[p].awaited /\ ~posts'[p].native
    <2> HIDE DEF row
    <2> QED BY <1>1, <1>2 DEF TypeInv
  <1>5. CASE posts[p].native
    <2>1. url' = Home /\ wanted' = TRUE /\ UNCHANGED composer
      BY <1>5 DEF Accepted
    <2>2. Home \in Addresses /\ Home.task = None
      BY DEF Home, Addresses
    <2>3. TypeInv'
      BY <1>1, <1>3, <1>4, <2>1, <2>2 DEF TypeInv
    <2> QED BY <1>1, <1>4, <1>5, <2>1, <2>2, <2>3 DEF server
  <1>6. CASE ~posts[p].native /\ composer.pending # p
    <2>1. UNCHANGED <<composer, url, wanted>>
      BY <1>6, CompletedTypes DEF Accepted
    <2>2. TypeInv'
      BY <1>1, <1>3, <1>4, <2>1 DEF TypeInv
    <2> QED BY <1>1, <1>4, <1>6, <2>1, <2>2 DEF server, TypeInv
  <1>7. CASE ~posts[p].native /\ composer.pending = p
    <2> DEFINE candidates == <<t, composer.task, posts[p].at>>
    <2>1. GoTo(candidates) /\ composer' = Completed(p, TRUE)
      BY <1>7 DEF Accepted
    <2>2. composer.task \in Nat \cup {None} /\ posts[p].at \in Nat \cup {None}
      BY DEF TypeInv, ComposerRecord, PostRecord
    <2> HIDE DEF t
    <2>3. /\ candidates \in Seq(Nat \cup {None}) /\ Len(candidates) <= 3
          /\ candidates # <<>> /\ candidates[1] = t
      BY <1>3, <2>2
    <2> HIDE DEF candidates
    <2>4. url' \in Addresses /\ (url'.new => url'.task = None) /\ wanted' = TRUE /\ url' = AddressOf(t)
      BY <1>3, <2>1, <2>3, GoToTypes
    <2>5. composer' \in ComposerRecord
      BY <1>7, <2>1, CompletedTypes
    <2>6. TypeInv'
      BY <1>1, <1>3, <1>4, <2>4, <2>5 DEF TypeInv
    <2> QED BY <1>1, <1>4, <1>7, <2>1, <2>4, <2>6 DEF server, t
  <1> QED BY <1>5, <1>6, <1>7

LEMMA RefusedTypes ==
  ASSUME TypeInv, NEW p \in Prompts, Refused(p)
  PROVE  /\ posts[p].awaited /\ ~posts[p].native
         /\ UNCHANGED <<kinds, tasks, jobs, streams, cookie, url, wanted, page>>
         /\ posts' \in [Prompts -> PostRecord]
         /\ \A q \in Prompts : q # p => posts'[q] = posts[q]
         /\ posts'[p] = [posts[p] EXCEPT !.awaited = FALSE]
         /\ posts'[p].pc = posts[p].pc /\ ~posts'[p].awaited /\ posts'[p].at = posts[p].at
         /\ posts'[p].native = posts[p].native
         /\ \/ composer.pending # p /\ UNCHANGED composer
            \/ composer.pending = p /\ composer' = Completed(p, FALSE)
         /\ TypeInv'
  <1>1. /\ posts[p].awaited /\ ~posts[p].native
        /\ UNCHANGED <<kinds, tasks, jobs, streams, cookie, url, wanted, page>>
        /\ posts' = [posts EXCEPT ![p].awaited = FALSE]
        /\ composer' = Completed(p, FALSE)
    BY DEF Refused
  <1>2. /\ posts' \in [Prompts -> PostRecord]
        /\ \A q \in Prompts : q # p => posts'[q] = posts[q]
        /\ posts'[p] = [posts[p] EXCEPT !.awaited = FALSE]
        /\ posts'[p].pc = posts[p].pc /\ ~posts'[p].awaited /\ posts'[p].at = posts[p].at
        /\ posts'[p].native = posts[p].native
    BY <1>1 DEF TypeInv, PostRecord
  <1>3. /\ \/ composer.pending # p /\ UNCHANGED composer
           \/ composer.pending = p /\ composer' = Completed(p, FALSE)
        /\ composer' \in ComposerRecord
    BY <1>1, CompletedTypes DEF TypeInv
  <1>4. TypeInv'
    BY <1>1, <1>2, <1>3 DEF TypeInv
  <1> QED BY <1>1, <1>2, <1>3, <1>4

LEMMA ClearTypes ==
  ASSUME TypeInv, ClearTurn
  PROVE  /\ composer.status = "completed"
         /\ composer' = [composer EXCEPT !.status = "idle", !.task = None]
         /\ UNCHANGED <<server, transport, url, wanted, page>>
         /\ TypeInv'
  <1>1. /\ composer.status = "completed"
        /\ composer' = [composer EXCEPT !.status = "idle", !.task = None]
        /\ UNCHANGED <<server, transport, url, wanted, page>>
    BY DEF ClearTurn
  <1>2. composer' \in ComposerRecord
    BY <1>1 DEF TypeInv, ComposerRecord
  <1> QED BY <1>1, <1>2 DEF TypeInv, server, transport

LEMMA NavigateTypes ==
  ASSUME TypeInv, NEW to \in {AddressOf(t) : t \in DOMAIN tasks} \cup {NewTaskEntry}, Navigate(to)
  PROVE  /\ composer' = [composer EXCEPT !.moved = TRUE]
         /\ wanted' = TRUE /\ UNCHANGED <<kinds, tasks, jobs, transport, page>>
         /\ TypeInv'
  <1>1. /\ composer' = [composer EXCEPT !.moved = TRUE]
        /\ url' = to /\ wanted' = TRUE /\ UNCHANGED <<kinds, tasks, jobs, transport, page>>
    BY DEF Navigate
  <1>2. composer' \in ComposerRecord
    BY <1>1 DEF TypeInv, ComposerRecord
  <1>3. \A t \in DOMAIN tasks : t \in Nat
    BY Elements DEF TypeInv
  <1>4. to \in Addresses /\ (to.new => to.task = None)
    <2>1. CASE to = NewTaskEntry
      BY <2>1 DEF NewTaskEntry, Addresses
    <2>2. ASSUME NEW t \in DOMAIN tasks, to = AddressOf(t)
          PROVE  to \in Addresses /\ (to.new => to.task = None)
      <3>1. t \in Nat
        BY <1>3
      <3>2. to = [task |-> t, new |-> FALSE]
        BY <2>2 DEF AddressOf
      <3> QED BY <3>1, <3>2 DEF Addresses
    <2> QED BY <2>1, <2>2
  <1> QED BY <1>1, <1>2, <1>4 DEF TypeInv, transport

LEMMA RenderTypes ==
  ASSUME TypeInv, Render
  PROVE  /\ ~wanted'
         /\ url.task # None => page'.task = url.task
         /\ UNCHANGED <<kinds, jobs, transport, composer, url>>
         /\ TypeInv'
  <1> DEFINE t == TaskOfUrl
  <1>1. /\ ~wanted' /\ wanted' \in BOOLEAN /\ UNCHANGED <<kinds, jobs, transport, composer, url>>
        /\ page' = [task |-> t, type |-> IF t = None THEN None ELSE tasks[t].type]
    BY DEF Render
  <1>2. tasks' \in Seq(Task)
    BY AgedTasks
  <1>3. t \in Nat \cup {None} /\ (url.task # None => t = url.task)
    BY DEF TaskOfUrl, TypeInv, Addresses
  <1> QED BY <1>1, <1>2, <1>3 DEF TypeInv, transport

(* The server's side of a stream: it is opened, and it is closed.          *)
LEMMA OpenTypes ==
  ASSUME TypeInv, EventsInv, NEW p \in Prompts, NEW ok \in BOOLEAN, OpenStream(p, ok)
  PROVE  /\ streams[p].pc = "sent"
         /\ UNCHANGED <<kinds, jobs, posts, client>>
         /\ streams' \in [Prompts -> StreamRecord]
         /\ \A q \in Prompts : q # p => streams'[q] = streams[q]
         /\ streams'[p].read = streams[p].read
         /\ \/ /\ streams'[p].todo = <<Event("fallback", None)>> /\ streams'[p].pc = "closed"
               /\ UNCHANGED tasks
            \/ /\ streams'[p].pc \in {"open", "closed"}
               /\ streams'[p].pc = "open" => streams'[p].task # None
               /\ \A i \in DOMAIN streams'[p].todo :
                    streams'[p].todo[i].type \in {"created", "running", "error"}
         /\ TypeInv'
  <1> DEFINE t == streams[p].at
             in == IF t = None THEN Len(tasks) + 1 ELSE t
  <1>1. streams[p].pc = "sent" /\ UNCHANGED <<kinds, jobs, posts, composer, url, wanted, page, panel>>
    BY DEF OpenStream, client
  <1>2. /\ streams[p] \in StreamRecord /\ streams[p].todo = <<>>
        /\ in \in Nat /\ None \in Nat \cup {None} /\ in # None
    BY <1>1, LiveTaskAssumption DEF TypeInv, EventsInv, StreamRecord
  <1>3. tasks' \in Seq(Task)
    BY OpenTasks DEF TypeInv
  <1>4. cookie' \in Nat \cup {None}
    BY <1>2 DEF OpenStream, TypeInv
  <1>5. \/ /\ Send(p, "closed", None, <<Event("fallback", None)>>) /\ UNCHANGED tasks
        \/ Send(p, "closed", None, <<Event("error", None)>>)
        \/ Send(p, "open", in, <<Event("created", in), Event("running", in)>>)
        \/ Send(p, "closed", in, <<Event("created", in), Event("error", None)>>)
    BY DEF OpenStream
  <1> HIDE DEF in
  <1>6. /\ Event("fallback", None) \in EventRecord /\ Event("error", None) \in EventRecord
        /\ Event("created", in) \in EventRecord /\ Event("running", in) \in EventRecord
        /\ Event("error", None).type = "error" /\ Event("created", in).type = "created"
        /\ Event("running", in).type = "running"
    BY <1>2 DEF Event, EventRecord, StatusAfter
  <1>7. ASSUME NEW pc \in {"open", "closed"}, NEW to \in Nat \cup {None}, NEW events \in Seq(EventRecord),
               Send(p, pc, to, events)
        PROVE  /\ streams' \in [Prompts -> StreamRecord]
               /\ \A q \in Prompts : q # p => streams'[q] = streams[q]
               /\ streams'[p].read = streams[p].read
               /\ streams'[p].pc = pc /\ streams'[p].task = to /\ streams'[p].todo = events
               /\ TypeInv'
    <2>1. /\ streams' \in [Prompts -> StreamRecord]
          /\ \A q \in Prompts : q # p => streams'[q] = streams[q]
          /\ streams'[p].pc = pc /\ streams'[p].task = to
          /\ streams'[p].todo = streams[p].todo \o events
          /\ streams'[p].read = streams[p].read
      BY <1>7, Sending
    <2>2. streams[p].todo \o events = events
      BY <1>2, <1>7, Joined DEF StreamRecord
    <2> QED BY <1>1, <1>3, <1>4, <2>1, <2>2 DEF TypeInv
  <1>8. CASE Send(p, "closed", None, <<Event("fallback", None)>>) /\ UNCHANGED tasks
    <2>1. <<Event("fallback", None)>> \in Seq(EventRecord)
      BY <1>6
    <2> QED BY <1>1, <1>2, <1>7, <1>8, <2>1 DEF client
  <1>9. CASE Send(p, "closed", None, <<Event("error", None)>>)
    <2> DEFINE events == <<Event("error", None)>>
    <2>1. events \in Seq(EventRecord) /\ \A i \in DOMAIN events : events[i].type = "error"
      BY <1>6
    <2> HIDE DEF events
    <2>2. Send(p, "closed", None, events)
      BY <1>9 DEF events
    <2> QED BY <1>1, <1>2, <1>7, <2>1, <2>2 DEF client
  <1>10. CASE Send(p, "open", in, <<Event("created", in), Event("running", in)>>)
    <2> DEFINE events == <<Event("created", in), Event("running", in)>>
    <2>1. events \in Seq(EventRecord) /\ \A i \in DOMAIN events : events[i].type \in {"created", "running"}
      BY <1>6
    <2> HIDE DEF events
    <2>2. Send(p, "open", in, events)
      BY <1>10 DEF events
    <2> QED BY <1>1, <1>2, <1>7, <2>1, <2>2 DEF client
  <1>11. CASE Send(p, "closed", in, <<Event("created", in), Event("error", None)>>)
    <2> DEFINE events == <<Event("created", in), Event("error", None)>>
    <2>1. events \in Seq(EventRecord) /\ \A i \in DOMAIN events : events[i].type \in {"created", "error"}
      BY <1>6
    <2> HIDE DEF events
    <2>2. Send(p, "closed", in, events)
      BY <1>11 DEF events
    <2> QED BY <1>1, <1>2, <1>7, <2>1, <2>2 DEF client
  <1> QED BY <1>5, <1>8, <1>9, <1>10, <1>11

LEMMA CloseTypes ==
  ASSUME TypeInv, EventsInv, NEW p \in Prompts, NEW ok \in BOOLEAN, CloseStream(p, ok)
  PROVE  /\ streams[p].pc = "open"
         /\ UNCHANGED <<kinds, jobs, posts, cookie, client>>
         /\ streams' \in [Prompts -> StreamRecord]
         /\ \A q \in Prompts : q # p => streams'[q] = streams[q]
         /\ streams'[p].read = streams[p].read /\ streams'[p].pc = "closed"
         /\ \A i \in DOMAIN streams'[p].todo :
              \/ i \in DOMAIN streams[p].todo /\ streams'[p].todo[i] = streams[p].todo[i]
              \/ /\ streams'[p].todo[i].type \in {"delta", "completed", "failed", "error"}
                 /\ streams'[p].todo[i].type = "completed" => streams'[p].todo[i].task # None
         /\ TypeInv'
  <1> DEFINE t == streams[p].task
  <1>1. streams[p].pc = "open" /\ UNCHANGED <<kinds, jobs, posts, cookie, composer, url, wanted, page, panel>>
    BY DEF CloseStream, client
  <1>2. /\ streams[p] \in StreamRecord
        /\ t \in Nat \cup {None} /\ None \in Nat \cup {None} /\ t # None
    BY <1>1 DEF TypeInv, EventsInv, StreamRecord
  <1>3. tasks' \in Seq(Task)
    BY QuietTasks
  <1>4. \/ Send(p, "closed", t, <<Event("delta", t), Event("completed", t), Event("completed", t)>>)
        \/ Send(p, "closed", t, <<Event("failed", t), Event("error", None)>>)
    BY DEF CloseStream
  <1>5. PICK events \in Seq(EventRecord) :
          /\ Send(p, "closed", t, events)
          /\ \A i \in DOMAIN events :
               /\ events[i].type \in {"delta", "completed", "failed", "error"}
               /\ events[i].type = "completed" => events[i].task # None
    <2>1. /\ Event("delta", t) \in EventRecord /\ Event("completed", t) \in EventRecord
          /\ Event("failed", t) \in EventRecord /\ Event("error", None) \in EventRecord
          /\ Event("delta", t).type = "delta" /\ Event("completed", t).type = "completed"
          /\ Event("completed", t).task = t
          /\ Event("failed", t).type = "failed" /\ Event("error", None).type = "error"
      BY <1>2 DEF Event, EventRecord, StatusAfter
    <2> HIDE DEF t
    <2> DEFINE good == <<Event("delta", t), Event("completed", t), Event("completed", t)>>
               bad == <<Event("failed", t), Event("error", None)>>
    <2>2. /\ good \in Seq(EventRecord)
          /\ \A i \in DOMAIN good : good[i].type \in {"delta", "completed"} /\ good[i] = good[i]
          /\ \A i \in DOMAIN good : good[i].type = "completed" => good[i].task # None
      BY <1>2, <2>1
    <2>3. /\ bad \in Seq(EventRecord)
          /\ \A i \in DOMAIN bad : bad[i].type \in {"failed", "error"}
      BY <1>2, <2>1
    <2>4. Send(p, "closed", t, good) \/ Send(p, "closed", t, bad)
      BY <1>4 DEF t
    <2> HIDE DEF good, bad
    <2> QED BY <2>2, <2>3, <2>4 DEF t
  <1> HIDE DEF t
  <1>6. /\ streams' \in [Prompts -> StreamRecord]
        /\ \A q \in Prompts : q # p => streams'[q] = streams[q]
        /\ streams'[p].pc = "closed" /\ streams'[p].todo = streams[p].todo \o events
        /\ streams'[p].read = streams[p].read
    BY <1>2, <1>5, Sending
  <1>7. \A i \in DOMAIN (streams[p].todo \o events) :
          \/ i \in DOMAIN streams[p].todo /\ (streams[p].todo \o events)[i] = streams[p].todo[i]
          \/ \E j \in DOMAIN events : (streams[p].todo \o events)[i] = events[j]
    BY <1>2, Joined DEF StreamRecord
  <1>8. TypeInv'
    BY <1>1, <1>3, <1>6 DEF TypeInv
  <1> QED BY <1>1, <1>5, <1>6, <1>7, <1>8 DEF client

-----------------------------------------------------------------------------
(* The kinds of steps there are: a quiet one, of the server or the panel,  *)
(* the end of a reading, and those that are an action each.                *)
Quiet ==
  /\ UNCHANGED <<kinds, posts, streams, composer, url, page>>
  /\ UNCHANGED wanted \/ wanted' = TRUE
  /\ \A q \in Prompts : jobs'[q].task = jobs[q].task
  /\ SaysNothing(tasks') /\ TypeInv'

Ending(p, c) ==
  /\ streams[p].read /\ c \in {composer, [composer EXCEPT !.status = "error"]}
  /\ EndReading(p, c)
  /\ UNCHANGED <<kinds, jobs, posts, page>>
  /\ SaysNothing(tasks') /\ TypeInv'

ServerSteps ==
  \E p \in Prompts : PostStep(p) \/ \E ok \in BOOLEAN : OpenStream(p, ok) \/ CloseStream(p, ok)
TabSteps ==
  \/ \E p \in Prompts :
       \/ ReadEvent(p) \/ \E c \in ComposerRecord : Ending(p, c)
       \/ Accepted(p) \/ Refused(p)
  \/ \E kind \in Kinds : Submit(kind)
  \/ \E to \in {AddressOf(t) : t \in DOMAIN tasks} \cup {NewTaskEntry} : Navigate(to)
  \/ SubmitForm \/ ClearTurn \/ Render

LEMMA Steps ==
  ASSUME TypeInv, WorkInv, [Next]_vars
  PROVE  Quiet \/ ServerSteps \/ TabSteps
  <1>s. SaysNothing(tasks)
    BY DEF SaysNothing, At, KeptAt
  <1>1. ASSUME NEW p \in Prompts, JobStep(p) PROVE Quiet
    <2>1. /\ JobTypes' /\ UNCHANGED <<kinds, transport, client>>
          /\ \A q \in Prompts : jobs'[q].task = jobs[q].task
      BY <1>1, JobStepTypes
    <2>2. tasks' \in Seq(Task) /\ SaysNothing(tasks')
      BY <1>1, QuietTasks DEF JobStep
    <2> QED BY <2>1, <2>2 DEF Quiet, TypeInv, JobTypes, transport, client
  <1>2. ASSUME NEW t \in DOMAIN tasks, Age(t) PROVE Quiet
    <2>1. tasks' \in Seq(Task) /\ SaysNothing(tasks')
      BY <1>2, AgedTasks
    <2>2. UNCHANGED <<kinds, jobs, posts, streams, composer, cookie, url, wanted, page>>
      BY <1>2 DEF Age
    <2> QED BY <2>1, <2>2 DEF Quiet, TypeInv
  <1>3. CASE PanelStep
    <2>1. /\ UNCHANGED <<kinds, tasks, jobs, posts, streams, composer, cookie, url, page>>
          /\ UNCHANGED wanted \/ wanted' = TRUE
      <3>1. ASSUME NEW ok \in BOOLEAN, ReadLiveState(ok)
            PROVE  UNCHANGED <<kinds, tasks, jobs, posts, streams, composer, cookie, url, page, wanted>>
        BY <3>1 DEF ReadLiveState, transport
      <3>2. CASE ApplyPoll
        <4>1. UNCHANGED <<kinds, tasks, jobs, posts, streams, composer, cookie, url, page>>
          BY <3>2 DEF ApplyPoll, server, transport
        <4>2. UNCHANGED wanted \/ \E b \in BOOLEAN : wanted' = (wanted \/ (panel.answer.terminal /\ b))
          BY <3>2 DEF ApplyPoll
        <4>3. wanted \in BOOLEAN
          BY DEF TypeInv
        <4> QED BY <4>1, <4>2, <4>3
      <3> QED BY <1>3, <3>1, <3>2 DEF PanelStep
    <2>2. TypeInv'
      BY <2>1 DEF TypeInv
    <2> QED BY <1>s, <2>1, <2>2 DEF Quiet
  <1>4. CASE UNCHANGED vars
    <2>1. UNCHANGED <<kinds, tasks, jobs, posts, streams, composer, cookie, url, page, wanted>>
      BY <1>4 DEF vars
    <2> QED BY <1>s, <2>1 DEF Quiet, TypeInv
  <1>5. ASSUME NEW p \in Prompts, ReadEnd(p) PROVE Ending(p, composer)
    <2>1. /\ streams[p].read /\ EndReading(p, composer)
          /\ UNCHANGED <<kinds, tasks, jobs, upsets, posts, cookie, page, panel>>
      BY <1>5 DEF ReadEnd, server
    <2>2. composer \in ComposerRecord
      BY DEF TypeInv
    <2>3. TypeInv'
      BY <2>1, <2>2, EndingTypes DEF TypeInv
    <2> QED BY <1>s, <2>1, <2>3 DEF Ending
  <1>6. ASSUME NEW p \in Prompts, Break(p) PROVE Ending(p, [composer EXCEPT !.status = "error"])
    <2>1. /\ streams[p].read /\ EndReading(p, [composer EXCEPT !.status = "error"])
          /\ UNCHANGED <<kinds, jobs, posts, cookie, page, panel>>
      BY <1>6 DEF Break
    <2>2. [composer EXCEPT !.status = "error"] \in ComposerRecord
      BY DEF TypeInv, ComposerRecord
    <2>3. tasks' \in Seq(Task) /\ SaysNothing(tasks')
      BY <1>6, QuietTasks
    <2>4. TypeInv'
      BY <2>1, <2>2, <2>3, EndingTypes DEF TypeInv
    <2> QED BY <2>1, <2>3, <2>4 DEF Ending
  <1>7. composer \in ComposerRecord /\ [composer EXCEPT !.status = "error"] \in ComposerRecord
    BY DEF TypeInv, ComposerRecord
  <1> QED BY <1>1, <1>2, <1>3, <1>4, <1>5, <1>6, <1>7 DEF Next, StreamStep, ServerSteps, TabSteps

(* A prompt that is on a way to the store was submitted.                   *)
LEMMA Submitted ==
  ASSUME TypeInv, WaysInv, NEW p \in Prompts,
         Posted(p) \/ streams[p].pc # "none" \/ streams[p].read \/ streams[p].todo # <<>>
  PROVE  p <= Len(kinds)
  <1>1. ~(p > Len(kinds))
    BY DEF WaysInv, NoStream
  <1>2. p \in Nat /\ Len(kinds) \in Nat
    BY LiveTaskAssumption, Elements DEF TypeInv, Prompts
  <1> QED BY <1>1, <1>2

LEMMA TypeStep ==
  ASSUME TypeInv, WorkInv, EventsInv, WaysInv, [Next]_vars
  PROVE  TypeInv'
  <1>1. ASSUME NEW p \in Prompts, PostStep(p) PROVE TypeInv'
    <2>1. JobTypes' /\ UNCHANGED <<kinds, streams, cookie, client>>
      BY <1>1, PostStepTypes
    <2>2. tasks' \in Seq(Task)
      <3>1. CASE StartRouting(p)
        BY <3>1, QuietTasks
      <3>2. CASE Classify(p)
        <4>1. p <= Len(kinds)
          BY <3>2, Submitted DEF Classify, Posted
        <4> QED BY <3>2, <4>1, ClassifyTasks DEF TypeInv
      <3>3. CASE FinishWork(p)
        BY <3>3 DEF FinishWork, TypeInv
      <3>4. ASSUME NEW ok \in BOOLEAN, NEW i, Route(p, ok, i) PROVE tasks' \in Seq(Task)
        BY <3>4, RouteTasks
      <3> QED BY <1>1, <3>1, <3>2, <3>3, <3>4 DEF PostStep
    <2> QED BY <2>1, <2>2 DEF TypeInv, JobTypes, client
  <1>2. CASE ServerSteps
    BY <1>1, <1>2, OpenTypes, CloseTypes DEF ServerSteps
  <1>3. CASE TabSteps
    BY <1>3, ReadTypes, AcceptedTypes, RefusedTypes, SubmitTypes, NavigateTypes, FormTypes,
       ClearTypes, RenderTypes DEF TabSteps, Ending
  <1> QED BY <1>2, <1>3, Steps DEF Quiet

-----------------------------------------------------------------------------
(* The fields of what is handed over.                                      *)
LEMMA Handed ==
  ASSUME NEW c \in ComposerRecord
  PROVE  /\ Handoff(c).submitted /\ Handoff(c).pending = c.latest
         /\ Handoff(c).status = c.status /\ Handoff(c).task = c.task
         /\ Handoff(c).latest = c.latest /\ Handoff(c).fallback = c.fallback
         /\ Handoff(c).skip = c.skip /\ Handoff(c).moved = c.moved
         /\ Handoff(c).early = c.early /\ Handoff(c).accepted = c.accepted
  BY DEF Handoff, ComposerRecord

(* What is worked on keeps its task.                                       *)
LEMMA WorkStep ==
  ASSUME TypeInv, WorkInv, WaysInv, EventsInv, LatestInv, [Next]_vars
  PROVE  WorkInv'
  <1>1. CASE Quiet
    BY <1>1 DEF Quiet, WorkInv
  <1>2. ASSUME NEW p \in Prompts, PostStep(p) PROVE WorkInv'
    BY <1>2, PostStepTypes
  <1>3. ASSUME NEW p \in Prompts, NEW ok \in BOOLEAN, OpenStream(p, ok) \/ CloseStream(p, ok) PROVE WorkInv'
    BY <1>3, OpenTypes, CloseTypes DEF WorkInv
  <1>4. ASSUME NEW p \in Prompts, ReadEvent(p) PROVE WorkInv'
    <2>1. /\ UNCHANGED jobs
          /\ UNCHANGED posts \/ \A q \in Prompts : posts'[q] = posts[q] \/ posts'[q].pc = "sent"
      BY <1>4, ReadTypes DEF server
    <2> QED BY <2>1 DEF WorkInv
  <1>5. ASSUME NEW p \in Prompts, NEW c, Ending(p, c) PROVE WorkInv'
    BY <1>5 DEF Ending, WorkInv
  <1>6. ASSUME NEW p \in Prompts, Accepted(p) PROVE WorkInv'
    <2>1. /\ UNCHANGED jobs /\ posts[p].pc = "ready" /\ posts'[p].pc = "ready"
          /\ \A q \in Prompts : q # p => posts'[q] = posts[q]
      BY <1>6, AcceptedTypes DEF server
    <2> QED BY <2>1 DEF WorkInv
  <1>7. ASSUME NEW p \in Prompts, Refused(p) PROVE WorkInv'
    <2>1. /\ UNCHANGED jobs /\ posts'[p].pc = posts[p].pc /\ posts'[p].at = posts[p].at
          /\ \A q \in Prompts : q # p => posts'[q] = posts[q]
      BY <1>7, RefusedTypes
    <2> QED BY <2>1 DEF WorkInv
  <1>8. ASSUME NEW kind \in Kinds, Submit(kind) PROVE WorkInv'
    <2>1. /\ UNCHANGED jobs
          /\ UNCHANGED posts \/ \A q \in Prompts : posts'[q] = posts[q] \/ posts'[q].pc = "sent"
      BY <1>8, SubmitTypes
    <2> QED BY <2>1 DEF WorkInv
  <1>9. CASE SubmitForm
    <2>1. UNCHANGED jobs /\ \A q \in Prompts : posts'[q] = posts[q] \/ posts'[q].pc = "sent"
      BY <1>9, FormTypes DEF server
    <2> QED BY <2>1 DEF WorkInv
  <1>10. CASE (\E to \in {AddressOf(t) : t \in DOMAIN tasks} \cup {NewTaskEntry} : Navigate(to))
                \/ ClearTurn \/ Render
    <2>1. UNCHANGED <<jobs, posts>>
      BY <1>10, NavigateTypes, ClearTypes, RenderTypes DEF server, transport
    <2> QED BY <2>1 DEF WorkInv
  <1> QED
    BY <1>1, <1>2, <1>3, <1>4, <1>5, <1>6, <1>7, <1>8, <1>9, <1>10, Steps DEF ServerSteps, TabSteps

(* Only the server writes a stream: a fallback alone, or no fallback.      *)
LEMMA EventsStep ==
  ASSUME TypeInv, WorkInv, WaysInv, EventsInv, LatestInv, [Next]_vars
  PROVE  EventsInv'
  <1> DEFINE Sound(s) ==
        /\ s.pc \in {"none", "sent"} => s.todo = <<>>
        /\ \A i \in DOMAIN s.todo :
             /\ s.todo[i].type = "fallback" => s.pc = "closed" /\ Len(s.todo) = 1
             /\ s.todo[i].type = "completed" => s.todo[i].task # None
        /\ s.pc = "open" => s.task # None
  <1>a. ASSUME NEW p \in Prompts, Sound(streams'[p]), \A q \in Prompts : q # p => streams'[q] = streams[q]
        PROVE  EventsInv'
    BY <1>a DEF EventsInv
  <1>b. UNCHANGED streams => EventsInv'
    BY DEF EventsInv
  <1>c. \A p \in Prompts : Sound(streams[p])
    BY DEF EventsInv
  <1>2. ASSUME NEW p \in Prompts, PostStep(p) PROVE EventsInv'
    BY <1>2, <1>b, PostStepTypes
  <1>3. ASSUME NEW p \in Prompts, NEW ok \in BOOLEAN, OpenStream(p, ok) PROVE EventsInv'
    <2> DEFINE lone == <<Event("fallback", None)>>
    <2>1. Len(lone) = 1 /\ \A i \in DOMAIN lone : lone[i].type = "fallback"
      BY DEF Event
    <2> HIDE DEF lone
    <2>2. /\ \A q \in Prompts : q # p => streams'[q] = streams[q]
          /\ \/ streams'[p].todo = lone /\ streams'[p].pc = "closed"
             \/ /\ streams'[p].pc \in {"open", "closed"}
                /\ streams'[p].pc = "open" => streams'[p].task # None
                /\ \A i \in DOMAIN streams'[p].todo :
                     streams'[p].todo[i].type \in {"created", "running", "error"}
      BY <1>3, OpenTypes DEF lone
    <2> QED BY <1>a, <2>1, <2>2
  <1>4. ASSUME NEW p \in Prompts, NEW ok \in BOOLEAN, CloseStream(p, ok) PROVE EventsInv'
    <2>1. /\ streams[p].pc = "open"
          /\ \A q \in Prompts : q # p => streams'[q] = streams[q]
          /\ streams'[p].pc = "closed"
          /\ \A i \in DOMAIN streams'[p].todo :
               \/ i \in DOMAIN streams[p].todo /\ streams'[p].todo[i] = streams[p].todo[i]
               \/ /\ streams'[p].todo[i].type \in {"delta", "completed", "failed", "error"}
                  /\ streams'[p].todo[i].type = "completed" => streams'[p].todo[i].task # None
      BY <1>4, CloseTypes
    <2> QED BY <1>a, <1>c, <2>1
  <1>5. ASSUME NEW p \in Prompts, ReadEvent(p) PROVE EventsInv'
    <2>1. /\ 1 \in DOMAIN streams[p].todo
          /\ \A q \in Prompts : q # p => streams'[q] = streams[q]
          /\ streams'[p].pc = streams[p].pc /\ streams'[p].task = streams[p].task
          /\ streams'[p].todo = Tail(streams[p].todo)
      BY <1>5, ReadTypes
    <2>2. streams[p].todo \in Seq(EventRecord)
      BY DEF TypeInv, StreamRecord
    <2>3. streams[p].todo # <<>>
      BY <2>1
    <2>4. \A i \in DOMAIN Tail(streams[p].todo) :
            i + 1 \in DOMAIN streams[p].todo /\ Tail(streams[p].todo)[i] = streams[p].todo[i + 1]
      BY <2>2, <2>3, Tails
    <2>5. Len(streams[p].todo) = 1 => \A i \in DOMAIN Tail(streams[p].todo) : FALSE
      <3>1. DOMAIN streams[p].todo = 1..Len(streams[p].todo)
        BY <2>2, Elements
      <3>2. Tail(streams[p].todo) \in Seq(EventRecord)
        BY <2>2, <2>3, Tails
      <3>3. \A i \in DOMAIN Tail(streams[p].todo) : i >= 1 /\ i \in Nat
        BY <3>2, Elements
      <3> QED BY <2>4, <3>1, <3>3
    <2>6. Sound(streams'[p])
      BY <1>c, <2>1, <2>3, <2>4, <2>5
    <2> QED BY <1>a, <2>1, <2>6
  <1>6. ASSUME NEW p \in Prompts, NEW c \in ComposerRecord, Ending(p, c) PROVE EventsInv'
    <2>1. /\ \A q \in Prompts : q # p => streams'[q] = streams[q]
          /\ streams'[p].pc = "closed" /\ streams'[p].todo = <<>>
      BY <1>6, EndingTypes DEF Ending
    <2> QED BY <1>a, <2>1
  <1>7. ASSUME NEW kind \in Kinds, Submit(kind) PROVE EventsInv'
    <2> DEFINE p == Len(kinds) + 1
    <2>1. /\ p \in Prompts
          /\ \/ UNCHANGED streams
             \/ /\ \A q \in Prompts : q # p => streams'[q] = streams[q]
                /\ streams'[p].pc = "sent" /\ streams'[p].todo = <<>>
      BY <1>7, SubmitTypes
    <2> HIDE DEF p
    <2> QED BY <1>a, <1>b, <2>1
  <1>8. CASE Quiet \/ SubmitForm \/ ClearTurn \/ Render
             \/ (\E p \in Prompts : Accepted(p) \/ Refused(p))
             \/ \E to \in {AddressOf(t) : t \in DOMAIN tasks} \cup {NewTaskEntry} : Navigate(to)
    <2>1. UNCHANGED streams
      BY <1>8, FormTypes, ClearTypes, RenderTypes, AcceptedTypes, RefusedTypes, NavigateTypes
         DEF Quiet, transport
    <2> QED BY <1>b, <2>1
  <1> QED
    BY <1>2, <1>3, <1>4, <1>5, <1>6, <1>7, <1>8, Steps DEF ServerSteps, TabSteps

(* A new prompt is the last one, and early if an older stream is read.     *)
LEMMA LatestStep ==
  ASSUME TypeInv, WorkInv, WaysInv, EventsInv, LatestInv, [Next]_vars
  PROVE  LatestInv'
  <1>t. composer.latest = Len(kinds) /\ Len(kinds) \in Nat
    BY Elements DEF LatestInv, TypeInv
  <1>a. ASSUME UNCHANGED kinds,
               composer'.latest = composer.latest, composer'.early = composer.early,
               composer'.fallback \in {None, composer.fallback, composer.latest},
               \A q \in Prompts : streams'[q].read => streams[q].read
        PROVE  LatestInv'
    BY <1>a DEF LatestInv
  <1>1. CASE Quiet
    BY <1>1 DEF Quiet, LatestInv
  <1>2. ASSUME NEW p \in Prompts, PostStep(p) PROVE LatestInv'
    BY <1>2, PostStepTypes DEF LatestInv, client
  <1>3. ASSUME NEW p \in Prompts, NEW ok \in BOOLEAN, OpenStream(p, ok) \/ CloseStream(p, ok) PROVE LatestInv'
    <2>1. /\ UNCHANGED <<kinds, composer>>
          /\ \A q \in Prompts : streams'[q].read => streams[q].read
      BY <1>3, OpenTypes, CloseTypes DEF client
    <2> QED BY <1>a, <2>1
  <1>4. ASSUME NEW p \in Prompts, ReadEvent(p) PROVE LatestInv'
    <2> DEFINE e == streams[p].todo[1]
               c == Reduced(e)
    <2>1. /\ e \in EventRecord /\ UNCHANGED kinds
          /\ \A q \in Prompts : streams'[q].read => streams[q].read
          /\ \/ composer' = c \/ composer' = Handoff(c)
             \/ composer' = [c EXCEPT !.submitted = TRUE, !.skip = TRUE, !.fallback = c.latest]
      BY <1>4, ReadTypes DEF server
    <2>2. /\ c \in ComposerRecord /\ c.latest = composer.latest /\ c.early = composer.early
          /\ c.fallback = composer.fallback
      BY <2>1, ReducedTypes
    <2> HIDE DEF c
    <2>3. /\ composer'.latest = composer.latest /\ composer'.early = composer.early
          /\ composer'.fallback \in {None, composer.fallback, composer.latest}
      BY <2>1, <2>2 DEF Handoff, ComposerRecord
    <2> QED BY <1>a, <2>1, <2>3
  <1>5. ASSUME NEW p \in Prompts, NEW c \in ComposerRecord, Ending(p, c) PROVE LatestInv'
    <2>1. /\ c.latest = composer.latest /\ c.early = composer.early /\ c.fallback = composer.fallback
      BY <1>5 DEF Ending, TypeInv, ComposerRecord
    <2>2. /\ composer' = c /\ UNCHANGED kinds
          /\ \A q \in Prompts : streams'[q].read => streams[q].read
      BY <1>5, EndingTypes DEF Ending
    <2> QED BY <1>a, <2>1, <2>2
  <1>6. ASSUME NEW p \in Prompts, Accepted(p) PROVE LatestInv'
    <2>1. /\ UNCHANGED <<kinds, streams>>
          /\ composer'.latest = composer.latest /\ composer'.early = composer.early
          /\ composer'.fallback \in {None, composer.fallback}
      <3>1. UNCHANGED <<kinds, streams>>
        BY <1>6, AcceptedTypes DEF server
      <3>2. UNCHANGED composer \/ (composer.pending = p /\ composer' = Completed(p, TRUE))
        BY <1>6, AcceptedTypes
      <3>3. CASE composer.pending = p /\ composer' = Completed(p, TRUE)
        <4>1. /\ composer'.latest = composer.latest /\ composer'.early = composer.early
              /\ composer'.fallback = None
          BY <3>3, CompletedTypes
        <4> QED BY <3>1, <4>1
      <3>4. CASE UNCHANGED composer
        BY <3>1, <3>4
      <3> QED BY <3>2, <3>3, <3>4
    <2> QED BY <1>a, <2>1
  <1>7. ASSUME NEW p \in Prompts, Refused(p) PROVE LatestInv'
    <2>1. /\ UNCHANGED <<kinds, streams>>
          /\ UNCHANGED composer \/ composer' = [composer EXCEPT !.status = "error", !.pending = None]
      BY <1>7, RefusedTypes, CompletedTypes
    <2> QED BY <1>a, <2>1 DEF TypeInv, ComposerRecord
  <1>8. ASSUME NEW kind \in Kinds, Submit(kind) PROVE LatestInv'
    <2> DEFINE p == Len(kinds) + 1
               early == composer.early \cup {q \in {p} : \E r \in Prompts : streams[r].read}
    <2>1. /\ p \in Prompts /\ p \in Nat /\ Len(kinds') = p
          /\ composer' = Fresh(p) \/ composer' = Handoff(Fresh(p))
          /\ UNCHANGED streams \/ \A q \in Prompts : q # p => streams'[q] = streams[q]
      BY <1>8, <1>t, SubmitTypes
    <2>2. composer'.latest = p /\ composer'.early = early /\ composer'.fallback = None
      BY <2>1, FreshTypes, Handed
    <2>3. composer.early \subseteq 1..Len(kinds)
      BY DEF LatestInv
    <2>4. early \subseteq 1..p
      BY <1>t, <2>3
    <2>5. p \notin early => \A r \in Prompts : ~streams[r].read
      OBVIOUS
    <2> HIDE DEF early, p
    <2> QED BY <2>1, <2>2, <2>4, <2>5 DEF LatestInv
  <1>9. CASE SubmitForm \/ ClearTurn \/ Render
             \/ \E to \in {AddressOf(t) : t \in DOMAIN tasks} \cup {NewTaskEntry} : Navigate(to)
    <2>1. /\ UNCHANGED <<kinds, streams>>
          /\ \/ UNCHANGED composer \/ composer' = [composer EXCEPT !.skip = FALSE]
             \/ composer' = [composer EXCEPT !.status = "idle", !.task = None]
             \/ composer' = [composer EXCEPT !.moved = TRUE]
      BY <1>9, FormTypes, ClearTypes, RenderTypes, NavigateTypes DEF server, transport
    <2> QED BY <1>a, <2>1 DEF TypeInv, ComposerRecord
  <1> QED
    BY <1>1, <1>2, <1>3, <1>4, <1>5, <1>6, <1>7, <1>8, <1>9, Steps DEF ServerSteps, TabSteps

(* A prompt on no new way keeps to its way.                                *)
NoNewWay(p) ==
  /\ Streaming(p)' => Streaming(p)
  /\ Returning(p)' => Returning(p)
  /\ Waiting(p)' => Waiting(p)
  /\ Posted(p)' => Posted(p)
  /\ \A t, i \in Nat : KeptAt(t, i, p)' => KeptAt(t, i, p)

LEMMA SameWay ==
  ASSUME NEW p, NoNewWay(p)
  PROVE  (OneWay(p) => OneWay(p)') /\ (Kept(p)' => Kept(p))
  BY DEF NoNewWay, OneWay, Kept

(* One prompt takes another way, which is then its only one; the others    *)
(* keep to theirs, and what was not submitted stays so.                    *)
LEMMA OneMoves ==
  ASSUME TypeInv, WaysInv, UNCHANGED kinds, composer'.early = composer.early, NEW p,
         p \in Prompts /\ p \notin composer.early => OneWay(p)',
         p \in Prompts => p <= Len(kinds),
         \A q \in Prompts : q # p => NoNewWay(q) /\ (q > Len(kinds) => UNCHANGED streams[q])
  PROVE  WaysInv'
  <1>1. ASSUME NEW q \in Prompts \ composer.early PROVE OneWay(q)'
    BY SameWay DEF WaysInv
  <1>2. ASSUME NEW q \in Prompts, q > Len(kinds) PROVE (~Kept(q) /\ ~Posted(q) /\ streams[q] = NoStream)'
    <2>1. q # p
      BY <1>2, LiveTaskAssumption, Elements DEF TypeInv, Prompts
    <2>2. ~Kept(q) /\ ~Posted(q) /\ streams[q] = NoStream
      BY <1>2 DEF WaysInv
    <2>3. NoNewWay(q) /\ UNCHANGED streams[q]
      BY <1>2, <2>1
    <2> QED BY <2>2, <2>3, SameWay DEF NoNewWay
  <1> QED BY <1>1, <1>2 DEF WaysInv

LEMMA NoneMoves ==
  ASSUME TypeInv, WaysInv, UNCHANGED kinds, composer'.early = composer.early,
         \A q \in Prompts : NoNewWay(q) /\ (q > Len(kinds) => UNCHANGED streams[q])
  PROVE  WaysInv'
  <1>1. ASSUME NEW q \in Prompts \ composer.early PROVE OneWay(q)'
    BY SameWay DEF WaysInv
  <1>2. ASSUME NEW q \in Prompts, q > Len(kinds) PROVE (~Kept(q) /\ ~Posted(q) /\ streams[q] = NoStream)'
    <2>2. ~Kept(q) /\ ~Posted(q) /\ streams[q] = NoStream
      BY <1>2 DEF WaysInv
    <2>3. NoNewWay(q) /\ UNCHANGED streams[q]
      BY <1>2
    <2> QED BY <2>2, <2>3, SameWay DEF NoNewWay
  <1> QED BY <1>1, <1>2 DEF WaysInv

(* What the tasks say decides what is kept.                                *)
LEMMA NotKept ==
  ASSUME SaysNothing(tasks')
  PROVE  \A q : \A t, i \in Nat : KeptAt(t, i, q)' => KeptAt(t, i, q)
  BY DEF SaysNothing, At, KeptAt

LEMMA KeptOnce ==
  ASSUME NEW p, Says(tasks', p)
  PROVE  /\ \A q : q # p => \A t, i \in Nat : KeptAt(t, i, q)' => KeptAt(t, i, q)
         /\ ~Kept(p) => \A s, t, i, j \in Nat : KeptAt(s, i, p)' /\ KeptAt(t, j, p)' => s = t /\ i = j
  <1>1. PICK u, k \in Nat : \A t, i \in Nat : \A q :
          At(tasks', t, i, q) => KeptAt(t, i, q) \/ (t = u /\ i = k /\ q = p)
    BY DEF Says
  <1>2. \A t, i \in Nat : \A q : KeptAt(t, i, q)' => KeptAt(t, i, q) \/ (t = u /\ i = k /\ q = p)
    BY <1>1 DEF At, KeptAt
  <1>3. ~Kept(p) => \A t, i \in Nat : ~KeptAt(t, i, p)
    BY DEF Kept
  <1> QED BY <1>2, <1>3

(* The server's side of a request keeps the prompt and has it no longer.   *)
LEMMA PostWays ==
  ASSUME TypeInv, WorkInv, WaysInv, NEW p \in Prompts, PostStep(p)
  PROVE  \/ SaysNothing(tasks') /\ (Posted(p)' => Posted(p))
         \/ Says(tasks', p) /\ Posted(p) /\ ~Posted(p)'
  <1>s. SaysNothing(tasks)
    BY DEF SaysNothing, At, KeptAt
  <1>1. CASE StartRouting(p)
    BY <1>1, QuietTasks DEF StartRouting, Posted
  <1>2. CASE Classify(p)
    <2>1. Posted(p) /\ p <= Len(kinds)
      BY <1>2, Submitted DEF Classify, Posted
    <2>2. UNCHANGED tasks \/ Says(tasks', p)
      BY <1>2, <2>1, ClassifyTasks
    <2>3. PICK pc \in {"working", "ready", "refused"} : PostGoes(p, pc)
      BY <1>2 DEF Classify, Prepare, Begin
    <2>4. ~Posted(p)'
      BY <2>3 DEF PostGoes, Posted, TypeInv
    <2> QED BY <1>s, <2>1, <2>2, <2>4
  <1>3. CASE FinishWork(p)
    <2>1. UNCHANGED tasks /\ ~Posted(p)'
      BY <1>3 DEF FinishWork, PostGoes, Posted, TypeInv
    <2> QED BY <1>s, <2>1
  <1>4. ASSUME NEW ok \in BOOLEAN, NEW i, Route(p, ok, i)
        PROVE  Says(tasks', p) /\ Posted(p) /\ ~Posted(p)'
    <2>1. PICK pc \in {"working", "ready"} : PostGoes(p, pc)
      BY <1>4 DEF Route, Begin
    <2>2. ~Posted(p)'
      BY <2>1 DEF PostGoes, Posted, TypeInv
    <2>3. Posted(p)
      BY <1>4 DEF Route, Posted
    <2> QED BY <1>4, <2>2, <2>3, RouteTasks
  <1> QED BY <1>1, <1>2, <1>3, <1>4 DEF PostStep

LEMMA WaysStep ==
  ASSUME TypeInv, WorkInv, WaysInv, EventsInv, LatestInv, [Next]_vars
  PROVE  WaysInv'
  <1>t. composer.latest = Len(kinds) /\ Len(kinds) \in Nat
    BY Elements DEF LatestInv, TypeInv
  <1>s. SaysNothing(tasks)
    BY DEF SaysNothing, At, KeptAt
  <1>1. CASE Quiet
    BY <1>1, NoneMoves, NotKept DEF Quiet, NoNewWay, Streaming, Returning, Waiting, Posted
  <1>2. ASSUME NEW p \in Prompts, PostStep(p) PROVE WaysInv'
    <2>1. /\ UNCHANGED <<kinds, streams, composer>>
          /\ \A q \in Prompts : q # p => posts'[q] = posts[q]
      BY <1>2, PostStepTypes DEF client
    <2>2. CASE SaysNothing(tasks') /\ (Posted(p)' => Posted(p))
      BY <2>1, <2>2, NoneMoves, NotKept DEF NoNewWay, Streaming, Returning, Waiting, Posted
    <2>3. CASE Says(tasks', p) /\ Posted(p) /\ ~Posted(p)'
      <3>1. \A q \in Prompts : q # p => NoNewWay(q)
        BY <2>1, <2>3, KeptOnce DEF NoNewWay, Streaming, Returning, Waiting, Posted
      <3>2. p <= Len(kinds)
        BY <2>3, Submitted
      <3>3. p \notin composer.early => OneWay(p)'
        <4> SUFFICES ASSUME p \notin composer.early PROVE OneWay(p)'
          OBVIOUS
        <4>1. ~Kept(p) /\ ~Waiting(p) /\ ~Returning(p) /\ ~Streaming(p)
          BY <2>3 DEF WaysInv, OneWay
        <4>2. ~Waiting(p)' /\ ~Returning(p)' /\ ~Streaming(p)'
          BY <2>1, <4>1 DEF Streaming, Returning, Waiting
        <4> QED BY <2>3, <4>1, <4>2, KeptOnce DEF OneWay
      <3> QED BY <2>1, <3>1, <3>2, <3>3, OneMoves
    <2> QED BY <1>2, <2>2, <2>3, PostWays
  <1>3. ASSUME NEW p \in Prompts, NEW ok \in BOOLEAN, OpenStream(p, ok) PROVE WaysInv'
    <2>1. /\ Streaming(p) /\ UNCHANGED <<kinds, posts, composer>>
          /\ \A q \in Prompts : q # p => streams'[q] = streams[q]
      BY <1>3, OpenTypes DEF client, Streaming
    <2>2. \/ UNCHANGED tasks /\ ~Streaming(p)'
          \/ Says(tasks', p) /\ ~Streaming(p)' /\ ~Returning(p)'
      <3>1. UNCHANGED tasks \/ Says(tasks', p)
        BY <1>3, OpenTasks
      <3>2. \/ UNCHANGED tasks /\ streams'[p].pc = "closed"
            \/ /\ streams'[p].pc \in {"open", "closed"}
               /\ \A i \in DOMAIN streams'[p].todo :
                    streams'[p].todo[i].type \in {"created", "running", "error"}
        BY <1>3, OpenTypes
      <3> QED BY <3>1, <3>2 DEF Streaming, Returning
    <2>3. \A q : q # p => \A t, i \in Nat : KeptAt(t, i, q)' => KeptAt(t, i, q)
      BY <1>s, <2>2, NotKept, KeptOnce
    <2>4. \A q \in Prompts : q # p => NoNewWay(q)
      BY <2>1, <2>3 DEF NoNewWay, Streaming, Returning, Waiting, Posted
    <2>5. p <= Len(kinds)
      BY <2>1, Submitted DEF Streaming
    <2>6. p \notin composer.early => OneWay(p)'
      <3> SUFFICES ASSUME p \notin composer.early PROVE OneWay(p)'
        OBVIOUS
      <3>1. ~Kept(p) /\ ~Waiting(p) /\ ~Posted(p)
        BY <2>1 DEF WaysInv, OneWay
      <3>2. ~Waiting(p)' /\ ~Posted(p)'
        BY <2>1, <3>1 DEF Posted, Waiting
      <3>3. CASE UNCHANGED tasks /\ ~Streaming(p)'
        <4>1. ~Kept(p)'
          BY <1>s, <3>1, <3>3, NotKept DEF Kept
        <4> QED BY <3>2, <3>3, <4>1 DEF OneWay, Kept
      <3>4. CASE Says(tasks', p) /\ ~Streaming(p)' /\ ~Returning(p)'
        BY <3>1, <3>2, <3>4, KeptOnce DEF OneWay
      <3> QED BY <2>2, <3>3, <3>4
    <2> QED BY <2>1, <2>4, <2>5, <2>6, OneMoves
  <1>4. ASSUME NEW p \in Prompts, NEW ok \in BOOLEAN, CloseStream(p, ok) PROVE WaysInv'
    <2>1. /\ streams[p].pc = "open" /\ UNCHANGED <<kinds, posts, composer>>
          /\ \A q \in Prompts : q # p => streams'[q] = streams[q]
      BY <1>4, CloseTypes DEF client
    <2>2. ~Streaming(p)' /\ (Returning(p)' => Returning(p))
      <3>1. /\ streams'[p].pc = "closed"
            /\ \A i \in DOMAIN streams'[p].todo :
                 \/ i \in DOMAIN streams[p].todo /\ streams'[p].todo[i] = streams[p].todo[i]
                 \/ streams'[p].todo[i].type \in {"delta", "completed", "failed", "error"}
        BY <1>4, CloseTypes
      <3> QED BY <3>1 DEF Streaming, Returning
    <2>3. SaysNothing(tasks')
      BY <1>4, QuietTasks
    <2>4. \A q \in Prompts : NoNewWay(q)
      BY <2>1, <2>2, <2>3, NotKept DEF NoNewWay, Streaming, Returning, Waiting, Posted
    <2>5. p <= Len(kinds)
      BY <2>1, Submitted
    <2>6. \A q \in Prompts : q > Len(kinds) => UNCHANGED streams[q]
      BY <1>t, <2>1, <2>5, LiveTaskAssumption DEF Prompts
    <2> QED BY <2>1, <2>4, <2>6, NoneMoves
  <1>5. ASSUME NEW p \in Prompts, ReadEvent(p) PROVE WaysInv'
    <2> DEFINE e == streams[p].todo[1]
               c == Reduced(e)
    <2> PICK l : l = composer.latest
      OBVIOUS
    <2>1. /\ streams[p].read /\ 1 \in DOMAIN streams[p].todo /\ e \in EventRecord
          /\ UNCHANGED <<kinds, tasks>>
          /\ \A q \in Prompts : q # p => streams'[q] = streams[q]
          /\ streams'[p].pc = streams[p].pc
          /\ streams'[p].todo = Tail(streams[p].todo)
      BY <1>5, ReadTypes DEF server
    <2>2. /\ c \in ComposerRecord /\ c.latest = l /\ c.early = composer.early
          /\ c.fallback = composer.fallback /\ c.skip = composer.skip
      BY <2>1, ReducedTypes
    <2>3. \/ composer' = c /\ UNCHANGED posts
          \/ /\ e.type = "fallback" /\ composer' = Handoff(c)
             /\ \A q \in Prompts : q # l => posts'[q] = posts[q]
          \/ /\ e.type = "fallback" /\ UNCHANGED posts
             /\ composer' = [c EXCEPT !.submitted = TRUE, !.skip = TRUE, !.fallback = c.latest]
      BY <1>5, ReadTypes
    <2>4. /\ streams[p].todo \in Seq(EventRecord) /\ streams[p].todo # <<>>
          /\ p <= Len(kinds)
      BY <2>1, Submitted DEF TypeInv, StreamRecord
    <2>5. Returning(p)' => Returning(p)
      BY <2>1, <2>4, Tails DEF Returning
    <2>6. \A q \in Prompts : q > Len(kinds) => q # l /\ q # p /\ UNCHANGED streams[q]
      BY <1>t, <2>1, <2>4, LiveTaskAssumption DEF Prompts
    <2>7. \A q : \A t, i \in Nat : KeptAt(t, i, q)' => KeptAt(t, i, q)
      BY <1>s, <2>1, NotKept
    <2>8. CASE composer' = c /\ UNCHANGED posts
      <3>1. composer'.early = composer.early /\ \A q \in Prompts : NoNewWay(q)
        BY <2>1, <2>2, <2>5, <2>7, <2>8 DEF NoNewWay, Streaming, Returning, Waiting, Posted
      <3> QED BY <2>1, <2>6, <3>1, NoneMoves
    <2>9. CASE /\ e.type = "fallback"
               /\ \/ composer' = Handoff(c) /\ \A q \in Prompts : q # l => posts'[q] = posts[q]
                  \/ /\ UNCHANGED posts
                     /\ composer' = [c EXCEPT !.submitted = TRUE, !.skip = TRUE, !.fallback = c.latest]
      <3>1. /\ composer'.early = composer.early
            /\ \/ /\ composer'.fallback = composer.fallback /\ composer'.skip = composer.skip
                  /\ \A q \in Prompts : q # l => posts'[q] = posts[q]
               \/ composer'.fallback = l /\ UNCHANGED posts
        BY <2>2, <2>9, Handed DEF ComposerRecord
      <3>2. \A q \in Prompts : q # l => NoNewWay(q)
        BY <2>1, <2>5, <2>7, <3>1 DEF NoNewWay, Streaming, Returning, Waiting, Posted
      <3>3. l \in Prompts /\ l \notin composer.early => OneWay(l)'
        <4> SUFFICES ASSUME l \in Prompts, l \notin composer.early PROVE OneWay(l)'
          OBVIOUS
        <4>1. p = l
          BY <2>1 DEF LatestInv
        <4>2. Returning(l)
          BY <2>1, <2>9, <4>1 DEF Returning
        <4>3. ~Kept(l) /\ ~Waiting(l) /\ ~Posted(l) /\ ~Streaming(l)
          BY <4>2 DEF WaysInv, OneWay
        <4>4. ~Kept(l)' /\ ~Streaming(l)'
          BY <2>1, <2>7, <4>1, <4>3 DEF Kept, Streaming
        <4>5. ~Returning(l)'
          <5>1. Len(streams[p].todo) = 1
            BY <2>1, <2>9 DEF EventsInv
          <5>2. Len(Tail(streams[p].todo)) = 0 /\ Tail(streams[p].todo) \in Seq(EventRecord)
            BY <2>4, <5>1, Tails
          <5>3. \A i \in DOMAIN Tail(streams[p].todo) : i \in 1..0
            BY <5>2, Elements
          <5>4. \A i : i \notin 1..0
            OBVIOUS
          <5> QED BY <2>1, <4>1, <5>3, <5>4 DEF Returning
        <4>6. ~Waiting(l)' \/ ~Posted(l)'
          BY <3>1, <4>3 DEF Waiting, Posted
        <4> QED BY <4>4, <4>5, <4>6 DEF OneWay, Kept
      <3> QED BY <1>t, <2>1, <2>6, <3>1, <3>2, <3>3, OneMoves
    <2> QED BY <2>3, <2>8, <2>9
  <1>6. ASSUME NEW p \in Prompts, NEW c \in ComposerRecord, Ending(p, c) PROVE WaysInv'
    <2>1. /\ composer' = c /\ UNCHANGED <<kinds, posts>> /\ SaysNothing(tasks')
          /\ \A q \in Prompts : q # p => streams'[q] = streams[q]
          /\ streams'[p].pc = "closed" /\ streams'[p].todo = <<>>
          /\ p <= Len(kinds)
      BY <1>6, EndingTypes, Submitted DEF Ending
    <2>2. /\ composer'.early = composer.early /\ composer'.fallback = composer.fallback
          /\ composer'.skip = composer.skip
      BY <1>6, <2>1 DEF Ending, TypeInv, ComposerRecord
    <2>3. \A q \in Prompts : NoNewWay(q)
      BY <2>1, <2>2, NotKept DEF NoNewWay, Streaming, Returning, Waiting, Posted
    <2>4. \A q \in Prompts : q > Len(kinds) => UNCHANGED streams[q]
      BY <1>t, <2>1, LiveTaskAssumption DEF Prompts
    <2> QED BY <2>1, <2>2, <2>3, <2>4, NoneMoves
  <1>7. ASSUME NEW p \in Prompts, Accepted(p) \/ Refused(p) PROVE WaysInv'
    <2>1. /\ UNCHANGED <<kinds, tasks, streams>>
          /\ \A q \in Prompts : q # p => posts'[q] = posts[q]
          /\ posts'[p].pc = "ready" \/ posts'[p].pc = posts[p].pc
      BY <1>7, AcceptedTypes, RefusedTypes DEF server
    <2>2. \/ UNCHANGED composer
          \/ composer.pending = p /\ composer' = Completed(p, TRUE)
          \/ composer' = [composer EXCEPT !.status = "error", !.pending = None]
      BY <1>7, AcceptedTypes, RefusedTypes, CompletedTypes
    <2>3. /\ composer'.early = composer.early
          /\ \/ composer'.fallback = composer.fallback /\ composer'.skip = composer.skip
             \/ ~composer'.skip
      <3>1. CASE composer.pending = p /\ composer' = Completed(p, TRUE)
        BY <3>1, CompletedTypes
      <3>2. CASE composer' = [composer EXCEPT !.status = "error", !.pending = None]
        BY <3>2 DEF TypeInv, ComposerRecord
      <3> QED BY <2>2, <3>1, <3>2
    <2>4. \A q \in Prompts : NoNewWay(q)
      BY <1>s, <2>1, <2>3, NotKept DEF NoNewWay, Streaming, Returning, Waiting, Posted
    <2> QED BY <2>1, <2>3, <2>4, NoneMoves
  <1>8. ASSUME NEW kind \in Kinds, Submit(kind) PROVE WaysInv'
    <2> PICK p : p = Len(kinds) + 1
      OBVIOUS
    <2>1. /\ p \in Prompts /\ p \in Nat /\ Len(kinds') = p /\ UNCHANGED tasks
          /\ \/ /\ composer' = Handoff(Fresh(p)) /\ UNCHANGED streams
                /\ \A q \in Prompts : q # p => posts'[q] = posts[q]
             \/ /\ composer' = Fresh(p) /\ UNCHANGED posts
                /\ \A q \in Prompts : q # p => streams'[q] = streams[q]
                /\ streams'[p].todo = <<>>
      BY <1>8, <1>t, SubmitTypes
    <2>2. composer.early \subseteq composer'.early /\ composer'.fallback = None
      BY <2>1, FreshTypes, Handed
    <2>3. \A q : \A t, i \in Nat : KeptAt(t, i, q)' => KeptAt(t, i, q)
      BY <1>s, <2>1, NotKept
    <2>4. p > Len(kinds) /\ \A q \in Prompts : q > p => q > Len(kinds) /\ q # p
      BY <1>t, LiveTaskAssumption DEF Prompts
    <2>5. None \notin Prompts
      BY LiveTaskAssumption DEF Prompts
    <2>6. \A q \in Prompts : q # p => NoNewWay(q)
      BY <2>1, <2>2, <2>3, <2>5 DEF NoNewWay, Streaming, Returning, Waiting, Posted
    <2>7. OneWay(p)'
      <3>1. ~Kept(p) /\ ~Posted(p) /\ streams[p] = NoStream
        BY <2>1, <2>4 DEF WaysInv
      <3>2. ~Returning(p) /\ ~Streaming(p)
        BY <3>1 DEF Returning, Streaming, NoStream
      <3>3. ~Kept(p)'
        BY <2>3, <3>1 DEF Kept
      <3>4. ~Waiting(p)' /\ ~Returning(p)' /\ (~Posted(p)' \/ ~Streaming(p)')
        BY <2>1, <2>2, <2>5, <3>1, <3>2 DEF Waiting, Returning, Streaming, Posted
      <3> QED BY <3>3, <3>4 DEF OneWay, Kept
    <2>8. ASSUME NEW q \in Prompts, q > p PROVE (~Kept(q) /\ ~Posted(q) /\ streams[q] = NoStream)'
      <3>1. ~Kept(q) /\ ~Posted(q) /\ streams[q] = NoStream /\ q # p
        BY <2>4, <2>8 DEF WaysInv
      <3> QED BY <2>1, <2>6, <3>1, SameWay DEF NoNewWay
    <2>9. \A q \in Prompts \ composer'.early : OneWay(q)'
      BY <2>2, <2>6, <2>7, SameWay DEF WaysInv
    <2> QED BY <2>1, <2>8, <2>9 DEF WaysInv
  <1>9. CASE SubmitForm
    <2> PICK f : f = composer.fallback
      OBVIOUS
    <2>1. /\ f # None /\ composer.skip /\ UNCHANGED <<kinds, tasks, streams>>
          /\ composer' = [composer EXCEPT !.skip = FALSE]
          /\ \A q \in Prompts : q # f => posts'[q] = posts[q]
      BY <1>9, FormTypes DEF server
    <2>2. /\ ~composer'.skip /\ composer'.early = composer.early
          /\ f = composer.latest
      BY <2>1 DEF TypeInv, ComposerRecord, LatestInv
    <2>3. \A q : \A t, i \in Nat : KeptAt(t, i, q)' => KeptAt(t, i, q)
      BY <1>s, <2>1, NotKept
    <2>4. \A q \in Prompts : q # f => NoNewWay(q)
      BY <2>1, <2>2, <2>3 DEF NoNewWay, Streaming, Returning, Waiting, Posted
    <2>5. f \in Prompts /\ f \notin composer.early => OneWay(f)'
      <3> SUFFICES ASSUME f \in Prompts, f \notin composer.early PROVE OneWay(f)'
        OBVIOUS
      <3>1. ~Kept(f) /\ ~Returning(f) /\ ~Streaming(f)
        BY <2>1 DEF WaysInv, OneWay, Waiting
      <3>2. ~Kept(f)' /\ ~Returning(f)' /\ ~Streaming(f)' /\ ~Waiting(f)'
        BY <2>1, <2>2, <2>3, <3>1 DEF Kept, Returning, Streaming, Waiting
      <3> QED BY <3>2 DEF OneWay, Kept
    <2> QED BY <1>t, <2>1, <2>2, <2>4, <2>5, OneMoves
  <1>10. CASE ClearTurn \/ Render
              \/ \E to \in {AddressOf(t) : t \in DOMAIN tasks} \cup {NewTaskEntry} : Navigate(to)
    <2>1. /\ UNCHANGED <<kinds, posts, streams>>
          /\ \/ UNCHANGED composer \/ composer' = [composer EXCEPT !.moved = TRUE]
             \/ composer' = [composer EXCEPT !.status = "idle", !.task = None]
      BY <1>10, ClearTypes, RenderTypes, NavigateTypes DEF server, transport
    <2>2. SaysNothing(tasks')
      BY <1>10, <1>s, ClearTypes, AgedTasks, NavigateTypes DEF server
    <2>3. /\ composer'.early = composer.early /\ composer'.fallback = composer.fallback
          /\ composer'.skip = composer.skip
      BY <2>1 DEF TypeInv, ComposerRecord
    <2>4. \A q \in Prompts : NoNewWay(q)
      BY <2>1, <2>2, <2>3, NotKept DEF NoNewWay, Streaming, Returning, Waiting, Posted
    <2> QED BY <2>1, <2>3, <2>4, NoneMoves
  <1> QED
    BY <1>1, <1>2, <1>3, <1>4, <1>5, <1>6, <1>7, <1>8, <1>9, <1>10, Steps DEF ServerSteps, TabSteps

LEMMA Nothing ==
  ASSUME NEW S, NEW s \in Seq(S), Len(s) = 0
  PROVE  s = <<>>
  OBVIOUS

(* A prompt is handed over while its own stream is closed, once.           *)
LEMMA HandoffStep ==
  ASSUME TypeInv, WorkInv, WaysInv, EventsInv, LatestInv, HandoffInv, [Next]_vars
  PROVE  HandoffInv'
  <1>t. composer.latest \in Nat /\ None \notin Nat /\ composer.latest # None
    BY LiveTaskAssumption DEF TypeInv, ComposerRecord
  <1>a. ASSUME UNCHANGED composer,
               \A q \in Prompts : /\ posts'[q].native /\ posts'[q].awaited =>
                                       posts[q].native /\ posts[q].awaited
                                  /\ \/ UNCHANGED streams[q]
                                     \/ streams[q].pc \in {"sent", "open"}
        PROVE  HandoffInv'
    BY <1>a DEF HandoffInv
  <1>1. CASE Quiet
    BY <1>1, <1>a DEF Quiet
  <1>2. ASSUME NEW p \in Prompts, PostStep(p) PROVE HandoffInv'
    <2>1. /\ UNCHANGED <<composer, streams>>
          /\ \A q \in Prompts : posts'[q].native = posts[q].native /\ posts'[q].awaited = posts[q].awaited
      BY <1>2, PostStepTypes DEF client
    <2> QED BY <1>a, <2>1
  <1>3. ASSUME NEW p \in Prompts, NEW ok \in BOOLEAN, OpenStream(p, ok) \/ CloseStream(p, ok) PROVE HandoffInv'
    <2>1. /\ UNCHANGED <<composer, posts>> /\ streams[p].pc \in {"sent", "open"}
          /\ \A q \in Prompts : q # p => streams'[q] = streams[q]
      BY <1>3, OpenTypes, CloseTypes DEF client
    <2> QED BY <1>a, <2>1
  <1>4. ASSUME NEW p \in Prompts, ReadEvent(p) PROVE HandoffInv'
    <2> DEFINE e == streams[p].todo[1]
               c == Reduced(e)
    <2>1. /\ streams[p].read /\ 1 \in DOMAIN streams[p].todo /\ e \in EventRecord
          /\ \A q \in Prompts : q # p => streams'[q] = streams[q]
          /\ streams'[p].pc = streams[p].pc
          /\ streams'[p].todo = Tail(streams[p].todo)
      BY <1>4, ReadTypes
    <2>2. /\ c \in ComposerRecord /\ c.status = StatusAfter[e.type]
          /\ c.latest = composer.latest /\ c.pending = composer.pending
          /\ c.submitted = composer.submitted /\ c.fallback = composer.fallback
          /\ c.early = composer.early /\ c.accepted = composer.accepted
      BY <2>1, ReducedTypes
    <2>3. \/ (e.type # "fallback" \/ c.submitted) /\ composer' = c /\ UNCHANGED posts
          \/ /\ e.type = "fallback" /\ ~c.submitted /\ composer' = Handoff(c)
             /\ \A q \in Prompts : q # composer.latest => posts'[q] = posts[q]
             /\ composer.latest \in Prompts => ~posts'[composer.latest].native
          \/ /\ e.type = "fallback" /\ ~c.submitted /\ UNCHANGED posts
             /\ composer' = [c EXCEPT !.submitted = TRUE, !.skip = TRUE, !.fallback = c.latest]
      BY <1>4, ReadTypes
    <2>4. composer.latest \notin composer.early =>
            /\ p = composer.latest /\ ~composer.submitted
            /\ composer.pending = None /\ composer.fallback = None
      BY <2>1 DEF LatestInv, HandoffInv
    <2>5. e.type = "fallback" => streams'[p].pc = "closed" /\ streams'[p].todo = <<>>
      <3> SUFFICES ASSUME e.type = "fallback" PROVE streams'[p].pc = "closed" /\ streams'[p].todo = <<>>
        OBVIOUS
      <3>1. streams[p].pc = "closed" /\ Len(streams[p].todo) = 1
        BY <2>1 DEF EventsInv
      <3>2. streams[p].todo \in Seq(EventRecord)
        BY DEF TypeInv, StreamRecord
      <3>3. Tail(streams[p].todo) = <<>>
        <4>1. Tail(streams[p].todo) \in Seq(EventRecord) /\ Len(Tail(streams[p].todo)) = 0
          BY <3>1, <3>2, Tails
        <4> QED BY <4>1, Nothing
      <3> QED BY <2>1, <3>1, <3>3
    <2> HIDE DEF c
    <2>6. CASE (e.type # "fallback" \/ c.submitted) /\ composer' = c /\ UNCHANGED posts
      <3>1. composer.latest \in composer.early \/ (~c.submitted /\ c.fallback = None)
        BY <2>2, <2>4
      <3> QED BY <2>2, <2>6, <3>1 DEF HandoffInv
    <2>7. CASE /\ e.type = "fallback" /\ ~c.submitted /\ composer' = Handoff(c)
               /\ \A q \in Prompts : q # composer.latest => posts'[q] = posts[q]
               /\ composer.latest \in Prompts => ~posts'[composer.latest].native
      <3>1. /\ composer'.submitted /\ composer'.pending = composer.latest
            /\ composer'.latest = composer.latest /\ composer'.fallback = None
            /\ composer'.early = composer.early /\ composer'.accepted = None
        BY <2>2, <2>7, Handed DEF HandoffInv
      <3>2. \A q \in Prompts : ~(posts'[q].native /\ posts'[q].awaited)
        BY <2>2, <2>7 DEF HandoffInv
      <3> QED BY <2>4, <2>5, <2>7, <3>1, <3>2 DEF HandoffInv
    <2>8. CASE /\ e.type = "fallback" /\ ~c.submitted /\ UNCHANGED posts
               /\ composer' = [c EXCEPT !.submitted = TRUE, !.skip = TRUE, !.fallback = c.latest]
      <3>1. /\ composer'.submitted /\ composer'.pending = None
            /\ composer'.latest = composer.latest /\ composer'.fallback = composer.latest
            /\ composer'.early = composer.early /\ composer'.accepted = None
            /\ composer'.status = "fallback_required"
        BY <2>2, <2>8 DEF HandoffInv, ComposerRecord, StatusAfter
      <3> QED BY <1>t, <2>4, <2>5, <2>8, <3>1 DEF HandoffInv
    <2> QED BY <2>3, <2>6, <2>7, <2>8
  <1>5. ASSUME NEW p \in Prompts, NEW c \in ComposerRecord, Ending(p, c) PROVE HandoffInv'
    <2>1. /\ composer' = c /\ UNCHANGED posts
          /\ \A q \in Prompts : q # p => streams'[q] = streams[q]
          /\ streams'[p].pc = "closed" /\ streams'[p].todo = <<>>
      BY <1>5, EndingTypes DEF Ending
    <2>2. /\ c.latest = composer.latest /\ c.pending = composer.pending
          /\ c.submitted = composer.submitted /\ c.fallback = composer.fallback
          /\ c.early = composer.early /\ c.accepted = composer.accepted
          /\ c.status \in {composer.status, "error"}
      BY <1>5 DEF Ending, TypeInv, ComposerRecord
    <2> QED BY <2>1, <2>2 DEF HandoffInv
  <1>6. ASSUME NEW p \in Prompts, Accepted(p) PROVE HandoffInv'
    <2>1. /\ UNCHANGED streams /\ ~posts'[p].native
          /\ \A q \in Prompts : q # p => posts'[q] = posts[q]
      BY <1>6, AcceptedTypes
    <2>2. UNCHANGED composer \/ (composer.pending = p /\ composer' = Completed(p, TRUE))
      BY <1>6, AcceptedTypes
    <2>3. CASE composer.pending = p /\ composer' = Completed(p, TRUE)
      <3>1. /\ composer'.pending = None /\ composer'.fallback = None /\ composer'.submitted
            /\ composer'.latest = composer.latest /\ composer'.early = composer.early
        BY <2>3, CompletedTypes
      <3>2. p # None
        BY LiveTaskAssumption DEF Prompts
      <3>3. composer.submitted /\ composer.fallback = None
        BY <2>3, <3>2 DEF HandoffInv
      <3>4. \A q \in Prompts : ~(posts'[q].native /\ posts'[q].awaited)
        BY <2>1, <3>3 DEF HandoffInv
      <3> QED BY <2>1, <3>1, <3>3, <3>4 DEF HandoffInv
    <2> QED BY <1>a, <2>1, <2>2, <2>3
  <1>7. ASSUME NEW p \in Prompts, Refused(p) PROVE HandoffInv'
    <2>1. /\ UNCHANGED streams /\ ~posts'[p].awaited
          /\ \A q \in Prompts : q # p => posts'[q] = posts[q]
      BY <1>7, RefusedTypes
    <2>2. UNCHANGED composer \/ composer' = [composer EXCEPT !.status = "error", !.pending = None]
      BY <1>7, RefusedTypes, CompletedTypes
    <2>3. CASE composer' = [composer EXCEPT !.status = "error", !.pending = None]
      <3>1. /\ composer'.pending = None /\ composer'.fallback = composer.fallback
            /\ composer'.submitted = composer.submitted /\ composer'.status = "error"
            /\ composer'.latest = composer.latest /\ composer'.early = composer.early
            /\ composer'.accepted = composer.accepted
        BY <2>3 DEF TypeInv, ComposerRecord
      <3> QED BY <2>1, <3>1 DEF HandoffInv
    <2> QED BY <1>a, <2>1, <2>2, <2>3
  <1>8. ASSUME NEW kind \in Kinds, Submit(kind) PROVE HandoffInv'
    <2> PICK p : p = Len(kinds) + 1
      OBVIOUS
    <2>1. /\ p \in Prompts /\ p \in Nat /\ Usable
          /\ \/ /\ composer' = Handoff(Fresh(p)) /\ UNCHANGED streams
                /\ \A q \in Prompts : q # p => posts'[q] = posts[q]
                /\ ~posts'[p].native
             \/ composer' = Fresh(p) /\ UNCHANGED posts
      BY <1>8, SubmitTypes, Elements DEF TypeInv
    <2>2. /\ composer'.fallback = None /\ composer'.accepted = None /\ composer'.latest = p
          /\ composer'.submitted => composer'.pending = p
          /\ ~composer'.submitted => composer'.pending = None
          /\ composer'.submitted => UNCHANGED streams
      BY <2>1, FreshTypes, Handed
    <2>3. \A q \in Prompts : ~(posts'[q].native /\ posts'[q].awaited)
      BY <2>1 DEF HandoffInv, Usable
    <2>4. streams[p].pc = "none" /\ streams[p].todo = <<>>
      <3>1. p > Len(kinds)
        BY Elements DEF TypeInv
      <3> QED BY <2>1, <3>1 DEF WaysInv, NoStream
    <2> QED BY <2>1, <2>2, <2>3, <2>4 DEF HandoffInv
  <1>9. CASE SubmitForm
    <2>1. /\ composer.fallback # None /\ UNCHANGED streams
          /\ composer' = [composer EXCEPT !.skip = FALSE]
      BY <1>9, FormTypes
    <2>2. /\ composer'.pending = composer.pending /\ composer'.fallback = composer.fallback
          /\ composer'.submitted = composer.submitted /\ composer'.status = composer.status
          /\ composer'.latest = composer.latest /\ composer'.early = composer.early
          /\ composer'.accepted = composer.accepted
      BY <2>1 DEF TypeInv, ComposerRecord
    <2> QED BY <2>1, <2>2 DEF HandoffInv
  <1>10. CASE ClearTurn
    <2>1. /\ composer.status = "completed" /\ UNCHANGED <<streams, posts>>
          /\ composer' = [composer EXCEPT !.status = "idle", !.task = None]
      BY <1>10, ClearTypes DEF transport
    <2>2. /\ composer'.pending = composer.pending /\ composer'.fallback = composer.fallback
          /\ composer'.submitted = composer.submitted
          /\ composer'.latest = composer.latest /\ composer'.early = composer.early
          /\ composer'.accepted = composer.accepted
      BY <2>1 DEF TypeInv, ComposerRecord
    <2> QED BY <2>1, <2>2 DEF HandoffInv
  <1>11. ASSUME NEW to \in {AddressOf(t) : t \in DOMAIN tasks} \cup {NewTaskEntry}, Navigate(to)
         PROVE  HandoffInv'
    <2>1. composer' = [composer EXCEPT !.moved = TRUE] /\ UNCHANGED <<streams, posts>>
      BY <1>11, NavigateTypes DEF transport
    <2>2. /\ composer'.pending = composer.pending /\ composer'.fallback = composer.fallback
          /\ composer'.submitted = composer.submitted /\ composer'.status = composer.status
          /\ composer'.latest = composer.latest /\ composer'.early = composer.early
          /\ composer'.accepted = composer.accepted
      BY <2>1 DEF TypeInv, ComposerRecord
    <2> QED BY <2>1, <2>2 DEF HandoffInv
  <1>12. CASE Render
    BY <1>12, <1>a, RenderTypes DEF transport
  <1> QED
    BY <1>1, <1>2, <1>3, <1>4, <1>5, <1>6, <1>7, <1>8, <1>9, <1>10, <1>11, <1>12, Steps
       DEF ServerSteps, TabSteps

(* An address is followed by a render, and the tab goes to the task of its *)
(* answer when it takes it.                                                *)
LEMMA AddressStep ==
  ASSUME TypeInv, WorkInv, WaysInv, EventsInv, LatestInv, HandoffInv, AddressInv, [Next]_vars
  PROVE  AddressInv'
  <1>a. ASSUME UNCHANGED <<composer, url, page>>, UNCHANGED wanted \/ wanted' = TRUE,
               \A q \in Prompts :
                 /\ streams[q].read => streams'[q].read
                 /\ posts[q].pc = "ready" => posts'[q].pc = "ready" /\ jobs'[q].task = jobs[q].task
        PROVE  AddressInv'
    BY <1>a DEF AddressInv, Undisturbed
  <1>1. CASE Quiet
    BY <1>1, <1>a DEF Quiet
  <1>2. ASSUME NEW p \in Prompts, PostStep(p) PROVE AddressInv'
    <2>1. /\ UNCHANGED <<composer, url, page, wanted, streams>> /\ posts[p].pc # "ready"
          /\ \A q \in Prompts : q # p => posts'[q] = posts[q] /\ jobs'[q] = jobs[q]
      BY <1>2, PostStepTypes DEF client
    <2> QED BY <1>a, <2>1
  <1>3. ASSUME NEW p \in Prompts, NEW ok \in BOOLEAN, OpenStream(p, ok) \/ CloseStream(p, ok) PROVE AddressInv'
    <2>1. /\ UNCHANGED <<composer, url, page, wanted, posts, jobs>>
          /\ \A q \in Prompts : streams'[q].read = streams[q].read
      BY <1>3, OpenTypes, CloseTypes DEF client
    <2> QED BY <1>a, <2>1
  <1>4. ASSUME NEW p \in Prompts, ReadEvent(p) PROVE AddressInv'
    <2> DEFINE e == streams[p].todo[1]
               c == Reduced(e)
    <2>1. /\ streams[p].read /\ streams'[p].read /\ 1 \in DOMAIN streams[p].todo /\ e \in EventRecord
          /\ UNCHANGED <<url, wanted, page>>
      BY <1>4, ReadTypes
    <2>2. /\ c \in ComposerRecord /\ c.status = StatusAfter[e.type]
          /\ e.task # None => c.task = e.task
          /\ c.submitted = composer.submitted /\ c.latest = composer.latest
          /\ c.early = composer.early /\ c.accepted = composer.accepted /\ c.moved = composer.moved
      BY <2>1, ReducedTypes
    <2>3. \/ composer' = c
          \/ e.type = "fallback" /\ composer' = Handoff(c)
          \/ /\ e.type = "fallback"
             /\ composer' = [c EXCEPT !.submitted = TRUE, !.skip = TRUE, !.fallback = c.latest]
      BY <1>4, ReadTypes
    <2>4. e.type = "completed" => e.task # None
      BY <2>1 DEF EventsInv
    <2> HIDE DEF c
    <2>5. /\ composer'.status = StatusAfter[e.type] /\ composer'.task = c.task
          /\ composer'.latest = composer.latest /\ composer'.early = composer.early
          /\ composer'.accepted = composer.accepted /\ composer'.moved = composer.moved
      BY <2>2, <2>3, Handed DEF ComposerRecord
    <2>6. StatusAfter[e.type] = "completed" => e.type = "completed"
      BY <2>1 DEF EventRecord, StatusAfter
    <2>7. composer.accepted # None => ~Undisturbed
      <3> SUFFICES ASSUME composer.accepted # None, Undisturbed PROVE FALSE
        OBVIOUS
      <3>1. composer.submitted /\ p = composer.latest
        BY <2>1 DEF HandoffInv, LatestInv, Undisturbed
      <3>2. streams[p].todo = <<>>
        BY <3>1 DEF HandoffInv, Undisturbed
      <3> QED BY <2>1, <3>2
    <2> QED BY <2>1, <2>2, <2>4, <2>5, <2>6, <2>7 DEF AddressInv, Undisturbed
  <1>5. ASSUME NEW p \in Prompts, NEW c \in ComposerRecord, Ending(p, c) PROVE AddressInv'
    <2>1. /\ composer' = c /\ UNCHANGED <<posts, page, jobs>>
          /\ UNCHANGED <<url, wanted>> \/ wanted' = TRUE
          /\ c.status \notin {"completed", "error"} => UNCHANGED <<url, wanted>>
          /\ c.status = "completed" /\ c.task # None => url' = AddressOf(c.task)
      BY <1>5, EndingTypes DEF Ending
    <2>2. /\ c.latest = composer.latest /\ c.task = composer.task
          /\ c.early = composer.early /\ c.accepted = composer.accepted /\ c.moved = composer.moved
          /\ c = composer \/ c.status = "error"
      BY <1>5 DEF Ending, TypeInv, ComposerRecord
    <2>3. url'.task # None /\ ~wanted' => page'.task = url'.task
      BY <2>1 DEF AddressInv
    <2>4. c.status = "completed" => c.task # None /\ url' = AddressOf(c.task)
      BY <2>1, <2>2 DEF AddressInv
    <2>5. c.status = "idle" => UNCHANGED url /\ composer.status = "idle"
      BY <2>1, <2>2
    <2> QED BY <2>1, <2>2, <2>3, <2>4, <2>5 DEF AddressInv, Undisturbed
  <1>6. ASSUME NEW p \in Prompts, Accepted(p) PROVE AddressInv'
    <2>1. /\ posts[p].awaited /\ posts'[p].pc = "ready" /\ UNCHANGED <<jobs, streams, page>>
          /\ \A q \in Prompts : q # p => posts'[q] = posts[q]
          /\ UNCHANGED <<url, wanted>> \/ wanted' = TRUE
      BY <1>6, AcceptedTypes DEF server
    <2>2. \/ posts[p].native /\ UNCHANGED composer
          \/ UNCHANGED <<composer, url, wanted>>
          \/ composer.pending = p /\ composer' = Completed(p, TRUE) /\ url' = AddressOf(jobs[p].task)
      BY <1>6, AcceptedTypes
    <2>3. url'.task # None /\ ~wanted' => page'.task = url'.task
      BY <2>1 DEF AddressInv
    <2>4. CASE posts[p].native /\ UNCHANGED composer
      <3>1. composer.fallback # None
        BY <2>1, <2>4 DEF HandoffInv
      <3>2. composer.accepted = None
        BY <3>1 DEF HandoffInv
      <3>3. Undisturbed => composer.status # "completed"
        BY <3>1 DEF HandoffInv, Undisturbed
      <3> QED BY <2>3, <2>4, <3>2, <3>3 DEF AddressInv, Undisturbed
    <2>5. CASE UNCHANGED <<composer, url, wanted>>
      BY <1>a, <2>1, <2>5
    <2>6. CASE composer.pending = p /\ composer' = Completed(p, TRUE) /\ url' = AddressOf(jobs[p].task)
      <3>1. /\ composer'.status = "idle" /\ composer'.accepted = p /\ composer'.latest = composer.latest
        BY <2>6, CompletedTypes
      <3>2. p # None
        BY LiveTaskAssumption DEF Prompts
      <3>3. composer.latest = p
        BY <2>6, <3>2 DEF HandoffInv
      <3> QED BY <2>1, <2>3, <2>6, <3>1, <3>3 DEF AddressInv
    <2> QED BY <2>2, <2>4, <2>5, <2>6
  <1>7. ASSUME NEW p \in Prompts, Refused(p) PROVE AddressInv'
    <2>1. /\ UNCHANGED <<jobs, streams, url, wanted, page>>
          /\ \A q \in Prompts : posts'[q].pc = posts[q].pc
      BY <1>7, RefusedTypes
    <2>2. UNCHANGED composer \/ (composer.pending = p /\ composer' = Completed(p, FALSE))
      BY <1>7, RefusedTypes
    <2>3. CASE composer.pending = p /\ composer' = Completed(p, FALSE)
      <3>1. composer' = [composer EXCEPT !.status = "error", !.pending = None]
        BY <2>3, CompletedTypes
      <3>2. composer'.status = "error" /\ composer'.accepted = composer.accepted
        BY <3>1 DEF TypeInv, ComposerRecord
      <3>3. p # None
        BY LiveTaskAssumption DEF Prompts
      <3>4. composer.accepted = None
        BY <2>3, <3>3 DEF HandoffInv
      <3> QED BY <2>1, <3>2, <3>4 DEF AddressInv
    <2> QED BY <1>a, <2>1, <2>2, <2>3
  <1>8. ASSUME NEW kind \in Kinds, Submit(kind) PROVE AddressInv'
    <2> PICK p : p = Len(kinds) + 1
      OBVIOUS
    <2>1. /\ p \in Nat /\ UNCHANGED <<url, wanted, page>>
          /\ composer' = Handoff(Fresh(p)) \/ composer' = Fresh(p)
      BY <1>8, SubmitTypes, Elements DEF TypeInv
    <2>2. composer'.status = "streaming" /\ composer'.accepted = None
      BY <2>1, FreshTypes, Handed
    <2> QED BY <2>1, <2>2 DEF AddressInv
  <1>9. CASE SubmitForm
    <2>1. /\ composer.fallback # None /\ UNCHANGED <<streams, url, wanted, page>>
          /\ composer' = [composer EXCEPT !.skip = FALSE]
      BY <1>9, FormTypes
    <2>2. /\ composer'.status = composer.status /\ composer'.task = composer.task
          /\ composer'.latest = composer.latest /\ composer'.early = composer.early
          /\ composer'.accepted = composer.accepted /\ composer'.moved = composer.moved
      BY <2>1 DEF TypeInv, ComposerRecord
    <2>3. composer.accepted = None
      BY <2>1 DEF HandoffInv
    <2> QED BY <2>1, <2>2, <2>3 DEF AddressInv, Undisturbed
  <1>10. CASE ClearTurn
    <2>1. /\ composer.status = "completed" /\ UNCHANGED <<url, wanted, page>>
          /\ composer' = [composer EXCEPT !.status = "idle", !.task = None]
      BY <1>10, ClearTypes
    <2>2. /\ composer'.status = "idle" /\ composer'.latest = composer.latest
          /\ composer'.early = composer.early
          /\ composer'.accepted = composer.accepted /\ composer'.moved = composer.moved
      BY <2>1 DEF TypeInv, ComposerRecord
    <2>3. composer.accepted # None => ~Undisturbed
      BY <2>1 DEF AddressInv
    <2> QED BY <2>1, <2>2, <2>3 DEF AddressInv, Undisturbed
  <1>11. ASSUME NEW to \in {AddressOf(t) : t \in DOMAIN tasks} \cup {NewTaskEntry}, Navigate(to)
         PROVE  AddressInv'
    <2>1. composer' = [composer EXCEPT !.moved = TRUE] /\ wanted' = TRUE
      BY <1>11, NavigateTypes
    <2>2. /\ composer'.moved /\ composer'.status = composer.status /\ composer'.task = composer.task
      BY <2>1 DEF TypeInv, ComposerRecord
    <2> QED BY <2>1, <2>2 DEF AddressInv, Undisturbed
  <1>12. CASE Render
    <2>1. /\ url.task # None => page'.task = url.task
          /\ UNCHANGED <<jobs, posts, streams, composer, url>>
      BY <1>12, RenderTypes DEF transport
    <2> QED BY <2>1 DEF AddressInv, Undisturbed
  <1> QED
    BY <1>1, <1>2, <1>3, <1>4, <1>5, <1>6, <1>7, <1>8, <1>9, <1>10, <1>11, <1>12, Steps
       DEF ServerSteps, TabSteps

-----------------------------------------------------------------------------
LEMMA InitInv ==
  ASSUME Init
  PROVE  IInv
  <1>1. TypeInv
    <2> DEFINE none == <<>>
    <2>1. none \in Seq(EventRecord) /\ none \in Seq(Kinds) /\ none \in Seq(Task) /\ Len(none) = 0
      OBVIOUS
    <2>2. NoStream = [pc |-> "none", at |-> None, task |-> None, todo |-> none, read |-> FALSE]
      BY DEF NoStream
    <2>3. kinds = none /\ tasks = none
      BY DEF Init
    <2> HIDE DEF none
    <2>4. NoStream \in StreamRecord
      BY <2>1, <2>2 DEF StreamRecord
    <2>5. NoJob \in JobRecord /\ NoJob.pc # "save" /\ NoPost \in PostRecord /\ Home \in Addresses /\ Home.task = None
      BY DEF NoJob, JobRecord, NoPost, PostRecord, Home, Addresses
    <2>6. 0 <= MaxPrompts
      BY LiveTaskAssumption
    <2> QED BY <2>1, <2>3, <2>4, <2>5, <2>6, FirstTypes DEF Init, TypeInv
  <1>2. \A t : t \notin DOMAIN tasks
    BY DEF Init
  <1>3. \A p \in Prompts : ~Kept(p) /\ ~Posted(p) /\ ~Streaming(p) /\ ~Returning(p) /\ ~Waiting(p)
    BY <1>2 DEF Init, Kept, KeptAt, Posted, Streaming, Returning, Waiting, NoPost, NoStream, FirstComposer
  <1>4. WaysInv
    BY <1>2, <1>3 DEF Init, WaysInv, OneWay, KeptAt
  <1>5. WorkInv /\ EventsInv
    BY DEF Init, WorkInv, EventsInv, NoPost, NoStream
  <1>6. LatestInv /\ HandoffInv /\ AddressInv
    BY DEF Init, LatestInv, HandoffInv, AddressInv, NoPost, NoStream, FirstComposer, Home
  <1> QED BY <1>1, <1>4, <1>5, <1>6 DEF IInv

(* The server keeps what it is asked, the tab hands a prompt over once and *)
(* goes where its answer is: the invariant of the tab and its server.      *)
THEOREM TabInvariance == Spec => []IInv
  <1>1. Init => IInv
    BY InitInv
  <1>2. IInv /\ [Next]_vars => IInv'
    BY TypeStep, WorkStep, EventsStep, LatestStep, WaysStep, HandoffStep, AddressStep DEF IInv
  <1> QED BY <1>1, <1>2, PTL DEF Spec

(* A prompt is kept as a message at most once, whichever way it took and   *)
(* whatever was lost, unless it was submitted before the streams before it *)
(* had ended.                                                              *)
THEOREM PromptsAreKeptOnce == Spec => []PromptOnce
  <1>1. IInv => PromptOnce
    <2> SUFFICES ASSUME IInv, NEW p \in Prompts \ composer.early, NEW s \in DOMAIN tasks, NEW t \in DOMAIN tasks,
                        NEW i \in DOMAIN tasks[s].said, NEW j \in DOMAIN tasks[t].said,
                        tasks[s].said[i] = p, tasks[t].said[j] = p
                 PROVE  s = t /\ i = j
      BY DEF PromptOnce
    <2>1. s \in Nat /\ t \in Nat /\ tasks[s] \in Task /\ tasks[t] \in Task
      BY Elements DEF IInv, TypeInv
    <2>2. i \in Nat /\ j \in Nat
      BY <2>1, Elements DEF Task
    <2> QED BY <2>1, <2>2 DEF IInv, WaysInv, OneWay, KeptAt
  <1> QED BY <1>1, TabInvariance, PTL

(* Once everything is read and rendered, the page shows the task that the  *)
(* last prompt went to, unless the user followed a link since, is told of  *)
(* an error, or submitted it early.                                        *)
THEOREM PagesLandOnTheTask == Spec => []LandsOnTask
  <1>1. IInv => LandsOnTask
    <2> SUFFICES ASSUME IInv, ~wanted, Undisturbed, \A p \in Prompts : ~streams[p].read
                 PROVE  /\ composer.accepted # None /\ composer.status = "idle" =>
                             page.task = jobs[composer.accepted].task
                        /\ composer.status = "completed" => page.task = composer.task
      BY DEF LandsOnTask, Undisturbed
    <2>1. ASSUME NEW t, t # None, url = AddressOf(t) PROVE page.task = t
      BY <2>1 DEF IInv, AddressInv, AddressOf
    <2>2. ASSUME composer.accepted # None, composer.status = "idle"
          PROVE  page.task = jobs[composer.accepted].task
      <3>1. /\ composer.accepted \in Prompts /\ posts[composer.accepted].pc = "ready"
            /\ url = AddressOf(jobs[composer.accepted].task)
        BY <2>2 DEF IInv, AddressInv
      <3>2. jobs[composer.accepted].task # None
        BY <3>1 DEF IInv, WorkInv
      <3> QED BY <2>1, <3>1, <3>2
    <2>3. ASSUME composer.status = "completed" PROVE page.task = composer.task
      BY <2>1, <2>3 DEF IInv, AddressInv
    <2> QED BY <2>2, <2>3
  <1> QED BY <1>1, TabInvariance, PTL

=============================================================================
