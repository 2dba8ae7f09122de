------------------------ MODULE WorkbenchRepositories ------------------------
(***************************************************************************)
(* The workbench repositories: everything but the worker jobs, in one of   *)
(* three stores (packages/db/src).                                         *)
(*  - memory: maps in one process; no await inside a save.                 *)
(*  - file: one JSON file.  Each process queues its updates of the file;   *)
(*    an update reads the whole file, changes the copy and renames a new   *)
(*    file over the old one.  Reads do not wait for the queue.             *)
(*  - postgres: a save is one upsert, a deletion is a sequence of          *)
(*    deleteMany statements without a transaction.                         *)
(* Savers save rows one after another; deleters call deletion.deleteTask   *)
(* or deletion.deleteProject once.  A process may stop at any time.        *)
(*                                                                         *)
(* A row stands for a record and carries only what deletion and foreign    *)
(* keys look at; a later save of the same row changes nothing here.  For   *)
(* records with a scope, project is the targetKey of the scope "project".  *)
(***************************************************************************)
EXTENDS Naturals, Sequences, SequencesExt, FiniteSets

CONSTANTS
  Rows,        \* the records that exist or may be saved
  InitialRows, \* those that are stored at first
  Processes, Savers, Deleters,
  Home,        \* Home[c]: the process of the caller c
  Script,      \* Script[s]: the rows that the saver s saves, in order
  Target,      \* Target[d]: the task or project that the deleter d deletes
  None

Callers == Savers \cup Deleters

ASSUME RepositoriesAssumption ==
  /\ InitialRows \subseteq Rows
  /\ Savers \cap Deleters = {}
  /\ Home \in [Callers -> Processes]
  /\ Script \in [Savers -> Seq(Rows)]

VARIABLES
  store,  \* the kind of store, chosen once by the environment
  db,     \* the rows that are stored
  pc,     \* what each caller does next
  saves,  \* saves[s]: how many rows of its script s has saved
  queue,  \* queue[p]: the updates of the file that the process p still has to do
  read,   \* read[c]: the rows that c read: the whole file, or the runs of a task
  steps,  \* steps[d]: the deleteMany statements that d still has to send
  late    \* late[d]: the rows that were saved since d began (for the properties)

fileVars == <<queue, read>>
vars == <<store, db, pc, saves, queue, read, steps, late>>

RunTables == {"runEvents", "toolObservations", "agentHandoffs"}
TaskTables == {"messages", "taskSnapshots"}

(* What each caller knows of its rows; steps are [table, column, value].   *)
TypeOK ==
  /\ store \in {"memory", "file", "postgres"}
  /\ db \subseteq Rows
  /\ pc \in [Callers -> {"idle", "queued", "apply", "deleting", "done", "failed", "stopped"}]
  /\ saves \in [Savers -> Nat]
  /\ queue \in [Processes -> Seq(Callers)]
  /\ read \in [Callers -> SUBSET Rows]
  /\ DOMAIN steps = Deleters
  /\ late \in [Deleters -> SUBSET Rows]

(* An earlier process may have left any of the initial rows.               *)
Init ==
  /\ store \in {"memory", "file", "postgres"}
  /\ db = InitialRows
  /\ pc = [c \in Callers |-> "idle"]
  /\ saves = [s \in Savers |-> 0]
  /\ queue = [p \in Processes |-> <<>>]
  /\ read = [c \in Callers |-> {}]
  /\ steps = [d \in Deleters |-> <<>>]
  /\ late = [d \in Deleters |-> {}]

-----------------------------------------------------------------------------
(* What a deletion removes.                                                *)

RunsForTask(rows, t) == {r \in rows : r.table = "runs" /\ r.task = t}

Ids(rows) == {r.id : r \in rows}

(* deleteTask of the memory; runs are the identifiers listForTask returned.*)
MemoryTaskRows(rows, t, runs) ==
  {r \in rows : \/ r.table \in RunTables /\ (r.task = t \/ r.run \in runs)
                \/ r.table \in TaskTables \cup {"runs"} /\ r.task = t
                \/ r.table = "tasks" /\ r.id = t}

(* deleteProject of the memory, which looks for messages and snapshots by  *)
(* the tasks it deletes.                                                   *)
MemoryProjectRows(rows, p) ==
  LET tasks == {r \in rows : r.table = "tasks" /\ r.project = p}
  IN tasks \cup {r \in rows : \/ r.table \in TaskTables /\ r.task \in Ids(tasks)
                              \/ r.table \notin TaskTables \cup {"projects"} /\ r.project = p
                              \/ r.table = "projects" /\ r.id = p}

(* The same two of the file, as filters over the arrays of its state.      *)
FileTaskKept(rows, t) ==
  LET runs == Ids(RunsForTask(rows, t))
  IN {r \in rows : /\ r.table \in RunTables => r.task # t /\ r.run \notin runs
                   /\ r.table \in TaskTables \cup {"runs"} => r.task # t
                   /\ r.table = "tasks" => r.id # t}

FileProjectKept(rows, p) ==
  LET tasks == Ids({r \in rows : r.table = "tasks" /\ r.project = p})
  IN {r \in rows : /\ r.table \in TaskTables => r.task \notin tasks
                   /\ r.table \notin TaskTables \cup {"projects"} => r.project # p
                   /\ r.table = "projects" => r.id # p}

IsTask(x) == \E r \in Rows : r.table = "tasks" /\ r.id = x
IsProject(x) == \E r \in Rows : r.table = "projects" /\ r.id = x

(* The update of the file that the caller c has queued.                    *)
FileUpdate(c, rows) ==
  IF c \in Savers THEN rows \cup {Script[c][saves[c] + 1]}
  ELSE IF IsTask(Target[c]) THEN FileTaskKept(rows, Target[c])
  ELSE FileProjectKept(rows, Target[c])

-----------------------------------------------------------------------------
(* Postgres: rows in a foreign key and the statements of a deletion.       *)

(* The rows of foreign keys, without which a row cannot be saved: the      *)
(* required relations of schema.prisma and the optional one of a task; a   *)
(* run does not refer to its task.                                         *)
References(r) ==
  (CASE r.table \in RunTables -> {r.project, r.run}
     [] r.table = "messages" -> {r.task}
     [] r.table = "taskSnapshots" -> {r.task, r.project}
     [] r.table \in {"runs", "briefs", "projectMembers", "artifactWorkspaces"} -> {r.project}
     [] r.table \in {"pageVersions", "deployments", "artifactWorkspaceFiles", "mcpToolApprovals"}
          -> {r.project, r.parent}
     [] r.table \in {"skillVersions", "skillBindings", "modelRoutingPolicies"} -> {r.parent}
     [] r.table = "tasks" -> {r.project}
     [] OTHER -> {}) \ {None}

(* The rows that cannot be deleted before r.  The optional relation of a   *)
(* task restricts nothing: the database clears its column, which a task    *)
(* that was saved behind the deletion of its project keeps here.           *)
Restricts(r) == IF r.table = "tasks" THEN {} ELSE References(r)

Where(table, column, value) == [table |-> table, column |-> column, value |-> value]

Matches(step, r) == r.table = step.table /\ r[step.column] = step.value

(* The loops of both: for each value one statement in each table.          *)
StatementsFor(inTables, column, values) ==
  [i \in 1..(Len(inTables) * Len(values)) |->
     Where(inTables[((i - 1) % Len(inTables)) + 1], column,
           values[((i - 1) \div Len(inTables)) + 1])]

(* deleteTask, given the runs that findMany returned.                      *)
(* Mutant: the row of the task goes before the runs.                       *)
MutPrismaTaskDeletion(t, runs) ==
  StatementsFor(<<"agentHandoffs", "toolObservations", "runEvents">>, "run", runs)
  \o <<Where("messages", "task", t), Where("taskSnapshots", "task", t), Where("tasks", "id", t),
       Where("agentHandoffs", "task", t), Where("toolObservations", "task", t),
       Where("runEvents", "task", t), Where("runs", "task", t)>>
PrismaTaskDeletion(t, runs) ==
  StatementsFor(<<"agentHandoffs", "toolObservations", "runEvents">>, "run", runs)
  \o <<Where("agentHandoffs", "task", t), Where("toolObservations", "task", t),
       Where("runEvents", "task", t), Where("runs", "task", t), Where("messages", "task", t),
       Where("taskSnapshots", "task", t), Where("tasks", "id", t)>>

(* deleteProject, given the tasks that findMany returned.                  *)
ProjectTables ==
  <<"agentHandoffs", "toolObservations", "runEvents", "runs", "messages", "taskSnapshots",
    "tasks", "mcpToolApprovals", "deployments", "artifactWorkspaceFiles", "artifactWorkspaces",
    "pageVersions", "briefs", "projectMembers", "skillBindings", "modelRoutingPolicies",
    "modelProviders", "mcpConnectors">>

(* Mutant: nobody thought of the bindings of skills.                       *)
MutPrismaProjectDeletion(p, tasks) ==
  StatementsFor(<<"messages", "taskSnapshots">>, "task", tasks)
  \o [i \in 1..17 |-> Where(RemoveAt(ProjectTables, 15)[i], "project", p)]
  \o <<Where("projects", "id", p)>>
PrismaProjectDeletion(p, tasks) ==
  StatementsFor(<<"messages", "taskSnapshots">>, "task", tasks)
  \o [i \in DOMAIN ProjectTables |-> Where(ProjectTables[i], "project", p)]
  \o <<Where("projects", "id", p)>>

-----------------------------------------------------------------------------
(* The ids of what r hangs on: its project, task and run and the task of   *)
(* its run.                                                                *)
Above(r) ==
  ({r.project, r.task, r.run}
     \cup {k.task : k \in {q \in Rows : q.table = "runs" /\ q.id = r.run}}) \ {None}

(* Rows as the schema and the services make them: ids name one row, a row  *)
(* is of the project of its task and its run, only what a deletion looks at*)
(* has a task or a run, messages and snapshots have a task.  Earlier       *)
(* processes have saved, and a caller saves, a row after those above it.   *)
ASSUME RowsAssumption ==
  /\ IsFiniteSet(Rows)
  /\ \A r \in Rows : r.id # None /\ \A k \in Rows : k.id = r.id => k = r
  /\ \A r, k \in Rows :
       /\ k.id = r.project => k.table = "projects"
       /\ k.id = r.task => k.table = "tasks" /\ k.project = r.project
       /\ k.id = r.run => k.table = "runs" /\ k.project = r.project
  /\ \A r \in Rows :
       /\ r.project # None => r.table \in ToSet(ProjectTables)
       /\ r.task # None => r.table \in RunTables \cup TaskTables \cup {"runs"}
       /\ r.run # None => r.table \in RunTables
       /\ r.table \in TaskTables => r.task # None
  /\ \A d \in Deleters : IsTask(Target[d]) \/ IsProject(Target[d])
  /\ \A r \in InitialRows : Above(r) \subseteq Ids(InitialRows)
  /\ \A s \in Savers : \A i \in DOMAIN Script[s] :
       Above(Script[s][i]) \subseteq Ids(InitialRows) \cup {Script[s][j].id : j \in 1..(i - 1)}

-----------------------------------------------------------------------------
(* Saving.                                                                 *)

Row(s) == Script[s][saves[s] + 1]
HasRow(s) == saves[s] < Len(Script[s])

(* The row of s has been stored: the promise of its save resolves.         *)
Saved(s, next) ==
  /\ saves' = [saves EXCEPT ![s] = @ + 1]
  /\ pc' = [pc EXCEPT ![s] = next]
  /\ late' = [d \in Deleters |-> IF pc[d] = "idle" THEN late[d] ELSE late[d] \cup {Row(s)}]

SaveInMemory(s) ==
  /\ store = "memory" /\ pc[s] = "idle" /\ HasRow(s)
  /\ db' = db \cup {Row(s)}
  /\ Saved(s, "idle")
  /\ UNCHANGED <<store, fileVars, steps>>

(* upsert; a row that refers to a missing one is refused and the caller    *)
(* gives up.                                                               *)
SaveInPostgres(s) ==
  /\ store = "postgres" /\ pc[s] = "idle" /\ HasRow(s)
  /\ \/ /\ References(Row(s)) \subseteq Ids(db)
        /\ db' = db \cup {Row(s)}
        /\ Saved(s, "idle")
     \/ /\ ~(References(Row(s)) \subseteq Ids(db))
        /\ pc' = [pc EXCEPT ![s] = "failed"]
        /\ UNCHANGED <<db, saves, late>>
  /\ UNCHANGED <<store, fileVars, steps>>

-----------------------------------------------------------------------------
(* The JSON file.                                                          *)

(* enqueueWrite.                                                           *)
Enqueue(c) ==
  /\ store = "file" /\ pc[c] = "idle"
  /\ c \in Savers => HasRow(c)
  /\ queue' = [queue EXCEPT ![Home[c]] = Append(@, c)]
  /\ pc' = [pc EXCEPT ![c] = "queued"]
  /\ UNCHANGED <<store, db, saves, read, steps, late>>

(* updateState: the update whose turn it is in its process reads the file. *)
(* Mutant: updates do not wait for each other.                             *)
MutReadState(c) ==
  /\ pc[c] = "queued"
  /\ read' = [read EXCEPT ![c] = db]
  /\ pc' = [pc EXCEPT ![c] = "apply"]
  /\ UNCHANGED <<store, db, saves, queue, steps, late>>
ReadState(c) ==
  /\ pc[c] = "queued" /\ Head(queue[Home[c]]) = c
  /\ read' = [read EXCEPT ![c] = db]
  /\ pc' = [pc EXCEPT ![c] = "apply"]
  /\ UNCHANGED <<store, db, saves, queue, steps, late>>

Dequeue(c) == queue' = [queue EXCEPT ![Home[c]] = Tail(@)]

(* writeState: the renamed file is complete or not there at all.           *)
WriteState(c) ==
  /\ store = "file" /\ pc[c] = "apply"
  /\ db' = FileUpdate(c, read[c])
  /\ Dequeue(c)
  /\ IF c \in Savers THEN Saved(c, "idle")
     ELSE pc' = [pc EXCEPT ![c] = "done"] /\ UNCHANGED <<saves, late>>
  /\ UNCHANGED <<store, read, steps>>

(* The file cannot be read or written: the caller gets the error, and the  *)
(* updates behind it go on.                                                *)
UpdateFails(c) ==
  /\ store = "file" /\ pc[c] \in {"queued", "apply"} /\ Head(queue[Home[c]]) = c
  /\ Dequeue(c)
  /\ pc' = [pc EXCEPT ![c] = "failed"]
  /\ UNCHANGED <<store, db, saves, read, steps, late>>

-----------------------------------------------------------------------------
(* Deletion in memory and in Postgres.                                     *)

(* deleteTask awaits runs.listForTask before it deletes anything.          *)
ListInMemory(d) ==
  /\ store = "memory" /\ pc[d] = "idle" /\ IsTask(Target[d])
  /\ read' = [read EXCEPT ![d] = RunsForTask(db, Target[d])]
  /\ pc' = [pc EXCEPT ![d] = "apply"]
  /\ UNCHANGED <<store, db, saves, queue, steps, late>>

DeleteInMemory(d) ==
  /\ store = "memory"
  /\ \/ pc[d] = "apply" /\ db' = db \ MemoryTaskRows(db, Target[d], Ids(read[d]))
     \/ /\ pc[d] = "idle" /\ IsProject(Target[d])
        /\ db' = db \ MemoryProjectRows(db, Target[d])
  /\ pc' = [pc EXCEPT ![d] = "done"]
  /\ UNCHANGED <<store, saves, fileVars, steps, late>>

(* The findMany of deleteTask and of deleteProject; the statements follow  *)
(* its answer, whatever is saved meanwhile.                                *)
ListInPostgres(d) ==
  /\ store = "postgres" /\ pc[d] = "idle"
  /\ \/ /\ IsTask(Target[d])
        /\ steps' = [steps EXCEPT ![d] =
             PrismaTaskDeletion(Target[d], SetToSeq(Ids(RunsForTask(db, Target[d]))))]
     \/ /\ IsProject(Target[d])
        /\ LET tasks == {r \in db : r.table = "tasks" /\ r.project = Target[d]}
           IN steps' = [steps EXCEPT ![d] = PrismaProjectDeletion(Target[d], SetToSeq(Ids(tasks)))]
  /\ pc' = [pc EXCEPT ![d] = "deleting"]
  /\ UNCHANGED <<store, db, saves, fileVars, late>>

(* One deleteMany: all the rows it matches or, when another row refers to  *)
(* one of them, none, and the deletion ends there.                         *)
DeleteMany(d) ==
  /\ pc[d] = "deleting"
  /\ LET gone == {r \in db : Matches(Head(steps[d]), r)}
         refused == \E r \in db \ gone : Restricts(r) \cap Ids(gone) # {}
     IN \/ /\ refused
           /\ pc' = [pc EXCEPT ![d] = "failed"] /\ db' = db
        \/ /\ ~refused
           /\ db' = db \ gone
           /\ pc' = [pc EXCEPT ![d] = IF Len(steps[d]) = 1 THEN "done" ELSE "deleting"]
  /\ steps' = [steps EXCEPT ![d] = Tail(@)]
  /\ UNCHANGED <<store, saves, fileVars, late>>

-----------------------------------------------------------------------------
(* A process stops; the memory goes with its only process.                 *)
Stop(p) ==
  /\ pc' = [c \in Callers |-> IF Home[c] = p THEN "stopped" ELSE pc[c]]
  /\ pc' # pc
  /\ queue' = [queue EXCEPT ![p] = <<>>]
  /\ UNCHANGED <<store, db, saves, read, steps, late>>

Next ==
  \/ \E s \in Savers : SaveInMemory(s) \/ SaveInPostgres(s)
  \/ \E c \in Callers : Enqueue(c) \/ ReadState(c) \/ WriteState(c) \/ UpdateFails(c)
  \/ \E d \in Deleters : ListInMemory(d) \/ DeleteInMemory(d) \/ ListInPostgres(d) \/ DeleteMany(d)
  \/ \E p \in Processes : Stop(p)

Spec == Init /\ [][Next]_vars

-----------------------------------------------------------------------------
(* Properties.                                                             *)

(* The rows that belong to what d deletes.                                 *)
Scope(d) ==
  {r \in Rows : \/ Target[d] \in {r.id, r.task, r.project}
                \/ \E k \in Rows : k.table = "runs" /\ k.id = r.run /\ Target[d] = k.task
                \/ \E k \in Rows : k.table = "tasks" /\ k.id = r.task /\ Target[d] = k.project}

(* A deletion that has returned left nothing behind but what was saved     *)
(* since it began.  The exception is in memory and file: a row that was    *)
(* saved during another deletion, after the task or the run that leads to  *)
(* it was gone, is not found again.                                        *)
DeletionComplete ==
  \A d \in Deleters : pc[d] = "done" =>
    \A r \in db \cap Scope(d) :
      \/ r \in late[d]
      \/ /\ store # "postgres" /\ r.table \in TaskTables \cup RunTables
         /\ \E e \in Deleters : r \in late[e]

(* While anything of a task or project is stored its own row is, however   *)
(* far a deletion came before it failed or its process stopped, so that it *)
(* can be deleted again.  Rows saved during a deletion are exempt.         *)
DeletionRepeatable ==
  \A d \in Deleters : \A r \in db \cap Scope(d) :
    Target[d] \in Ids(db) \/ \E e \in Deleters : r \in late[e]

(* In the file of one process every change of the rows is one whole save   *)
(* or one whole deletion, as if it happened at once: an update never       *)
(* writes back what it read before another update.                         *)
AtomicFile ==
  [][store = "file" /\ db' # db =>
       \E c \in Callers : (c \in Savers => HasRow(c)) /\ db' = FileUpdate(c, db)]_vars
=============================================================================
