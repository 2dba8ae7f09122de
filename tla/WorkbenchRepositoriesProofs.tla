--------------------- MODULE WorkbenchRepositoriesProofs ---------------------
(***************************************************************************)
(* For all rows, callers, scripts and targets: the queue of updates makes  *)
(* the JSON file of one process atomic; a deletion of a task or a project  *)
(* is complete in all three stores, and can be repeated when it failed.    *)
(***************************************************************************)
EXTENDS WorkbenchRepositories, RepositoryTables, FiniteSetTheorems, SequenceTheorems, TLAPS

(* All callers live in one process: the queue is a variable of the module. *)
OneProcess == \A b, c \in Callers : Home[b] = Home[c]

(* Several processes share Postgres, not the memory or the file.           *)
OnlyPostgresIsShared == store # "postgres" => OneProcess

PCs == {"idle", "queued", "apply", "deleting", "done", "failed", "stopped"}

InQueue(c) == \E i \in 1..Len(queue[Home[c]]) : queue[Home[c]][i] = c
AtHead(c) == queue[Home[c]] # <<>> /\ Head(queue[Home[c]]) = c

(* An update waits in the queue until its turn, has the turn until it is   *)
(* done, and has read the file as it still is.                             *)
QueueInv ==
  /\ queue \in [Processes -> Seq(Callers)]
  /\ pc \in [Callers -> PCs]
  /\ DOMAIN read = Callers
  /\ DOMAIN saves = Savers
  /\ \A c \in Callers :
       /\ pc[c] = "queued" => store = "file"
       /\ pc[c] = "deleting" => store = "postgres"
       /\ store = "file" /\ pc[c] = "queued" => InQueue(c)
       /\ store = "file" /\ pc[c] = "apply" => AtHead(c) /\ read[c] = db
       /\ store = "file" /\ pc[c] \in {"queued", "apply"} /\ c \in Savers => HasRow(c)

LEMMA HeadOfQueue ==
  ASSUME QueueInv, NEW c \in Callers, InQueue(c)
  PROVE  queue[Home[c]] # <<>>
  BY RepositoriesAssumption DEF QueueInv, InQueue

(* Whoever is not at the head stays in the queue when the head leaves.     *)
LEMMA OthersStayInQueue ==
  ASSUME QueueInv, OneProcess, NEW c \in Callers, AtHead(c), Dequeue(c),
         NEW b \in Callers, b # c, InQueue(b)
  PROVE  InQueue(b)'
<1>1. Home[b] = Home[c] /\ Home[c] \in Processes
  BY RepositoriesAssumption DEF OneProcess
<1> DEFINE q == queue[Home[c]]
<1>2. q \in Seq(Callers) /\ q # <<>> /\ Head(q) = c
  BY <1>1 DEF QueueInv, AtHead
<1>3. queue'[Home[c]] = Tail(q)
  BY <1>1 DEF QueueInv, Dequeue
<1>4. PICK i \in 1..Len(q) : q[i] = b
  BY <1>1 DEF InQueue
<1>5. i # 1
  BY <1>2, <1>4
<1>6. i - 1 \in 1..Len(Tail(q)) /\ Tail(q)[i - 1] = b
  BY <1>2, <1>4, <1>5
<1> QED
  BY <1>1, <1>3, <1>6 DEF InQueue

LEMMA InitQueue == Init => QueueInv
  BY RepositoriesAssumption DEF Init, QueueInv, PCs

LEMMA NextQueue == OnlyPostgresIsShared /\ QueueInv /\ [Next]_vars => QueueInv'
<1> SUFFICES ASSUME OnlyPostgresIsShared, QueueInv, [Next]_vars PROVE QueueInv'
  OBVIOUS
<1> USE RepositoriesAssumption
<1>1. ASSUME NEW s \in Savers, SaveInMemory(s) \/ SaveInPostgres(s) PROVE QueueInv'
  <2>1. store # "file" /\ store' = store /\ UNCHANGED <<queue, read>>
    BY <1>1 DEF SaveInMemory, SaveInPostgres, fileVars
  <2>2. pc' \in [Callers -> PCs] /\ \A c \in Callers : pc'[c] \in {pc[c], "failed", "idle"}
    BY <1>1 DEF SaveInMemory, SaveInPostgres, Saved, QueueInv, PCs, Callers
  <2>3. DOMAIN saves' = Savers
    BY <1>1 DEF SaveInMemory, SaveInPostgres, Saved, QueueInv
  <2> QED
    BY <2>1, <2>2, <2>3 DEF QueueInv
<1>2. ASSUME NEW c \in Callers, Enqueue(c) PROVE QueueInv'
  <2> OneProcess
    BY <1>2 DEF Enqueue, OnlyPostgresIsShared
  <2>1. Home[c] \in Processes /\ queue[Home[c]] \in Seq(Callers)
    BY DEF QueueInv
  <2>2. /\ queue' \in [Processes -> Seq(Callers)] /\ pc' \in [Callers -> PCs]
        /\ queue'[Home[c]] = Append(queue[Home[c]], c)
        /\ pc' = [pc EXCEPT ![c] = "queued"]
        /\ pc[c] = "idle" /\ store = "file" /\ UNCHANGED <<store, read, db, saves>>
        /\ c \in Savers => HasRow(c)
    BY <1>2, <2>1 DEF Enqueue, QueueInv, PCs
  <2>3. InQueue(c)'
    BY <2>1, <2>2 DEF InQueue
  <2>4. ASSUME NEW b \in Callers PROVE (InQueue(b) => InQueue(b)') /\ (AtHead(b) => AtHead(b)')
    <3>1. Home[b] = Home[c]
      BY DEF OneProcess
    <3>2. PICK q \in Seq(Callers) : q = queue[Home[c]]
      BY <2>1
    <3>3. /\ \A i \in 1..Len(q) : Append(q, c)[i] = q[i] /\ i \in 1..Len(Append(q, c))
          /\ q # <<>> => Append(q, c) # <<>> /\ Head(Append(q, c)) = Head(q)
      OBVIOUS
    <3> QED
      BY <2>2, <3>1, <3>2, <3>3 DEF InQueue, AtHead
  <2> QED
    BY <2>2, <2>3, <2>4 DEF QueueInv, HasRow
<1>3. ASSUME NEW c \in Callers, ReadState(c) PROVE QueueInv'
  <2>1. AtHead(c)
    BY <1>3, HeadOfQueue DEF ReadState, QueueInv, AtHead
  <2>2. /\ UNCHANGED <<queue, db, saves, store>> /\ store = "file" /\ pc[c] = "queued"
        /\ pc' \in [Callers -> PCs] /\ pc' = [pc EXCEPT ![c] = "apply"]
        /\ DOMAIN read' = Callers /\ read' = [read EXCEPT ![c] = db]
    BY <1>3 DEF ReadState, QueueInv, PCs
  <2>3. \A b \in Callers : (AtHead(b) <=> AtHead(b)') /\ (InQueue(b) <=> InQueue(b)')
    BY <2>2 DEF AtHead, InQueue
  <2> QED
    BY <2>1, <2>2, <2>3 DEF QueueInv, HasRow
<1>4. ASSUME NEW c \in Callers, WriteState(c) \/ UpdateFails(c) PROVE QueueInv'
  <2>1. AtHead(c) /\ Dequeue(c) /\ store = "file" /\ store' = store /\ UNCHANGED read
    BY <1>4, HeadOfQueue DEF WriteState, UpdateFails, QueueInv, AtHead
  <2> OneProcess
    BY <2>1 DEF OnlyPostgresIsShared
  <2>2. /\ pc' \in [Callers -> PCs] /\ pc'[c] \in {"idle", "done", "failed"}
        /\ \A b \in Callers \ {c} : pc'[b] = pc[b]
    BY <1>4 DEF WriteState, UpdateFails, Saved, QueueInv, PCs, Callers
  <2>3. /\ DOMAIN saves' = Savers
        /\ \A b \in Savers \ {c} : saves'[b] = saves[b]
    BY <1>4 DEF WriteState, UpdateFails, Saved, QueueInv
  <2>4. queue' \in [Processes -> Seq(Callers)]
    BY <2>1 DEF Dequeue, QueueInv, AtHead
  <2>5. \A b \in Callers \ {c} : pc[b] # "apply"
    BY <2>1 DEF QueueInv, OneProcess, AtHead
  <2>6. \A b \in Callers \ {c} : InQueue(b) => InQueue(b)'
    BY <2>1, OthersStayInQueue
  <2> QED
    BY <2>1, <2>2, <2>3, <2>4, <2>5, <2>6 DEF QueueInv, HasRow
<1>5. ASSUME NEW d \in Deleters,
             ListInMemory(d) \/ DeleteInMemory(d) \/ ListInPostgres(d) \/ DeleteMany(d)
      PROVE  QueueInv'
  <2>1. store # "file" /\ UNCHANGED <<store, queue, saves>> /\ d \in Callers
    BY <1>5 DEF ListInMemory, DeleteInMemory, ListInPostgres, DeleteMany, fileVars, QueueInv, Callers
  <2>2. DOMAIN read' = Callers
    BY <1>5 DEF ListInMemory, DeleteInMemory, ListInPostgres, DeleteMany, fileVars, QueueInv
  <2>3. /\ pc' \in [Callers -> PCs]
        /\ \A c \in Callers : pc'[c] # pc[c] =>
             pc'[c] \in {"apply", "done", "failed"} \/ (pc'[c] = "deleting" /\ store = "postgres")
    BY <1>5, <2>1 DEF ListInMemory, DeleteInMemory, ListInPostgres, DeleteMany, QueueInv, PCs
  <2> QED
    BY <2>1, <2>2, <2>3 DEF QueueInv
<1>6. ASSUME NEW p \in Processes, Stop(p) PROVE QueueInv'
  <2>1. pc' = [c \in Callers |-> IF Home[c] = p THEN "stopped" ELSE pc[c]] /\ pc' # pc
    BY <1>6 DEF Stop
  <2>2. pc' \in [Callers -> PCs] /\ \A c \in Callers : pc'[c] \in {pc[c], "stopped"}
    BY <2>1 DEF QueueInv, PCs
  <2>3. queue' \in [Processes -> Seq(Callers)] /\ UNCHANGED <<store, read, saves, db>>
    BY <1>6 DEF Stop, QueueInv
  <2>4. CASE store = "postgres"
    BY <2>2, <2>3, <2>4 DEF QueueInv
  <2>5. CASE OneProcess
    <3>1. \A c \in Callers : Home[c] = p
      BY <2>1, <2>5 DEF QueueInv, OneProcess
    <3>2. \A c \in Callers : pc'[c] = "stopped"
      BY <2>1, <3>1
    <3> QED
      BY <2>2, <2>3, <3>2 DEF QueueInv
  <2> QED
    BY <2>4, <2>5 DEF OnlyPostgresIsShared
<1>7. CASE UNCHANGED vars
  BY <1>7 DEF vars, fileVars, QueueInv, InQueue, AtHead, HasRow
<1> QED
  BY <1>1, <1>2, <1>3, <1>4, <1>5, <1>6, <1>7 DEF Next

LEMMA StepIsAtomic ==
  QueueInv /\ [Next]_vars
    => (store = "file" /\ db' # db
          => \E c \in Callers : (c \in Savers => HasRow(c)) /\ db' = FileUpdate(c, db))
<1> SUFFICES ASSUME QueueInv, [Next]_vars, store = "file", db' # db
             PROVE  \E c \in Callers : (c \in Savers => HasRow(c)) /\ db' = FileUpdate(c, db)
  OBVIOUS
<1>1. PICK c \in Callers : WriteState(c)
  BY DEF Next, vars, SaveInMemory, SaveInPostgres, Enqueue, ReadState, UpdateFails, ListInMemory,
         DeleteInMemory, ListInPostgres, DeleteMany, Stop, QueueInv, Callers
<1>2. read[c] = db /\ (c \in Savers => HasRow(c))
  BY <1>1 DEF WriteState, QueueInv
<1>3. db' = FileUpdate(c, db)
  BY <1>1, <1>2 DEF WriteState
<1> QED
  BY <1>2, <1>3

(* In the file of one process every change is one whole save or deletion:  *)
(* enqueueWrite lets no update write back what it read before another one, *)
(* whatever fails and whoever stops.                                       *)
THEOREM FileIsAtomic == OneProcess => (Spec => AtomicFile)
<1>1. CASE OneProcess
  <2>1. QueueInv /\ [Next]_vars => QueueInv'
    BY <1>1, NextQueue DEF OnlyPostgresIsShared
  <2>2. Spec => AtomicFile
    BY <2>1, InitQueue, StepIsAtomic, PTL DEF Spec, AtomicFile
  <2> QED
    BY <2>2
<1> QED
  BY <1>1

-----------------------------------------------------------------------------
(* Deletions.                                                              *)

LEMMA UniqueIds == ASSUME NEW r \in Rows, NEW k \in Rows, r.id = k.id PROVE r = k
  BY RowsAssumption

(* What can be above a row.                                                *)
LEMMA AboveKinds ==
  ASSUME NEW r \in Rows, NEW g \in Rows, g.id \in Above(r)
  PROVE  \/ g.table = "projects" /\ r.project = g.id
         \/ g.table = "tasks" /\ r.task = g.id
         \/ g.table = "runs" /\ r.run = g.id
         \/ g.table = "tasks" /\ \E k \in Rows : k.table = "runs" /\ k.id = r.run /\ k.task = g.id
<1>1. \/ g.id \in {r.project, r.task, r.run}
      \/ \E k \in Rows : k.table = "runs" /\ k.id = r.run /\ g.id = k.task
  BY DEF Above
<1> QED
  BY <1>1, RowsAssumption

LEMMA AboveIsTransitive ==
  ASSUME NEW r \in Rows, NEW g \in Rows, g.id \in Above(r), NEW x \in Above(g)
  PROVE  x \in Above(r)
<1>1. x # None /\ g.id # None
  BY RowsAssumption DEF Above
<1>2. CASE g.table = "projects"
  <2>1. g.project = None /\ g.task = None /\ g.run = None
    BY <1>2, RowsAssumption DEF ProjectTables, ToSet, RunTables, TaskTables
  <2>2. \A k \in Rows : k.id # None
    BY RowsAssumption
  <2> QED
    BY <2>1, <2>2 DEF Above
<1>3. CASE g.table = "tasks"
  <2>1. g.task = None /\ g.run = None /\ x = g.project
    <3>1. g.task = None /\ g.run = None
      BY <1>3, RowsAssumption DEF RunTables, TaskTables
    <3>2. \A k \in Rows : k.id # None
      BY RowsAssumption
    <3> QED
      BY <3>1, <3>2 DEF Above
  <2>2. CASE r.task = g.id
    BY <2>1, <2>2, <1>1, RowsAssumption DEF Above
  <2>3. ASSUME NEW k \in Rows, k.table = "runs", k.id = r.run, k.task = g.id
        PROVE  r.project = g.project
    BY <2>3, RowsAssumption
  <2> QED
    BY <2>1, <2>2, <2>3, <1>1, <1>3, AboveKinds DEF Above
<1>4. CASE g.table = "runs" /\ r.run = g.id
  <2>1. g.run = None
    BY <1>4, RowsAssumption DEF RunTables
  <2>2. \A k \in Rows : k.id # None
    BY RowsAssumption
  <2>3. x = g.project \/ x = g.task
    BY <2>1, <2>2, <1>1 DEF Above
  <2>4. r.project = g.project
    BY <1>4, RowsAssumption
  <2>5. g.task # None => g.task \in Above(r)
    BY <1>4 DEF Above
  <2> QED
    BY <2>3, <2>4, <2>5, <1>1 DEF Above
<1> QED
  BY <1>2, <1>3, <1>4, AboveKinds

(* What belongs to the target of a deletion is the target and what is      *)
(* below it.                                                               *)
LEMMA ScopeIsBelow ==
  ASSUME NEW d \in Deleters, NEW r \in Rows
  PROVE  r \in Scope(d) <=> Target[d] = r.id \/ Target[d] \in Above(r)
<1>1. Target[d] # None
  BY RowsAssumption DEF IsTask, IsProject
<1>2. \A k \in Rows : k.table = "tasks" /\ k.id = r.task /\ Target[d] = k.project => r.project = k.project
  BY RowsAssumption
<1>3. Target[d] \in Above(r) <=>
        \/ Target[d] \in {r.project, r.task, r.run}
        \/ \E k \in Rows : k.table = "runs" /\ k.id = r.run /\ Target[d] = k.task
  BY <1>1 DEF Above
<1>4. Target[d] # r.run
  BY RowsAssumption DEF IsTask, IsProject
<1> QED
  BY <1>2, <1>3, <1>4 DEF Scope

(* Rows that were in no way saved during a deletion.                       *)
Old(r) == \A e \in Deleters : r \notin late[e]

(* The tables: what is stored, what has been saved, when nobody deletes.   *)
RowsInv ==
  /\ db \subseteq Rows /\ late \in [Deleters -> SUBSET Rows]
  /\ store \in {"memory", "file", "postgres"}
  /\ saves \in [Savers -> Nat] /\ \A s \in Savers : saves[s] <= Len(Script[s])
  /\ (\A d \in Deleters : pc[d] = "idle") =>
       /\ InitialRows \subseteq db
       /\ \A s \in Savers : \A i \in 1..saves[s] : Script[s][i] \in db

(* No old row has lost what it hangs on.                                   *)
OldInv == \A r \in db : Old(r) => Above(r) \subseteq Ids(db)

(* A deletion of a task in memory knows all runs with old rows below them. *)
ListInv(d) ==
  store = "memory" /\ pc[d] = "apply" =>
    /\ IsTask(Target[d])
    /\ \A r \in db, k \in Rows :
         Old(r) /\ k.table = "runs" /\ k.task = Target[d] /\ r.run = k.id => k.id \in Ids(read[d])

(* The statements of a deletion: tasks go after the runs and after what    *)
(* hangs on runs, projects go last.                                        *)
TableNames ==
  {"projects", "agentHandoffs", "toolObservations", "runEvents", "runs", "messages", "taskSnapshots",
   "tasks", "mcpToolApprovals", "deployments", "artifactWorkspaceFiles", "artifactWorkspaces",
   "pageVersions", "briefs", "projectMembers", "skillBindings", "modelRoutingPolicies",
   "modelProviders", "mcpConnectors"}
Columns == {"id", "project", "task", "run"}
Statements == [table : TableNames, column : Columns, value : Ids(Rows)]
Plan(s, x) ==
  /\ s \in Seq(Statements)
  /\ \A i \in DOMAIN s :
       /\ s[i].table = "projects" => s[i] = Where("projects", "id", x) /\ i = Len(s)
       /\ s[i].table = "tasks" => s[i] \in {Where("tasks", "id", x), Where("tasks", "project", x)}
       /\ s[i].table = "tasks" => \A j \in DOMAIN s : i < j => s[j].table \notin RunTables \cup {"runs"}
PlanInv(d) ==
  pc[d] = "deleting" =>
    /\ Plan(steps[d], Target[d]) /\ steps[d] # <<>>
    /\ \A r \in db \cap Scope(d) :
         r \notin late[d] => \E i \in DOMAIN steps[d] : Matches(steps[d][i], r)

(* In Postgres what hangs on a run has it.                                 *)
KeyInv ==
  store = "postgres" =>
    \A r \in db : r.table \in RunTables /\ r.run # None => r.run \in Ids(db)

DeletionInv ==
  /\ OnlyPostgresIsShared
  /\ QueueInv /\ RowsInv /\ OldInv /\ KeyInv /\ DOMAIN steps = Deleters
  /\ \A d \in Deleters : ListInv(d) /\ PlanInv(d)
  /\ DeletionComplete

LEMMA OldTargets == RowsInv /\ OldInv => DeletionRepeatable
<1> SUFFICES ASSUME RowsInv, OldInv, NEW d \in Deleters, NEW r \in db \cap Scope(d), Old(r)
             PROVE  Target[d] \in Ids(db)
  BY DEF DeletionRepeatable, Old
<1> QED
  BY ScopeIsBelow DEF RowsInv, OldInv, Ids

(* Whatever goes, goes with the old rows below it.                         *)
LEMMA OldInvKept ==
  ASSUME RowsInv, OldInv, late' = late, NEW gone, db' = db \ gone,
         \A g \in gone \cap db, r \in db : Old(r) /\ g.id \in Above(r) => r \in gone
  PROVE  OldInv'
<1> SUFFICES ASSUME NEW r \in db', Old(r)', NEW x \in Above(r) PROVE x \in Ids(db')
  BY DEF OldInv
<1>1. r \in db /\ Old(r)
  BY DEF Old
<1>2. PICK g \in db : x = g.id
  BY <1>1 DEF OldInv, Ids
<1>3. g \notin gone
  BY <1>1, <1>2
<1> QED
  BY <1>2, <1>3 DEF Ids

(* A deletion at once: all old rows of its scope go, and what goes of the  *)
(* tables above others is of its scope.                                    *)
LEMMA WholeDeletion ==
  ASSUME RowsInv, OldInv, late' = late, NEW d \in Deleters, NEW gone, db' = db \ gone,
         \A r \in db \cap Scope(d) : Old(r) => r \in gone,
         \A g \in gone \cap db : g.table \in {"projects", "tasks", "runs"} => g \in Scope(d)
  PROVE  OldInv'
<1>1. ASSUME NEW g \in gone \cap db, NEW r \in db, Old(r), g.id \in Above(r) PROVE r \in gone
  <2>1. r \in Rows /\ g \in Rows
    BY DEF RowsInv
  <2>2. g \in Scope(d)
    BY <1>1, <2>1, AboveKinds
  <2>3. r \in Scope(d)
    BY <1>1, <2>1, <2>2, ScopeIsBelow, AboveIsTransitive
  <2> QED
    BY <1>1, <2>3
<1> QED
  BY <1>1, OldInvKept

LEMMA SetToSeqLists ==
  ASSUME NEW S, IsFiniteSet(S)
  PROVE  SetToSeq(S) \in Seq(S) /\ \A x \in S : \E i \in 1..Len(SetToSeq(S)) : SetToSeq(S)[i] = x
<1> DEFINE n == Cardinality(S)
<1>1. n \in Nat /\ ExistsBijection(1..n, S)
  BY FS_CardinalityType
<1>2. \E f \in [1..n -> S] : IsInjective(f)
  BY <1>1 DEF ExistsBijection, Bijection, Injection
<1>3. SetToSeq(S) \in [1..n -> S] /\ IsInjective(SetToSeq(S))
  BY <1>2 DEF SetToSeq
<1>4. IsFiniteSet(1..n) /\ Cardinality(1..n) = n
  BY <1>1, FS_Interval
<1>5. SetToSeq(S) \in Injection(1..n, S)
  BY <1>3 DEF Injection
<1>6. SetToSeq(S) \in Surjection(1..n, S)
  BY <1>4, <1>5, FS_Injection
<1>7. SetToSeq(S) \in Seq(S) /\ Len(SetToSeq(S)) = n
  BY <1>1, <1>3
<1> QED
  BY <1>6, <1>7 DEF Surjection

LEMMA IdsAreFinite == ASSUME NEW S \in SUBSET Rows PROVE IsFiniteSet(Ids(S)) /\ Ids(S) \subseteq Ids(Rows)
<1>1. IsFiniteSet(S)
  BY RowsAssumption, FS_Subset
<1>2. [r \in S |-> r.id] \in Surjection(S, Ids(S))
  BY DEF Surjection, Ids
<1> QED
  BY <1>1, <1>2, FS_Surjection DEF Ids

(* The loops of a deletion send every statement there is to send.          *)
LEMMA Loops ==
  ASSUME NEW T \in Seq(TableNames), Len(T) \in {2, 3}, NEW col \in Columns, NEW v \in Seq(Ids(Rows))
  PROVE  /\ StatementsFor(T, col, v) \in Seq(Statements)
         /\ \A i \in 1..Len(StatementsFor(T, col, v)) :
              \E j \in 1..Len(T) : StatementsFor(T, col, v)[i].table = T[j]
         /\ \A j \in 1..Len(T), k \in 1..Len(v) :
              \E i \in 1..Len(StatementsFor(T, col, v)) :
                StatementsFor(T, col, v)[i] = Where(T[j], col, v[k])
<1> DEFINE m == Len(T)
           n == Len(v)
           J(i) == ((i - 1) % m) + 1
           K(i) == ((i - 1) \div m) + 1
           a == [i \in 1..(m * n) |-> Where(T[J(i)], col, v[K(i)])]
<1>1. StatementsFor(T, col, v) = a
  BY DEF StatementsFor
<1>2. m \in {2, 3} /\ n \in Nat /\ m * n \in Nat
  OBVIOUS
<1>3. ASSUME NEW i \in 1..(m * n) PROVE J(i) \in 1..m /\ K(i) \in 1..n
  <2> HIDE DEF m, n
  <2>1. CASE m = 2
    BY <2>1, <1>2
  <2>2. CASE m = 3
    BY <2>2, <1>2
  <2> QED
    BY <2>1, <2>2, <1>2
<1>4. ASSUME NEW j \in 1..m, NEW k \in 1..n
      PROVE  \E i \in 1..(m * n) : J(i) = j /\ K(i) = k
  <2> HIDE DEF m, n
  <2>1. CASE m = 2
    <3>1. 2 * (k - 1) + j \in 1..(m * n) /\ J(2 * (k - 1) + j) = j /\ K(2 * (k - 1) + j) = k
      BY <2>1, <1>2
    <3> QED
      BY <3>1
  <2>2. CASE m = 3
    <3>1. 3 * (k - 1) + j \in 1..(m * n) /\ J(3 * (k - 1) + j) = j /\ K(3 * (k - 1) + j) = k
      BY <2>2, <1>2
    <3> QED
      BY <3>1
  <2> QED
    BY <2>1, <2>2, <1>2
<1>5. ASSUME NEW i \in 1..(m * n)
      PROVE  a[i] = Where(T[J(i)], col, v[K(i)]) /\ a[i] \in Statements /\ a[i].table = T[J(i)]
  <2>1. T[J(i)] \in TableNames /\ v[K(i)] \in Ids(Rows)
    <3> HIDE DEF J, K
    <3> QED
      BY <1>3
  <2>2. a[i] = Where(T[J(i)], col, v[K(i)])
    OBVIOUS
  <2> HIDE DEF J, K, a
  <2> QED
    BY <2>1, <2>2 DEF Where, Statements
<1>6. a \in Seq(Statements) /\ Len(a) = m * n
  <2>1. DOMAIN a = 1..(m * n)
    OBVIOUS
  <2>2. a \in [1..(m * n) -> Statements]
    <3> HIDE DEF J, K, m, n
    <3> QED
      BY <1>5
  <2> HIDE DEF a, m, n
  <2> QED
    BY <1>2, <2>2
<1> HIDE DEF J, K, a, m, n
<1>7. \A i \in 1..Len(a) : \E j \in 1..m : a[i].table = T[j]
  BY <1>3, <1>5, <1>6
<1>8. \A j \in 1..m, k \in 1..n : \E i \in 1..Len(a) : a[i] = Where(T[j], col, v[k])
  BY <1>4, <1>5, <1>6
<1> QED
  BY <1>1, <1>6, <1>7, <1>8 DEF m, n

LEMMA Concat ==
  ASSUME NEW a \in Seq(Statements), NEW b \in Seq(Statements)
  PROVE  /\ a \o b \in Seq(Statements) /\ Len(a \o b) = Len(a) + Len(b)
         /\ DOMAIN (a \o b) = 1..(Len(a) + Len(b))
         /\ \A i \in 1..Len(a) : (a \o b)[i] = a[i] /\ i \in DOMAIN (a \o b)
         /\ \A j \in 1..Len(b) : (a \o b)[Len(a) + j] = b[j] /\ Len(a) + j \in DOMAIN (a \o b)
         /\ \A i \in DOMAIN (a \o b) : i \in 1..Len(a) \/ \E j \in 1..Len(b) : i = Len(a) + j
<1>1. a \o b \in Seq(Statements) /\ Len(a \o b) = Len(a) + Len(b) /\ DOMAIN (a \o b) = 1..(Len(a) + Len(b))
  OBVIOUS
<1>2. \A i \in 1..Len(a) : (a \o b)[i] = a[i] /\ i \in DOMAIN (a \o b)
  OBVIOUS
<1>3. \A j \in 1..Len(b) : (a \o b)[Len(a) + j] = b[j] /\ Len(a) + j \in DOMAIN (a \o b)
  OBVIOUS
<1>4. \A i \in 1..(Len(a) + Len(b)) : i > Len(a) => i - Len(a) \in 1..Len(b) /\ i = Len(a) + (i - Len(a))
  OBVIOUS
<1>5. \A i \in 1..(Len(a) + Len(b)) : i \in 1..Len(a) \/ \E j \in 1..Len(b) : i = Len(a) + j
  BY <1>4
<1> QED
  BY <1>1, <1>2, <1>3, <1>5

LEMMA TaskPlanOf ==
  ASSUME NEW t, NEW a \in Seq(Statements), NEW b \in Seq(Statements), Len(b) = 7,
         \A i \in 1..Len(a) : a[i].table \notin {"projects", "tasks"},
         \A j \in 1..7 : b[j].table # "projects" /\ (b[j].table = "tasks" => j = 7),
         b[7] = Where("tasks", "id", t)
  PROVE  Plan(a \o b, t) /\ a \o b # <<>>
<1>1. PICK s : s = a \o b
  OBVIOUS
<1>2. PICK n \in Nat : n = Len(a)
  OBVIOUS
<1>3. /\ s \in Seq(Statements) /\ Len(s) = n + 7 /\ DOMAIN s = 1..(n + 7)
      /\ \A i \in 1..n : s[i] = a[i]
      /\ \A j \in 1..7 : s[n + j] = b[j]
      /\ \A i \in DOMAIN s : i \in 1..n \/ \E j \in 1..7 : i = n + j
  <2>1. /\ a \o b \in Seq(Statements) /\ Len(a \o b) = Len(a) + Len(b)
        /\ DOMAIN (a \o b) = 1..(Len(a) + Len(b))
        /\ \A i \in 1..Len(a) : (a \o b)[i] = a[i] /\ i \in DOMAIN (a \o b)
        /\ \A j \in 1..Len(b) : (a \o b)[Len(a) + j] = b[j] /\ Len(a) + j \in DOMAIN (a \o b)
        /\ \A i \in DOMAIN (a \o b) : i \in 1..Len(a) \/ \E j \in 1..Len(b) : i = Len(a) + j
    BY Concat
  <2> QED
    BY <1>1, <1>2, <2>1
<1>4. ASSUME NEW i \in DOMAIN s
      PROVE  s[i].table # "projects" /\ (s[i].table = "tasks" => i = n + 7)
  <2>1. CASE i \in 1..n
    BY <1>2, <1>3, <2>1
  <2>2. CASE \E j \in 1..7 : i = n + j
    BY <1>3, <2>2
  <2> QED
    BY <1>3, <2>1, <2>2
<1>5. s[n + 7] = Where("tasks", "id", t)
  BY <1>3
<1>6. \A i, j \in DOMAIN s : i = n + 7 => ~(i < j)
  BY <1>3
<1>7. s # <<>>
  BY <1>3
<1> QED
  BY <1>1, <1>3, <1>4, <1>5, <1>6, <1>7 DEF Plan

(* The statements of deleteTask, and what they match.                      *)
LEMMA TaskPlan ==
  ASSUME NEW t \in Ids(Rows), NEW runs \in Seq(Ids(Rows))
  PROVE  /\ Plan(PrismaTaskDeletion(t, runs), t) /\ PrismaTaskDeletion(t, runs) # <<>>
         /\ \A k \in 1..Len(runs), m \in RunTables :
              \E i \in DOMAIN PrismaTaskDeletion(t, runs) :
                PrismaTaskDeletion(t, runs)[i] = Where(m, "run", runs[k])
         /\ \A m \in RunTables \cup TaskTables \cup {"runs"} :
              \E i \in DOMAIN PrismaTaskDeletion(t, runs) :
                PrismaTaskDeletion(t, runs)[i] = Where(m, "task", t)
         /\ \E i \in DOMAIN PrismaTaskDeletion(t, runs) :
              PrismaTaskDeletion(t, runs)[i] = Where("tasks", "id", t)
<1>1. PICK T : T = <<"agentHandoffs", "toolObservations", "runEvents">>
  OBVIOUS
<1>2. PICK a : a = StatementsFor(T, "run", runs)
  OBVIOUS
<1>3. PICK b : b = <<Where("agentHandoffs", "task", t), Where("toolObservations", "task", t),
                     Where("runEvents", "task", t), Where("runs", "task", t),
                     Where("messages", "task", t), Where("taskSnapshots", "task", t),
                     Where("tasks", "id", t)>>
  OBVIOUS
<1>4. PICK s : s = a \o b /\ s = PrismaTaskDeletion(t, runs)
  BY <1>1, <1>2, <1>3 DEF PrismaTaskDeletion
<1>5. T \in Seq(TableNames) /\ Len(T) = 3 /\ \A j \in 1..3 : T[j] \in RunTables
  BY <1>1 DEF RunTables, TableNames
<1>6. \A m \in RunTables : \E j \in 1..3 : T[j] = m
  <2>1. T[1] = "agentHandoffs" /\ T[2] = "toolObservations" /\ T[3] = "runEvents"
    BY <1>1
  <2> QED
    BY <2>1 DEF RunTables
<1>7. /\ a \in Seq(Statements)
      /\ \A i \in 1..Len(a) : \E j \in 1..3 : a[i].table = T[j]
      /\ \A j \in 1..3, k \in 1..Len(runs) : \E i \in 1..Len(a) : a[i] = Where(T[j], "run", runs[k])
  <2>1. Len(T) \in {2, 3} /\ "run" \in Columns
    BY <1>5 DEF Columns
  <2>2. /\ StatementsFor(T, "run", runs) \in Seq(Statements)
        /\ \A i \in 1..Len(StatementsFor(T, "run", runs)) :
             \E j \in 1..Len(T) : StatementsFor(T, "run", runs)[i].table = T[j]
        /\ \A j \in 1..Len(T), k \in 1..Len(runs) :
             \E i \in 1..Len(StatementsFor(T, "run", runs)) :
               StatementsFor(T, "run", runs)[i] = Where(T[j], "run", runs[k])
    BY <1>5, <2>1, Loops
  <2> QED
    BY <1>2, <1>5, <2>2
<1>8. \A i \in 1..Len(a) : a[i].table \notin {"projects", "tasks"}
  BY <1>5, <1>7 DEF RunTables
<1>9. b \in Seq(Statements) /\ Len(b) = 7
  <2>1. \A m \in TableNames, col \in Columns : Where(m, col, t) \in Statements
    BY DEF Where, Statements
  <2>2. \A m \in RunTables \cup TaskTables \cup {"runs"} : Where(m, "task", t) \in Statements
    BY <2>1 DEF RunTables, TaskTables, TableNames, Columns
  <2>3. Where("tasks", "id", t) \in Statements
    BY <2>1 DEF TableNames, Columns
  <2> QED
    BY <1>3, <2>2, <2>3 DEF RunTables, TaskTables
<1>10. \A j \in 1..7 : b[j].table # "projects" /\ (b[j].table = "tasks" => j = 7)
  BY <1>3 DEF Where
<1>11. /\ b[1] = Where("agentHandoffs", "task", t) /\ b[2] = Where("toolObservations", "task", t)
       /\ b[3] = Where("runEvents", "task", t) /\ b[4] = Where("runs", "task", t)
       /\ b[5] = Where("messages", "task", t) /\ b[6] = Where("taskSnapshots", "task", t)
       /\ b[7] = Where("tasks", "id", t)
  BY <1>3
<1>12. \A m \in RunTables \cup TaskTables \cup {"runs"} : \E j \in 1..7 : b[j] = Where(m, "task", t)
  BY <1>11 DEF RunTables, TaskTables
<1>13. Plan(s, t) /\ s # <<>>
  BY <1>4, <1>7, <1>8, <1>9, <1>10, <1>11, TaskPlanOf
<1>14. /\ \A i \in 1..Len(a) : s[i] = a[i] /\ i \in DOMAIN s
       /\ \A j \in 1..7 : s[Len(a) + j] = b[j] /\ Len(a) + j \in DOMAIN s
  <2>1. /\ a \o b \in Seq(Statements) /\ Len(a \o b) = Len(a) + Len(b)
        /\ DOMAIN (a \o b) = 1..(Len(a) + Len(b))
        /\ \A i \in 1..Len(a) : (a \o b)[i] = a[i] /\ i \in DOMAIN (a \o b)
        /\ \A j \in 1..Len(b) : (a \o b)[Len(a) + j] = b[j] /\ Len(a) + j \in DOMAIN (a \o b)
        /\ \A i \in DOMAIN (a \o b) : i \in 1..Len(a) \/ \E j \in 1..Len(b) : i = Len(a) + j
    BY <1>7, <1>9, Concat
  <2> QED
    BY <1>4, <1>9, <2>1
<1>15. ASSUME NEW k \in 1..Len(runs), NEW m \in RunTables
       PROVE  \E i \in DOMAIN s : s[i] = Where(m, "run", runs[k])
  <2>1. PICK j \in 1..3 : T[j] = m
    BY <1>6
  <2>2. PICK i \in 1..Len(a) : a[i] = Where(T[j], "run", runs[k])
    BY <1>7
  <2> QED
    BY <1>14, <2>1, <2>2
<1>16. \E i \in DOMAIN s : s[i] = Where("tasks", "id", t)
  BY <1>11, <1>14
<1>17. ASSUME NEW m \in RunTables \cup TaskTables \cup {"runs"}
       PROVE  \E i \in DOMAIN s : s[i] = Where(m, "task", t)
  BY <1>12, <1>14
<1> QED
  BY <1>4, <1>13, <1>15, <1>16, <1>17

(* The statements of deleteProject, and what they match.                   *)
LEMMA ProjectPlan ==
  ASSUME NEW p \in Ids(Rows), NEW tasks \in Seq(Ids(Rows))
  PROVE  /\ Plan(PrismaProjectDeletion(p, tasks), p) /\ PrismaProjectDeletion(p, tasks) # <<>>
         /\ \A m \in ToSet(ProjectTables) :
              \E i \in DOMAIN PrismaProjectDeletion(p, tasks) :
                PrismaProjectDeletion(p, tasks)[i] = Where(m, "project", p)
         /\ \A k \in 1..Len(tasks), m \in TaskTables :
              \E i \in DOMAIN PrismaProjectDeletion(p, tasks) :
                PrismaProjectDeletion(p, tasks)[i] = Where(m, "task", tasks[k])
         /\ \E i \in DOMAIN PrismaProjectDeletion(p, tasks) :
              PrismaProjectDeletion(p, tasks)[i] = Where("projects", "id", p)
<1>1. PICK T : T = <<"messages", "taskSnapshots">>
  OBVIOUS
<1>2. PICK a : a = StatementsFor(T, "task", tasks)
  OBVIOUS
<1>3. PICK b : b = [i \in DOMAIN ProjectTables |-> Where(ProjectTables[i], "project", p)]
  OBVIOUS
<1>4. PICK c : c = <<Where("projects", "id", p)>>
  OBVIOUS
<1>5. PICK s : s = a \o b \o c /\ s = PrismaProjectDeletion(p, tasks)
  BY <1>1, <1>2, <1>3, <1>4 DEF PrismaProjectDeletion
<1>6. /\ T \in Seq(TableNames) /\ Len(T) = 2 /\ \A j \in 1..2 : T[j] \in TaskTables
      /\ T[1] = "messages" /\ T[2] = "taskSnapshots"
  BY <1>1 DEF TaskTables, TableNames
<1>7. \A m \in TaskTables : \E j \in 1..2 : T[j] = m
  BY <1>6 DEF TaskTables
<1>8. /\ a \in Seq(Statements)
      /\ \A i \in 1..Len(a) : \E j \in 1..2 : a[i].table = T[j]
      /\ \A j \in 1..2, k \in 1..Len(tasks) : \E i \in 1..Len(a) : a[i] = Where(T[j], "task", tasks[k])
  <2>1. Len(T) \in {2, 3} /\ "task" \in Columns
    BY <1>6 DEF Columns
  <2>2. /\ StatementsFor(T, "task", tasks) \in Seq(Statements)
        /\ \A i \in 1..Len(StatementsFor(T, "task", tasks)) :
             \E j \in 1..Len(T) : StatementsFor(T, "task", tasks)[i].table = T[j]
        /\ \A j \in 1..Len(T), k \in 1..Len(tasks) :
             \E i \in 1..Len(StatementsFor(T, "task", tasks)) :
               StatementsFor(T, "task", tasks)[i] = Where(T[j], "task", tasks[k])
    BY <1>6, <2>1, Loops
  <2> QED
    BY <1>2, <1>6, <2>2
<1>9. \A i \in 1..Len(a) : a[i].table \in TaskTables
  BY <1>6, <1>8
<1>10. DOMAIN ProjectTables = 1..18 /\ ProjectTables[7] = "tasks"
  BY DEF ProjectTables
<1>11. \A j \in 1..18 : /\ ProjectTables[j] # "projects"
                        /\ ProjectTables[j] = "tasks" => j = 7
                        /\ j > 7 => ProjectTables[j] \notin RunTables \cup {"runs"}
                        /\ ProjectTables[j] \in TableNames
  BY DEF ProjectTables, RunTables, TableNames
<1>12. \A j \in 1..18 : b[j] = Where(ProjectTables[j], "project", p) /\ b[j].table = ProjectTables[j]
  BY <1>3, <1>10 DEF Where
<1>13. b \in Seq(Statements) /\ Len(b) = 18
  <2>1. \A j \in 1..18 : b[j] \in Statements
    BY <1>11, <1>12 DEF Where, Statements, Columns
  <2>2. DOMAIN b = 1..18 /\ b = [j \in 1..18 |-> b[j]]
    BY <1>3, <1>10
  <2>3. b \in [1..18 -> Statements]
    BY <2>1, <2>2
  <2>4. Len(b) = 18
    BY <2>2
  <2>5. b \in Seq(Statements)
    <3>1. PICK n \in Nat : n = 18
      OBVIOUS
    <3>2. b \in [1..n -> Statements]
      BY <2>3, <3>1
    <3> QED
      BY <3>2
  <2> QED
    BY <2>4, <2>5
<1>14. c \in Seq(Statements) /\ Len(c) = 1 /\ c[1] = Where("projects", "id", p)
  <2>1. Where("projects", "id", p) \in Statements
    BY DEF Where, Statements, TableNames, Columns
  <2> QED
    BY <1>4, <2>1
<1>15. b[7] = Where("tasks", "project", p)
  BY <1>10, <1>12
<1>16. \A j \in 1..18 : /\ b[j].table # "projects" /\ (b[j].table = "tasks" => j = 7)
                        /\ j > 7 => b[j].table \notin RunTables \cup {"runs"}
  BY <1>11, <1>12
<1>17. /\ Plan(s, p) /\ s # <<>>
       /\ \A i \in 1..Len(a) : \E k \in DOMAIN s : s[k] = a[i]
       /\ \A j \in 1..18 : \E k \in DOMAIN s : s[k] = b[j]
       /\ \E k \in DOMAIN s : s[k] = c[1]
  <2> USE <1>8, <1>9, <1>13, <1>14, <1>15, <1>16
  <2>1. PICK ab : ab = a \o b
    OBVIOUS
  <2>2. s = ab \o c
    BY <1>5, <2>1
  <2>3. PICK n \in Nat : n = Len(a)
    OBVIOUS
  <2>4. /\ ab \in Seq(Statements) /\ Len(ab) = n + 18 /\ DOMAIN ab = 1..(n + 18)
        /\ \A i \in 1..n : ab[i] = a[i] /\ i \in DOMAIN ab
        /\ \A j \in 1..18 : ab[n + j] = b[j] /\ n + j \in DOMAIN ab
        /\ \A i \in DOMAIN ab : i \in 1..n \/ \E j \in 1..18 : i = n + j
    <3>1. /\ a \o b \in Seq(Statements) /\ Len(a \o b) = Len(a) + Len(b)
          /\ DOMAIN (a \o b) = 1..(Len(a) + Len(b))
          /\ \A i \in 1..Len(a) : (a \o b)[i] = a[i] /\ i \in DOMAIN (a \o b)
          /\ \A j \in 1..Len(b) : (a \o b)[Len(a) + j] = b[j] /\ Len(a) + j \in DOMAIN (a \o b)
          /\ \A i \in DOMAIN (a \o b) : i \in 1..Len(a) \/ \E j \in 1..Len(b) : i = Len(a) + j
      BY Concat
    <3> QED
      BY <2>1, <2>3, <3>1
  <2>5. /\ s \in Seq(Statements) /\ Len(s) = n + 19 /\ DOMAIN s = 1..(n + 19)
        /\ \A i \in 1..(n + 18) : s[i] = ab[i] /\ i \in DOMAIN s
        /\ s[n + 19] = c[1] /\ n + 19 \in DOMAIN s
        /\ \A i \in DOMAIN s : i \in 1..(n + 18) \/ i = n + 19
    <3>1. /\ ab \o c \in Seq(Statements) /\ Len(ab \o c) = Len(ab) + Len(c)
          /\ DOMAIN (ab \o c) = 1..(Len(ab) + Len(c))
          /\ \A i \in 1..Len(ab) : (ab \o c)[i] = ab[i] /\ i \in DOMAIN (ab \o c)
          /\ \A j \in 1..Len(c) : (ab \o c)[Len(ab) + j] = c[j] /\ Len(ab) + j \in DOMAIN (ab \o c)
      BY <2>4, Concat
    <3>2. /\ s \in Seq(Statements) /\ Len(s) = n + 18 + 1 /\ DOMAIN s = 1..(n + 18 + 1)
          /\ \A i \in 1..(n + 18) : s[i] = ab[i] /\ i \in DOMAIN s
          /\ s[n + 18 + 1] = c[1]
      <4>1. 1 \in 1..Len(c) /\ Len(ab) = n + 18 /\ Len(c) = 1
        BY <2>4
      <4>2. (ab \o c)[Len(ab) + 1] = c[1]
        BY <3>1, <4>1
      <4> QED
        BY <2>2, <3>1, <4>1, <4>2
    <3>3. n + 18 + 1 = n + 19 /\ n + 19 \in 1..(n + 19)
      BY <2>3
    <3>4. \A i \in 1..(n + 19) : i \in 1..(n + 18) \/ i = n + 19
      BY <2>3
    <3> HIDE <1>8, <1>9, <1>13, <1>14, <1>15, <1>16
    <3>5. s \in Seq(Statements) /\ Len(s) = n + 19 /\ DOMAIN s = 1..(n + 19) /\ s[n + 19] = c[1]
      BY <3>2, <3>3
    <3>6. \A i \in 1..(n + 18) : s[i] = ab[i] /\ i \in DOMAIN s
      BY <3>2
    <3> QED
      BY <3>3, <3>4, <3>5, <3>6
  <2>6. \A i \in DOMAIN s : \/ i \in 1..n /\ s[i] = a[i]
                            \/ \E j \in 1..18 : i = n + j /\ s[i] = b[j]
                            \/ i = n + 19 /\ s[i] = c[1]
    <3> SUFFICES ASSUME NEW i \in DOMAIN s
                 PROVE  \/ i \in 1..n /\ s[i] = a[i]
                        \/ \E j \in 1..18 : i = n + j /\ s[i] = b[j]
                        \/ i = n + 19 /\ s[i] = c[1]
      OBVIOUS
    <3>1. CASE i = n + 19
      BY <2>5, <3>1
    <3>2. CASE i \in 1..(n + 18)
      <4>1. s[i] = ab[i] /\ i \in DOMAIN ab
        BY <2>4, <2>5, <3>2
      <4>2. CASE i \in 1..n
        BY <2>4, <4>1, <4>2
      <4>3. CASE \E j \in 1..18 : i = n + j
        <5>1. PICK j \in 1..18 : i = n + j
          BY <4>3
        <5> QED
          BY <2>4, <4>1, <5>1
      <4> QED
        BY <2>4, <4>1, <4>2, <4>3
    <3> QED
      BY <2>5, <3>1, <3>2
  <2>7. ASSUME NEW i \in DOMAIN s
        PROVE  /\ s[i].table = "projects" => i = n + 19
               /\ s[i].table = "tasks" => i = n + 7
               /\ i > n + 7 => s[i].table \notin RunTables \cup {"runs"}
    <3>1. CASE i \in 1..n /\ s[i] = a[i]
      <4>1. s[i].table \in TaskTables
        BY <2>3, <3>1
      <4>2. ~(i > n + 7)
        BY <2>3, <3>1
      <4> QED
        BY <4>1, <4>2 DEF TaskTables
    <3>2. CASE i = n + 19 /\ s[i] = c[1]
      <4>1. s[i].table = "projects"
        BY <3>2 DEF Where
      <4> QED
        BY <3>2, <4>1 DEF RunTables
    <3>3. CASE \E j \in 1..18 : i = n + j /\ s[i] = b[j]
      <4>1. PICK j \in 1..18 : i = n + j /\ s[i] = b[j]
        BY <3>3
      <4>2. i > n + 7 => j > 7
        BY <2>3, <4>1
      <4> QED
        BY <4>1, <4>2
    <3> QED
      BY <2>6, <3>1, <3>2, <3>3
  <2>8. s[n + 7] = Where("tasks", "project", p)
    <3>1. n + 7 \in 1..(n + 18) /\ ab[n + 7] = b[7]
      BY <2>3, <2>4
    <3> QED
      BY <2>5, <3>1
  <2>9. \A i, j \in DOMAIN s : i = n + 7 /\ i < j => j > n + 7
    BY <2>3, <2>5
  <2>10. s # <<>>
    BY <2>3, <2>5
  <2>11. Plan(s, p)
    BY <2>3, <2>5, <2>7, <2>8, <2>9 DEF Plan
  <2>12. \A i \in 1..n : s[i] = a[i] /\ i \in DOMAIN s
    BY <2>3, <2>4, <2>5
  <2>13. \A j \in 1..18 : s[n + j] = b[j] /\ n + j \in DOMAIN s
    BY <2>3, <2>4, <2>5
  <2> QED
    BY <2>3, <2>5, <2>10, <2>11, <2>12, <2>13
<1>18. \A m \in ToSet(ProjectTables) : \E j \in 1..18 : m = ProjectTables[j]
  BY <1>10 DEF ToSet
<1>19. ASSUME NEW m \in ToSet(ProjectTables) PROVE \E i \in DOMAIN s : s[i] = Where(m, "project", p)
  <2>1. PICK j \in 1..18 : m = ProjectTables[j]
    BY <1>18
  <2> QED
    BY <1>12, <1>17, <2>1
<1>20. ASSUME NEW k \in 1..Len(tasks), NEW m \in TaskTables
       PROVE  \E i \in DOMAIN s : s[i] = Where(m, "task", tasks[k])
  <2>1. PICK j \in 1..2 : T[j] = m
    BY <1>7
  <2>2. PICK i \in 1..Len(a) : a[i] = Where(T[j], "task", tasks[k])
    BY <1>8
  <2> QED
    BY <1>17, <2>1, <2>2
<1> QED
  BY <1>5, <1>14, <1>17, <1>19, <1>20

-----------------------------------------------------------------------------
(* The steps.                                                              *)

LEMMA ReferencesOf ==
  ASSUME NEW r \in Rows
  PROVE  /\ r.table \in RunTables /\ r.run # None => r.run \in References(r)
         /\ r.table \in TaskTables => r.task # None /\ r.task \in References(r)
         /\ r.table \in RunTables \cup TaskTables => Restricts(r) = References(r)
<1>1. r.table \in TaskTables => r.task # None
  BY RowsAssumption
<1>2. r.table \in RunTables => References(r) = {r.project, r.run} \ {None}
  BY DEF References, RunTables
<1>3. r.table = "messages" => References(r) = {r.task} \ {None}
  BY DEF References, RunTables
<1>4. r.table = "taskSnapshots" => References(r) = {r.task, r.project} \ {None}
  BY DEF References, RunTables
<1>5. r.table \in RunTables \cup TaskTables => Restricts(r) = References(r)
  BY DEF Restricts, RunTables, TaskTables
<1> QED
  BY <1>1, <1>2, <1>3, <1>4, <1>5 DEF TaskTables

LEMMA PlanTail ==
  ASSUME NEW s, NEW x, Plan(s, x), s # <<>>
  PROVE  /\ Plan(Tail(s), x) /\ Head(s) = s[1] /\ 1 \in DOMAIN s
         /\ Len(s) # 1 => Tail(s) # <<>>
         /\ Len(s) = 1 => DOMAIN s = {1}
         /\ \A i \in DOMAIN s : i # 1 => i - 1 \in DOMAIN Tail(s) /\ Tail(s)[i - 1] = s[i]
<1>1. s \in Seq(Statements)
  BY DEF Plan
<1>2. PICK n \in Nat : n = Len(s)
  BY <1>1
<1>3. PICK t : t = Tail(s)
  OBVIOUS
<1>4. n > 0 /\ DOMAIN s = 1..n
  BY <1>1, <1>2
<1>5. t \in Seq(Statements) /\ Len(t) = n - 1 /\ DOMAIN t = 1..(n - 1)
  BY <1>1, <1>2, <1>3, <1>4
<1>6. \A i \in 1..(n - 1) : t[i] = s[i + 1] /\ i + 1 \in 1..n
  BY <1>1, <1>2, <1>3, <1>4
<1>7. \A i \in 1..n : i # 1 => i - 1 \in 1..(n - 1) /\ t[i - 1] = s[i]
  BY <1>1, <1>2, <1>3, <1>4
<1>8. Plan(t, x)
  <2> SUFFICES ASSUME NEW i \in 1..(n - 1)
               PROVE  /\ t[i].table = "projects" => t[i] = Where("projects", "id", x) /\ i = Len(t)
                      /\ t[i].table = "tasks" =>
                           t[i] \in {Where("tasks", "id", x), Where("tasks", "project", x)}
                      /\ t[i].table = "tasks" =>
                           \A j \in 1..(n - 1) : i < j => t[j].table \notin RunTables \cup {"runs"}
    BY <1>5 DEF Plan
  <2>1. i + 1 \in DOMAIN s /\ t[i] = s[i + 1]
    BY <1>4, <1>6
  <2>2. t[i].table = "projects" => t[i] = Where("projects", "id", x) /\ i + 1 = n
    BY <1>2, <2>1 DEF Plan
  <2>3. t[i].table = "tasks" => t[i] \in {Where("tasks", "id", x), Where("tasks", "project", x)}
    BY <2>1 DEF Plan
  <2>4. ASSUME NEW j \in 1..(n - 1), t[i].table = "tasks", i < j
        PROVE  t[j].table \notin RunTables \cup {"runs"}
    <3>1. j + 1 \in DOMAIN s /\ t[j] = s[j + 1] /\ i + 1 < j + 1
      BY <1>2, <1>4, <1>6, <2>4
    <3> QED
      BY <2>1, <2>4, <3>1 DEF Plan
  <2> QED
    BY <1>2, <1>5, <2>2, <2>3, <2>4
<1>9. n = 1 => 1..n = {1}
  OBVIOUS
<1>10. n # 1 => t # <<>>
  BY <1>4, <1>5
<1>11. Head(s) = s[1] /\ 1 \in 1..n
  BY <1>1, <1>4
<1> QED
  BY <1>2, <1>3, <1>4, <1>5, <1>7, <1>8, <1>9, <1>10, <1>11

(* What a deletion at once takes away: the old rows of its scope, of the   *)
(* others in it all but messages, snapshots and what hangs on runs.        *)
Whole(d, gone) ==
  /\ \A r \in db \cap Scope(d) : Old(r) => r \in gone
  /\ \A r \in db \cap Scope(d) : r \notin gone => r.table \in TaskTables \cup RunTables
  /\ \A g \in gone \cap db : g.table \in {"projects", "tasks", "runs"} => g \in Scope(d)

(* The rows of a task.                                                     *)
LEMMA TaskScope ==
  ASSUME NEW d \in Deleters, IsTask(Target[d]), NEW r \in Scope(d)
  PROVE  \/ r.table = "tasks" /\ r.id = Target[d]
         \/ r.table \in RunTables \cup TaskTables \cup {"runs"} /\ r.task = Target[d]
         \/ /\ r.table \in RunTables
            /\ \E k \in Rows : k.table = "runs" /\ k.id = r.run /\ k.task = Target[d]
<1>1. PICK x \in Rows : x.table = "tasks" /\ x.id = Target[d]
  BY DEF IsTask
<1>2. x.id # None /\ r \in Rows
  BY RowsAssumption DEF Scope
<1>3. CASE r.id = Target[d]
  BY <1>1, <1>2, <1>3, UniqueIds
<1>4. CASE r.task = Target[d]
  BY <1>1, <1>2, <1>4, RowsAssumption
<1>5. r.project # Target[d]
  BY <1>1, <1>2, RowsAssumption
<1>6. ASSUME NEW k \in Rows, k.table = "runs", k.id = r.run, Target[d] = k.task
      PROVE  r.table \in RunTables
  BY <1>2, <1>6, RowsAssumption
<1>7. ASSUME NEW k \in Rows, k.id = r.task, Target[d] = k.project PROVE FALSE
  BY <1>1, <1>7, RowsAssumption
<1> QED
  BY <1>3, <1>4, <1>5, <1>6, <1>7 DEF Scope

(* The rows of a project.                                                  *)
LEMMA ProjectScope ==
  ASSUME NEW d \in Deleters, IsProject(Target[d]), NEW r \in Scope(d)
  PROVE  \/ r.table = "projects" /\ r.id = Target[d]
         \/ r.table \in ToSet(ProjectTables) /\ r.table # "projects" /\ r.project = Target[d]
<1>1. PICK x \in Rows : x.table = "projects" /\ x.id = Target[d]
  BY DEF IsProject
<1>2. x.id # None /\ r \in Rows
  BY RowsAssumption DEF Scope
<1>3. CASE r.id = Target[d]
  BY <1>1, <1>2, <1>3, UniqueIds
<1>4. CASE r.project = Target[d]
  <2>1. r.table \in ToSet(ProjectTables)
    BY <1>1, <1>2, <1>4, RowsAssumption
  <2>2. r.table # "projects"
    BY <2>1 DEF ToSet, ProjectTables
  <2> QED
    BY <1>4, <2>1, <2>2
<1>5. r.task # Target[d]
  BY <1>1, <1>2, RowsAssumption
<1>6. ASSUME NEW k \in Rows, k.table = "runs", Target[d] = k.task PROVE FALSE
  BY <1>1, <1>2, <1>6, RowsAssumption
<1>7. ASSUME NEW k \in Rows, k.id = r.task, Target[d] = k.project PROVE r.project = Target[d]
  BY <1>2, <1>7, RowsAssumption
<1> QED
  BY <1>3, <1>4, <1>5, <1>6, <1>7 DEF Scope

(* The run of an old row is stored.                                        *)
LEMMA OldRuns ==
  ASSUME RowsInv, OldInv, NEW t, NEW r \in db, Old(r),
         NEW k \in Rows, k.table = "runs", k.task = t, r.run = k.id
  PROVE  k.id \in Ids(RunsForTask(db, t))
<1>1. k.id \in Above(r)
  BY RowsAssumption DEF Above
<1>2. PICK g \in db : g.id = k.id
  BY <1>1 DEF OldInv, Ids
<1>3. g = k
  BY <1>2, UniqueIds DEF RowsInv
<1> QED
  BY <1>2, <1>3 DEF RunsForTask, Ids

LEMMA WholeTask ==
  ASSUME RowsInv, OldInv, NEW d \in Deleters, IsTask(Target[d]), NEW runs,
         \A r \in db, k \in Rows :
           Old(r) /\ k.table = "runs" /\ k.task = Target[d] /\ r.run = k.id => k.id \in runs
  PROVE  Whole(d, MemoryTaskRows(db, Target[d], runs))
<1> DEFINE gone == MemoryTaskRows(db, Target[d], runs)
<1>1. ASSUME NEW r \in db \cap Scope(d) PROVE r \notin gone => r.table \in RunTables /\ ~Old(r)
  BY TaskScope DEF MemoryTaskRows
<1>2. ASSUME NEW g \in gone, g.table \in {"projects", "tasks", "runs"} PROVE g \in Scope(d)
  <2>1. g.task = Target[d] \/ g.id = Target[d]
    BY <1>2 DEF MemoryTaskRows, RunTables
  <2>2. g \in Rows
    BY DEF MemoryTaskRows, RowsInv
  <2> QED
    BY <2>1, <2>2 DEF Scope
<1> QED
  BY <1>1, <1>2 DEF Whole

LEMMA WholeProject ==
  ASSUME RowsInv, OldInv, NEW d \in Deleters, IsProject(Target[d])
  PROVE  Whole(d, MemoryProjectRows(db, Target[d]))
<1> DEFINE p == Target[d]
           tasks == {r \in db : r.table = "tasks" /\ r.project = p}
           gone == MemoryProjectRows(db, p)
<1>1. gone = tasks \cup {r \in db : \/ r.table \in TaskTables /\ r.task \in Ids(tasks)
                                    \/ r.table \notin TaskTables \cup {"projects"} /\ r.project = p
                                    \/ r.table = "projects" /\ r.id = p}
  BY DEF MemoryProjectRows
<1>2. ASSUME NEW r \in db \cap Scope(d), r \notin gone PROVE r.table \in TaskTables /\ ~Old(r)
  <2>1. r.table \in TaskTables /\ r.project = p
    BY <1>1, <1>2, ProjectScope
  <2>2. ASSUME Old(r) PROVE FALSE
    <3>1. r \in Rows /\ r.task # None
      BY <2>1, RowsAssumption DEF RowsInv
    <3>2. r.task \in Above(r)
      BY <3>1 DEF Above
    <3>3. PICK g \in db : g.id = r.task
      BY <2>2, <3>2 DEF OldInv, Ids
    <3>4. g.table = "tasks" /\ g.project = p
      BY <2>1, <3>1, <3>3, RowsAssumption DEF RowsInv
    <3>5. r.task \in Ids(tasks)
      BY <3>3, <3>4 DEF Ids
    <3> QED
      BY <1>1, <1>2, <2>1, <3>5
  <2> QED
    BY <2>1, <2>2
<1>3. ASSUME NEW g \in gone, g.table \in {"projects", "tasks", "runs"} PROVE g \in Scope(d)
  <2>1. g \in db /\ (g.project = p \/ g.id = p)
    BY <1>1, <1>3 DEF TaskTables
  <2> QED
    BY <2>1 DEF Scope, RowsInv
<1> HIDE DEF gone, tasks
<1> QED
  BY <1>2, <1>3 DEF Whole, gone

LEMMA FileDeletion ==
  ASSUME RowsInv
  PROVE  /\ \A t : FileTaskKept(db, t) = db \ MemoryTaskRows(db, t, Ids(RunsForTask(db, t)))
         /\ \A p : FileProjectKept(db, p) = db \ MemoryProjectRows(db, p)
<1>1. ASSUME NEW t PROVE FileTaskKept(db, t) = db \ MemoryTaskRows(db, t, Ids(RunsForTask(db, t)))
  <2> DEFINE runs == Ids(RunsForTask(db, t))
  <2>1. FileTaskKept(db, t) = {r \in db : /\ r.table \in RunTables => r.task # t /\ r.run \notin runs
                                          /\ r.table \in TaskTables \cup {"runs"} => r.task # t
                                          /\ r.table = "tasks" => r.id # t}
    BY DEF FileTaskKept
  <2> HIDE DEF runs
  <2>2. \A r \in db : r \in FileTaskKept(db, t) <=> r \notin MemoryTaskRows(db, t, runs)
    BY <2>1 DEF MemoryTaskRows
  <2>3. FileTaskKept(db, t) \subseteq db
    BY <2>1
  <2> QED
    BY <2>2, <2>3 DEF runs
<1>2. ASSUME NEW p PROVE FileProjectKept(db, p) = db \ MemoryProjectRows(db, p)
  <2> DEFINE tasks == {r \in db : r.table = "tasks" /\ r.project = p}
  <2>1. FileProjectKept(db, p) = {r \in db : /\ r.table \in TaskTables => r.task \notin Ids(tasks)
                                             /\ r.table \notin TaskTables \cup {"projects"} => r.project # p
                                             /\ r.table = "projects" => r.id # p}
    BY DEF FileProjectKept
  <2>2. MemoryProjectRows(db, p) =
          tasks \cup {r \in db : \/ r.table \in TaskTables /\ r.task \in Ids(tasks)
                                 \/ r.table \notin TaskTables \cup {"projects"} /\ r.project = p
                                 \/ r.table = "projects" /\ r.id = p}
    BY DEF MemoryProjectRows
  <2>3. \A r \in tasks : r \in db /\ r.table \notin TaskTables \cup {"projects"} /\ r.project = p
    BY DEF TaskTables
  <2> HIDE DEF tasks
  <2>4. \A r \in db : r \in FileProjectKept(db, p) <=> r \notin MemoryProjectRows(db, p)
    BY <2>1, <2>2, <2>3
  <2>5. FileProjectKept(db, p) \subseteq db
    BY <2>1
  <2> QED
    BY <2>4, <2>5
<1> QED
  BY <1>1, <1>2

(* A step of the deleter d that ends its deletion, stops in it or goes on. *)
DeleterStep(d) ==
  /\ db' \subseteq db
  /\ UNCHANGED <<late, saves, store>>
  /\ DOMAIN steps' = Deleters
  /\ pc'[d] # "idle"
  /\ \A e \in Deleters \ {d} : pc'[e] = pc[e] /\ read'[e] = read[e] /\ steps'[e] = steps[e]

LEMMA OthersAtDeletion ==
  ASSUME DeletionInv, NEW d \in Deleters, DeleterStep(d)
  PROVE  /\ RowsInv'
         /\ \A e \in Deleters \ {d} : ListInv(e)' /\ PlanInv(e)'
         /\ \A e \in Deleters \ {d} : pc'[e] = "done" =>
              \A r \in db' \cap Scope(e) :
                \/ r \in late'[e]
                \/ /\ store' # "postgres" /\ r.table \in TaskTables \cup RunTables
                   /\ \E f \in Deleters : r \in late'[f]
<1>1. RowsInv'
  BY DEF DeletionInv, RowsInv, DeleterStep
<1>2. ASSUME NEW e \in Deleters \ {d} PROVE ListInv(e)' /\ PlanInv(e)'
  <2>1. ListInv(e) /\ PlanInv(e)
    BY DEF DeletionInv
  <2>2. ListInv(e)'
    BY <2>1 DEF ListInv, DeleterStep, Old
  <2>3. PlanInv(e)'
    BY <2>1 DEF PlanInv, DeleterStep, Plan
  <2> QED
    BY <2>2, <2>3
<1>3. ASSUME NEW e \in Deleters \ {d}, pc'[e] = "done", NEW r \in db' \cap Scope(e)
      PROVE  \/ r \in late'[e]
             \/ /\ store' # "postgres" /\ r.table \in TaskTables \cup RunTables
                /\ \E f \in Deleters : r \in late'[f]
  BY <1>3 DEF DeletionInv, DeletionComplete, DeleterStep
<1> QED
  BY <1>1, <1>2, <1>3

DataInv ==
  /\ RowsInv /\ OldInv /\ KeyInv /\ DOMAIN steps = Deleters
  /\ \A d \in Deleters : ListInv(d) /\ PlanInv(d)
  /\ DeletionComplete

LEMMA AfterWholeDeletion ==
  ASSUME DeletionInv, NEW d \in Deleters, DeleterStep(d), NEW gone, Whole(d, gone), db' = db \ gone,
         store # "postgres", pc'[d] = "done"
  PROVE  DataInv'
<1>1. OldInv'
  BY WholeDeletion DEF DeletionInv, DeleterStep, Whole
<1>2. KeyInv' /\ ListInv(d)' /\ PlanInv(d)' /\ DOMAIN steps' = Deleters
  BY DEF KeyInv, ListInv, PlanInv, DeleterStep
<1>3. ASSUME NEW r \in db' \cap Scope(d)
      PROVE  /\ store' # "postgres" /\ r.table \in TaskTables \cup RunTables
             /\ \E f \in Deleters : r \in late'[f]
  BY DEF Whole, Old, DeleterStep
<1>4. DeletionComplete'
  BY <1>3, OthersAtDeletion DEF DeletionComplete
<1> QED
  BY <1>1, <1>2, <1>4, OthersAtDeletion DEF DataInv

(* Steps that change neither rows nor statements.                          *)
LEMMA QuietStep ==
  ASSUME DeletionInv, UNCHANGED <<db, late, saves, store, steps>>,
         \A d \in Deleters :
           \/ pc'[d] = pc[d]
           \/ pc'[d] \in {"queued", "failed", "stopped"}
           \/ store = "file" /\ pc'[d] = "apply",
         store = "memory" => read' = read
  PROVE  DataInv'
<1>1. RowsInv'
  BY DEF DeletionInv, RowsInv
<1>2. OldInv' /\ KeyInv' /\ DOMAIN steps' = Deleters
  BY DEF DeletionInv, OldInv, KeyInv, Old
<1>3. ASSUME NEW d \in Deleters PROVE ListInv(d)' /\ PlanInv(d)'
  <2>1. ListInv(d) /\ PlanInv(d)
    BY DEF DeletionInv
  <2>2. ListInv(d)'
    BY <2>1 DEF ListInv, Old
  <2>3. PlanInv(d)'
    BY <2>1 DEF PlanInv, Plan
  <2> QED
    BY <2>2, <2>3
<1>4. DeletionComplete'
  BY DEF DeletionInv, DeletionComplete
<1> QED
  BY <1>1, <1>2, <1>3, <1>4 DEF DataInv

(* A row that is saved during a deletion is late for it; one that is saved *)
(* when nobody has deleted anything finds what it hangs on.                *)
LEMMA SaveStep ==
  ASSUME DeletionInv, NEW s \in Savers, HasRow(s), Saved(s, "idle"), db' = db \cup {Row(s)},
         UNCHANGED <<store, read, steps>>,
         store = "postgres" => References(Row(s)) \subseteq Ids(db)
  PROVE  DataInv'
<1> DEFINE x == Row(s)
<1>1. x \in Rows /\ saves[s] \in Nat /\ saves[s] + 1 \in 1..Len(Script[s])
  BY RepositoriesAssumption DEF Row, HasRow, DeletionInv, RowsInv
<1>2. \A d \in Deleters : pc'[d] = pc[d]
  BY RepositoriesAssumption DEF Saved, DeletionInv, QueueInv, Callers
<1>3. \A d \in Deleters : late'[d] = IF pc[d] = "idle" THEN late[d] ELSE late[d] \cup {x}
  BY DEF Saved
<1>4. saves' \in [Savers -> Nat] /\ saves'[s] = saves[s] + 1 /\ \A b \in Savers \ {s} : saves'[b] = saves[b]
  BY <1>1 DEF Saved, DeletionInv, RowsInv
<1>5. RowsInv'
  <2>1. db' \subseteq Rows /\ store' \in {"memory", "file", "postgres"}
    BY <1>1 DEF DeletionInv, RowsInv
  <2>2. late' \in [Deleters -> SUBSET Rows]
    BY <1>1 DEF Saved, DeletionInv, RowsInv
  <2>3. \A b \in Savers : saves'[b] <= Len(Script[b])
    BY <1>1, <1>4 DEF DeletionInv, RowsInv
  <2>4. ASSUME \A d \in Deleters : pc'[d] = "idle"
        PROVE  InitialRows \subseteq db' /\ \A b \in Savers : \A i \in 1..saves'[b] : Script[b][i] \in db'
    <3>1. InitialRows \subseteq db /\ \A b \in Savers : \A i \in 1..saves[b] : Script[b][i] \in db
      BY <1>2, <2>4 DEF DeletionInv, RowsInv
    <3>2. \A i \in 1..(saves[s] + 1) : i \in 1..saves[s] \/ i = saves[s] + 1
      BY <1>1
    <3> QED
      BY <1>4, <3>1, <3>2 DEF Row
  <2> QED
    BY <1>4, <2>1, <2>2, <2>3, <2>4 DEF RowsInv
<1>6. OldInv'
  <2> SUFFICES ASSUME NEW r \in db', Old(r)' PROVE Above(r) \subseteq Ids(db')
    BY DEF OldInv
  <2>1. Ids(db) \subseteq Ids(db')
    BY DEF Ids
  <2>2. Old(r)
    BY <1>3 DEF Old
  <2>3. CASE r \in db
    BY <2>1, <2>2, <2>3 DEF DeletionInv, OldInv
  <2>4. CASE r = x
    <3>1. \A d \in Deleters : pc[d] = "idle"
      BY <1>3, <2>4 DEF Old
    <3>2. InitialRows \subseteq db /\ \A i \in 1..saves[s] : Script[s][i] \in db
      BY <3>1 DEF DeletionInv, RowsInv
    <3>3. Above(x) \subseteq Ids(InitialRows) \cup {Script[s][j].id : j \in 1..(saves[s] + 1 - 1)}
      BY <1>1, RowsAssumption, RepositoriesAssumption DEF Row
    <3>4. saves[s] + 1 - 1 = saves[s]
      BY <1>1
    <3>5. Above(x) \subseteq Ids(db)
      BY <3>2, <3>3, <3>4 DEF Ids
    <3> QED
      BY <2>1, <2>4, <3>5
  <2> QED
    BY <2>3, <2>4
<1>7. KeyInv'
  <2>1. Ids(db) \subseteq Ids(db')
    BY DEF Ids
  <2>2. store = "postgres" /\ x.table \in RunTables /\ x.run # None => x.run \in Ids(db)
    BY <1>1, ReferencesOf
  <2> HIDE DEF x
  <2> QED
    BY <2>1, <2>2 DEF DeletionInv, KeyInv, x
<1>8. ASSUME NEW d \in Deleters PROVE ListInv(d)' /\ PlanInv(d)'
  <2>1. ListInv(d) /\ PlanInv(d)
    BY DEF DeletionInv
  <2>2. pc[d] # "idle" => x \in late'[d]
    BY <1>3
  <2>3. \A r : Old(r)' => Old(r)
    BY <1>3 DEF Old
  <2>4. \A r : pc[d] # "idle" /\ Old(r)' => r # x
    BY <2>2 DEF Old
  <2>5. \A r : r \notin late'[d] => r \notin late[d]
    BY <1>3
  <2> HIDE DEF x
  <2>6. db' = db \cup {x}
    BY DEF x
  <2>7. ListInv(d)'
    BY <1>2, <2>1, <2>3, <2>4, <2>6 DEF ListInv
  <2>8. PlanInv(d)'
    BY <1>2, <2>1, <2>2, <2>5, <2>6 DEF PlanInv, Plan
  <2> QED
    BY <2>7, <2>8
<1>9. DeletionComplete'
  <2> SUFFICES ASSUME NEW d \in Deleters, pc[d] = "done", NEW r \in db' \cap Scope(d)
               PROVE  \/ r \in late'[d]
                      \/ /\ store # "postgres" /\ r.table \in TaskTables \cup RunTables
                         /\ \E e \in Deleters : r \in late'[e]
    BY <1>2 DEF DeletionComplete
  <2>1. CASE r = x
    BY <1>3, <2>1
  <2>2. CASE r \in db
    <3>1. \A e \in Deleters : late[e] \subseteq late'[e]
      BY <1>3
    <3> QED
      BY <2>2, <3>1 DEF DeletionInv, DeletionComplete
  <2> QED
    BY <2>1, <2>2
<1> QED
  BY <1>5, <1>6, <1>7, <1>8, <1>9 DEF DataInv, DeletionInv

LEMMA MemoryStep ==
  ASSUME DeletionInv, NEW d \in Deleters, ListInMemory(d) \/ DeleteInMemory(d)
  PROVE  DataInv'
<1> d \in Callers
  BY DEF Callers
<1>1. DeleterStep(d)
  <2>1. /\ db' \subseteq db /\ UNCHANGED <<late, saves, store, steps>>
        /\ read' = read \/ read' = [read EXCEPT ![d] = RunsForTask(db, Target[d])]
        /\ pc' = [pc EXCEPT ![d] = "apply"] \/ pc' = [pc EXCEPT ![d] = "done"]
    BY DEF ListInMemory, DeleteInMemory, fileVars
  <2> QED
    BY <2>1 DEF DeleterStep, DeletionInv, QueueInv, Callers
<1>2. CASE ListInMemory(d)
  <2>1. /\ store = "memory" /\ IsTask(Target[d]) /\ db' = db /\ late' = late /\ store' = store
        /\ read'[d] = RunsForTask(db, Target[d]) /\ pc'[d] = "apply"
    BY <1>2 DEF ListInMemory, DeletionInv, QueueInv
  <2>2. ListInv(d)'
    <3> SUFFICES ASSUME NEW r \in db, NEW k \in Rows, Old(r), k.table = "runs", k.task = Target[d], r.run = k.id
                 PROVE  k.id \in Ids(RunsForTask(db, Target[d]))
      BY <2>1 DEF ListInv, Old
    <3> QED
      BY OldRuns DEF DeletionInv
  <2>3. PlanInv(d)' /\ OldInv' /\ KeyInv'
    BY <2>1 DEF PlanInv, OldInv, KeyInv, Old, DeletionInv
  <2>4. DeletionComplete'
    BY <1>1, <2>1, OthersAtDeletion DEF DeletionComplete
  <2> QED
    BY <1>1, <2>2, <2>3, <2>4, OthersAtDeletion DEF DataInv, DeleterStep
<1>3. CASE DeleteInMemory(d)
  <2>1. store # "postgres" /\ pc'[d] = "done"
    BY <1>3 DEF DeleteInMemory, DeletionInv, QueueInv
  <2>2. CASE pc[d] = "apply" /\ db' = db \ MemoryTaskRows(db, Target[d], Ids(read[d]))
    <3>1. ListInv(d) /\ store = "memory"
      BY <1>3 DEF DeletionInv, DeleteInMemory
    <3>2. Whole(d, MemoryTaskRows(db, Target[d], Ids(read[d])))
      BY <2>2, <3>1, WholeTask DEF ListInv, DeletionInv
    <3> QED
      BY <1>1, <2>1, <2>2, <3>2, AfterWholeDeletion
  <2>3. CASE IsProject(Target[d]) /\ db' = db \ MemoryProjectRows(db, Target[d])
    BY <1>1, <2>1, <2>3, WholeProject, AfterWholeDeletion DEF DeletionInv
  <2> QED
    BY <1>3, <2>2, <2>3 DEF DeleteInMemory
<1> QED
  BY <1>2, <1>3

LEMMA FileStep ==
  ASSUME DeletionInv, NEW c \in Callers, WriteState(c)
  PROVE  DataInv'
<1>1. /\ read[c] = db /\ (c \in Savers => HasRow(c)) /\ db' = FileUpdate(c, db) /\ store = "file"
      /\ UNCHANGED <<store, read, steps>>
  BY DEF WriteState, DeletionInv, QueueInv
<1>2. CASE c \in Savers
  <2>1. db' = db \cup {Row(c)} /\ Saved(c, "idle")
    BY <1>1, <1>2 DEF WriteState, FileUpdate, Row
  <2> QED
    BY <1>1, <1>2, <2>1, SaveStep
<1>3. CASE c \notin Savers
  <2>1. c \in Deleters /\ pc' = [pc EXCEPT ![c] = "done"] /\ UNCHANGED <<saves, late>>
    BY <1>3 DEF WriteState, Callers
  <2>2. CASE IsTask(Target[c])
    <3>1. Whole(c, MemoryTaskRows(db, Target[c], Ids(RunsForTask(db, Target[c]))))
      BY <2>1, <2>2, WholeTask, OldRuns DEF DeletionInv
    <3>2. db' = db \ MemoryTaskRows(db, Target[c], Ids(RunsForTask(db, Target[c])))
      BY <1>1, <1>3, <2>2, FileDeletion DEF FileUpdate, DeletionInv
    <3>3. DeleterStep(c) /\ pc'[c] = "done"
      BY <1>1, <2>1, <3>2 DEF DeleterStep, DeletionInv, QueueInv
    <3> QED
      BY <1>1, <2>1, <3>1, <3>2, <3>3, AfterWholeDeletion
  <2>3. CASE ~IsTask(Target[c])
    <3>1. Whole(c, MemoryProjectRows(db, Target[c]))
      BY <2>1, <2>3, WholeProject, RowsAssumption DEF DeletionInv
    <3>2. db' = db \ MemoryProjectRows(db, Target[c])
      BY <1>1, <1>3, <2>3, FileDeletion DEF FileUpdate, DeletionInv
    <3>3. DeleterStep(c) /\ pc'[c] = "done"
      BY <1>1, <2>1, <3>2 DEF DeleterStep, DeletionInv, QueueInv
    <3> QED
      BY <1>1, <2>1, <3>1, <3>2, <3>3, AfterWholeDeletion
  <2> QED
    BY <2>2, <2>3
<1> QED
  BY <1>2, <1>3

(* The statements of a deletion match all rows of its scope.               *)
LEMMA ListStep ==
  ASSUME DeletionInv, NEW d \in Deleters, ListInPostgres(d)
  PROVE  DataInv'
<1> d \in Callers
  BY DEF Callers
<1>1. /\ UNCHANGED <<store, db, saves, queue, read, late>> /\ store = "postgres"
      /\ pc'[d] = "deleting" /\ DOMAIN steps' = Deleters
      /\ \A e \in Deleters \ {d} : pc'[e] = pc[e] /\ steps'[e] = steps[e]
  BY DEF ListInPostgres, fileVars, DeletionInv, QueueInv
<1>2. DeleterStep(d)
  BY <1>1 DEF DeleterStep
<1>3. Target[d] \in Ids(Rows) /\ db \subseteq Rows
  BY RowsAssumption DEF IsTask, IsProject, Ids, DeletionInv, RowsInv
<1>4. ASSUME IsTask(Target[d]),
             steps' = [steps EXCEPT ![d] =
               PrismaTaskDeletion(Target[d], SetToSeq(Ids(RunsForTask(db, Target[d]))))]
      PROVE  /\ Plan(steps'[d], Target[d]) /\ steps'[d] # <<>>
             /\ \A r \in db \cap Scope(d) : \E i \in DOMAIN steps'[d] : Matches(steps'[d][i], r)
  <2>1. PICK runs : runs = SetToSeq(Ids(RunsForTask(db, Target[d])))
    OBVIOUS
  <2>2. PICK s : s = PrismaTaskDeletion(Target[d], runs)
    OBVIOUS
  <2>3. steps'[d] = s
    BY <1>4, <2>1, <2>2 DEF DeletionInv
  <2>4. /\ runs \in Seq(Ids(Rows))
        /\ \A x \in Ids(RunsForTask(db, Target[d])) : \E i \in 1..Len(runs) : runs[i] = x
    <3>1. RunsForTask(db, Target[d]) \in SUBSET Rows
      BY <1>3 DEF RunsForTask
    <3>2. IsFiniteSet(Ids(RunsForTask(db, Target[d]))) /\ Ids(RunsForTask(db, Target[d])) \subseteq Ids(Rows)
      BY <3>1, IdsAreFinite
    <3>3. /\ runs \in Seq(Ids(RunsForTask(db, Target[d])))
          /\ \A x \in Ids(RunsForTask(db, Target[d])) : \E i \in 1..Len(runs) : runs[i] = x
      BY <2>1, <3>2, SetToSeqLists
    <3> QED
      BY <3>2, <3>3
  <2>5. /\ Plan(s, Target[d]) /\ s # <<>>
        /\ \A k \in 1..Len(runs), m \in RunTables : \E i \in DOMAIN s : s[i] = Where(m, "run", runs[k])
        /\ \A m \in RunTables \cup TaskTables \cup {"runs"} :
             \E i \in DOMAIN s : s[i] = Where(m, "task", Target[d])
        /\ \E i \in DOMAIN s : s[i] = Where("tasks", "id", Target[d])
    BY <1>3, <2>2, <2>4, TaskPlan
  <2>6. ASSUME NEW r \in db \cap Scope(d) PROVE \E i \in DOMAIN s : Matches(s[i], r)
    <3>1. CASE r.table = "tasks" /\ r.id = Target[d]
      BY <2>5, <3>1 DEF Matches, Where
    <3>2. CASE r.table \in RunTables \cup TaskTables \cup {"runs"} /\ r.task = Target[d]
      <4>1. PICK i \in DOMAIN s : s[i] = Where(r.table, "task", Target[d])
        BY <2>5, <3>2
      <4> QED
        BY <3>2, <4>1 DEF Matches, Where
    <3>3. ASSUME r.table \in RunTables,
                 NEW k \in Rows, k.table = "runs", k.id = r.run, k.task = Target[d]
          PROVE  \E i \in DOMAIN s : Matches(s[i], r)
      <4>1. k.id # None
        BY RowsAssumption
      <4>2. PICK g \in db : g.id = k.id
        BY <1>1, <3>3, <4>1 DEF DeletionInv, KeyInv, Ids
      <4>3. g = k
        BY <1>3, <4>2, UniqueIds
      <4>4. r.run \in Ids(RunsForTask(db, Target[d]))
        BY <3>3, <4>2, <4>3 DEF RunsForTask, Ids
      <4>5. PICK j \in 1..Len(runs) : runs[j] = r.run
        BY <2>4, <4>4
      <4>6. PICK i \in DOMAIN s : s[i] = Where(r.table, "run", r.run)
        BY <2>5, <3>3, <4>5
      <4> QED
        BY <4>6 DEF Matches, Where
    <3> QED
      BY <1>4, <3>1, <3>2, <3>3, TaskScope
  <2>7. Plan(s, Target[d]) /\ s # <<>>
    BY <2>5
  <2> QED
    BY <2>3, <2>6, <2>7
<1>5. ASSUME IsProject(Target[d]), NEW ids,
             steps' = [steps EXCEPT ![d] = PrismaProjectDeletion(Target[d], SetToSeq(Ids(ids)))],
             ids = {r \in db : r.table = "tasks" /\ r.project = Target[d]}
      PROVE  /\ Plan(steps'[d], Target[d]) /\ steps'[d] # <<>>
             /\ \A r \in db \cap Scope(d) : \E i \in DOMAIN steps'[d] : Matches(steps'[d][i], r)
  <2>1. PICK tasks : tasks = SetToSeq(Ids(ids))
    OBVIOUS
  <2>2. PICK s : s = PrismaProjectDeletion(Target[d], tasks)
    OBVIOUS
  <2>3. steps'[d] = s
    BY <1>5, <2>1, <2>2 DEF DeletionInv
  <2>4. tasks \in Seq(Ids(Rows))
    <3>1. ids \in SUBSET Rows
      BY <1>3, <1>5
    <3>2. IsFiniteSet(Ids(ids)) /\ Ids(ids) \subseteq Ids(Rows)
      BY <3>1, IdsAreFinite
    <3>3. tasks \in Seq(Ids(ids))
      BY <2>1, <3>2, SetToSeqLists
    <3> QED
      BY <3>2, <3>3
  <2>5. /\ Plan(s, Target[d]) /\ s # <<>>
        /\ \A m \in ToSet(ProjectTables) : \E i \in DOMAIN s : s[i] = Where(m, "project", Target[d])
        /\ \E i \in DOMAIN s : s[i] = Where("projects", "id", Target[d])
    BY <1>3, <2>2, <2>4, ProjectPlan
  <2>6. ASSUME NEW r \in db \cap Scope(d) PROVE \E i \in DOMAIN s : Matches(s[i], r)
    <3>1. CASE r.table = "projects" /\ r.id = Target[d]
      BY <2>5, <3>1 DEF Matches, Where
    <3>2. CASE r.table \in ToSet(ProjectTables) /\ r.project = Target[d]
      <4>1. PICK i \in DOMAIN s : s[i] = Where(r.table, "project", Target[d])
        BY <2>5, <3>2
      <4> QED
        BY <3>2, <4>1 DEF Matches, Where
    <3> QED
      BY <1>5, <3>1, <3>2, ProjectScope
  <2> QED
    BY <2>3, <2>5, <2>6
<1>6. /\ Plan(steps'[d], Target[d]) /\ steps'[d] # <<>>
      /\ \A r \in db \cap Scope(d) : \E i \in DOMAIN steps'[d] : Matches(steps'[d][i], r)
  <2>1. CASE /\ IsTask(Target[d])
             /\ steps' = [steps EXCEPT ![d] =
                  PrismaTaskDeletion(Target[d], SetToSeq(Ids(RunsForTask(db, Target[d]))))]
    BY <1>4, <2>1
  <2>2. CASE /\ IsProject(Target[d])
             /\ steps' = [steps EXCEPT ![d] =
                  PrismaProjectDeletion(Target[d], SetToSeq(Ids({r \in db : r.table = "tasks" /\ r.project = Target[d]})))]
    BY <1>5, <2>2
  <2> QED
    BY <2>1, <2>2 DEF ListInPostgres
<1>7. PlanInv(d)' /\ ListInv(d)' /\ OldInv' /\ KeyInv'
  <2>1. PlanInv(d)'
    BY <1>1, <1>6 DEF PlanInv, Plan
  <2>2. ListInv(d)' /\ OldInv' /\ KeyInv'
    BY <1>1 DEF ListInv, OldInv, KeyInv, Old, DeletionInv
  <2> QED
    BY <2>1, <2>2
<1>8. DeletionComplete'
  BY <1>1, <1>2, OthersAtDeletion DEF DeletionComplete
<1> QED
  BY <1>1, <1>2, <1>7, <1>8, OthersAtDeletion DEF DataInv

(* What one deleteMany deletes goes with the old rows below it: rows of a  *)
(* foreign key refuse, of the others the plan has none left when it comes  *)
(* to the tasks and the project.                                           *)
LEMMA DeleteManyKeepsOld ==
  ASSUME DeletionInv, NEW d \in Deleters, pc[d] = "deleting", store = "postgres", late' = late,
         NEW gone, gone = {r \in db : Matches(Head(steps[d]), r)}, db' = db \ gone,
         ~ \E r \in db \ gone : Restricts(r) \cap Ids(gone) # {}
  PROVE  OldInv' /\ KeyInv'
<1> DEFINE s == steps[d]
           x == Target[d]
<1>1. /\ Plan(s, x) /\ s # <<>> /\ db \subseteq Rows
      /\ \A r \in db \cap Scope(d) : r \notin late[d] => \E i \in DOMAIN s : Matches(s[i], r)
  BY DEF DeletionInv, PlanInv, RowsInv
<1>2. Head(s) = s[1] /\ 1 \in DOMAIN s /\ DOMAIN s = 1..Len(s) /\ Len(s) \in Nat
  BY <1>1, PlanTail DEF Plan
<1>3. \A g \in gone : g \in db /\ g \in Rows /\ g.table = s[1].table /\ g[s[1].column] = s[1].value
  BY <1>1, <1>2 DEF Matches
<1>4. ASSUME NEW r \in db, NEW g \in gone, g.id \in Restricts(r) PROVE r \in gone
  BY <1>4 DEF Ids
<1> HIDE DEF s, x
<1>5. ASSUME NEW g \in gone \cap db, NEW r \in db, Old(r), g.id \in Above(r) PROVE r \in gone
  <2>1. r \in Rows /\ g \in Rows /\ g.id # None
    BY <1>1, <1>3, RowsAssumption
  <2>2. r \notin late[d]
    BY <1>5 DEF Old
  <2>3. CASE g.table = "projects"
    <3>1. s[1] = Where("projects", "id", x) /\ Len(s) = 1
      BY <1>1, <1>2, <1>3, <2>3 DEF Plan
    <3>2. g.id = x
      BY <1>3, <3>1 DEF Where
    <3>3. r \in Scope(d)
      BY <1>5, <2>1, <3>2, ScopeIsBelow DEF x
    <3>4. PICK i \in DOMAIN s : Matches(s[i], r)
      BY <1>1, <2>2, <3>3
    <3>5. i = 1
      BY <1>2, <3>1
    <3> QED
      BY <1>2, <3>4, <3>5 DEF s
  <2>4. CASE g.table = "tasks"
    <3>1. s[1] \in {Where("tasks", "id", x), Where("tasks", "project", x)} /\ s[1].table = "tasks"
      BY <1>1, <1>2, <1>3, <2>4 DEF Plan
    <3>2. g.id = x \/ g.project = x
      BY <1>3, <3>1 DEF Where
    <3>3. g \in Scope(d)
      BY <2>1, <3>2 DEF Scope, x
    <3>4. r \in Scope(d)
      BY <1>5, <2>1, <3>3, ScopeIsBelow, AboveIsTransitive
    <3>5. PICK i \in DOMAIN s : Matches(s[i], r)
      BY <1>1, <2>2, <3>4
    <3>6. \/ r.table \in TaskTables /\ r.task = g.id
          \/ r.table \in RunTables \cup {"runs"}
      <4>1. r.task = g.id \/ r.run # None
        BY <1>5, <2>1, <2>4, AboveKinds, RowsAssumption
      <4> QED
        BY <2>1, <4>1, RowsAssumption
    <3>7. CASE r.table \in TaskTables /\ r.task = g.id
      BY <1>4, <2>1, <3>7, ReferencesOf
    <3>8. CASE r.table \in RunTables \cup {"runs"}
      <4>1. s[i].table = r.table
        BY <3>5 DEF Matches
      <4>2. i # 1
        BY <3>1, <3>8, <4>1 DEF RunTables
      <4>3. 1 < i
        BY <1>2, <4>2
      <4> QED
        BY <1>1, <1>2, <3>1, <3>8, <4>1, <4>3 DEF Plan
    <3> QED
      BY <3>6, <3>7, <3>8
  <2>5. CASE g.table = "runs"
    <3>1. r.run = g.id
      BY <1>5, <2>1, <2>5, AboveKinds
    <3>2. r.table \in RunTables /\ r.run # None
      BY <2>1, <3>1, RowsAssumption
    <3> QED
      BY <1>4, <2>1, <3>1, <3>2, ReferencesOf
  <2> QED
    BY <1>5, <2>1, <2>3, <2>4, <2>5, AboveKinds
<1>6. OldInv'
  BY <1>5, OldInvKept DEF DeletionInv
<1>7. KeyInv'
  <2> SUFFICES ASSUME NEW r \in db', r.table \in RunTables, r.run # None PROVE r.run \in Ids(db')
    BY DEF KeyInv
  <2>1. r \in db /\ r \notin gone /\ r.run \in Restricts(r)
    BY <1>1, ReferencesOf
  <2>2. PICK g \in db : g.id = r.run
    BY <2>1 DEF DeletionInv, KeyInv, Ids
  <2>3. g \notin gone
    BY <1>4, <2>1, <2>2
  <2> QED
    BY <2>2, <2>3 DEF Ids
<1> QED
  BY <1>6, <1>7

LEMMA DeleteManyStep ==
  ASSUME DeletionInv, NEW d \in Deleters, DeleteMany(d)
  PROVE  DataInv'
<1> d \in Callers
  BY DEF Callers
<1> DEFINE gone == {r \in db : Matches(Head(steps[d]), r)}
           refused == \E r \in db \ gone : Restricts(r) \cap Ids(gone) # {}
<1>1. /\ UNCHANGED <<store, saves, queue, read, late>> /\ store = "postgres" /\ pc[d] = "deleting"
      /\ DOMAIN steps' = Deleters /\ steps'[d] = Tail(steps[d])
      /\ \A e \in Deleters \ {d} : steps'[e] = steps[e]
  BY DEF DeleteMany, fileVars, DeletionInv, QueueInv
<1>2. \/ refused /\ pc' = [pc EXCEPT ![d] = "failed"] /\ db' = db
      \/ /\ ~refused /\ db' = db \ gone
         /\ pc' = [pc EXCEPT ![d] = IF Len(steps[d]) = 1 THEN "done" ELSE "deleting"]
  BY DEF DeleteMany
<1>3. DeleterStep(d)
  BY <1>1, <1>2 DEF DeleterStep, DeletionInv, QueueInv, Callers
<1>4. ListInv(d)'
  BY <1>1 DEF ListInv
<1>5. /\ Plan(steps[d], Target[d]) /\ steps[d] # <<>>
      /\ \A r \in db \cap Scope(d) : r \notin late[d] => \E i \in DOMAIN steps[d] : Matches(steps[d][i], r)
  BY <1>1 DEF DeletionInv, PlanInv
<1>6. /\ Plan(Tail(steps[d]), Target[d]) /\ Head(steps[d]) = steps[d][1]
      /\ Len(steps[d]) # 1 => Tail(steps[d]) # <<>>
      /\ Len(steps[d]) = 1 => DOMAIN steps[d] = {1}
      /\ \A i \in DOMAIN steps[d] :
           i # 1 => i - 1 \in DOMAIN Tail(steps[d]) /\ Tail(steps[d])[i - 1] = steps[d][i]
  BY <1>5, PlanTail
<1>7. CASE refused /\ pc' = [pc EXCEPT ![d] = "failed"] /\ db' = db
  <2>1. pc'[d] = "failed"
    BY <1>7 DEF DeletionInv, QueueInv
  <2>2. PlanInv(d)' /\ OldInv' /\ KeyInv'
    BY <1>1, <1>7, <2>1 DEF PlanInv, OldInv, KeyInv, Old, DeletionInv
  <2>3. DeletionComplete'
    BY <1>3, <2>1, OthersAtDeletion DEF DeletionComplete
  <2> QED
    BY <1>1, <1>3, <1>4, <2>2, <2>3, OthersAtDeletion DEF DataInv
<1>8. CASE /\ ~refused /\ db' = db \ gone
           /\ pc' = [pc EXCEPT ![d] = IF Len(steps[d]) = 1 THEN "done" ELSE "deleting"]
  <2>1. pc'[d] = IF Len(steps[d]) = 1 THEN "done" ELSE "deleting"
    BY <1>8 DEF DeletionInv, QueueInv
  <2>2. OldInv' /\ KeyInv'
    BY <1>1, <1>8, DeleteManyKeepsOld
  <2>3. ASSUME NEW r \in db' \cap Scope(d), r \notin late[d]
        PROVE  /\ Len(steps[d]) # 1
               /\ \E i \in DOMAIN Tail(steps[d]) : Matches(Tail(steps[d])[i], r)
    <3>1. r \in db /\ ~Matches(steps[d][1], r)
      BY <1>6, <1>8
    <3>2. PICK i \in DOMAIN steps[d] : Matches(steps[d][i], r)
      BY <1>5, <2>3, <3>1
    <3>3. i # 1
      BY <3>1, <3>2
    <3> QED
      BY <1>6, <3>2, <3>3
  <2>4. PlanInv(d)'
    BY <1>1, <1>6, <2>1, <2>3 DEF PlanInv, Plan
  <2>5. pc'[d] = "done" => \A r \in db' \cap Scope(d) : r \in late'[d]
    BY <1>1, <2>1, <2>3
  <2>6. DeletionComplete'
    BY <1>3, <2>5, OthersAtDeletion DEF DeletionComplete
  <2> QED
    BY <1>1, <1>3, <1>4, <2>2, <2>4, <2>6, OthersAtDeletion DEF DataInv
<1> QED
  BY <1>2, <1>7, <1>8

LEMMA InitDeletion == Init /\ OnlyPostgresIsShared => DeletionInv
<1> SUFFICES ASSUME Init, OnlyPostgresIsShared PROVE DeletionInv
  OBVIOUS
<1>1. db = InitialRows /\ db \subseteq Rows
  BY RepositoriesAssumption DEF Init
<1>2. \A r \in db : Above(r) \subseteq Ids(db)
  BY <1>1, RowsAssumption
<1>3. RowsInv
  BY <1>1, RepositoriesAssumption DEF Init, RowsInv
<1>4. OldInv /\ KeyInv
  BY <1>2 DEF OldInv, KeyInv, Above
<1>5. \A d \in Deleters : pc[d] = "idle"
  BY DEF Init, Callers
<1>6. DeletionComplete /\ \A d \in Deleters : ListInv(d) /\ PlanInv(d)
  BY <1>5 DEF DeletionComplete, ListInv, PlanInv
<1> QED
  BY <1>3, <1>4, <1>6, InitQueue DEF DeletionInv, Init

LEMMA NextDeletion == DeletionInv /\ [Next]_vars => DeletionInv'
<1> SUFFICES ASSUME DeletionInv, [Next]_vars PROVE DeletionInv'
  OBVIOUS
<1>1. QueueInv'
  BY NextQueue DEF DeletionInv
<1>2. ASSUME NEW s \in Savers, SaveInMemory(s) \/ SaveInPostgres(s) PROVE DataInv'
  <2>1. CASE /\ HasRow(s) /\ Saved(s, "idle") /\ db' = db \cup {Row(s)}
             /\ UNCHANGED <<store, read, steps>>
             /\ store = "postgres" => References(Row(s)) \subseteq Ids(db)
    BY <2>1, SaveStep
  <2>2. CASE pc' = [pc EXCEPT ![s] = "failed"] /\ UNCHANGED <<db, saves, late, store, read, steps>>
    <3>1. \A d \in Deleters : pc'[d] = pc[d]
      BY <2>2, RepositoriesAssumption DEF DeletionInv, QueueInv, Callers
    <3> QED
      BY <2>2, <3>1, QuietStep
  <2> QED
    BY <1>2, <2>1, <2>2 DEF SaveInMemory, SaveInPostgres, fileVars
<1>3. ASSUME NEW c \in Callers, Enqueue(c) \/ ReadState(c) \/ UpdateFails(c) PROVE DataInv'
  <2>1. UNCHANGED <<db, late, saves, store, steps>> /\ store = "file"
    BY <1>3 DEF Enqueue, ReadState, UpdateFails, DeletionInv, QueueInv
  <2>2. \A d \in Callers : pc'[d] \in {pc[d], "queued", "failed", "apply"}
    BY <1>3 DEF Enqueue, ReadState, UpdateFails, DeletionInv, QueueInv
  <2> QED
    BY <2>1, <2>2, QuietStep DEF Callers
<1>4. ASSUME NEW p \in Processes, Stop(p) PROVE DataInv'
  <2>1. UNCHANGED <<db, late, saves, store, steps, read>>
    BY <1>4 DEF Stop
  <2>2. \A d \in Callers : pc'[d] \in {pc[d], "stopped"}
    BY <1>4 DEF Stop
  <2> QED
    BY <2>1, <2>2, QuietStep DEF Callers
<1>5. ASSUME UNCHANGED vars PROVE DataInv'
  BY <1>5, QuietStep DEF vars, fileVars
<1>6. OnlyPostgresIsShared'
  <2>1. store' = store
    BY DEF Next, vars, SaveInMemory, SaveInPostgres, Enqueue, ReadState, WriteState, UpdateFails,
           ListInMemory, DeleteInMemory, ListInPostgres, DeleteMany, Stop
  <2> QED
    BY <2>1 DEF OnlyPostgresIsShared, OneProcess, DeletionInv
<1>7. DataInv'
  BY <1>2, <1>3, <1>4, <1>5, MemoryStep, FileStep, ListStep, DeleteManyStep DEF Next
<1> QED
  BY <1>1, <1>6, <1>7 DEF DataInv, DeletionInv

(* What a task or a project leaves behind when its deletion returns was    *)
(* saved while it was being deleted: in all three stores the deletion, of  *)
(* one step or of many, finds every other row, whatever is saved, deleted  *)
(* and stopped around it.                                                  *)
THEOREM DeletionsAreComplete == OnlyPostgresIsShared /\ Spec => []DeletionComplete
<1>1. DeletionInv => DeletionComplete
  BY DEF DeletionInv
<1> QED
  BY <1>1, InitDeletion, NextDeletion, PTL DEF Spec

(* However far a deletion comes before it is refused, fails or stops, the  *)
(* row of its task or project outlives what hangs on it, so that it can be *)
(* deleted again.                                                          *)
THEOREM DeletionsAreRepeatable == OnlyPostgresIsShared /\ Spec => []DeletionRepeatable
<1>1. DeletionInv => DeletionRepeatable
  BY OldTargets DEF DeletionInv
<1> QED
  BY <1>1, InitDeletion, NextDeletion, PTL DEF Spec

-----------------------------------------------------------------------------
(* The tables of the repositories: the three stores hold the same records  *)
(* after any number of saves of any number of records: the ways in which   *)
(* they identify a record agree, because the services look for a record    *)
(* before they save it.                                                    *)
Identities == {"id", "key"}

LEMMA MemoryIsFile == Memory = File
<1>1. MemoryRunTables = FileRunTables
  BY DEF MemoryRunTables, FileRunTables
<1>2. MemoryEvidenceTables = FileEvidenceTables
  BY DEF MemoryEvidenceTables, FileEvidenceTables
<1>3. MemorySkillTables = FileSkillTables
  BY DEF MemorySkillTables, FileSkillTables
<1>4. MemoryModelTables = FileModelTables
  BY DEF MemoryModelTables, FileModelTables
<1>5. MemoryConnectorTables = FileConnectorTables
  BY DEF MemoryConnectorTables, FileConnectorTables
<1>6. MemoryProjectTables = FileProjectTables
  BY DEF MemoryProjectTables, FileProjectTables
<1>7. MemoryOutputTables = FileOutputTables
  BY DEF MemoryOutputTables, FileOutputTables
<1>8. MemoryWorkspaceTables = FileWorkspaceTables
  BY DEF MemoryWorkspaceTables, FileWorkspaceTables
<1>9. MemoryTaskTables = FileTaskTables
  BY DEF MemoryTaskTables, FileTaskTables
<1> QED
  BY <1>1, <1>2, <1>3, <1>4, <1>5, <1>6, <1>7, <1>8, <1>9 DEF Memory, File

(* Two stores have the same tables and identify their records somehow.     *)
Alike(f, g) ==
  /\ DOMAIN f = DOMAIN g
  /\ \A t \in DOMAIN f : f[t].identity \in Identities /\ g[t].identity \in Identities

LEMMA JoinedAlike ==
  ASSUME NEW f, NEW g, NEW u, NEW v, Alike(f, u), Alike(g, v)
  PROVE  Alike(f ++ g, u ++ v)
  BY DEF Alike, ++

LEMMA MemoryLikePostgres == Alike(Memory, Postgres)
<1>1. Alike(MemoryRunTables, PostgresRunTables)
  BY DEF MemoryRunTables, PostgresRunTables, Alike, Identities, Stored
<1>2. Alike(MemoryEvidenceTables, PostgresEvidenceTables)
  BY DEF MemoryEvidenceTables, PostgresEvidenceTables, Alike, Identities, Stored
<1>3. Alike(MemorySkillTables, PostgresSkillTables)
  BY DEF MemorySkillTables, PostgresSkillTables, Alike, Identities, Stored
<1>4. Alike(MemoryModelTables, PostgresModelTables)
  BY DEF MemoryModelTables, PostgresModelTables, Alike, Identities, Stored
<1>5. Alike(MemoryConnectorTables, PostgresConnectorTables)
  BY DEF MemoryConnectorTables, PostgresConnectorTables, Alike, Identities, Stored
<1>6. Alike(MemoryProjectTables, PostgresProjectTables)
  BY DEF MemoryProjectTables, PostgresProjectTables, Alike, Identities, Stored
<1>7. Alike(MemoryOutputTables, PostgresOutputTables)
  BY DEF MemoryOutputTables, PostgresOutputTables, Alike, Identities, Stored
<1>8. Alike(MemoryWorkspaceTables, PostgresWorkspaceTables)
  BY DEF MemoryWorkspaceTables, PostgresWorkspaceTables, Alike, Identities, Stored
<1>9. Alike(MemoryTaskTables, PostgresTaskTables)
  BY DEF MemoryTaskTables, PostgresTaskTables, Alike, Identities, Stored
<1> DEFINE
     m2 == MemoryRunTables ++ MemoryEvidenceTables
     m3 == m2 ++ MemorySkillTables
     m4 == m3 ++ MemoryModelTables
     m5 == m4 ++ MemoryConnectorTables
     m6 == m5 ++ MemoryProjectTables
     m7 == m6 ++ MemoryOutputTables
     m8 == m7 ++ MemoryWorkspaceTables
     m9 == m8 ++ MemoryTaskTables
     o2 == PostgresRunTables ++ PostgresEvidenceTables
     o3 == o2 ++ PostgresSkillTables
     o4 == o3 ++ PostgresModelTables
     o5 == o4 ++ PostgresConnectorTables
     o6 == o5 ++ PostgresProjectTables
     o7 == o6 ++ PostgresOutputTables
     o8 == o7 ++ PostgresWorkspaceTables
     o9 == o8 ++ PostgresTaskTables
<1>10. Alike(m2, o2)
  BY <1>1, <1>2, JoinedAlike
<1> HIDE DEF m2, o2
<1>11. Alike(m3, o3)
  BY <1>10, <1>3, JoinedAlike
<1> HIDE DEF m3, o3
<1>12. Alike(m4, o4)
  BY <1>11, <1>4, JoinedAlike
<1> HIDE DEF m4, o4
<1>13. Alike(m5, o5)
  BY <1>12, <1>5, JoinedAlike
<1> HIDE DEF m5, o5
<1>14. Alike(m6, o6)
  BY <1>13, <1>6, JoinedAlike
<1> HIDE DEF m6, o6
<1>15. Alike(m7, o7)
  BY <1>14, <1>7, JoinedAlike
<1> HIDE DEF m7, o7
<1>16. Alike(m8, o8)
  BY <1>15, <1>8, JoinedAlike
<1> HIDE DEF m8, o8
<1>17. Alike(m9, o9)
  BY <1>16, <1>9, JoinedAlike
<1> QED
  BY <1>17 DEF Memory, Postgres, m2, o2, m3, o3, m4, o4, m5, o5, m6, o6, m7, o7, m8, o8

LEMMA TableFacts ==
  ASSUME NEW t \in Tables
  PROVE  /\ Memory[t].identity \in Identities /\ File[t].identity \in Identities
         /\ Postgres[t].identity \in Identities
         /\ "messages" \notin NaturalKeyTables
<1>1. Postgres["messages"].identity = "id"
  BY DEF Postgres, ++, PostgresRunTables, PostgresEvidenceTables, PostgresSkillTables,
         PostgresModelTables, PostgresConnectorTables, PostgresProjectTables, PostgresOutputTables,
         PostgresWorkspaceTables, PostgresTaskTables, Stored
<1> QED
  BY <1>1, MemoryIsFile, MemoryLikePostgres DEF Tables, Alike, NaturalKeyTables

-----------------------------------------------------------------------------
(* No two records of a store have the same id or the same key.             *)
Unique(s) ==
  \A i, j \in DOMAIN s : s[i].id = s[j].id \/ s[i].key = s[j].key => i = j

InOrderOfCreation(s) == \A i, j \in DOMAIN s : i < j => s[i].created < s[j].created
NewComeLast == InOrderOfCreation(memory) /\ \A i \in DOMAIN memory : memory[i].created < now

(* What the lookups of the services keep true: ids are the keys or, where  *)
(* they are numbered, below the next number; new records come last.        *)
SameInv ==
  /\ table \in Tables /\ now \in Nat
  /\ memory \in Seq(Record)
  /\ file = memory
  /\ postgres = {memory[i] : i \in DOMAIN memory}
  /\ Unique(memory)
  /\ table \notin NaturalKeyTables => \A i \in DOMAIN memory : memory[i].id = memory[i].key
  /\ table \in NaturalKeyTables =>
       \E m \in {r.id : r \in postgres} \cup {0} : \A i \in DOMAIN memory : memory[i].id <= m
  /\ NewComeLast

LEMMA RecordFields == \A r \in Record : r.id \in Nat /\ r.created \in Nat
  BY DEF Record

LEMMA MinOfOne == ASSUME NEW i PROVE i \in Int => Min({i}) = i
  BY DEF Min

(* The record that every service finds for a key that is stored.           *)
LEMMA Found ==
  ASSUME SameInv, NEW i \in DOMAIN memory
  PROVE  /\ First(memory, memory[i].key) = {memory[i]}
         /\ {r \in postgres : r.key = memory[i].key} = {memory[i]}
<1>1. {j \in DOMAIN memory : memory[j].key = memory[i].key} = {i} /\ i \in Int
  BY DEF SameInv, Unique
<1>2. Min({i}) = i
  BY <1>1, MinOfOne
<1>3. First(memory, memory[i].key) = {memory[i]}
  BY <1>1, <1>2 DEF First
<1> QED
  BY <1>1, <1>3 DEF SameInv

LEMMA NotFound ==
  ASSUME SameInv, NEW k, \A i \in DOMAIN memory : memory[i].key # k
  PROVE  First(memory, k) = {} /\ {r \in postgres : r.key = k} = {}
  BY DEF SameInv, First

(* A new version of the record at i goes to the same place in all stores.  *)
LEMMA SaveAgain ==
  ASSUME SameInv, NEW i \in DOMAIN memory, NEW r \in Record,
         r.id = memory[i].id, r.key = memory[i].key, NEW d \in Identities
  PROVE  /\ MemorySave(memory, r, d) = [memory EXCEPT ![i] = r]
         /\ FileSave(memory, r, d) = [memory EXCEPT ![i] = r]
         /\ PostgresSave(postgres, r, d) = (postgres \ {memory[i]}) \cup {r}
<1>1. memory[i][d] = r[d]
  BY DEF Identities
<1>2. \A j \in DOMAIN memory : memory[j][d] = r[d] => j = i
  BY DEF SameInv, Unique, Identities
<1>3. MemorySave(memory, r, d) = [memory EXCEPT ![i] = r]
  BY <1>1, <1>2 DEF MemorySave, SameInv
<1>4. {j \in DOMAIN memory : memory[j][d] = r[d]} = {i} /\ i \in Int
  BY <1>1, <1>2 DEF SameInv
<1>5. FileSave(memory, r, d) = [memory EXCEPT ![i] = r]
  BY <1>4, MinOfOne DEF FileSave
<1>6. {q \in postgres : q[d] = r[d]} = {memory[i]}
  BY <1>1, <1>2 DEF SameInv
<1>7. [r EXCEPT !.id = memory[i].id, !.key = memory[i].key] = r
  BY DEF Record
<1>8. {[r EXCEPT !.id = q.id, !.key = q.key] : q \in {memory[i]}} = {r}
  BY <1>7
<1>9. PostgresSave(postgres, r, d) = {q \in postgres : q \notin {memory[i]}} \cup {r}
  BY <1>6, <1>8 DEF PostgresSave
<1> QED
  BY <1>3, <1>5, <1>9

(* A record with a new id and a new key is added to all stores.            *)
LEMMA SaveNew ==
  ASSUME SameInv, NEW r \in Record, NEW d \in Identities,
         \A i \in DOMAIN memory : memory[i].id # r.id /\ memory[i].key # r.key
  PROVE  /\ MemorySave(memory, r, d) = Append(memory, r)
         /\ FileSave(memory, r, d) = Append(memory, r)
         /\ PostgresSave(postgres, r, d) = postgres \cup {r}
<1>1. \A i \in DOMAIN memory : memory[i][d] # r[d]
  BY DEF Identities
<1>2. {q \in postgres : q[d] = r[d]} = {} /\ ~(\E q \in postgres : q.id = r.id)
  BY <1>1 DEF SameInv
<1> QED
  BY <1>1, <1>2 DEF MemorySave, FileSave, PostgresSave

-----------------------------------------------------------------------------
LEMMA InitSame == TablesInit => SameInv
<1> SUFFICES ASSUME TablesInit PROVE SameInv
  OBVIOUS
<1>1. DOMAIN memory = {} /\ memory \in Seq(Record)
  BY DEF TablesInit
<1> QED
  BY <1>1 DEF TablesInit, SameInv, Unique, NewComeLast, InOrderOfCreation

LEMMA PutAgainKeepsSame ==
  ASSUME SameInv, NEW i \in DOMAIN memory, Put(memory[i].key) PROVE SameInv'
<1> DEFINE k == memory[i].key
           r == [memory[i] EXCEPT !.touched = now]
<1>1. memory[i] \in Record /\ DOMAIN memory = 1..Len(memory)
  BY DEF SameInv
<1>2. r \in Record /\ r.id = memory[i].id /\ r.key = k
  BY <1>1 DEF Record, SameInv
<1>3. \A n : Changed({memory[i]}, k, n) = r
  BY DEF Changed
<1>4. First(memory, k) = {memory[i]} /\ {q \in postgres : q.key = k} = {memory[i]}
  BY Found
<1>5. /\ memory' = MemorySave(memory, r, Memory[table].identity)
      /\ file' = FileSave(memory, r, File[table].identity)
      /\ postgres' = PostgresSave(postgres, r, Postgres[table].identity)
      /\ now' = now + 1 /\ table' = table
  BY <1>3, <1>4 DEF Put, SameInv
<1>6. /\ memory' = [memory EXCEPT ![i] = r] /\ file' = [memory EXCEPT ![i] = r]
      /\ postgres' = (postgres \ {memory[i]}) \cup {r}
  BY <1>2, <1>5, TableFacts, SaveAgain DEF SameInv
<1>7. /\ memory' \in Seq(Record) /\ DOMAIN memory' = DOMAIN memory
      /\ \A j \in DOMAIN memory : memory'[j].id = memory[j].id /\ memory'[j].key = memory[j].key
  BY <1>1, <1>2, <1>6 DEF SameInv
<1>8. postgres' = {memory'[j] : j \in DOMAIN memory'}
  <2>1. \A j \in DOMAIN memory : j # i => memory'[j] = memory[j] /\ memory[j] # memory[i]
    BY <1>6 DEF SameInv, Unique
  <2>2. memory'[i] = r
    BY <1>1, <1>6
  <2> QED
    BY <2>1, <2>2, <1>6, <1>7 DEF SameInv
<1>9. Unique(memory')
  BY <1>7 DEF SameInv, Unique
<1>10. {q.id : q \in postgres'} = {q.id : q \in postgres}
  BY <1>7, <1>8 DEF SameInv
<1>11. table' \notin NaturalKeyTables => \A j \in DOMAIN memory' : memory'[j].id = memory'[j].key
  BY <1>5, <1>7 DEF SameInv
<1>12. table' \in NaturalKeyTables =>
         \E m \in {q.id : q \in postgres'} \cup {0} : \A j \in DOMAIN memory' : memory'[j].id <= m
  BY <1>5, <1>7, <1>10 DEF SameInv
<1>13. file' = memory'
  BY <1>6
<1>14. table' \in Tables /\ now' \in Nat
  BY <1>5 DEF SameInv
<1>15. NewComeLast'
  <2>1. r.created = memory[i].created
    BY <1>1 DEF Record
  <2>2. \A j \in DOMAIN memory : memory[j] \in Record
    BY DEF SameInv
  <2>3. \A j \in DOMAIN memory : memory'[j].created = memory[j].created /\ memory[j].created \in Nat
    BY <1>6, <2>1, <2>2, RecordFields
  <2>4. /\ now \in Nat /\ \A j \in DOMAIN memory : memory[j].created < now
        /\ \A j, l \in DOMAIN memory : j < l => memory[j].created < memory[l].created
    BY DEF SameInv, NewComeLast, InOrderOfCreation
  <2>5. now' = now + 1 /\ DOMAIN memory' = DOMAIN memory
    BY <1>5, <1>7
  <2>6. InOrderOfCreation(memory')
    BY <2>3, <2>4, <2>5 DEF InOrderOfCreation
  <2>7. \A j \in DOMAIN memory' : memory'[j].created < now'
    BY <2>3, <2>4, <2>5
  <2> QED
    BY <2>6, <2>7 DEF NewComeLast
<1> QED
  BY <1>14, <1>7, <1>8, <1>9, <1>11, <1>12, <1>13, <1>15 DEF SameInv

LEMMA NextIdIsNew ==
  ASSUME SameInv, NEW k \in Keys, \A i \in DOMAIN memory : memory[i].key # k
  PROVE  LET n == NewId(postgres, k) IN
         /\ n \in Nat /\ \A i \in DOMAIN memory : memory[i].id # n
         /\ table \notin NaturalKeyTables => n = k
         /\ table \in NaturalKeyTables => \A i \in DOMAIN memory : memory[i].id <= n
<1>1. CASE table \notin NaturalKeyTables
  BY <1>1, TablesAssumption DEF NewId, SameInv
<1>2. CASE table \in NaturalKeyTables
  <2> DEFINE S == {q.id : q \in postgres} \cup {0}
  <2>1. \A i \in DOMAIN memory : memory[i] \in Record /\ memory[i] \in postgres
    BY DEF SameInv
  <2>2. S \subseteq Nat /\ \A i \in DOMAIN memory : memory[i].id \in S
    BY <2>1 DEF SameInv, Record
  <2>3. PICK m \in S : \A i \in DOMAIN memory : memory[i].id <= m
    BY <1>2 DEF SameInv
  <2>4. \A x \in S : x <= m
    BY <2>2, <2>3 DEF SameInv
  <2>5. Max(S) \in S /\ \A x \in S : x <= Max(S)
    BY <2>2, <2>4 DEF Max
  <2>6. NewId(postgres, k) = Max(S) + 1
    BY <1>2 DEF NewId
  <2>7. NewId(postgres, k) \in Nat /\ \A x \in S : x <= NewId(postgres, k) /\ x # NewId(postgres, k)
    <3>1. PICK M \in Nat : M = Max(S) /\ \A x \in S : x <= M
      BY <2>2, <2>5
    <3>2. \A x \in S : x \in Nat
      BY <2>2
    <3>3. NewId(postgres, k) = M + 1
      BY <2>6, <3>1
    <3> HIDE DEF S
    <3>4. M + 1 \in Nat /\ \A x \in S : x <= M + 1 /\ x # M + 1
      BY <3>1, <3>2
    <3> QED
      BY <3>3, <3>4
  <2> QED
    BY <1>2, <2>2, <2>7
<1> QED
  BY <1>1, <1>2

LEMMA PutNewKeepsSame ==
  ASSUME SameInv, NEW k \in Keys, Put(k), \A i \in DOMAIN memory : memory[i].key # k
  PROVE  SameInv'
<1> DEFINE n == NewId(postgres, k)
           r == [id |-> n, key |-> k, created |-> now, touched |-> now]
<1>1. /\ n \in Nat /\ \A i \in DOMAIN memory : memory[i].id # n
      /\ table \notin NaturalKeyTables => n = k
      /\ table \in NaturalKeyTables => \A i \in DOMAIN memory : memory[i].id <= n
  BY NextIdIsNew
<1>2. r \in Record
  BY <1>1 DEF Record, SameInv
<1>3. ToSet(memory) = postgres /\ ToSet(file) = postgres
  BY DEF ToSet, SameInv
<1>4. First(memory, k) = {} /\ {q \in postgres : q.key = k} = {}
  BY NotFound
<1>5. /\ memory' = MemorySave(memory, r, Memory[table].identity)
      /\ file' = FileSave(memory, r, File[table].identity)
      /\ postgres' = PostgresSave(postgres, r, Postgres[table].identity)
      /\ now' = now + 1 /\ table' = table
  BY <1>3, <1>4 DEF Put, SameInv, Changed
<1>6. /\ memory' = Append(memory, r) /\ file' = Append(memory, r)
      /\ postgres' = postgres \cup {r}
  BY <1>1, <1>2, <1>5, TableFacts, SaveNew DEF SameInv
<1>7. /\ memory' \in Seq(Record) /\ Len(memory') = Len(memory) + 1 /\ Len(memory) \in Nat
      /\ \A j \in DOMAIN memory : memory'[j] = memory[j]
      /\ memory'[Len(memory) + 1] = r
      /\ DOMAIN memory = 1..Len(memory) /\ DOMAIN memory' = DOMAIN memory \cup {Len(memory) + 1}
  BY <1>2, <1>6 DEF SameInv
<1>8. postgres' = {memory'[j] : j \in DOMAIN memory'}
  <2>1. {memory'[j] : j \in DOMAIN memory'} = {memory'[j] : j \in DOMAIN memory} \cup {r}
    BY <1>7
  <2>2. {memory'[j] : j \in DOMAIN memory} = postgres
    BY <1>7 DEF SameInv
  <2> QED
    BY <1>6, <2>1, <2>2
<1>9. Unique(memory')
  BY <1>1, <1>7 DEF SameInv, Unique
<1>10. table' \notin NaturalKeyTables => \A j \in DOMAIN memory' : memory'[j].id = memory'[j].key
  BY <1>1, <1>5, <1>7 DEF SameInv
<1>11. ASSUME table' \in NaturalKeyTables
       PROVE  \E m \in {q.id : q \in postgres'} \cup {0} : \A j \in DOMAIN memory' : memory'[j].id <= m
  <2>1. r.id \in {q.id : q \in postgres'}
    BY <1>6
  <2>2. \A j \in DOMAIN memory' : memory'[j].id <= r.id
    BY <1>1, <1>5, <1>7, <1>11
  <2> QED
    BY <2>1, <2>2
<1>12. table' \in Tables /\ now' \in Nat /\ file' = memory'
  BY <1>5, <1>6 DEF SameInv
<1>13. NewComeLast'
  <2>1. now \in Nat /\ now' = now + 1 /\ memory'[Len(memory) + 1].created = now
    BY <1>5, <1>7 DEF SameInv
  <2>2. \A j \in DOMAIN memory : memory'[j].created \in Nat /\ memory'[j].created < now
    <3>1. \A j \in DOMAIN memory : memory[j] \in Record /\ memory[j].created < now
      BY DEF SameInv, NewComeLast
    <3> QED
      BY <1>7, <3>1, RecordFields
  <2>3. \A i, j \in DOMAIN memory : i < j => memory'[i].created < memory'[j].created
    BY <1>7 DEF SameInv, NewComeLast, InOrderOfCreation
  <2> QED
    BY <1>7, <2>1, <2>2, <2>3 DEF NewComeLast, InOrderOfCreation
<1> QED
  BY <1>7, <1>8, <1>9, <1>10, <1>11, <1>12, <1>13 DEF SameInv

LEMMA DeleteKeepsSame == ASSUME SameInv, NEW k \in Keys, Delete(k) PROVE SameInv'
<1>1. table = "messages" /\ table' = table /\ now' = now + 1 /\ table \notin NaturalKeyTables
  BY TableFacts DEF Delete, SameInv
<1>2. memory' = Without(memory, k) /\ file' = memory' /\ postgres' = {q \in postgres : q.id # k}
  BY DEF Delete, SameInv
<1>3. CASE \A i \in DOMAIN memory : memory[i].id # k
  <2>1. memory' = memory
    BY <1>2, <1>3 DEF Without
  <2>2. postgres' = postgres
    BY <1>2, <1>3 DEF SameInv
  <2>3. NewComeLast'
    <3>1. \A i \in DOMAIN memory : memory[i].created \in Nat /\ memory[i].created < now /\ now \in Nat
      BY RecordFields DEF SameInv, NewComeLast
    <3> QED
      BY <1>1, <2>1, <3>1 DEF SameInv, NewComeLast
  <2> QED
    BY <1>1, <1>2, <2>1, <2>2, <2>3 DEF SameInv
<1>4. ASSUME NEW i \in DOMAIN memory, memory[i].id = k PROVE SameInv'
  <2>1. {j \in DOMAIN memory : memory[j].id = k} = {i} /\ i \in 1..Len(memory)
    BY <1>4 DEF SameInv, Unique
  <2>2. memory' = RemoveAt(memory, i)
    BY <1>2, <2>1, MinOfOne DEF Without
  <2>3. /\ memory' \in Seq(Record) /\ Len(memory') = Len(memory) - 1
        /\ \A j \in 1..Len(memory') : memory'[j] = memory[IF j < i THEN j ELSE j + 1]
    <3> DEFINE a == SubSeq(memory, 1, i - 1)
               b == SubSeq(memory, i + 1, Len(memory))
    <3>1. memory \in Seq(Record) /\ Len(memory) \in Nat /\ i \in 1..Len(memory)
      BY <2>1 DEF SameInv
    <3>2. a \in Seq(Record) /\ Len(a) = i - 1 /\ \A j \in 1..(i - 1) : a[j] = memory[j]
      BY <3>1
    <3>3. /\ b \in Seq(Record) /\ Len(b) = Len(memory) - i
          /\ \A j \in 1..(Len(memory) - i) : b[j] = memory[j + i]
      BY <3>1
    <3>4. memory' = a \o b
      BY <2>2 DEF RemoveAt
    <3> HIDE DEF a, b
    <3>5. memory' \in Seq(Record) /\ Len(memory') = Len(memory) - 1
      BY <3>1, <3>2, <3>3, <3>4
    <3>6. ASSUME NEW j \in 1..Len(memory') PROVE memory'[j] = memory[IF j < i THEN j ELSE j + 1]
      <4>1. CASE j < i
        BY <3>1, <3>2, <3>3, <3>4, <3>5, <4>1
      <4>2. CASE j >= i
        <5>1. memory'[j] = b[j - Len(a)] /\ j - Len(a) \in 1..(Len(memory) - i)
          BY <3>1, <3>2, <3>3, <3>4, <3>5, <4>2
        <5> QED
          BY <3>1, <3>2, <3>3, <4>2, <5>1
      <4> QED
        BY <3>1, <3>5, <4>1, <4>2
    <3> QED
      BY <3>5, <3>6
  <2>4. Unique(memory')
    <3>1. DOMAIN memory' = 1..Len(memory') /\ DOMAIN memory = 1..Len(memory) /\ Len(memory) \in Nat
      BY <2>3 DEF SameInv
    <3>2. SUFFICES ASSUME NEW j \in DOMAIN memory', NEW l \in DOMAIN memory',
                          memory'[j].id = memory'[l].id \/ memory'[j].key = memory'[l].key
                   PROVE  j = l
      BY DEF Unique
    <3> DEFINE old(x) == IF x < i THEN x ELSE x + 1
    <3>3. old(j) \in DOMAIN memory /\ old(l) \in DOMAIN memory
      BY <2>1, <2>3, <3>1
    <3>4. memory'[j] = memory[old(j)] /\ memory'[l] = memory[old(l)]
      BY <2>3, <3>1
    <3>5. old(j) = old(l)
      BY <3>2, <3>3, <3>4 DEF SameInv, Unique
    <3> QED
      BY <2>1, <3>1, <3>5
  <2>5. \A j \in DOMAIN memory : j # i =>
          \E l \in DOMAIN memory' : memory'[l] = memory[j]
    <3> TAKE j \in DOMAIN memory
    <3> HAVE j # i
    <3>1. CASE j < i
      BY <2>1, <2>3, <3>1
    <3>2. CASE j > i
      <4>1. j \in 1..Len(memory) /\ DOMAIN memory' = 1..Len(memory') /\ Len(memory) \in Nat
        BY <2>3 DEF SameInv
      <4>2. j - 1 \in 1..Len(memory') /\ ~(j - 1 < i) /\ (j - 1) + 1 = j
        BY <2>1, <2>3, <3>2, <4>1
      <4>3. memory'[j - 1] = memory[j]
        BY <2>3, <4>2
      <4> QED
        BY <4>1, <4>2, <4>3
    <3> QED
      BY <2>1, <3>1, <3>2
  <2>6. \A l \in DOMAIN memory' : \E j \in DOMAIN memory : j # i /\ memory'[l] = memory[j]
    <3> TAKE l \in DOMAIN memory'
    <3>1. l \in 1..Len(memory')
      BY <2>3
    <3>2. CASE l < i
      BY <2>1, <2>3, <3>1, <3>2 DEF SameInv
    <3>3. CASE l >= i
      <4>1. l + 1 \in DOMAIN memory /\ l + 1 # i /\ memory'[l] = memory[l + 1]
        BY <2>1, <2>3, <3>1, <3>3 DEF SameInv
      <4> QED
        BY <4>1
    <3> QED
      BY <2>1, <3>1, <3>2, <3>3
  <2>7. postgres' = {memory[j] : j \in DOMAIN memory \ {i}}
    BY <1>2, <1>4, <2>1 DEF SameInv
  <2>8. postgres' = {memory'[j] : j \in DOMAIN memory'}
    BY <2>5, <2>6, <2>7
  <2>9. \A j \in DOMAIN memory' : memory'[j].id = memory'[j].key
    BY <1>1, <2>6 DEF SameInv
  <2>10. NewComeLast'
    <3>1. DOMAIN memory' = 1..Len(memory') /\ DOMAIN memory = 1..Len(memory) /\ Len(memory) \in Nat
      BY <2>3 DEF SameInv
    <3> DEFINE old(x) == IF x < i THEN x ELSE x + 1
    <3>2. \A j \in DOMAIN memory' : old(j) \in DOMAIN memory /\ memory'[j] = memory[old(j)]
      BY <2>1, <2>3, <3>1
    <3>3. \A j \in DOMAIN memory' : memory[old(j)].created \in Nat /\ memory[old(j)].created < now
      <4>1. \A j \in DOMAIN memory : memory[j] \in Record /\ memory[j].created < now
        BY DEF SameInv, NewComeLast
      <4> QED
        BY <3>2, <4>1, RecordFields
    <3>4. \A j, l \in DOMAIN memory' : j < l => old(j) < old(l)
      BY <2>1, <3>1
    <3>5. \A j, l \in DOMAIN memory' : j < l => memory'[j].created < memory'[l].created
      BY <3>2, <3>4 DEF SameInv, NewComeLast, InOrderOfCreation
    <3>6. now \in Nat
      BY DEF SameInv
    <3> QED
      BY <1>1, <3>2, <3>3, <3>5, <3>6 DEF NewComeLast, InOrderOfCreation
  <2> QED
    BY <1>1, <1>2, <2>3, <2>4, <2>8, <2>9, <2>10 DEF SameInv
<1> QED
  BY <1>3, <1>4

LEMMA NextSame == SameInv /\ [TablesNext]_tableVars => SameInv'
<1> SUFFICES ASSUME SameInv, [TablesNext]_tableVars PROVE SameInv'
  OBVIOUS
<1>1. ASSUME NEW k \in Keys, Put(k) PROVE SameInv'
  <2>1. CASE \E i \in DOMAIN memory : memory[i].key = k
    BY <1>1, <2>1, PutAgainKeepsSame
  <2> QED
    BY <1>1, <2>1, PutNewKeepsSame
<1>2. CASE UNCHANGED tableVars
  BY <1>2 DEF tableVars, SameInv, NewComeLast
<1> QED
  BY <1>1, <1>2, DeleteKeepsSame DEF TablesNext

(* Maps, arrays and rows hold the same records, and every lookup by key    *)
(* finds the same one in each: although PostgreSQL identifies the records  *)
(* of some tables by their natural key and the others always by their id.  *)
THEOREM RecordsAreTheSame == TablesSpec => []SameRecords
<1>1. ASSUME SameInv PROVE SameRecords
  <2>1. ToSet(memory) = postgres /\ file = memory
    BY <1>1 DEF SameInv, ToSet
  <2>2. ASSUME NEW k \in Keys PROVE First(memory, k) = {r \in postgres : r.key = k}
    <3>1. CASE \E i \in DOMAIN memory : memory[i].key = k
      BY <1>1, <3>1, Found
    <3> QED
      BY <1>1, <3>1, NotFound
  <2> QED
    BY <2>1, <2>2 DEF SameRecords
<1> QED
  BY <1>1, InitSame, NextSame, PTL DEF TablesSpec

-----------------------------------------------------------------------------
(* What a list is sorted by.                                               *)
OneListOrAsCreated(f, g) ==
  \A t \in DOMAIN f \ ListedOtherwise :
    /\ f[t].order = g[t].order \/ (f[t].order = "saved" /\ g[t].order = "created")
    /\ g[t].order # "saved"

LEMMA JoinedLists ==
  ASSUME NEW f, NEW g, NEW u, NEW v, DOMAIN f = DOMAIN u, DOMAIN g = DOMAIN v,
         OneListOrAsCreated(f, u), OneListOrAsCreated(g, v)
  PROVE  OneListOrAsCreated(f ++ g, u ++ v) /\ DOMAIN (f ++ g) = DOMAIN (u ++ v)
  BY DEF OneListOrAsCreated, ++

LEMMA MemoryLists == OneListOrAsCreated(Memory, Postgres)
<1>1. OneListOrAsCreated(MemoryRunTables, PostgresRunTables) /\ DOMAIN MemoryRunTables = DOMAIN PostgresRunTables
  BY DEF MemoryRunTables, PostgresRunTables, OneListOrAsCreated, Stored, ListedOtherwise, SortedByUpdate
<1>2. OneListOrAsCreated(MemoryEvidenceTables, PostgresEvidenceTables) /\ DOMAIN MemoryEvidenceTables = DOMAIN PostgresEvidenceTables
  BY DEF MemoryEvidenceTables, PostgresEvidenceTables, OneListOrAsCreated, Stored, ListedOtherwise, SortedByUpdate
<1>3. OneListOrAsCreated(MemorySkillTables, PostgresSkillTables) /\ DOMAIN MemorySkillTables = DOMAIN PostgresSkillTables
  BY DEF MemorySkillTables, PostgresSkillTables, OneListOrAsCreated, Stored, ListedOtherwise, SortedByUpdate
<1>4. OneListOrAsCreated(MemoryModelTables, PostgresModelTables) /\ DOMAIN MemoryModelTables = DOMAIN PostgresModelTables
  BY DEF MemoryModelTables, PostgresModelTables, OneListOrAsCreated, Stored, ListedOtherwise, SortedByUpdate
<1>5. OneListOrAsCreated(MemoryConnectorTables, PostgresConnectorTables) /\ DOMAIN MemoryConnectorTables = DOMAIN PostgresConnectorTables
  BY DEF MemoryConnectorTables, PostgresConnectorTables, OneListOrAsCreated, Stored, ListedOtherwise, SortedByUpdate
<1>6. OneListOrAsCreated(MemoryProjectTables, PostgresProjectTables) /\ DOMAIN MemoryProjectTables = DOMAIN PostgresProjectTables
  BY DEF MemoryProjectTables, PostgresProjectTables, OneListOrAsCreated, Stored, ListedOtherwise, SortedByUpdate
<1>7. OneListOrAsCreated(MemoryOutputTables, PostgresOutputTables) /\ DOMAIN MemoryOutputTables = DOMAIN PostgresOutputTables
  BY DEF MemoryOutputTables, PostgresOutputTables, OneListOrAsCreated, Stored, ListedOtherwise, SortedByUpdate
<1>8. OneListOrAsCreated(MemoryWorkspaceTables, PostgresWorkspaceTables) /\ DOMAIN MemoryWorkspaceTables = DOMAIN PostgresWorkspaceTables
  BY DEF MemoryWorkspaceTables, PostgresWorkspaceTables, OneListOrAsCreated, Stored, ListedOtherwise, SortedByUpdate
<1>9. OneListOrAsCreated(MemoryTaskTables, PostgresTaskTables) /\ DOMAIN MemoryTaskTables = DOMAIN PostgresTaskTables
  BY DEF MemoryTaskTables, PostgresTaskTables, OneListOrAsCreated, Stored, ListedOtherwise, SortedByUpdate
<1> DEFINE
     m2 == MemoryRunTables ++ MemoryEvidenceTables
     m3 == m2 ++ MemorySkillTables
     m4 == m3 ++ MemoryModelTables
     m5 == m4 ++ MemoryConnectorTables
     m6 == m5 ++ MemoryProjectTables
     m7 == m6 ++ MemoryOutputTables
     m8 == m7 ++ MemoryWorkspaceTables
     m9 == m8 ++ MemoryTaskTables
     o2 == PostgresRunTables ++ PostgresEvidenceTables
     o3 == o2 ++ PostgresSkillTables
     o4 == o3 ++ PostgresModelTables
     o5 == o4 ++ PostgresConnectorTables
     o6 == o5 ++ PostgresProjectTables
     o7 == o6 ++ PostgresOutputTables
     o8 == o7 ++ PostgresWorkspaceTables
     o9 == o8 ++ PostgresTaskTables
<1>10. OneListOrAsCreated(m2, o2) /\ DOMAIN m2 = DOMAIN o2
  BY <1>1, <1>2, JoinedLists
<1> HIDE DEF m2, o2
<1>11. OneListOrAsCreated(m3, o3) /\ DOMAIN m3 = DOMAIN o3
  BY <1>10, <1>3, JoinedLists
<1> HIDE DEF m3, o3
<1>12. OneListOrAsCreated(m4, o4) /\ DOMAIN m4 = DOMAIN o4
  BY <1>11, <1>4, JoinedLists
<1> HIDE DEF m4, o4
<1>13. OneListOrAsCreated(m5, o5) /\ DOMAIN m5 = DOMAIN o5
  BY <1>12, <1>5, JoinedLists
<1> HIDE DEF m5, o5
<1>14. OneListOrAsCreated(m6, o6) /\ DOMAIN m6 = DOMAIN o6
  BY <1>13, <1>6, JoinedLists
<1> HIDE DEF m6, o6
<1>15. OneListOrAsCreated(m7, o7) /\ DOMAIN m7 = DOMAIN o7
  BY <1>14, <1>7, JoinedLists
<1> HIDE DEF m7, o7
<1>16. OneListOrAsCreated(m8, o8) /\ DOMAIN m8 = DOMAIN o8
  BY <1>15, <1>8, JoinedLists
<1> HIDE DEF m8, o8
<1>17. OneListOrAsCreated(m9, o9) /\ DOMAIN m9 = DOMAIN o9
  BY <1>16, <1>9, JoinedLists
<1> QED
  BY <1>17 DEF Memory, Postgres, m2, o2, m3, o3, m4, o4, m5, o5, m6, o6, m7, o7, m8, o8

(* The rows by creation are the records as they were saved: before the one *)
(* at n come the first n - 1.                                              *)
LEMMA SortedAsSaved ==
  ASSUME NEW s \in Seq(Record), InOrderOfCreation(s), NEW rows, rows = {s[i] : i \in DOMAIN s}
  PROVE  Sorted(rows, "created") = s
<1>1. DOMAIN s = 1..Len(s) /\ Len(s) \in Nat /\ \A i \in 1..Len(s) : s[i] \in Record /\ s[i].created \in Nat
  BY RecordFields
<1>2. \A i, j \in 1..Len(s) : s[i].created < s[j].created <=> i < j
  BY <1>1 DEF InOrderOfCreation
<1>3. \A i, j \in 1..Len(s) : Precedes("created", s[i], s[j]) <=> i < j
  <2> SUFFICES ASSUME NEW i \in 1..Len(s), NEW j \in 1..Len(s)
               PROVE  Precedes("created", s[i], s[j]) <=> i < j
    OBVIOUS
  <2>1. s[i].created = s[j].created => i = j
    BY <1>1, <1>2
  <2>2. ~(s[i].id < s[i].id)
    BY <1>1, RecordFields
  <2> QED
    BY <1>1, <1>2, <2>1, <2>2 DEF Precedes
<1>4. \A i, j \in 1..Len(s) : s[i] = s[j] => i = j
  BY <1>1, <1>2
<1>5. \A n \in 0..Len(s) : Cardinality({s[i] : i \in 1..n}) = n
  <2> SUFFICES ASSUME NEW n \in 0..Len(s) PROVE Cardinality({s[i] : i \in 1..n}) = n
    OBVIOUS
  <2> DEFINE T == {s[i] : i \in 1..n}
             g == [i \in 1..n |-> s[i]]
  <2>1. g \in [1..n -> T] /\ \A i, j \in 1..n : g[i] = g[j] => i = j
    BY <1>4
  <2>2. \A t \in T : \E i \in 1..n : g[i] = t
    OBVIOUS
  <2>3. g \in Bijection(1..n, T)
    BY <2>1, <2>2 DEF Bijection, Injection, Surjection, IsInjective
  <2> QED
    BY <2>3, FS_CountingElements DEF ExistsBijection
<1>6. Cardinality(rows) = Len(s)
  BY <1>1, <1>5
<1>7. ASSUME NEW n \in 1..Len(s)
      PROVE  Cardinality({q \in rows : Precedes("created", q, s[n])}) = n - 1
  <2>1. {q \in rows : Precedes("created", q, s[n])} = {s[i] : i \in 1..(n - 1)}
    BY <1>1, <1>3, <1>7
  <2> QED
    BY <1>5, <2>1
<1>8. ASSUME NEW n \in 1..Len(s)
      PROVE  (CHOOSE r \in rows : Cardinality({q \in rows : Precedes("created", q, r)}) = n - 1) = s[n]
  <2>1. s[n] \in rows
    BY <1>1
  <2>2. ASSUME NEW r \in rows, Cardinality({q \in rows : Precedes("created", q, r)}) = n - 1
        PROVE  r = s[n]
    <3>1. PICK i \in 1..Len(s) : r = s[i]
      BY <1>1
    <3>2. i - 1 = n - 1
      BY <1>7, <2>2, <3>1
    <3> QED
      BY <3>1, <3>2
  <2> QED
    BY <1>7, <2>1, <2>2
<1>9. Sorted(rows, "created") = [n \in 1..Len(s) |-> s[n]]
  BY <1>6, <1>8 DEF Sorted
<1> QED
  BY <1>1, <1>9

LEMMA LastIsMost ==
  ASSUME NEW n \in Nat \ {0}, NEW c \in [1..n -> Nat], \A i, j \in 1..n : i < j => c[i] < c[j]
  PROVE  \A i \in 1..n : c[i] <= c[n] /\ (c[n] <= c[i] => i = n)
  OBVIOUS

(* The record that was saved first at the latest time is the last one.     *)
LEMMA LatestIsLast == ASSUME SameInv PROVE LatestSeq(memory) = PostgresLatest(postgres)
<1>1. /\ DOMAIN memory = 1..Len(memory) /\ Len(memory) \in Nat
      /\ \A i \in 1..Len(memory) : memory[i] \in Record /\ memory[i].created \in Nat
  BY RecordFields DEF SameInv
<1>2. CASE memory = <<>>
  BY <1>2 DEF SameInv, LatestSeq, PostgresLatest
<1>3. CASE memory # <<>>
  <2> DEFINE l == Len(memory)
  <2>1. l \in 1..Len(memory) /\ Last(memory) = memory[l]
    BY <1>1, <1>3 DEF Last, SameInv
  <2> DEFINE c == [i \in 1..l |-> memory[i].created]
  <2>2. \A i, j \in 1..l : i < j => c[i] < c[j]
    BY <1>1 DEF SameInv, NewComeLast, InOrderOfCreation
  <2>3. \A i \in 1..l : memory[i].created <= memory[l].created
                      /\ (memory[l].created <= memory[i].created => i = l)
    <3>1. l \in Nat \ {0} /\ c \in [1..l -> Nat]
      BY <1>1, <2>1
    <3> HIDE DEF c
    <3>2. \A i \in 1..l : c[i] <= c[l] /\ (c[l] <= c[i] => i = l)
      BY <2>2, <3>1, LastIsMost
    <3> QED
      BY <2>1, <3>2 DEF c
  <2>4. \A r \in postgres : \E i \in 1..Len(memory) : r = memory[i]
    BY <1>1 DEF SameInv
  <2>5. memory[l] \in postgres
    BY <1>1, <2>1 DEF SameInv
  <2>6. PostgresLatest(postgres) = {memory[l]}
    BY <2>3, <2>4, <2>5 DEF PostgresLatest
  <2> QED
    BY <1>3, <2>1, <2>6 DEF LatestSeq
<1> QED
  BY <1>2, <1>3

(* The lists of all tables that PostgreSQL does not sort by another column,*)
(* and the latest brief, page version and deployment, are the same in the  *)
(* three stores: an array that nobody sorts is in the order of createdAt.  *)
THEOREM ListsAreTheSame == TablesSpec => []SameLists
<1>1. ASSUME SameInv PROVE SameLists
  <2>1. file = memory /\ ToSet(memory) = postgres /\ table \in DOMAIN Memory
    BY <1>1 DEF SameInv, ToSet, Tables
  <2>2. ListedSeq(memory, Memory[table].order) = ListedSeq(file, File[table].order)
    BY <2>1, MemoryIsFile
  <2>3. ASSUME table \notin ListedOtherwise
        PROVE  PostgresListed(postgres, Postgres[table].order) = ListedSeq(memory, Memory[table].order)
    <3>1. \/ Memory[table].order = Postgres[table].order
          \/ Memory[table].order = "saved" /\ Postgres[table].order = "created"
      BY <2>1, <2>3, MemoryLists DEF OneListOrAsCreated
    <3>2. Sorted(postgres, "created") = memory
      BY <1>1, SortedAsSaved DEF SameInv, NewComeLast
    <3>3. CASE Memory[table].order = "saved" /\ Postgres[table].order = "created"
      BY <3>2, <3>3 DEF PostgresListed, ListedSeq
    <3>4. CASE Memory[table].order = Postgres[table].order /\ Postgres[table].order # "saved"
      BY <2>1, <3>4 DEF PostgresListed, ListedSeq
    <3>5. Postgres[table].order # "saved"
      BY <2>1, <2>3, MemoryLists DEF OneListOrAsCreated
    <3> QED
      BY <3>1, <3>3, <3>4, <3>5
  <2>4. LatestSeq(memory) = PostgresLatest(postgres) /\ LatestSeq(file) = PostgresLatest(postgres)
    BY <1>1, <2>1, LatestIsLast
  <2> QED
    BY <2>2, <2>3, <2>4 DEF SameLists
<1> QED
  BY <1>1, InitSame, NextSame, PTL DEF TablesSpec

=============================================================================
