-------------------------- MODULE RepositoryTables --------------------------
(***************************************************************************)
(* What the repositories answer, in the three stores side by side: maps in *)
(* memory, arrays in a JSON file, rows in PostgreSQL (packages/db/src).    *)
(* One table at a time; the services save a record after they have looked  *)
(* for it, and read it back by key, as a list or as the latest one.        *)
(*                                                                         *)
(* A record is its id, its natural key (the columns of the unique index;   *)
(* the id where there is none) and two times: created and touched, which   *)
(* also tells the versions of a record apart.  No two saves happen in the  *)
(* same millisecond.  workspaceMembers have no table in PostgreSQL.        *)
(***************************************************************************)
EXTENDS Naturals, Sequences, SequencesExt, FiniteSets, FiniteSetsExt

CONSTANTS
  Keys,     \* natural keys, numbers in the order of paths and sequence numbers
  MaxSaves  \* bound

ASSUME TablesAssumption == Keys \subseteq Nat \ {0} /\ MaxSaves \in Nat

VARIABLES
  table,    \* the table under consideration
  memory,   \* its records, in the order of the map
  file,     \* its records, in the order of the array
  postgres, \* its rows
  now       \* the number of the next save

tableVars == <<table, memory, file, postgres, now>>

-----------------------------------------------------------------------------
(* identity: the column by which a save finds the record it replaces;      *)
(* order: that of the list methods.                                        *)
Stored(identity, order) == [identity |-> identity, order |-> order]

(* The tables of both.                                                     *)
f ++ g == [t \in DOMAIN f \cup DOMAIN g |-> IF t \in DOMAIN f THEN f[t] ELSE g[t]]

MemoryRunTables ==
  [runs |-> Stored("id", "saved"), runEvents |-> Stored("id", "key")]
MemoryEvidenceTables ==
  [toolObservations |-> Stored("id", "created"), agentHandoffs |-> Stored("id", "touched")]
MemorySkillTables ==
  [skills |-> Stored("id", "saved"), skillVersions |-> Stored("id", "saved"),
   skillBindings |-> Stored("id", "saved")]
MemoryModelTables ==
  [modelProviders |-> Stored("id", "saved"), modelRoutingPolicies |-> Stored("id", "saved")]
MemoryConnectorTables ==
  [mcpConnectors |-> Stored("id", "saved"), mcpToolApprovals |-> Stored("id", "saved")]
MemoryProjectTables ==
  [projects |-> Stored("id", "saved"), projectMembers |-> Stored("id", "created")]
MemoryOutputTables ==
  [briefs |-> Stored("id", "saved"), pageVersions |-> Stored("id", "saved"),
   deployments |-> Stored("key", "saved")]
MemoryWorkspaceTables ==
  [artifactWorkspaces |-> Stored("id", "created"), artifactWorkspaceFiles |-> Stored("id", "key")]
MemoryTaskTables ==
  [tasks |-> Stored("id", "saved"), messages |-> Stored("id", "created"),
   taskSnapshots |-> Stored("key", "saved")]

Memory ==
  MemoryRunTables ++ MemoryEvidenceTables ++ MemorySkillTables ++ MemoryModelTables ++ MemoryConnectorTables
  ++ MemoryProjectTables ++ MemoryOutputTables ++ MemoryWorkspaceTables ++ MemoryTaskTables

FileRunTables ==
  [runs |-> Stored("id", "saved"), runEvents |-> Stored("id", "key")]
FileEvidenceTables ==
  [toolObservations |-> Stored("id", "created"), agentHandoffs |-> Stored("id", "touched")]
FileSkillTables ==
  [skills |-> Stored("id", "saved"), skillVersions |-> Stored("id", "saved"),
   skillBindings |-> Stored("id", "saved")]
FileModelTables ==
  [modelProviders |-> Stored("id", "saved"), modelRoutingPolicies |-> Stored("id", "saved")]
FileConnectorTables ==
  [mcpConnectors |-> Stored("id", "saved"), mcpToolApprovals |-> Stored("id", "saved")]
FileProjectTables ==
  [projects |-> Stored("id", "saved"), projectMembers |-> Stored("id", "created")]
FileOutputTables ==
  [briefs |-> Stored("id", "saved"), pageVersions |-> Stored("id", "saved"),
   deployments |-> Stored("key", "saved")]
FileWorkspaceTables ==
  [artifactWorkspaces |-> Stored("id", "created"), artifactWorkspaceFiles |-> Stored("id", "key")]
FileTaskTables ==
  [tasks |-> Stored("id", "saved"), messages |-> Stored("id", "created"),
   taskSnapshots |-> Stored("key", "saved")]

File ==
  FileRunTables ++ FileEvidenceTables ++ FileSkillTables ++ FileModelTables ++ FileConnectorTables
  ++ FileProjectTables ++ FileOutputTables ++ FileWorkspaceTables ++ FileTaskTables

(* Mutant: runs are listed by updatedAt.                                   *)
MutPostgresRunTables ==
  [runs |-> Stored("id", "touched"), runEvents |-> Stored("id", "key")]
PostgresRunTables ==
  [runs |-> Stored("id", "created"), runEvents |-> Stored("id", "key")]
PostgresEvidenceTables ==
  [toolObservations |-> Stored("id", "created"), agentHandoffs |-> Stored("id", "touched")]
PostgresSkillTables ==
  [skills |-> Stored("id", "created"), skillVersions |-> Stored("key", "created"),
   skillBindings |-> Stored("key", "touched")]
PostgresModelTables ==
  [modelProviders |-> Stored("id", "touched"), modelRoutingPolicies |-> Stored("key", "touched")]
PostgresConnectorTables ==
  [mcpConnectors |-> Stored("id", "touched"), mcpToolApprovals |-> Stored("key", "touched")]
PostgresProjectTables ==
  [projects |-> Stored("id", "created"), projectMembers |-> Stored("key", "touched")]
PostgresOutputTables ==
  [briefs |-> Stored("id", "created"), pageVersions |-> Stored("id", "created"),
   deployments |-> Stored("key", "created")]
PostgresWorkspaceTables ==
  [artifactWorkspaces |-> Stored("id", "created"), artifactWorkspaceFiles |-> Stored("key", "created")]
PostgresTaskTables ==
  [tasks |-> Stored("id", "created"), messages |-> Stored("id", "created"),
   taskSnapshots |-> Stored("key", "created")]

Postgres ==
  PostgresRunTables ++ PostgresEvidenceTables ++ PostgresSkillTables ++ PostgresModelTables ++ PostgresConnectorTables
  ++ PostgresProjectTables ++ PostgresOutputTables ++ PostgresWorkspaceTables
  ++ PostgresTaskTables

Tables == DOMAIN Memory

(* The tables with a unique index other than the primary key.              *)
NaturalKeyTables == {t \in Tables : Postgres[t].identity = "key"}

-----------------------------------------------------------------------------
Record == [id : Nat, key : Keys, created : Nat, touched : Nat]

TablesTypeOK ==
  /\ table \in Tables
  /\ memory \in Seq(Record) /\ file \in Seq(Record) /\ postgres \subseteq Record
  /\ \A r \in postgres : r.id > 0
  /\ now \in Nat

TablesInit ==
  /\ table \in Tables
  /\ memory = <<>> /\ file = <<>> /\ postgres = {}
  /\ now = 1

(* Map.set: a key that is there keeps its place.                           *)
MemorySave(s, r, identity) ==
  IF \E i \in DOMAIN s : s[i][identity] = r[identity]
  THEN [i \in DOMAIN s |-> IF s[i][identity] = r[identity] THEN r ELSE s[i]]
  ELSE Append(s, r)

(* upsertBy: the first record that matches is replaced.                    *)
FileSave(s, r, identity) ==
  LET found == {i \in DOMAIN s : s[i][identity] = r[identity]}
  IN IF found = {} THEN Append(s, r) ELSE [s EXCEPT ![Min(found)] = r]

(* upsert: an update leaves id and key as they are; a new row whose id     *)
(* another row has is refused.                                             *)
PostgresSave(rows, r, identity) ==
  LET found == {q \in rows : q[identity] = r[identity]}
  IN IF found # {} THEN {q \in rows : q \notin found} \cup {[r EXCEPT !.id = q.id, !.key = q.key] : q \in found}
     ELSE IF \E q \in rows : q.id = r.id THEN rows ELSE rows \cup {r}

(* find of the array, find over the values of the map, findUnique.         *)
First(s, k) == LET found == {i \in DOMAIN s : s[i].key = k}
               IN IF found = {} THEN {} ELSE {s[Min(found)]}

(* What a service saves for the key k, found being what it has read: the   *)
(* record with a new version, or a new record.                             *)
(* Mutant: the service does not look for the record first.                 *)
MutChanged(found, k, new) == [id |-> new, key |-> k, created |-> now, touched |-> now]
Changed(found, k, new) ==
  IF found = {} THEN [id |-> new, key |-> k, created |-> now, touched |-> now]
  ELSE [(CHOOSE r \in found : TRUE) EXCEPT !.touched = now]

(* nextSequentialId where the id is not the key itself.                    *)
NewId(rows, k) ==
  IF table \in NaturalKeyTables THEN Max({r.id : r \in rows} \cup {0}) + 1 ELSE k

Put(k) ==
  /\ now <= MaxSaves
  /\ memory' = MemorySave(memory, Changed(First(memory, k), k, NewId(ToSet(memory), k)),
                          Memory[table].identity)
  /\ file' = FileSave(file, Changed(First(file, k), k, NewId(ToSet(file), k)), File[table].identity)
  /\ postgres' = PostgresSave(postgres, Changed({r \in postgres : r.key = k}, k, NewId(postgres, k)),
                              Postgres[table].identity)
  /\ now' = now + 1
  /\ table' = table

(* messages.deleteById; the map and the array have a message once.         *)
Without(s, id) ==
  LET found == {i \in DOMAIN s : s[i].id = id}
  IN IF found = {} THEN s ELSE RemoveAt(s, Min(found))

Delete(k) ==
  /\ table = "messages" /\ now <= MaxSaves
  /\ memory' = Without(memory, k)
  /\ file' = Without(file, k)
  /\ postgres' = {r \in postgres : r.id # k}
  /\ now' = now + 1
  /\ table' = table

TablesNext == \E k \in Keys : Put(k) \/ Delete(k)

TablesSpec == TablesInit /\ [][TablesNext]_tableVars

-----------------------------------------------------------------------------
(* The list methods.  Every comparison and every ORDER BY ends with the id.*)
Precedes(order, q, r) == q[order] < r[order] \/ (q[order] = r[order] /\ q.id < r.id)

Sorted(rows, order) ==
  [n \in 1..Cardinality(rows) |->
     CHOOSE r \in rows : Cardinality({q \in rows : Precedes(order, q, r)}) = n - 1]

ListedSeq(s, order) == IF order = "saved" THEN s ELSE Sorted(ToSet(s), order)

PostgresListed(rows, order) == Sorted(rows, order)

(* findLatestForProject: the last of the map or array; ORDER BY createdAt  *)
(* DESC, of which the first.                                               *)
LatestTables == DOMAIN MemoryOutputTables
LatestSeq(s) == IF s = <<>> THEN {} ELSE {Last(s)}
PostgresLatest(rows) == {r \in rows : \A q \in rows : q.created <= r.created}

(* The stores hold the same records and find the same one for every key,   *)
(* although they identify records in different ways.                       *)
SameRecords ==
  /\ ToSet(memory) = postgres /\ file = memory
  /\ \A k \in Keys : First(memory, k) = {r \in postgres : r.key = k}

(* Lists come in the same order, and all three stores agree on the latest  *)
(* brief, page version and deployment.  Not so the tables that only        *)
(* PostgreSQL sorts by updatedAt, nor the files of an artifact workspace,  *)
(* which memory and file sort by path and PostgreSQL by createdAt.         *)
SortedByUpdate == {"skillBindings", "modelProviders", "modelRoutingPolicies", "mcpConnectors",
                   "mcpToolApprovals", "projectMembers"}
ListedOtherwise == SortedByUpdate \cup {"artifactWorkspaceFiles"}

SameLists ==
  /\ ListedSeq(memory, Memory[table].order) = ListedSeq(file, File[table].order)
  /\ table \notin ListedOtherwise =>
       PostgresListed(postgres, Postgres[table].order) = ListedSeq(memory, Memory[table].order)
  /\ table \in LatestTables =>
       LatestSeq(memory) = PostgresLatest(postgres) /\ LatestSeq(file) = PostgresLatest(postgres)
=============================================================================
