--------------------------- MODULE ProjectServices ---------------------------
(***************************************************************************)
(* The services of one project in packages/api/src/index.ts: skill         *)
(* versions and their bindings, MCP connectors, the approvals of their     *)
(* tools and a tool's execution, model providers and the routes of the     *)
(* roles.  The calls of one Web process interleave at every await; those   *)
(* that choose an id queue for the id lock of the repositories.            *)
(*                                                                         *)
(* A record is its key (what it must be the only one for), its value and   *)
(* the call that created it.  Approval is required of every tool, all      *)
(* tools are read-only, the skill's permission is the tool's; records of   *)
(* other projects are as if absent.                                        *)
(***************************************************************************)
EXTENDS Naturals, FiniteSets, FiniteSetsExt, Sequences, SequencesExt

CONSTANTS
  Callers,
  Manifests,   \* skill versions that can be drafted
  Granting,    \* those whose manifest has the tool's permission
  SkillOf,     \* the skill of a manifest
  Connectors, Providers, Roles,
  None,
  MaxCalls,    \* bound
  MaxFaults    \* bound on failing saves

ASSUME ServicesAssumption ==
  /\ Granting \subseteq Manifests /\ DOMAIN SkillOf = Manifests
  /\ None \notin Callers \cup {"tool", "completed", "failed", "cancelled"}
  /\ MaxCalls \in Nat /\ MaxFaults \in Nat

VARIABLES
  stored,    \* the tables: id -> [key, val, by]
  skills,    \* skills that have been saved
  runs,      \* runs of tools: id -> [by, state, events]
  observed,  \* toolObservations: id -> [by, run, state]
  reserved,  \* repositoryIdReservations: <<table, id>>
  lock,      \* the call at the head of the id lock
  call,      \* what each caller is doing
  made,      \* the number of calls begun
  faults,
  held       \* history: what each running call could have seen

vars == <<stored, skills, runs, observed, reserved, lock, call, made, faults, held>>
tables == <<stored, skills, runs, observed>>

-----------------------------------------------------------------------------
Idle == [pc |-> "idle", n |-> 0, op |-> None, key |-> None, val |-> None, id |-> 0, row |-> None,
         seen |-> {}, obs |-> 0]

TableNames == {"versions", "bindings", "connectors", "approvals", "providers", "routes"}

Put(f, k, v) == [x \in DOMAIN f \cup {k} |-> IF x = k THEN v ELSE f[x]]

Rows(t) == {stored[t][i] : i \in DOMAIN stored[t]}
Known(t, k) == \E r \in Rows(t) : r.key = k
IdOf(t, k) == CHOOSE i \in DOMAIN stored[t] : stored[t][i].key = k
Val(t, k) == stored[t][IdOf(t, k)].val

(* nextSequentialId, after the ids that are stored and those reserved.     *)
ReservedIds(table) == {r[2] : r \in {x \in reserved : x[1] = table}}
NextId(table, ids) == Max(ids \cup ReservedIds(table) \cup {0}) + 1

Begin(c, pc, op, key, val) ==
  /\ call[c].pc = "idle" /\ made < MaxCalls
  /\ made' = made + 1
  /\ call' = [call EXCEPT ![c] = [Idle EXCEPT !.pc = pc, !.n = made + 1, !.op = op, !.key = key,
                                              !.val = val]]
  /\ UNCHANGED <<tables, reserved, lock, faults>>

(* A read, then a save without the lock.                                   *)
Rewrite(c, t, i, val) ==
  /\ call[c].pc = "idle" /\ made < MaxCalls
  /\ i \in DOMAIN stored[t]
  /\ made' = made + 1
  /\ call' = [call EXCEPT ![c] = [Idle EXCEPT !.pc = "save", !.n = made + 1, !.op = t, !.id = i,
                                              !.row = [stored[t][i] EXCEPT !.val = val]]]
  /\ UNCHANGED <<tables, reserved, lock, faults>>

Done(c) == call' = [call EXCEPT ![c] = Idle]

-----------------------------------------------------------------------------
(* The checks before the id lock.                                          *)
CreateSkillDraft(c, m) == ~Known("versions", m) /\ Begin(c, "lock", "versions", m, "draft")

ValidateSkillVersion(c, i) ==
  /\ i \in DOMAIN stored["versions"] /\ stored["versions"][i].val = "draft"
  /\ Rewrite(c, "versions", i, "validated")

PublishSkillVersion(c, i) ==
  /\ i \in DOMAIN stored["versions"] /\ stored["versions"][i].val \in {"validated", "published"}
  /\ Rewrite(c, "versions", i, "published")

(* Mutant: a validated version can be bound.                               *)
MutBindSkillVersion(c, i) ==
  /\ i \in DOMAIN stored["versions"]
  /\ ~Known("bindings", i)
  /\ Begin(c, "lock", "bindings", i, "on")
BindSkillVersion(c, i) ==
  /\ i \in DOMAIN stored["versions"] /\ stored["versions"][i].val = "published"
  /\ ~Known("bindings", i)
  /\ Begin(c, "lock", "bindings", i, "on")

SetSkillBindingEnabled(c, i, val) == Rewrite(c, "bindings", i, val)

CreateConnector(c, k) == Begin(c, "lock", "connectors", k, "on")
SetConnectorEnabled(c, k, val) == Rewrite(c, "connectors", k, val)

(* The tool is the only one of its connector.                              *)
SetToolApproval(c, k, val) == Known("connectors", k) /\ Begin(c, "lock", "approvals", k, val)

CreateModelProvider(c, p) == Begin(c, "lock", "providers", p, "on")
SetModelProviderEnabled(c, p, val) == Begin(c, "lock", "enabling", p, val)

Serving(p) == Known("providers", p) /\ Val("providers", p) = "on"
UpsertModelRoute(c, role, p) == Serving(p) /\ Begin(c, "lock", "routes", role, p)

(* The checks under it.                                                    *)
(* Mutant: the second look for a duplicate is left out.                    *)
MutLockedCheck(op, key, val) ==
  CASE op \in {"connectors", "providers"} -> ~Known(op, key)
    [] op = "enabling" -> /\ Known("providers", key)
                          /\ val = "off" => \A r \in Rows("routes") : r.val # key
    [] op = "routes" -> Serving(val)
    [] OTHER -> TRUE
LockedCheck(op, key, val) ==
  CASE op \in {"versions", "bindings", "connectors", "providers"} -> ~Known(op, key)
    [] op = "enabling" -> /\ Known("providers", key)
                          /\ val = "off" => \A r \in Rows("routes") : r.val # key
    [] op = "routes" -> Serving(val)
    [] op = "approvals" -> TRUE

Lock(c) ==
  LET k == call[c]
      t == IF k.op = "enabling" THEN "providers" ELSE k.op
      i == IF t \in {"connectors", "providers"} THEN k.key
           ELSE IF t \in {"approvals", "routes"} /\ Known(t, k.key) THEN IdOf(t, k.key)
           ELSE NextId(t, DOMAIN stored[t])
  IN /\ k.pc = "lock" /\ lock = None
     /\ IF LockedCheck(k.op, k.key, k.val)
        THEN /\ lock' = c
             /\ call' = [call EXCEPT ![c] =
                  [k EXCEPT !.pc = IF t = "versions" THEN "skill" ELSE "save", !.op = t, !.id = i,
                            !.row = [key |-> k.key, val |-> k.val,
                                     by |-> IF i \in DOMAIN stored[t] THEN stored[t][i].by ELSE k.n]]]
        ELSE Done(c) /\ lock' = lock
     /\ UNCHANGED <<tables, reserved, made, faults>>

(* A draft saves its skill before its version.                             *)
SaveSkill(c) ==
  /\ call[c].pc = "skill"
  /\ skills' = skills \cup {SkillOf[call[c].key]}
  /\ call' = [call EXCEPT ![c].pc = "save"]
  /\ UNCHANGED <<stored, runs, observed, reserved, lock, made, faults>>

Unlock(c) == lock' = IF lock = c THEN None ELSE lock

Save(c) ==
  LET k == call[c]
  IN /\ k.pc = "save"
     /\ stored' = [stored EXCEPT ![k.op] = Put(@, k.id, k.row)]
     /\ Done(c) /\ Unlock(c)
     /\ UNCHANGED <<skills, runs, observed, reserved, made, faults>>

-----------------------------------------------------------------------------
(* executeProjectMCPTool and listRuntimeSkillsForProject.                  *)
ExecuteTool(c, k) ==
  /\ Known("connectors", k) /\ Val("connectors", k) = "on"
  /\ Begin(c, "bindings", "tool", k, None)

ReadBindings(c) ==
  /\ call[c].pc = "bindings"
  /\ call' = [call EXCEPT ![c] = [@ EXCEPT !.pc = "versions",
                                           !.seen = {i \in DOMAIN stored["bindings"] : stored["bindings"][i].val = "on"}]]
  /\ UNCHANGED <<tables, reserved, lock, made, faults>>

(* Of the bindings seen, the first of each skill whose version is          *)
(* published.                                                              *)
RuntimeSkills(seen) ==
  LET version(i) == stored["versions"][stored["bindings"][i].key]
      published == {i \in seen : version(i).val = "published"}
  IN {version(i).key : i \in {i \in published :
        \A j \in published : SkillOf[version(j).key] = SkillOf[version(i).key] => i <= j}}

ReadVersions(c) ==
  /\ call[c].pc = "versions"
  /\ IF RuntimeSkills(call[c].seen) \cap Granting # {}
     THEN call' = [call EXCEPT ![c] = [@ EXCEPT !.pc = "approval", !.seen = {}]]
     ELSE Done(c)
  /\ UNCHANGED <<tables, reserved, lock, made, faults>>

(* Mutant: an approval that is pending will do.                            *)
MutApproved(k) == Known("approvals", k)
Approved(k) == Known("approvals", k) /\ Val("approvals", k) = "approved"

ReadApproval(c) ==
  /\ call[c].pc = "approval"
  /\ IF Approved(call[c].key) THEN call' = [call EXCEPT ![c].pc = "run id"] ELSE Done(c)
  /\ UNCHANGED <<tables, reserved, lock, made, faults>>

(* What is saved, in this order; the tool runs after tool.started.         *)
(* Mutant: the observation is the last to be saved.                        *)
MutWrites == <<"run.saved", "run.started", "tool.started", "execute", "tool.ended", "run.ended",
               "run.closed", "observation">>
Writes == <<"run.saved", "run.started", "tool.started", "execute", "tool.ended", "run.ended",
            "observation", "run.closed">>
Position(pc) == CHOOSE i \in DOMAIN Writes : Writes[i] = pc

ReserveRun(c) ==
  LET i == NextId("runs", DOMAIN runs)
  IN /\ call[c].pc = "run id" /\ lock = None
     /\ reserved' = reserved \cup {<<"runs", i>>}
     /\ call' = [call EXCEPT ![c] = [@ EXCEPT !.pc = "observation id", !.id = i]]
     /\ UNCHANGED <<tables, lock, made, faults>>

ReserveObservation(c) ==
  LET i == NextId("observed", DOMAIN observed)
  IN /\ call[c].pc = "observation id" /\ lock = None
     /\ reserved' = reserved \cup {<<"observed", i>>}
     /\ call' = [call EXCEPT ![c] = [@ EXCEPT !.pc = Writes[1], !.obs = i]]
     /\ UNCHANGED <<tables, lock, made, faults>>

Release(c) ==
  reserved' = IF call[c].op = "tool"
              THEN reserved \ {<<"runs", call[c].id>>, <<"observed", call[c].obs>>}
              ELSE reserved

(* The finally block releases both ids.                                    *)
Continue(c) ==
  LET i == Position(call[c].pc)
  IN IF i = Len(Writes) THEN Done(c) /\ Release(c)
     ELSE call' = [call EXCEPT ![c].pc = Writes[i + 1]] /\ reserved' = reserved

Execute(c) ==
  /\ call[c].pc = "execute"
  /\ \E result \in {"completed", "failed", "cancelled"} :
       call' = [call EXCEPT ![c] = [@ EXCEPT !.pc = Writes[Position("execute") + 1], !.val = result]]
  /\ UNCHANGED <<tables, reserved, lock, made, faults>>

SaveToolRun(c) ==
  LET k == call[c]
  IN /\ k.pc = "run.saved"
     /\ runs' = Put(runs, k.id, [by |-> k.n, state |-> "running", events |-> <<>>])
     /\ Continue(c)
     /\ UNCHANGED <<stored, skills, observed, lock, made, faults>>

(* A cancelled tool run ends with the events of a failed one.              *)
Ended(val) == IF val = "completed" THEN "completed" ELSE "failed"

SaveToolEvent(c) ==
  LET k == call[c]
  IN /\ k.pc \in {"run.started", "tool.started", "tool.ended", "run.ended"}
     /\ runs' = [runs EXCEPT ![k.id].events =
                   Append(@, <<k.pc, IF k.val = None THEN None ELSE Ended(k.val)>>)]
     /\ Continue(c)
     /\ UNCHANGED <<stored, skills, observed, lock, made, faults>>

SaveObservation(c) ==
  LET k == call[c]
  IN /\ k.pc = "observation"
     /\ observed' = Put(observed, k.obs, [by |-> k.n, run |-> k.id, state |-> k.val])
     /\ Continue(c)
     /\ UNCHANGED <<stored, skills, runs, lock, made, faults>>

CloseToolRun(c) ==
  LET k == call[c]
  IN /\ k.pc = "run.closed"
     /\ runs' = [runs EXCEPT ![k.id].state = k.val]
     /\ Continue(c)
     /\ UNCHANGED <<stored, skills, observed, lock, made, faults>>

(* A save that fails ends the call; there is no catch.                     *)
SaveFails(c) ==
  /\ faults < MaxFaults
  /\ call[c].pc \in {"skill", "save"} \cup (ToSet(Writes) \ {"execute"})
  /\ faults' = faults + 1
  /\ Done(c) /\ Unlock(c) /\ Release(c)
  /\ UNCHANGED <<tables, made>>

-----------------------------------------------------------------------------
Init ==
  /\ stored = [t \in TableNames |-> <<>>]
  /\ skills = {} /\ runs = <<>> /\ observed = <<>>
  /\ reserved = {} /\ lock = None
  /\ call = [c \in Callers |-> Idle]
  /\ made = 0 /\ faults = 0
  /\ held = [c \in Callers |-> {}]

SkillCall(c) ==
  \/ \E m \in Manifests : CreateSkillDraft(c, m)
  \/ \E i \in 1..MaxCalls : ValidateSkillVersion(c, i)
  \/ \E i \in 1..MaxCalls : PublishSkillVersion(c, i)
  \/ \E i \in 1..MaxCalls : BindSkillVersion(c, i)
  \/ \E i \in 1..MaxCalls, val \in {"on", "off"} : SetSkillBindingEnabled(c, i, val)

ConnectorCall(c) ==
  \E k \in Connectors :
    \/ CreateConnector(c, k)
    \/ \E val \in {"on", "off"} : SetConnectorEnabled(c, k, val)
    \/ \E val \in {"approved", "pending"} : SetToolApproval(c, k, val)
    \/ ExecuteTool(c, k)

ModelCall(c) ==
  \E p \in Providers :
    \/ CreateModelProvider(c, p)
    \/ \E val \in {"on", "off"} : SetModelProviderEnabled(c, p, val)
    \/ \E role \in Roles : UpsertModelRoute(c, role, p)

Running(c) ==
  \/ Lock(c) \/ SaveSkill(c) \/ Save(c)
  \/ ReadBindings(c) \/ ReadVersions(c) \/ ReadApproval(c)
  \/ ReserveRun(c) \/ ReserveObservation(c)
  \/ SaveToolRun(c) \/ SaveToolEvent(c) \/ Execute(c) \/ SaveObservation(c) \/ CloseToolRun(c)

(* What a tool call may count on: its connector is enabled, its tool       *)
(* approved, a skill version published, a skill version bound.             *)
Facts(k) ==
  {<<"enabled", i>> : i \in {i \in {k} : Known("connectors", i) /\ Val("connectors", i) = "on"}}
  \cup {<<"approved", i>> : i \in {x \in {k} : \E r \in Rows("approvals") : r.key = x /\ r.val = "approved"}}
  \cup {<<"published", r.key>> : r \in {r \in Rows("versions") : r.val = "published"}}
  \cup {<<"bound", stored["versions"][r.key].key>> : r \in {r \in Rows("bindings") : r.val = "on"}}

History ==
  held' = [c \in Callers |->
             IF call'[c].op # "tool" THEN {}
             ELSE IF call[c].op # "tool" THEN Facts(call'[c].key)
             ELSE held[c] \cup Facts(call[c].key)]

Next ==
  /\ \E c \in Callers : SkillCall(c) \/ ConnectorCall(c) \/ ModelCall(c) \/ Running(c) \/ SaveFails(c)
  /\ History

Spec == Init /\ [][Next]_vars

-----------------------------------------------------------------------------
Values == {"draft", "validated", "published", "on", "off", "approved", "pending"} \cup Providers
Keys == Manifests \cup (1..MaxCalls) \cup Connectors \cup Providers \cup Roles
Row == [key : Keys, val : Values, by : 1..MaxCalls]
States == {"running", "completed", "failed", "cancelled"}

(* Type invariant.                                                         *)
TypeOK ==
  /\ DOMAIN stored = TableNames
  /\ \A t \in TableNames : Rows(t) \subseteq Row
  /\ skills \subseteq {SkillOf[m] : m \in Manifests}
  /\ \A i \in DOMAIN runs : runs[i].by \in 1..made /\ runs[i].state \in States
  /\ \A i \in DOMAIN observed : observed[i].run \in DOMAIN runs /\ observed[i].state \in States
  /\ reserved \subseteq {"runs", "observed"} \X (0..MaxCalls)
  /\ lock \in Callers \cup {None}
  /\ \A c \in Callers : call[c].n \in 0..made

(* A version has one binding, a role one route, a tool one approval, and a *)
(* skill one record per version number, however the calls interleave.      *)
NoTwins == \A t \in TableNames : \A i, j \in DOMAIN stored[t] :
             stored[t][i].key = stored[t][j].key => i = j

(* A bound version has been reviewed: validate and publish take no lock,   *)
(* but a late save of theirs puts a bound version back to validated at     *)
(* worst, never to draft.                                                  *)
BoundReviewed == \A r \in Rows("bindings") :
                   stored["versions"][r.key].val \in {"validated", "published"}

(* A tool runs only if its connector was enabled, it was approved and a    *)
(* skill version with its permission was published and was bound, each of  *)
(* them at some time during the call.                                      *)
ToolAllowed ==
  \A c \in Callers : call[c].pc = "execute" =>
    /\ <<"enabled", call[c].key>> \in held[c] /\ <<"approved", call[c].key>> \in held[c]
    /\ \E m \in Granting : <<"published", m>> \in held[c] /\ <<"bound", m>> \in held[c]

(* The run of a tool is closed only when all it did is on record: four     *)
(* events in order, and an observation with the same outcome, whichever    *)
(* save fails.                                                             *)
EvidenceFirst ==
  \A i \in DOMAIN runs : runs[i].state # "running" =>
    /\ runs[i].events = <<<<"run.started", None>>, <<"tool.started", None>>,
                          <<"tool.ended", Ended(runs[i].state)>>,
                          <<"run.ended", Ended(runs[i].state)>>>>
    /\ \E o \in DOMAIN observed : observed[o].run = i /\ observed[o].state = runs[i].state

=============================================================================
