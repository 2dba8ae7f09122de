------------------------ MODULE ProjectServicesProofs ------------------------
(***************************************************************************)
(* The services of a project, for any number of calls, manifests,          *)
(* connectors, providers and failing saves.                                *)
(*                                                                         *)
(* Three invariants, each for every call under way: Safe, what a call      *)
(* about to save will do to the keys of its table; HeldInv, what a call of *)
(* a tool has seen so far; EvidenceInv, what it has put on record.         *)
(*                                                                         *)
(* New ids are the greatest plus one.  That a bounded set of numbers has a *)
(* greatest element follows from the least-element principle (WFMin).      *)
(***************************************************************************)
EXTENDS ProjectServices, WellFoundedInduction, SequenceTheorems, TLAPS

LEMMA LeastNumber == ASSUME NEW T, T \subseteq Nat, T # {} PROVE \E x \in T : \A y \in T : x <= y
<1>1. PICK x \in T : \A y \in T : ~(<<y, x>> \in OpToRel(<, Nat))
  BY WFMin, NatLessThanWellFounded
<1>2. \A y \in T : ~(y < x)
  BY <1>1 DEF OpToRel
<1> QED
  BY <1>2

Bounded(S) == S \subseteq Nat /\ \E n \in Nat : \A i \in S : i <= n

LEMMA MaxIs ==
  ASSUME NEW S, Bounded(S), S # {}
  PROVE  Max(S) \in S /\ \A y \in S : y <= Max(S)
<1> DEFINE T == {k \in Nat : \A y \in S : y <= k}
<1>1. PICK m \in T : \A k \in T : m <= k
  BY LeastNumber DEF Bounded
<1>2. m \in S
  <2> SUFFICES ASSUME m \notin S PROVE FALSE
    OBVIOUS
  <2>1. PICK y \in S : TRUE
    OBVIOUS
  <2>2. \A z \in S : z \in Nat /\ z < m
    BY DEF Bounded
  <2>3. y \in Nat /\ m \in Nat /\ y < m
    BY <2>1, <2>2
  <2>4. m - 1 \in Nat /\ \A z \in S : z <= m - 1
    BY <2>2, <2>3
  <2>5. m - 1 \in T
    BY <2>4
  <2> QED
    BY <1>1, <2>3, <2>5
<1> QED
  BY <1>1, <1>2 DEF Max

LEMMA BoundedMore ==
  ASSUME NEW S, Bounded(S), NEW n \in Nat
  PROVE  /\ Bounded(S \cup {n})
         /\ \A R : R \subseteq S \cup {n} => Bounded(R)
<1>1. PICK m \in Nat : \A i \in S : i <= m
  BY DEF Bounded
<1>2. m + n \in Nat /\ \A i \in S \cup {n} : i <= m + n
  BY <1>1 DEF Bounded
<1> QED
  BY <1>2 DEF Bounded

(* An id that is chosen is free.                                           *)
LEMMA NextIdIsFree ==
  ASSUME NEW table, NEW ids, Bounded(ids \cup ReservedIds(table))
  PROVE  /\ NextId(table, ids) \in Nat
         /\ NextId(table, ids) \notin ids /\ NextId(table, ids) \notin ReservedIds(table)
<1> DEFINE S == ids \cup ReservedIds(table) \cup {0}
<1>1. Bounded(S)
  BY BoundedMore
<1>2. Max(S) \in Nat /\ \A y \in S : y <= Max(S)
  BY <1>1, MaxIs DEF Bounded
<1>3. S \subseteq Nat
  BY <1>1 DEF Bounded
<1>4. PICK m \in Nat : m = Max(S) /\ \A y \in S : y <= m
  BY <1>2
<1> HIDE DEF S
<1>5. m + 1 \in Nat /\ \A y \in S : y # m + 1
  BY <1>3, <1>4
<1> QED
  BY <1>4, <1>5 DEF NextId, S

-----------------------------------------------------------------------------
(* The control of the calls.                                               *)
CallFields == {"pc", "n", "op", "key", "val", "id", "row", "seen", "obs"}
RowFields == {"key", "val", "by"}
Steps == {"run.saved", "run.started", "tool.started", "execute", "tool.ended", "run.ended",
          "observation", "run.closed"}
ToolPCs == {"bindings", "versions", "approval", "run id", "observation id"} \cup Steps
Shape ==
  /\ DOMAIN call = Callers /\ DOMAIN stored = TableNames /\ DOMAIN held = Callers
  /\ \A t \in TableNames : \A i \in DOMAIN stored[t] : DOMAIN stored[t][i] = RowFields
ControlOf(c) ==
  /\ DOMAIN call[c] = CallFields
  /\ call[c].pc \in {"idle", "lock", "skill", "save"} \cup ToolPCs
  /\ call[c].pc = "idle" => call[c].op = None
  /\ call[c].pc = "lock" => call[c].op \in TableNames \cup {"enabling"}
  /\ call[c].pc = "skill" => call[c].op = "versions"
  /\ call[c].pc \in {"skill", "save"} => call[c].op \in TableNames /\ DOMAIN call[c].row = RowFields
  /\ call[c].pc \in ToolPCs => call[c].op = "tool"
Control == Shape /\ \A c \in Callers : ControlOf(c)

LEMMA Order ==
  /\ Position("run.saved") = 1 /\ Position("run.started") = 2 /\ Position("tool.started") = 3
  /\ Position("execute") = 4 /\ Position("tool.ended") = 5 /\ Position("run.ended") = 6
  /\ Position("observation") = 7 /\ Position("run.closed") = 8
<1>1. DOMAIN Writes = 1..8
  BY DEF Writes
<1>2. ASSUME NEW i \in 1..8 PROVE Position(Writes[i]) = i
  BY <1>1, <1>2 DEF Writes, Position
<1> QED
  BY <1>2 DEF Writes

LEMMA AfterExecute == Writes[Position("execute") + 1] = "tool.ended"
<1>1. Writes[4 + 1] = "tool.ended"
  BY DEF Writes
<1> QED
  BY <1>1, Order, Zenon

After == [x \in Steps \ {"run.closed"} |->
            CASE x = "run.saved" -> "run.started" [] x = "run.started" -> "tool.started"
              [] x = "tool.started" -> "execute" [] x = "execute" -> "tool.ended"
              [] x = "tool.ended" -> "run.ended" [] x = "run.ended" -> "observation"
              [] x = "observation" -> "run.closed"]

LEMMA Continues ==
  ASSUME NEW c, Continue(c), call[c].pc \in Steps
  PROVE  IF call[c].pc = "run.closed" THEN Done(c) /\ Release(c)
         ELSE call' = [call EXCEPT ![c].pc = After[call[c].pc]] /\ reserved' = reserved
<1>1. Len(Writes) = 8 /\ \A i \in 1..8 : Writes[i] \in Steps
  BY DEF Writes, Steps
<1>2. CASE call[c].pc = "run.closed"
  BY <1>1, <1>2, Order DEF Continue
<1>3. CASE call[c].pc # "run.closed"
  <2>1. Position(call[c].pc) # 8 /\ Writes[Position(call[c].pc) + 1] = After[call[c].pc]
    BY <1>3, Order DEF Writes, After, Steps
  <2> QED
    BY <1>1, <1>3, <2>1 DEF Continue
<1> QED
  BY <1>2, <1>3

(* A step of the call c does not touch the others.                         *)
OnlyOf(c) == DOMAIN call' = DOMAIN call /\ \A d \in Callers \ {c} : call'[d] = call[d]

(* What can happen to the call c, and to the tables.                       *)
Reviewed(i) == i \in DOMAIN stored["versions"] /\ stored["versions"][i].val \in {"validated", "published"}
Requests(c) ==
  \E op \in TableNames \cup {"enabling"} : \E key, val :
    Begin(c, "lock", op, key, val) /\ (op = "bindings" => Reviewed(key))
Rewrites(c) ==
  \E t \in {"versions", "bindings", "connectors"} : \E i, val :
    Rewrite(c, t, i, val) /\ (t = "versions" => val \in {"validated", "published"})

LEMMA CallsBegin ==
  ASSUME NEW c \in Callers, SkillCall(c) \/ ConnectorCall(c) \/ ModelCall(c)
  PROVE  \/ Requests(c)
         \/ Rewrites(c)
         \/ \E k \in Connectors : ExecuteTool(c, k)
<1>1. CASE SkillCall(c)
  <2>1. \/ \E m \in Manifests : Begin(c, "lock", "versions", m, "draft")
        \/ \E i \in 1..MaxCalls : Begin(c, "lock", "bindings", i, "on") /\ Reviewed(i)
        \/ \E i \in 1..MaxCalls : Rewrite(c, "versions", i, "validated")
        \/ \E i \in 1..MaxCalls : Rewrite(c, "versions", i, "published")
        \/ \E i \in 1..MaxCalls, val \in {"on", "off"} : Rewrite(c, "bindings", i, val)
    BY <1>1 DEF SkillCall, CreateSkillDraft, BindSkillVersion, ValidateSkillVersion, PublishSkillVersion,
                SetSkillBindingEnabled, Reviewed
  <2> QED
    BY <2>1 DEF Requests, Rewrites, TableNames
<1>2. CASE ConnectorCall(c)
  <2>1. PICK k \in Connectors :
          \/ Begin(c, "lock", "connectors", k, "on")
          \/ \E val \in {"on", "off"} : Rewrite(c, "connectors", k, val)
          \/ \E val \in {"approved", "pending"} : Begin(c, "lock", "approvals", k, val)
          \/ ExecuteTool(c, k)
    BY <1>2 DEF ConnectorCall, CreateConnector, SetConnectorEnabled, SetToolApproval
  <2> QED
    BY <2>1 DEF Requests, Rewrites, TableNames
<1>3. CASE ModelCall(c)
  <2>1. PICK p \in Providers :
          \/ Begin(c, "lock", "providers", p, "on")
          \/ \E val \in {"on", "off"} : Begin(c, "lock", "enabling", p, val)
          \/ \E role \in Roles : Begin(c, "lock", "routes", role, p)
    BY <1>3 DEF ModelCall, CreateModelProvider, SetModelProviderEnabled, UpsertModelRoute
  <2> QED
    BY <2>1 DEF Requests, TableNames
<1> QED
  BY <1>1, <1>2, <1>3

LEMMA ControlStep ==
  ASSUME Control, NEW c \in Callers, OnlyOf(c), ControlOf(c)', DOMAIN held' = Callers,
         stored' = stored \/ Shape'
  PROVE  Control'
<1>1. \A d \in Callers \ {c} : ControlOf(d)'
  BY DEF Control, ControlOf, OnlyOf
<1> QED
  BY <1>1 DEF Control, Shape, OnlyOf

LEMMA InitControl == Init => Control
<1> SUFFICES ASSUME Init PROVE Control
  OBVIOUS
<1>1. ASSUME NEW c \in Callers PROVE ControlOf(c)
  <2>1. call[c] = Idle
    BY DEF Init
  <2> QED
    BY <2>1 DEF ControlOf, Idle, CallFields, ToolPCs, Steps
<1>2. Shape
  BY DEF Init, Shape
<1> QED
  BY <1>1, <1>2 DEF Control

LEMMA BeginControl ==
  ASSUME Control, NEW c \in Callers,
         Requests(c) \/ Rewrites(c)
           \/ \E k \in Connectors : ExecuteTool(c, k)
  PROVE  ControlOf(c)' /\ OnlyOf(c) /\ stored' = stored
<1> USE DEF Control, Shape, ControlOf, OnlyOf, CallFields, ToolPCs, Steps, Idle, tables
<1>1. CASE Requests(c)
  <2>1. PICK op \in TableNames \cup {"enabling"} : \E key, val : Begin(c, "lock", op, key, val)
    BY <1>1, Zenon DEF Requests
  <2>2. PICK key, val : Begin(c, "lock", op, key, val)
    BY <2>1
  <2> QED
    BY <2>2 DEF Begin, TableNames
<1>2. CASE Rewrites(c)
  <2>1. PICK t \in {"versions", "bindings", "connectors"} : \E i, val : Rewrite(c, t, i, val)
    BY <1>2 DEF Rewrites
  <2>2. PICK i, val : Rewrite(c, t, i, val)
    BY <2>1
  <2>3. t \in TableNames /\ i \in DOMAIN stored[t]
    BY <2>2 DEF Rewrite, TableNames
  <2> DEFINE row == [stored[t][i] EXCEPT !.val = val]
  <2>4. DOMAIN row = RowFields
    BY <2>3
  <2>5. call' = [call EXCEPT ![c] = [Idle EXCEPT !.pc = "save", !.n = made + 1, !.op = t, !.id = i,
                                                 !.row = row]]
        /\ stored' = stored
    BY <2>2 DEF Rewrite
  <2> HIDE DEF row
  <2> QED
    BY <2>3, <2>4, <2>5
<1>3. CASE \E k \in Connectors : ExecuteTool(c, k)
  <2>1. PICK k \in Connectors : Begin(c, "bindings", "tool", k, None)
    BY <1>3 DEF ExecuteTool
  <2> QED
    BY <2>1 DEF Begin
<1> QED
  BY <1>1, <1>2, <1>3

LEMMA ToolControl ==
  ASSUME Control, NEW c \in Callers,
         ReadBindings(c) \/ ReadVersions(c) \/ ReadApproval(c) \/ ReserveRun(c) \/ ReserveObservation(c)
           \/ SaveToolRun(c) \/ SaveToolEvent(c) \/ Execute(c) \/ SaveObservation(c) \/ CloseToolRun(c)
           \/ SaveFails(c)
  PROVE  ControlOf(c)' /\ OnlyOf(c) /\ stored' = stored
<1> USE DEF Control, Shape, ControlOf, OnlyOf, CallFields, ToolPCs, Steps, Idle, tables, Done
<1>1. CASE ReadBindings(c)
  BY <1>1 DEF ReadBindings
<1>2. CASE ReadVersions(c)
  <2>1. /\ call[c].pc = "versions" /\ stored' = stored
        /\ call' = [call EXCEPT ![c] = [@ EXCEPT !.pc = "approval", !.seen = {}]] \/ Done(c)
    BY <1>2, Zenon DEF ReadVersions, tables
  <2>2. CASE call' = [call EXCEPT ![c] = [@ EXCEPT !.pc = "approval", !.seen = {}]]
    BY <2>1, <2>2
  <2>3. CASE Done(c)
    BY <2>1, <2>3
  <2> QED
    BY <2>1, <2>2, <2>3
<1>3. CASE ReadApproval(c)
  <2>1. /\ call[c].pc = "approval" /\ stored' = stored
        /\ call' = [call EXCEPT ![c].pc = "run id"] \/ Done(c)
    BY <1>3, Zenon DEF ReadApproval, tables
  <2>2. CASE call' = [call EXCEPT ![c].pc = "run id"]
    BY <2>1, <2>2
  <2>3. CASE Done(c)
    BY <2>1, <2>3
  <2> QED
    BY <2>1, <2>2, <2>3
<1>4. CASE ReserveRun(c)
  BY <1>4 DEF ReserveRun
<1>5. CASE ReserveObservation(c)
  BY <1>5 DEF ReserveObservation, Writes
<1>6. CASE SaveToolRun(c) \/ SaveToolEvent(c) \/ SaveObservation(c) \/ CloseToolRun(c)
  <2>1. Continue(c) /\ call[c].pc \in Steps /\ stored' = stored
    BY <1>6 DEF SaveToolRun, SaveToolEvent, SaveObservation, CloseToolRun
  <2>2. Done(c) \/ \E pc \in Steps : call' = [call EXCEPT ![c].pc = pc]
    BY <2>1, Continues DEF After
  <2>3. CASE Done(c)
    BY <2>1, <2>3
  <2>4. ASSUME NEW pc \in Steps, call' = [call EXCEPT ![c].pc = pc] PROVE ControlOf(c)' /\ OnlyOf(c)
    BY <2>1, <2>4
  <2> QED
    BY <2>1, <2>2, <2>3, <2>4
<1>7. CASE Execute(c)
  <2>1. Writes[Position("execute") + 1] = "tool.ended"
    BY AfterExecute, Zenon
  <2>2. PICK result \in {"completed", "failed", "cancelled"} :
          call' = [call EXCEPT ![c] = [@ EXCEPT !.pc = "tool.ended", !.val = result]]
    BY <1>7, <2>1 DEF Execute
  <2>3. call[c].pc = "execute" /\ stored' = stored
    BY <1>7 DEF Execute
  <2> QED
    BY <2>2, <2>3
<1>8. CASE SaveFails(c)
  BY <1>8 DEF SaveFails
<1> QED
  BY <1>1, <1>2, <1>3, <1>4, <1>5, <1>6, <1>7, <1>8

(* A call that takes the lock.                                             *)
Queued(c, t, i, row) ==
  /\ DOMAIN row = RowFields
  /\ call' = [call EXCEPT ![c] = [call[c] EXCEPT !.pc = IF t = "versions" THEN "skill" ELSE "save",
                                                 !.op = t, !.id = i, !.row = row]]
LockId(t, k) ==
  IF t \in {"connectors", "providers"} THEN k
  ELSE IF t \in {"approvals", "routes"} /\ Known(t, k) THEN IdOf(t, k)
  ELSE NextId(t, DOMAIN stored[t])
LockRow(c, t) ==
  [key |-> call[c].key, val |-> call[c].val,
   by |-> IF LockId(t, call[c].key) \in DOMAIN stored[t] THEN stored[t][LockId(t, call[c].key)].by
          ELSE call[c].n]
Locked(op) == IF op = "enabling" THEN "providers" ELSE op
LocksAs(c, t) ==
  /\ lock' = c /\ LockedCheck(call[c].op, call[c].key, call[c].val)
  /\ Queued(c, t, LockId(t, call[c].key), LockRow(c, t))

LEMMA LockTakes ==
  ASSUME NEW c, Lock(c)
  PROVE  \/ Done(c) /\ lock' = lock
         \/ LocksAs(c, Locked(call[c].op))
<1> DEFINE t == Locked(call[c].op)
<1>1. DOMAIN LockRow(c, t) = RowFields
  BY DEF LockRow, RowFields
<1>2. CASE LockedCheck(call[c].op, call[c].key, call[c].val)
  <2>1. lock' = c
    BY <1>2, Zenon DEF Lock
  <2>2. call' = [call EXCEPT ![c] =
                  [call[c] EXCEPT !.pc = IF t = "versions" THEN "skill" ELSE "save", !.op = t,
                                  !.id = LockId(t, call[c].key), !.row = LockRow(c, t)]]
    BY <1>2, Zenon DEF Lock, LockId, LockRow, Locked
  <2> QED
    BY <1>1, <1>2, <2>1, <2>2, Zenon DEF LocksAs, Queued
<1>3. CASE ~LockedCheck(call[c].op, call[c].key, call[c].val)
  BY <1>3, Zenon DEF Lock
<1> QED
  BY <1>2, <1>3

LEMMA LockControl ==
  ASSUME Control, NEW c \in Callers, Lock(c) \/ SaveSkill(c)
  PROVE  ControlOf(c)' /\ OnlyOf(c) /\ stored' = stored
<1> USE DEF Control, Shape, ControlOf, OnlyOf, CallFields, RowFields, ToolPCs, Steps, Idle, tables, Done
<1>1. CASE Lock(c)
  <2>1. call[c].pc = "lock" /\ stored' = stored
    BY <1>1, Zenon DEF Lock, tables
  <2>2. CASE call' = [call EXCEPT ![c] = Idle]
    BY <2>1, <2>2
  <2>3. CASE call' # [call EXCEPT ![c] = Idle]
    <3>1. PICK t \in TableNames : LocksAs(c, t)
      <4>1. Locked(call[c].op) \in TableNames
        BY <2>1 DEF Locked, TableNames
      <4>2. LocksAs(c, Locked(call[c].op))
        BY <1>1, <2>3, LockTakes DEF Done
      <4> QED
        BY <4>1, <4>2
    <3>2. \E i : \E row : Queued(c, t, i, row)
      BY <3>1 DEF LocksAs
    <3>3. PICK i, row : Queued(c, t, i, row)
      BY <3>2
    <3> QED
      BY <2>1, <3>3 DEF Queued
  <2> QED
    BY <2>2, <2>3
<1>2. CASE SaveSkill(c)
  BY <1>2 DEF SaveSkill, TableNames
<1> QED
  BY <1>1, <1>2

LEMMA SaveControl ==
  ASSUME Control, NEW c \in Callers, Save(c)
  PROVE  ControlOf(c)' /\ OnlyOf(c) /\ (DOMAIN held' = Callers => Shape')
<1>1. /\ stored' = [stored EXCEPT ![call[c].op] = Put(stored[call[c].op], call[c].id, call[c].row)]
      /\ call' = [call EXCEPT ![c] = Idle] /\ call[c].pc = "save"
  BY DEF Save, Done
<1> USE DEF Control, Shape, ControlOf, OnlyOf, CallFields, RowFields, ToolPCs, Steps, Idle
<1>2. ControlOf(c)' /\ OnlyOf(c)
  BY <1>1
<1>3. call[c].op \in TableNames /\ DOMAIN call[c].row = RowFields
  BY <1>1
<1>4. DOMAIN stored' = TableNames /\ DOMAIN call' = Callers
  BY <1>1
<1>5. ASSUME NEW t \in TableNames, NEW i \in DOMAIN stored'[t] PROVE DOMAIN stored'[t][i] = RowFields
  BY <1>1, <1>3 DEF Put
<1> QED
  BY <1>2, <1>4, <1>5

LEMMA NextControl == Control /\ [Next]_vars => Control'
<1> SUFFICES ASSUME Control, [Next]_vars PROVE Control'
  OBVIOUS
<1>1. CASE UNCHANGED vars
  BY <1>1 DEF vars, Control, Shape, ControlOf
<1>2. CASE Next
  <2>1. DOMAIN held' = Callers
    BY <1>2 DEF Next, History
  <2>2. PICK c \in Callers : SkillCall(c) \/ ConnectorCall(c) \/ ModelCall(c) \/ Running(c) \/ SaveFails(c)
    BY <1>2 DEF Next
  <2>3. CASE SkillCall(c) \/ ConnectorCall(c) \/ ModelCall(c)
    BY <2>1, <2>3, CallsBegin, BeginControl, ControlStep
  <2>4. CASE Save(c)
    BY <2>1, <2>4, SaveControl, ControlStep
  <2>5. CASE (Running(c) /\ ~Save(c)) \/ SaveFails(c)
    BY <2>1, <2>5, ToolControl, LockControl, ControlStep DEF Running
  <2> QED
    BY <2>2, <2>3, <2>4, <2>5
<1> QED
  BY <1>1, <1>2

-----------------------------------------------------------------------------
(* What a step changes besides its call and the tables.                    *)
Others(c) ==
  /\ \A d \in Callers \ {c} : lock = d => lock' = d
  /\ \A x \in reserved' : x \in reserved \/ x[1] \in {"runs", "observed"}

LEMMA StepsOthers ==
  ASSUME NEW c \in Callers,
         SkillCall(c) \/ ConnectorCall(c) \/ ModelCall(c) \/ Running(c) \/ SaveFails(c)
  PROVE  Others(c)
<1> USE ServicesAssumption
<1>1. CASE SkillCall(c) \/ ConnectorCall(c) \/ ModelCall(c)
  <2>1. \/ Requests(c)
        \/ Rewrites(c)
        \/ \E k \in Connectors : ExecuteTool(c, k)
    BY <1>1, CallsBegin
  <2>2. lock' = lock /\ reserved' = reserved
    BY <2>1 DEF Requests, Begin, Rewrites, Rewrite, ExecuteTool
  <2> QED
    BY <2>2 DEF Others
<1>2. CASE Lock(c)
  <2>1. lock = None /\ reserved' = reserved
    BY <1>2, Zenon DEF Lock
  <2> QED
    BY <2>1 DEF Others
<1>3. CASE SaveSkill(c) \/ ReadBindings(c) \/ Execute(c)
  BY <1>3 DEF SaveSkill, ReadBindings, Execute, Others
<1>4. CASE ReadVersions(c)
  <2>1. lock' = lock /\ reserved' = reserved
    BY <1>4, Zenon DEF ReadVersions
  <2> QED
    BY <2>1 DEF Others
<1>5. CASE ReadApproval(c)
  <2>1. lock' = lock /\ reserved' = reserved
    BY <1>5, Zenon DEF ReadApproval
  <2> QED
    BY <2>1 DEF Others
<1>6. CASE Save(c)
  <2>1. reserved' = reserved /\ Unlock(c)
    BY <1>6, Zenon DEF Save
  <2> QED
    BY <2>1 DEF Others, Unlock
<1>7. CASE SaveFails(c)
  <2>1. Release(c) /\ Unlock(c)
    BY <1>7, Zenon DEF SaveFails
  <2> QED
    BY <2>1 DEF Others, Unlock, Release
<1>8. CASE ReserveRun(c)
  <2>1. \E i : reserved' = reserved \cup {<<"runs", i>>}
    BY <1>8, Zenon DEF ReserveRun
  <2>2. lock' = lock
    BY <1>8, Zenon DEF ReserveRun
  <2> QED
    BY <2>1, <2>2 DEF Others
<1>9. CASE ReserveObservation(c)
  <2>1. \E i : reserved' = reserved \cup {<<"observed", i>>}
    BY <1>9, Zenon DEF ReserveObservation
  <2>2. lock' = lock
    BY <1>9, Zenon DEF ReserveObservation
  <2> QED
    BY <2>1, <2>2 DEF Others
<1>10. CASE SaveToolRun(c) \/ SaveToolEvent(c) \/ SaveObservation(c) \/ CloseToolRun(c)
  <2>1. Continue(c) /\ lock' = lock /\ call[c].pc \in Steps
    BY <1>10 DEF SaveToolRun, SaveToolEvent, SaveObservation, CloseToolRun, Steps
  <2>2. Release(c) \/ reserved' = reserved
    BY <2>1, Continues
  <2> QED
    BY <2>1, <2>2 DEF Others, Release
<1> QED
  BY <1>1, <1>2, <1>3, <1>4, <1>5, <1>6, <1>7, <1>8, <1>9, <1>10 DEF Running

LEMMA OnlySaveWrites ==
  ASSUME NEW c \in Callers, Control, ~Save(c),
         SkillCall(c) \/ ConnectorCall(c) \/ ModelCall(c) \/ Running(c) \/ SaveFails(c)
  PROVE  stored' = stored /\ ControlOf(c)' /\ OnlyOf(c)
  BY CallsBegin, BeginControl, ToolControl, LockControl DEF Running

-----------------------------------------------------------------------------
(* The tables: keys are unique; what is bound has been reviewed.  A save   *)
(* under way writes a record that exists, of the same key, or its call has *)
(* the lock and the record is new.                                         *)
Keyed == {"connectors", "providers"}
Numbered == TableNames \ Keyed

TableInv ==
  /\ \A x \in reserved : x[1] \in {"runs", "observed"}
  /\ \A t \in Keyed : \A i \in DOMAIN stored[t] : stored[t][i].key = i
  /\ \A t \in Numbered : Bounded(DOMAIN stored[t])
  /\ NoTwins
  /\ \A i \in DOMAIN stored["bindings"] : Reviewed(stored["bindings"][i].key)

New(c) ==
  /\ lock = c /\ call[c].id \in Nat
  /\ call[c].id \notin DOMAIN stored[call[c].op]
  /\ ~Known(call[c].op, call[c].row.key)
Again(c) ==
  /\ call[c].id \in DOMAIN stored[call[c].op]
  /\ call[c].row.key = stored[call[c].op][call[c].id].key
  /\ call[c].op = "versions" => call[c].row.val \in {"validated", "published"}

SaveInv(c) ==
  /\ call[c].pc = "lock" /\ call[c].op = "bindings" => Reviewed(call[c].key)
  /\ call[c].pc \in {"skill", "save"} =>
       /\ call[c].op = "bindings" => Reviewed(call[c].row.key)
       /\ call[c].op \in Keyed => call[c].row.key = call[c].id
       /\ call[c].op \in Numbered => New(c) \/ Again(c)

Safe == Control /\ TableInv /\ \A c \in Callers : SaveInv(c)

LEMMA InitSafe == Init => Safe
<1> SUFFICES ASSUME Init PROVE Safe
  OBVIOUS
<1>1. Control
  BY InitControl
<1>2. \A t \in TableNames : DOMAIN stored[t] = {}
  BY DEF Init
<1>3. TableInv
  BY <1>2 DEF Init, TableInv, Numbered, Keyed, TableNames, NoTwins, Bounded
<1>4. ASSUME NEW c \in Callers PROVE SaveInv(c)
  BY DEF Init, Idle, SaveInv
<1> QED
  BY <1>1, <1>3, <1>4 DEF Safe

(* A call that has not moved, while the tables are what they were.         *)
LEMMA OtherCalls ==
  ASSUME Safe, NEW c \in Callers, OnlyOf(c), Others(c), stored' = stored, SaveInv(c)', Control'
  PROVE  Safe'
<1>1. TableInv'
  BY DEF Safe, TableInv, Others, NoTwins, Reviewed
<1>2. ASSUME NEW d \in Callers \ {c} PROVE SaveInv(d)'
  <2>1. call'[d] = call[d] /\ SaveInv(d)
    BY DEF OnlyOf, Safe
  <2>2. lock = d => lock' = d
    BY DEF Others
  <2> QED
    BY <2>1, <2>2 DEF SaveInv, New, Again, Reviewed, Known, Rows
<1> QED
  BY <1>1, <1>2 DEF Safe

LEMMA BeginSafe ==
  ASSUME Safe, NEW c \in Callers, SkillCall(c) \/ ConnectorCall(c) \/ ModelCall(c),
         Control', stored' = stored
  PROVE  SaveInv(c)'
<1> USE DEF Safe, Control, Shape, ControlOf, CallFields, Idle
<1>1. CASE Requests(c)
  <2>1. PICK op \in TableNames \cup {"enabling"} :
          \E key, val : Begin(c, "lock", op, key, val) /\ (op = "bindings" => Reviewed(key))
    BY <1>1, Zenon DEF Requests
  <2>2. PICK key, val : Begin(c, "lock", op, key, val) /\ (op = "bindings" => Reviewed(key))
    BY <2>1
  <2>3. call'[c].pc = "lock" /\ call'[c].op = op /\ call'[c].key = key
    BY <2>2 DEF Begin
  <2> QED
    BY <2>2, <2>3 DEF SaveInv, Reviewed
<1>2. CASE Rewrites(c)
  <2>1. PICK t \in {"versions", "bindings", "connectors"} :
          \E i, val : Rewrite(c, t, i, val) /\ (t = "versions" => val \in {"validated", "published"})
    BY <1>2 DEF Rewrites
  <2>2. PICK i, val : Rewrite(c, t, i, val) /\ (t = "versions" => val \in {"validated", "published"})
    BY <2>1
  <2>3. t \in TableNames /\ i \in DOMAIN stored[t] /\ DOMAIN stored[t][i] = RowFields
    BY <2>2 DEF Rewrite, TableNames
  <2> DEFINE row == [stored[t][i] EXCEPT !.val = val]
  <2>4. row.key = stored[t][i].key /\ row.val = val
    BY <2>3 DEF RowFields
  <2>5. call' = [call EXCEPT ![c] = [Idle EXCEPT !.pc = "save", !.n = made + 1, !.op = t, !.id = i,
                                                 !.row = row]]
    BY <2>2 DEF Rewrite
  <2> HIDE DEF row
  <2>6. call'[c].pc = "save" /\ call'[c].op = t /\ call'[c].id = i /\ call'[c].row = row
    BY <2>5
  <2>7. t \in Keyed => row.key = i
    BY <2>3, <2>4 DEF TableInv
  <2>8. t = "bindings" => Reviewed(row.key)
    BY <2>3, <2>4 DEF TableInv
  <2>9. Again(c)'
    BY <2>2, <2>3, <2>4, <2>6 DEF Again
  <2> QED
    BY <2>6, <2>7, <2>8, <2>9 DEF SaveInv, Reviewed
<1>3. CASE \E k \in Connectors : ExecuteTool(c, k)
  <2>1. PICK k \in Connectors : Begin(c, "bindings", "tool", k, None)
    BY <1>3 DEF ExecuteTool
  <2>2. call'[c].pc = "bindings"
    BY <2>1 DEF Begin
  <2> QED
    BY <2>2 DEF SaveInv
<1> QED
  BY <1>1, <1>2, <1>3, CallsBegin

(* What the lock checks and chooses.                                       *)
LEMMA LockSafe ==
  ASSUME Safe, NEW c \in Callers, Lock(c), Control', stored' = stored
  PROVE  SaveInv(c)'
<1> USE DEF Safe, Control, Shape, ControlOf, CallFields, Idle
<1>1. call[c].pc = "lock"
  BY DEF Lock
<1> DEFINE t == Locked(call[c].op)
           k == call[c].key
<1>2. t \in TableNames
  BY <1>1 DEF Locked, TableNames
<1>3. CASE Done(c)
  BY <1>3 DEF Done, SaveInv
<1>4. CASE LocksAs(c, t)
  <2>1. /\ lock' = c /\ LockedCheck(call[c].op, k, call[c].val)
        /\ call' = [call EXCEPT ![c] =
             [call[c] EXCEPT !.pc = IF t = "versions" THEN "skill" ELSE "save", !.op = t,
                             !.id = LockId(t, k), !.row = LockRow(c, t)]]
    BY <1>4, Zenon DEF LocksAs, Queued
  <2>2. /\ call'[c].pc \in {"skill", "save"} /\ call'[c].op = t
        /\ call'[c].id = LockId(t, k) /\ call'[c].row = LockRow(c, t)
    BY <2>1
  <2>3. LockRow(c, t).key = k
    BY DEF LockRow
  <2>4. t = "bindings" => Reviewed(k)
    BY <1>1 DEF SaveInv, Locked
  <2>5. t \in Keyed => LockId(t, k) = k
    BY DEF LockId, Keyed
  <2>6. ASSUME t \in Numbered PROVE New(c)' \/ Again(c)'
    <3>1. CASE t \in {"approvals", "routes"} /\ Known(t, k)
      <4>1. \E i \in DOMAIN stored[t] : stored[t][i].key = k
        BY <3>1 DEF Known, Rows
      <4>2. IdOf(t, k) \in DOMAIN stored[t] /\ stored[t][IdOf(t, k)].key = k
        BY <4>1 DEF IdOf
      <4>3. LockId(t, k) = IdOf(t, k) /\ t # "versions"
        BY <3>1, <2>6 DEF LockId, Numbered, Keyed
      <4> QED
        BY <4>2, <4>3, <2>2, <2>3 DEF Again
    <3>2. CASE ~(t \in {"approvals", "routes"} /\ Known(t, k))
      <4>1. ~Known(t, k)
        <5>1. call[c].op = t /\ t \in {"versions", "bindings", "approvals", "routes"}
          BY <1>2, <2>6 DEF Locked, Numbered, Keyed, TableNames
        <5>2. t \in {"versions", "bindings"} => ~Known(call[c].op, k)
          BY <2>1, <5>1 DEF LockedCheck
        <5> QED
          BY <5>1, <5>2, <3>2
      <4>2. LockId(t, k) = NextId(t, DOMAIN stored[t])
        BY <3>2, <2>6 DEF LockId, Numbered, Keyed
      <4>3. ReservedIds(t) = {}
        BY <1>2 DEF TableInv, ReservedIds, TableNames
      <4>4. Bounded(DOMAIN stored[t] \cup ReservedIds(t))
        BY <2>6, <4>3 DEF TableInv
      <4>5. LockId(t, k) \in Nat /\ LockId(t, k) \notin DOMAIN stored[t]
        BY <4>2, <4>4, NextIdIsFree
      <4> QED
        BY <4>1, <4>5, <2>1, <2>2, <2>3 DEF New, Known, Rows
    <3> QED
      BY <3>1, <3>2
  <2> QED
    BY <2>2, <2>3, <2>4, <2>5, <2>6 DEF SaveInv, Reviewed
<1> QED
  BY <1>3, <1>4, LockTakes

(* A save keeps the keys of the records that are there, and leaves a       *)
(* reviewed version reviewed.                                              *)
Kept ==
  \A t \in TableNames : \A i \in DOMAIN stored[t] :
    /\ i \in DOMAIN stored'[t] /\ stored'[t][i].key = stored[t][i].key
    /\ t = "versions" /\ Reviewed(i) => Reviewed(i)'

LEMMA SaveKeeps ==
  ASSUME Safe, NEW c \in Callers, Save(c)
  PROVE  LET t == call[c].op
             i == call[c].id
             row == call[c].row
         IN /\ t \in TableNames
            /\ \A u \in TableNames \ {t} : stored'[u] = stored[u]
            /\ DOMAIN stored'[t] = DOMAIN stored[t] \cup {i} /\ stored'[t][i] = row
            /\ \A j \in DOMAIN stored[t] \ {i} : stored'[t][j] = stored[t][j]
            /\ (t \in Numbered /\ New(c)) \/ (i \in DOMAIN stored[t] => row.key = stored[t][i].key)
            /\ Kept
<1> DEFINE t == call[c].op
           i == call[c].id
           row == call[c].row
<1>1. /\ stored' = [stored EXCEPT ![t] = Put(stored[t], i, row)]
      /\ call[c].pc = "save"
  BY DEF Save
<1>2. t \in TableNames /\ DOMAIN stored = TableNames
  BY <1>1 DEF Safe, Control, Shape, ControlOf
<1>3. /\ t \in Keyed => row.key = i
      /\ t \in Numbered => New(c) \/ Again(c)
  BY <1>1 DEF Safe, SaveInv
<1>4. TableInv
  BY DEF Safe
<1>5. t \in Numbered /\ New(c) => i \notin DOMAIN stored[t]
  BY DEF New
<1>6. /\ (t \in Numbered /\ New(c)) \/ (i \in DOMAIN stored[t] => row.key = stored[t][i].key)
      /\ i \in DOMAIN stored[t] => row.key = stored[t][i].key
      /\ i \in DOMAIN stored[t] /\ t = "versions" => row.val \in {"validated", "published"}
  <2>1. CASE t \in Keyed
    BY <1>2, <1>3, <1>4, <2>1 DEF TableInv, Keyed
  <2>2. CASE t \in Numbered
    BY <1>3, <1>5, <2>2 DEF Again
  <2> QED
    BY <1>2, <2>1, <2>2 DEF Numbered
<1> HIDE DEF t, i, row
<1>7. /\ \A u \in TableNames \ {t} : stored'[u] = stored[u]
      /\ DOMAIN stored'[t] = DOMAIN stored[t] \cup {i} /\ stored'[t][i] = row
      /\ \A j \in DOMAIN stored[t] \ {i} : stored'[t][j] = stored[t][j]
  BY <1>1, <1>2 DEF Put
<1>8. Kept
  <2> SUFFICES ASSUME NEW u \in TableNames, NEW j \in DOMAIN stored[u]
               PROVE  /\ j \in DOMAIN stored'[u] /\ stored'[u][j].key = stored[u][j].key
                      /\ u = "versions" /\ Reviewed(j) => Reviewed(j)'
    BY DEF Kept
  <2>1. CASE u # t
    BY <1>7, <2>1 DEF Reviewed
  <2>2. CASE u = t /\ j # i
    BY <1>7, <2>2 DEF Reviewed
  <2>3. CASE u = t /\ j = i
    BY <1>6, <1>7, <2>3 DEF Reviewed
  <2> QED
    BY <2>1, <2>2, <2>3
<1> QED
  BY <1>2, <1>6, <1>7, <1>8 DEF t, i, row

LEMMA SaveSafe ==
  ASSUME Safe, NEW c \in Callers, Save(c), Control', OnlyOf(c), Others(c)
  PROVE  Safe'
<1> DEFINE t == call[c].op
           i == call[c].id
           row == call[c].row
<1>1. /\ t \in TableNames
      /\ \A u \in TableNames \ {t} : stored'[u] = stored[u]
      /\ DOMAIN stored'[t] = DOMAIN stored[t] \cup {i} /\ stored'[t][i] = row
      /\ \A j \in DOMAIN stored[t] \ {i} : stored'[t][j] = stored[t][j]
      /\ (t \in Numbered /\ New(c)) \/ (i \in DOMAIN stored[t] => row.key = stored[t][i].key)
      /\ Kept
  BY SaveKeeps
<1>2. call[c].pc = "save" /\ call' = [call EXCEPT ![c] = Idle]
  BY DEF Save, Done
<1>3. TableInv /\ SaveInv(c)
  BY DEF Safe
<1>4. /\ t = "bindings" => Reviewed(row.key)
      /\ t \in Keyed => row.key = i
      /\ t \in Numbered => New(c) \/ (i \in DOMAIN stored[t] /\ row.key = stored[t][i].key)
      /\ New(c) => i \in Nat /\ lock = c /\ ~Known(t, row.key)
  BY <1>2, <1>3 DEF SaveInv, New, Again
<1>5. \A k : Reviewed(k) => Reviewed(k)'
  BY <1>1 DEF Kept, Reviewed, TableNames
<1> HIDE DEF t, i, row
<1>6. \A u \in Keyed : \A j \in DOMAIN stored'[u] : stored'[u][j].key = j
  BY <1>1, <1>3, <1>4 DEF TableInv, Keyed, TableNames
<1>7. ASSUME NEW u \in Numbered PROVE Bounded(DOMAIN stored'[u])
  <2>1. Bounded(DOMAIN stored[u]) /\ u \in TableNames
    BY <1>3 DEF TableInv, Numbered
  <2>2. CASE u # t
    BY <1>1, <2>1, <2>2
  <2>3. CASE u = t
    <3>1. i \in Nat
      BY <1>4, <2>1, <2>3 DEF Bounded
    <3> QED
      BY <1>1, <2>1, <2>3, <3>1, BoundedMore
  <2> QED
    BY <2>2, <2>3
<1>8. ASSUME NEW u \in TableNames, NEW j \in DOMAIN stored'[u], NEW k \in DOMAIN stored'[u],
             stored'[u][j].key = stored'[u][k].key
      PROVE  j = k
  <2>1. NoTwins
    BY <1>3 DEF TableInv
  <2>2. CASE u \in Keyed
    BY <1>6, <1>8, <2>2
  <2>3. CASE u # t
    BY <1>1, <1>8, <2>1, <2>3 DEF NoTwins
  <2>4. CASE u = t /\ t \in Numbered /\ i \in DOMAIN stored[t] /\ row.key = stored[t][i].key
    BY <1>1, <1>8, <2>1, <2>4 DEF NoTwins
  <2>5. CASE u = t /\ t \in Numbered /\ New(c)
    <3>1. \A x \in DOMAIN stored[t] : stored[t][x].key # row.key
      BY <1>4, <2>5 DEF Known, Rows
    <3> QED
      BY <1>1, <1>8, <2>1, <2>5, <3>1 DEF NoTwins
  <2> QED
    BY <1>4, <2>2, <2>3, <2>4, <2>5 DEF Numbered
<1>9. ASSUME NEW j \in DOMAIN stored'["bindings"], NEW k, k = stored'["bindings"][j].key
      PROVE  Reviewed(k)'
  <2>1. Reviewed(k)
    BY <1>1, <1>3, <1>4, <1>9 DEF TableInv, TableNames
  <2> QED
    BY <1>5, <2>1
<1>10. \A x \in reserved' : x[1] \in {"runs", "observed"}
  BY <1>3 DEF TableInv, Others
<1>11. TableInv'
  <2>1. \A j \in DOMAIN stored'["bindings"] : Reviewed(stored["bindings"][j].key)'
    BY <1>9 DEF Reviewed
  <2> QED
    BY <1>6, <1>7, <1>8, <1>10, <2>1 DEF TableInv, NoTwins
<1>12. ASSUME NEW d \in Callers PROVE SaveInv(d)'
  <2>1. CASE d = c
    <3>1. call'[c].pc = "idle"
      BY <1>2 DEF Safe, Control, Shape, Idle
    <3> QED
      BY <2>1, <3>1 DEF SaveInv
  <2>2. CASE d # c
    <3>1. call'[d] = call[d] /\ SaveInv(d) /\ ControlOf(d) /\ (lock = d => lock' = d)
      BY <2>2 DEF OnlyOf, Others, Safe, Control
    <3>2. ASSUME call[d].pc \in {"skill", "save"}, call[d].op \in Numbered, New(d) PROVE New(d)'
      <4>1. lock = d /\ lock # c /\ call[d].op \in TableNames
        BY <2>2, <3>2 DEF New, Numbered
      <4>2. CASE call[d].op # t
        BY <1>1, <3>1, <3>2, <4>1, <4>2 DEF New, Known, Rows
      <4>3. CASE call[d].op = t
        <5>1. i \in DOMAIN stored[t] /\ row.key = stored[t][i].key
          BY <1>4, <3>2, <4>1, <4>3
        <5>2. DOMAIN stored'[t] = DOMAIN stored[t]
              /\ \A x \in DOMAIN stored[t] : stored'[t][x].key = stored[t][x].key
          BY <1>1, <5>1
        <5> QED
          BY <3>1, <3>2, <4>3, <5>2 DEF New, Known, Rows
      <4> QED
        BY <4>2, <4>3
    <3>3. ASSUME call[d].pc \in {"skill", "save"}, call[d].op \in Numbered, Again(d) PROVE Again(d)'
      BY <1>1, <3>1, <3>3 DEF Again, Kept, Numbered
    <3> QED
      BY <1>5, <3>1, <3>2, <3>3 DEF SaveInv
  <2> QED
    BY <2>1, <2>2
<1> QED
  BY <1>11, <1>12 DEF Safe

-----------------------------------------------------------------------------
(* How a call of a tool goes on.                                           *)
Late == {"run id", "observation id"} \cup Steps
GoesOn(c) ==
  /\ call'[c].key = call[c].key /\ call[c].pc \in ToolPCs
  /\ \/ /\ call[c].pc = "bindings" /\ call'[c].pc = "versions"
        /\ call'[c].seen = {i \in DOMAIN stored["bindings"] : stored["bindings"][i].val = "on"}
     \/ /\ call[c].pc = "versions" /\ call'[c].pc = "approval"
        /\ RuntimeSkills(call[c].seen) \cap Granting # {}
     \/ call[c].pc = "approval" /\ call'[c].pc = "run id" /\ Approved(call[c].key)
     \/ call[c].pc \in Late /\ call'[c].pc \in Late

LEMMA ToolMoves ==
  ASSUME Control, NEW c \in Callers,
         ReadBindings(c) \/ ReadVersions(c) \/ ReadApproval(c) \/ ReserveRun(c) \/ ReserveObservation(c)
           \/ SaveToolRun(c) \/ SaveToolEvent(c) \/ Execute(c) \/ SaveObservation(c) \/ CloseToolRun(c)
           \/ SaveFails(c)
  PROVE  call'[c] = Idle \/ GoesOn(c)
<1> USE DEF Control, Shape, ControlOf, CallFields, ToolPCs, Steps, Late, Done, GoesOn
<1>1. CASE ReadBindings(c)
  BY <1>1 DEF ReadBindings
<1>2. CASE ReadVersions(c)
  <2>1. /\ call[c].pc = "versions"
        /\ \/ call' = [call EXCEPT ![c] = Idle]
           \/ /\ call' = [call EXCEPT ![c] = [@ EXCEPT !.pc = "approval", !.seen = {}]]
              /\ RuntimeSkills(call[c].seen) \cap Granting # {}
    BY <1>2, Zenon DEF ReadVersions, Done
  <2>2. CASE call' = [call EXCEPT ![c] = Idle]
    BY <2>2
  <2>3. CASE /\ call' = [call EXCEPT ![c] = [@ EXCEPT !.pc = "approval", !.seen = {}]]
             /\ RuntimeSkills(call[c].seen) \cap Granting # {}
    BY <2>1, <2>3
  <2> QED
    BY <2>1, <2>2, <2>3
<1>3. CASE ReadApproval(c)
  <2>1. /\ call[c].pc = "approval"
        /\ \/ call' = [call EXCEPT ![c] = Idle]
           \/ call' = [call EXCEPT ![c].pc = "run id"] /\ Approved(call[c].key)
    BY <1>3, Zenon DEF ReadApproval, Done
  <2>2. CASE call' = [call EXCEPT ![c] = Idle]
    BY <2>2
  <2>3. CASE call' = [call EXCEPT ![c].pc = "run id"] /\ Approved(call[c].key)
    BY <2>1, <2>3
  <2> QED
    BY <2>1, <2>2, <2>3
<1>4. CASE ReserveRun(c)
  BY <1>4 DEF ReserveRun
<1>5. CASE ReserveObservation(c)
  BY <1>5 DEF ReserveObservation, Writes
<1>6. CASE SaveToolRun(c) \/ SaveToolEvent(c) \/ SaveObservation(c) \/ CloseToolRun(c)
  <2>1. Continue(c) /\ call[c].pc \in Steps
    BY <1>6 DEF SaveToolRun, SaveToolEvent, SaveObservation, CloseToolRun
  <2>2. Done(c) \/ \E pc \in Steps : call' = [call EXCEPT ![c].pc = pc]
    BY <2>1, Continues DEF After
  <2>3. CASE Done(c)
    BY <2>1, <2>3
  <2>4. ASSUME NEW pc \in Steps, call' = [call EXCEPT ![c].pc = pc] PROVE GoesOn(c)
    BY <2>1, <2>4
  <2> QED
    BY <2>1, <2>2, <2>3, <2>4
<1>7. CASE Execute(c)
  <2>1. Writes[Position("execute") + 1] = "tool.ended"
    BY AfterExecute, Zenon
  <2>2. PICK result \in {"completed", "failed", "cancelled"} :
          call' = [call EXCEPT ![c] = [@ EXCEPT !.pc = "tool.ended", !.val = result]]
    BY <1>7, <2>1 DEF Execute
  <2>3. call[c].pc = "execute"
    BY <1>7 DEF Execute
  <2> QED
    BY <2>2, <2>3
<1>8. CASE SaveFails(c)
  BY <1>8 DEF SaveFails
<1> QED
  BY <1>1, <1>2, <1>3, <1>4, <1>5, <1>6, <1>7, <1>8

Step(c) == SkillCall(c) \/ ConnectorCall(c) \/ ModelCall(c) \/ Running(c) \/ SaveFails(c)

LEMMA StepSafe ==
  ASSUME Safe, NEW c \in Callers, Step(c), DOMAIN held' = Callers
  PROVE  Safe' /\ Kept /\ OnlyOf(c) /\ Others(c)
<1>1. Control /\ Others(c)
  BY StepsOthers DEF Step, Safe
<1>2. CASE Save(c)
  <2>1. OnlyOf(c) /\ Control'
    BY <1>1, <1>2, SaveControl, ControlStep
  <2> QED
    BY <1>1, <1>2, <2>1, SaveSafe, SaveKeeps
<1>3. CASE ~Save(c)
  <2>1. stored' = stored /\ OnlyOf(c) /\ Control'
    BY <1>1, <1>3, OnlySaveWrites, ControlStep DEF Step
  <2>2. Kept
    BY <2>1 DEF Kept, Reviewed
  <2>3. SaveInv(c)'
    <3>1. CASE SkillCall(c) \/ ConnectorCall(c) \/ ModelCall(c)
      BY <2>1, <3>1, BeginSafe
    <3>2. CASE Lock(c)
      BY <2>1, <3>2, LockSafe
    <3>3. CASE SaveSkill(c)
      <4>1. /\ call[c].pc = "skill" /\ lock' = lock
            /\ call' = [call EXCEPT ![c].pc = "save"]
        BY <3>3 DEF SaveSkill
      <4>2. SaveInv(c) /\ ControlOf(c)
        BY DEF Safe, Control
      <4>3. /\ call'[c].pc = "save" /\ call'[c].op = call[c].op /\ call'[c].id = call[c].id
            /\ call'[c].row = call[c].row
        BY <1>1, <4>1, <4>2 DEF Control, Shape, ControlOf, CallFields
      <4> QED
        BY <2>1, <4>1, <4>2, <4>3 DEF SaveInv, New, Again, Known, Rows, Reviewed
    <3>4. CASE call'[c].pc \notin {"lock", "skill", "save"}
      BY <3>4 DEF SaveInv
    <3>5. CASE (Running(c) /\ ~Lock(c) /\ ~SaveSkill(c)) \/ SaveFails(c)
      <4>1. call'[c].pc \notin {"lock", "skill", "save"}
        <5>1. call'[c] = Idle \/ GoesOn(c)
          BY <1>1, <1>3, <3>5, ToolMoves DEF Running
        <5> QED
          <6>1. GoesOn(c) => call'[c].pc \in {"versions", "approval", "run id"} \/ call'[c].pc \in Late
            BY Zenon DEF GoesOn
          <6>2. Idle.pc = "idle"
            BY DEF Idle
          <6> QED
            BY <5>1, <6>1, <6>2 DEF Late, Steps
      <4> QED
        BY <3>4, <4>1
    <3> QED
      BY <3>1, <3>2, <3>3, <3>5 DEF Step
  <2> QED
    BY <1>1, <2>1, <2>2, <2>3, OtherCalls
<1> QED
  BY <1>2, <1>3

LEMMA NextSafe == Safe /\ [Next]_vars => Safe'
<1> SUFFICES ASSUME Safe, [Next]_vars PROVE Safe'
  OBVIOUS
<1>1. CASE UNCHANGED vars
  BY <1>1 DEF vars, Safe, Control, Shape, ControlOf, TableInv, NoTwins, SaveInv, New, Again, Known, Rows,
              Reviewed
<1>2. CASE Next
  <2>1. DOMAIN held' = Callers
    BY <1>2 DEF Next, History
  <2>2. PICK c \in Callers : Step(c)
    BY <1>2 DEF Next, Step
  <2> QED
    BY <2>1, <2>2, StepSafe
<1> QED
  BY <1>1, <1>2

(* A version has one binding, a role one route, a tool one approval and a  *)
(* skill one record per version number, for any number of calls.           *)
THEOREM KeysAreUnique == Spec => []NoTwins
<1>1. Safe => NoTwins
  BY DEF Safe, TableInv
<1> QED
  BY <1>1, InitSafe, NextSafe, PTL DEF Spec

(* A version that is bound has been reviewed.                              *)
THEOREM BindingsReviewed == Spec => []BoundReviewed
<1>1. Safe => BoundReviewed
  BY DEF Safe, TableInv, BoundReviewed, Rows, Reviewed
<1> QED
  BY <1>1, InitSafe, NextSafe, PTL DEF Spec

-----------------------------------------------------------------------------
(* What a call of a tool has seen.                                         *)
BoundTo(i) == stored["versions"][stored["bindings"][i].key].key
HeldInv(c) ==
  /\ call[c].pc \in ToolPCs => <<"enabled", call[c].key>> \in held[c]
  /\ call[c].pc = "versions" =>
       \A i \in call[c].seen : i \in DOMAIN stored["bindings"] /\ <<"bound", BoundTo(i)>> \in held[c]
  /\ call[c].pc \in {"approval"} \cup Late =>
       \E m \in Granting : <<"published", m>> \in held[c] /\ <<"bound", m>> \in held[c]
  /\ call[c].pc \in Late => <<"approved", call[c].key>> \in held[c]

HeldSafe == Safe /\ \A c \in Callers : HeldInv(c)

(* The bindings that are there keep their version, and it its manifest.    *)
LEMMA BoundKept ==
  ASSUME Safe, Kept, NEW i \in DOMAIN stored["bindings"]
  PROVE  i \in DOMAIN stored'["bindings"] /\ BoundTo(i)' = BoundTo(i)
<1>1. stored["bindings"][i].key \in DOMAIN stored["versions"]
  BY DEF Safe, TableInv, Reviewed
<1> QED
  BY <1>1 DEF Kept, BoundTo, TableNames

LEMMA HistoryGrows ==
  ASSUME History, NEW c \in Callers, call'[c].op = "tool"
  PROVE  /\ call[c].op # "tool" => held'[c] = Facts(call'[c].key)
         /\ call[c].op = "tool" => held'[c] = held[c] \cup Facts(call[c].key)
  BY Zenon DEF History

LEMMA LockEnds ==
  ASSUME Control, NEW c \in Callers, Lock(c) \/ SaveSkill(c) \/ Save(c)
  PROVE  call'[c].pc \in {"idle", "skill", "save"}
<1>1. CASE Lock(c)
  <2>1. CASE Done(c)
    BY <2>1 DEF Done, Control, Shape, Idle
  <2>2. CASE \E t : LocksAs(c, t)
    <3>1. \E t, i, row : Queued(c, t, i, row)
      BY <2>2, Zenon DEF LocksAs
    <3> QED
      BY <3>1 DEF Queued, Control, Shape, ControlOf, CallFields
  <2> QED
    BY <1>1, <2>1, <2>2, LockTakes
<1>2. CASE SaveSkill(c)
  BY <1>2 DEF SaveSkill, Control, Shape, ControlOf, CallFields
<1>3. CASE Save(c)
  <2>1. Done(c)
    BY <1>3, Zenon DEF Save
  <2> QED
    BY <2>1 DEF Done, Control, Shape, Idle
<1> QED
  BY <1>1, <1>2, <1>3

LEMMA HeldStep ==
  ASSUME HeldSafe, NEW c \in Callers, Step(c), History, DOMAIN held' = Callers
  PROVE  HeldSafe'
<1>1. Safe' /\ Kept /\ OnlyOf(c)
  BY StepSafe DEF HeldSafe
<1>2. Control /\ Control' /\ Safe
  BY <1>1 DEF Safe, HeldSafe
<1>3. ASSUME NEW d \in Callers, call'[d].pc \in ToolPCs, call[d].pc \in ToolPCs
      PROVE  held'[d] = held[d] \cup Facts(call[d].key)
  BY <1>2, <1>3, HistoryGrows DEF Control, ControlOf
<1>4. ASSUME NEW d \in Callers \ {c} PROVE HeldInv(d)'
  <2>1. call'[d] = call[d] /\ HeldInv(d)
    BY <1>1 DEF OnlyOf, HeldSafe
  <2>2. CASE call[d].pc \notin ToolPCs
    BY <2>1, <2>2 DEF HeldInv, ToolPCs, Late
  <2>3. CASE call[d].pc \in ToolPCs
    <3>1. held[d] \subseteq held'[d]
      BY <1>3, <2>1, <2>3
    <3>2. \A i \in DOMAIN stored["bindings"] : i \in DOMAIN stored'["bindings"] /\ BoundTo(i)' = BoundTo(i)
      BY <1>1, <1>2, BoundKept
    <3> QED
      BY <2>1, <3>1, <3>2 DEF HeldInv
  <2> QED
    BY <2>2, <2>3
<1>5. HeldInv(c)'
  <2>1. CASE call'[c].pc \notin ToolPCs
    BY <2>1 DEF HeldInv, ToolPCs, Late
  <2>2. CASE call'[c].pc \in ToolPCs /\ (SkillCall(c) \/ ConnectorCall(c) \/ ModelCall(c))
    <3>1. \E k \in Connectors : ExecuteTool(c, k)
      <4>1. CASE Requests(c)
        <5>1. \E op, key, val : Begin(c, "lock", op, key, val)
          BY <4>1, Zenon DEF Requests
        <5>2. call'[c].pc = "lock"
          BY <5>1, <1>2 DEF Begin, Control, Shape, Idle
        <5> QED
          BY <2>2, <5>2 DEF ToolPCs, Steps
      <4>2. CASE Rewrites(c)
        <5>1. \E t : \E i, val : Rewrite(c, t, i, val)
          BY <4>2, Zenon DEF Rewrites
        <5>2. call'[c].pc = "save"
          BY <5>1, <1>2 DEF Rewrite, Control, Shape, Idle
        <5> QED
          BY <2>2, <5>2 DEF ToolPCs, Steps
      <4> QED
        BY <2>2, <4>1, <4>2, CallsBegin
    <3>2. PICK k \in Connectors : ExecuteTool(c, k)
      BY <3>1
    <3>3. /\ call[c].pc = "idle"
          /\ call' = [call EXCEPT ![c] = [Idle EXCEPT !.pc = "bindings", !.n = made + 1, !.op = "tool",
                                                     !.key = k, !.val = None]]
          /\ Known("connectors", k) /\ Val("connectors", k) = "on"
      BY <3>2, Zenon DEF ExecuteTool, Begin
    <3>4. call'[c].pc = "bindings" /\ call'[c].key = k /\ call'[c].op = "tool"
      BY <1>2, <3>3 DEF Control, Shape, Idle
    <3>5. call[c].op # "tool"
      BY <1>2, <3>3, ServicesAssumption DEF Control, ControlOf
    <3>6. held'[c] = Facts(k)
      BY <3>4, <3>5, HistoryGrows
    <3>7. <<"enabled", k>> \in Facts(k)
      BY <3>3 DEF Facts
    <3> QED
      BY <3>4, <3>6, <3>7 DEF HeldInv, Late, Steps
  <2>3. CASE GoesOn(c) /\ call'[c].pc \in ToolPCs
    <3> DEFINE k == call[c].key
    <3>1. /\ call[c].pc \in ToolPCs /\ call'[c].key = k /\ HeldInv(c)
          /\ held'[c] = held[c] \cup Facts(k)
      BY <1>3, <2>3 DEF GoesOn, HeldSafe
    <3>2. <<"enabled", k>> \in held'[c]
      BY <3>1 DEF HeldInv
    <3>3. CASE /\ call[c].pc = "bindings" /\ call'[c].pc = "versions"
               /\ call'[c].seen = {i \in DOMAIN stored["bindings"] : stored["bindings"][i].val = "on"}
      <4>1. ASSUME NEW i \in DOMAIN stored["bindings"], stored["bindings"][i].val = "on"
            PROVE  <<"bound", BoundTo(i)>> \in Facts(k)
        BY <4>1 DEF Facts, BoundTo, Rows
      <4>2. \A i \in call'[c].seen :
              i \in DOMAIN stored'["bindings"] /\ <<"bound", BoundTo(i)'>> \in held'[c]
        BY <1>1, <1>2, <3>1, <3>3, <4>1, BoundKept
      <4> QED
        BY <3>1, <3>2, <3>3, <4>2 DEF HeldInv, Late, Steps
    <3>4. CASE /\ call[c].pc = "versions" /\ call'[c].pc = "approval"
               /\ RuntimeSkills(call[c].seen) \cap Granting # {}
      <4>1. PICK m \in Granting : m \in RuntimeSkills(call[c].seen)
        BY <3>4
      <4>2. PICK i \in call[c].seen : /\ stored["versions"][stored["bindings"][i].key].val = "published"
                                      /\ BoundTo(i) = m
        BY <4>1 DEF RuntimeSkills, BoundTo
      <4>3. i \in DOMAIN stored["bindings"] /\ <<"bound", m>> \in held[c]
        BY <3>1, <3>4, <4>2 DEF HeldInv
      <4>4. stored["versions"][stored["bindings"][i].key] \in Rows("versions")
        BY <1>2, <4>3 DEF Safe, TableInv, Reviewed, Rows
      <4>5. <<"published", m>> \in Facts(k)
        BY <4>2, <4>4 DEF Facts, BoundTo
      <4> QED
        BY <3>1, <3>2, <3>4, <4>3, <4>5 DEF HeldInv, Late, Steps
    <3>5. CASE call[c].pc = "approval" /\ call'[c].pc = "run id" /\ Approved(k)
      <4>1. \E r \in Rows("approvals") : r.key = k /\ r.val = "approved"
        <5>1. \E i \in DOMAIN stored["approvals"] : stored["approvals"][i].key = k
          BY <3>5 DEF Approved, Known, Rows
        <5>2. IdOf("approvals", k) \in DOMAIN stored["approvals"]
              /\ stored["approvals"][IdOf("approvals", k)].key = k
          BY <5>1 DEF IdOf
        <5> QED
          BY <3>5, <5>2 DEF Approved, Val, Rows
      <4>2. <<"approved", k>> \in Facts(k)
        BY <4>1 DEF Facts
      <4> QED
        BY <3>1, <3>2, <3>5, <4>2 DEF HeldInv, Late, Steps
    <3>6. CASE call[c].pc \in Late /\ call'[c].pc \in Late
      BY <3>1, <3>2, <3>6 DEF HeldInv, Late, Steps
    <3> QED
      BY <2>3, <3>3, <3>4, <3>5, <3>6, Zenon DEF GoesOn
  <2>4. CASE (Running(c) \/ SaveFails(c)) /\ ~GoesOn(c)
    <3>1. CASE Lock(c) \/ SaveSkill(c) \/ Save(c)
      <4>1. call'[c].pc \in {"idle", "skill", "save"}
        BY <1>2, <3>1, LockEnds
      <4> QED
        BY <2>1, <4>1 DEF ToolPCs, Steps
    <3>2. CASE ~(Lock(c) \/ SaveSkill(c) \/ Save(c))
      <4>1. call'[c] = Idle
        BY <1>2, <2>4, <3>2, ToolMoves DEF Running
      <4> QED
        BY <2>1, <4>1 DEF Idle, ToolPCs, Steps
    <3> QED
      BY <3>1, <3>2
  <2> QED
    BY <2>1, <2>2, <2>3, <2>4 DEF Step
<1> QED
  BY <1>1, <1>4, <1>5 DEF HeldSafe

LEMMA InitHeld == Init => HeldSafe
<1> SUFFICES ASSUME Init PROVE HeldSafe
  OBVIOUS
<1>1. ASSUME NEW c \in Callers PROVE HeldInv(c)
  BY DEF Init, Idle, HeldInv, ToolPCs, Late, Steps
<1> QED
  BY <1>1, InitSafe DEF HeldSafe

LEMMA NextHeld == HeldSafe /\ [Next]_vars => HeldSafe'
<1> SUFFICES ASSUME HeldSafe, [Next]_vars PROVE HeldSafe'
  OBVIOUS
<1>1. CASE UNCHANGED vars
  <2>1. Safe'
    BY <1>1, NextSafe DEF HeldSafe
  <2> QED
    BY <1>1, <2>1 DEF vars, HeldSafe, HeldInv, BoundTo
<1>2. CASE Next
  <2>1. DOMAIN held' = Callers /\ History
    BY <1>2 DEF Next, History
  <2>2. PICK c \in Callers : Step(c)
    BY <1>2 DEF Next, Step
  <2> QED
    BY <2>1, <2>2, HeldStep
<1> QED
  BY <1>1, <1>2

(* A tool runs only if its connector was enabled, it was approved and a    *)
(* skill version with its permission was published and was bound, each at  *)
(* some time during the call.                                              *)
THEOREM ToolsAreAllowed == Spec => []ToolAllowed
<1>1. HeldSafe => ToolAllowed
  BY DEF HeldSafe, HeldInv, ToolAllowed, ToolPCs, Late, Steps
<1> QED
  BY <1>1, InitHeld, NextHeld, PTL DEF Spec

-----------------------------------------------------------------------------
(* What is on record of a tool call at each of its saves.                  *)
RunPCs == {"observation id"} \cup Steps
EndingPCs == {"tool.ended", "run.ended", "observation", "run.closed"}
Results == {"completed", "failed", "cancelled"}
RunFields == {"by", "state", "events"}

OnRecord(pc, val) ==
  CASE pc = "tool.started" -> <<<<"run.started", None>>>>
    [] pc \in {"execute", "tool.ended"} -> <<<<"run.started", None>>, <<"tool.started", None>>>>
    [] pc = "run.ended" -> <<<<"run.started", None>>, <<"tool.started", None>>,
                             <<"tool.ended", Ended(val)>>>>
    [] pc \in {"observation", "run.closed"} ->
         <<<<"run.started", None>>, <<"tool.started", None>>, <<"tool.ended", Ended(val)>>,
           <<"run.ended", Ended(val)>>>>
    [] OTHER -> <<>>

RecordInv(c) ==
  LET pc == call[c].pc
      i == call[c].id
      o == call[c].obs
      val == call[c].val
  IN /\ pc \in ToolPCs \ EndingPCs => val = None
     /\ pc \in EndingPCs => val \in Results
     /\ pc \in RunPCs => <<"runs", i>> \in reserved
     /\ pc \in Steps => <<"observed", o>> \in reserved
     /\ pc \in Steps \ {"run.saved"} =>
          i \in DOMAIN runs /\ runs[i].state = "running" /\ runs[i].events = OnRecord(pc, val)
     /\ pc \in Steps \ {"run.closed"} => o \notin DOMAIN observed
     /\ pc = "run.closed" => o \in DOMAIN observed /\ observed[o].run = i /\ observed[o].state = val

(* Calls under way have run and observation ids of their own.              *)
Apart ==
  \A c, d \in Callers : c # d =>
    /\ call[c].pc \in RunPCs /\ call[d].pc \in RunPCs => call[c].id # call[d].id
    /\ call[c].pc \in Steps /\ call[d].pc \in Steps => call[c].obs # call[d].obs

IdsBounded ==
  /\ Bounded(DOMAIN runs \cup ReservedIds("runs"))
  /\ Bounded(DOMAIN observed \cup ReservedIds("observed"))

EvidenceInv ==
  /\ Control /\ Apart /\ IdsBounded /\ EvidenceFirst
  /\ \A i \in DOMAIN runs : DOMAIN runs[i] = RunFields
  /\ \A c \in Callers : RecordInv(c)

LEMMA InitEvidence == Init => EvidenceInv
<1> SUFFICES ASSUME Init PROVE EvidenceInv
  OBVIOUS
<1>1. DOMAIN runs = {} /\ DOMAIN observed = {} /\ \A t : ReservedIds(t) = {}
  BY DEF Init, ReservedIds
<1>2. \A c \in Callers : call[c].pc = "idle"
  BY DEF Init, Idle
<1>3. Apart /\ \A c \in Callers : RecordInv(c)
  BY <1>2 DEF Apart, RecordInv, RunPCs, ToolPCs, EndingPCs, Steps
<1>4. IdsBounded
  BY <1>1 DEF IdsBounded, Bounded
<1> QED
  BY <1>1, <1>3, <1>4, InitControl DEF EvidenceInv, EvidenceFirst

(* What a step of the call c may do to the records and the ids.            *)
OwnRecords(c) ==
  /\ \A i \in DOMAIN runs : /\ i \in DOMAIN runs'
                           /\ (runs'[i] = runs[i] \/ (call[c].pc \in RunPCs /\ i = call[c].id))
  /\ \A i \in DOMAIN runs' \ DOMAIN runs : call[c].pc \in RunPCs /\ i = call[c].id
  /\ \A o \in DOMAIN observed : o \in DOMAIN observed' /\ observed'[o] = observed[o]
  /\ \A o \in DOMAIN observed' \ DOMAIN observed : call[c].pc \in Steps /\ o = call[c].obs
  /\ \A x \in reserved \ reserved' :
       call[c].pc \in Steps /\ x \in {<<"runs", call[c].id>>, <<"observed", call[c].obs>>}

LEMMA RecordsOfOthers ==
  ASSUME EvidenceInv, NEW c \in Callers, OnlyOf(c), OwnRecords(c), NEW d \in Callers, d # c
  PROVE  RecordInv(d)'
<1>1. call'[d] = call[d] /\ RecordInv(d)
  BY DEF EvidenceInv, OnlyOf
<1>2. /\ call[c].pc \in RunPCs /\ call[d].pc \in RunPCs => call[c].id # call[d].id
      /\ call[c].pc \in Steps /\ call[d].pc \in Steps => call[c].obs # call[d].obs
  BY DEF EvidenceInv, Apart
<1>3. call[d].pc \in RunPCs => <<"runs", call[d].id>> \in reserved'
  <2>1. call[c].pc \in Steps => call[c].pc \in RunPCs
    BY DEF RunPCs
  <2>2. ASSUME call[c].pc \in Steps, call[d].pc \in RunPCs
        PROVE  <<"runs", call[d].id>> \notin {<<"runs", call[c].id>>, <<"observed", call[c].obs>>}
    BY <1>2, <2>1, <2>2
  <2> QED
    BY <1>1, <2>2 DEF OwnRecords, RecordInv
<1>4. call[d].pc \in Steps => <<"observed", call[d].obs>> \in reserved'
  BY <1>1, <1>2 DEF OwnRecords, RecordInv
<1>5. call[d].pc \in Steps \ {"run.saved"} =>
        runs'[call[d].id] = runs[call[d].id] /\ call[d].id \in DOMAIN runs'
  BY <1>1, <1>2 DEF OwnRecords, RecordInv, RunPCs
<1>6. call[d].pc \in Steps \ {"run.closed"} => call[d].obs \notin DOMAIN observed'
  BY <1>1, <1>2 DEF OwnRecords, RecordInv
<1>7. call[d].pc = "run.closed" =>
        call[d].obs \in DOMAIN observed' /\ observed'[call[d].obs] = observed[call[d].obs]
  BY <1>1 DEF OwnRecords, RecordInv
<1> QED
  BY <1>1, <1>3, <1>4, <1>5, <1>6, <1>7 DEF RecordInv, OnRecord

LEMMA ClosedStay ==
  ASSUME EvidenceInv, NEW c \in Callers, OwnRecords(c),
         call[c].pc \in RunPCs /\ call[c].id \in DOMAIN runs' =>
           /\ DOMAIN runs'[call[c].id] = RunFields
           /\ \/ runs'[call[c].id].state = "running"
              \/ call[c].id \in DOMAIN runs /\ runs'[call[c].id] = runs[call[c].id]
  PROVE  EvidenceFirst' /\ \A i \in DOMAIN runs' : DOMAIN runs'[i] = RunFields
<1>1. \A i \in DOMAIN runs' : \/ (i \in DOMAIN runs /\ runs'[i] = runs[i])
                              \/ (runs'[i].state = "running" /\ DOMAIN runs'[i] = RunFields)
  BY DEF OwnRecords
<1>2. EvidenceFirst'
  <2> SUFFICES ASSUME NEW i \in DOMAIN runs', runs'[i].state # "running"
               PROVE  /\ runs'[i].events = <<<<"run.started", None>>, <<"tool.started", None>>,
                                             <<"tool.ended", Ended(runs'[i].state)>>,
                                             <<"run.ended", Ended(runs'[i].state)>>>>
                      /\ \E o \in DOMAIN observed' : observed'[o].run = i /\ observed'[o].state = runs'[i].state
    BY DEF EvidenceFirst, Ended
  <2>1. i \in DOMAIN runs /\ runs'[i] = runs[i]
    BY <1>1
  <2> QED
    BY <2>1 DEF EvidenceInv, EvidenceFirst, OwnRecords
<1> QED
  BY <1>1, <1>2 DEF EvidenceInv

(* A step keeps the evidence, if it touches only the records of its call,  *)
(* whose run is left running.                                              *)
LEMMA EvidenceKept ==
  ASSUME EvidenceInv, Control', NEW c \in Callers, OnlyOf(c), OwnRecords(c), RecordInv(c)',
         IdsBounded', Apart',
         call[c].pc \in RunPCs /\ call[c].id \in DOMAIN runs' =>
           /\ DOMAIN runs'[call[c].id] = RunFields
           /\ \/ runs'[call[c].id].state = "running"
              \/ call[c].id \in DOMAIN runs /\ runs'[call[c].id] = runs[call[c].id]
  PROVE  EvidenceInv'
<1>1. EvidenceFirst' /\ \A i \in DOMAIN runs' : DOMAIN runs'[i] = RunFields
  BY ClosedStay
<1>2. \A d \in Callers : RecordInv(d)'
  BY RecordsOfOthers
<1> QED
  BY <1>1, <1>2 DEF EvidenceInv

(* A call that keeps its ids, or has none any more.                        *)
KeepsIds(c) ==
  /\ call'[c].pc \in RunPCs => call[c].pc \in RunPCs /\ call'[c].id = call[c].id
  /\ call'[c].pc \in Steps => call[c].pc \in Steps /\ call'[c].obs = call[c].obs

LEMMA ApartKept ==
  ASSUME EvidenceInv, NEW c \in Callers, OnlyOf(c), KeepsIds(c)
  PROVE  Apart'
  BY DEF EvidenceInv, Apart, OnlyOf, KeepsIds

LEMMA IdsKept ==
  ASSUME EvidenceInv, NEW c \in Callers, OwnRecords(c), reserved' \subseteq reserved
  PROVE  IdsBounded'
<1>1. RecordInv(c)
  BY DEF EvidenceInv
<1>2. \A t : ReservedIds(t)' \subseteq ReservedIds(t)
  BY DEF ReservedIds
<1>3. DOMAIN runs' \subseteq DOMAIN runs \cup ReservedIds("runs")
  BY <1>1 DEF OwnRecords, RecordInv, ReservedIds
<1>4. DOMAIN observed' \subseteq DOMAIN observed \cup ReservedIds("observed")
  BY <1>1 DEF OwnRecords, RecordInv, ReservedIds
<1>5. DOMAIN runs' \cup ReservedIds("runs")' \subseteq DOMAIN runs \cup ReservedIds("runs")
  BY <1>2, <1>3
<1>6. DOMAIN observed' \cup ReservedIds("observed")' \subseteq DOMAIN observed \cup ReservedIds("observed")
  BY <1>2, <1>4
<1> QED
  BY <1>5, <1>6 DEF EvidenceInv, IdsBounded, Bounded

(* The steps that touch neither records nor ids.                           *)
LEMMA QuietEvidence ==
  ASSUME EvidenceInv, Control', NEW c \in Callers, OnlyOf(c), UNCHANGED <<runs, observed, reserved>>,
         \/ call'[c].pc \notin ToolPCs
         \/ call'[c].pc \in ToolPCs \ RunPCs /\ call'[c].val = None
         \/ Execute(c)
  PROVE  EvidenceInv'
<1>1. OwnRecords(c) /\ reserved' \subseteq reserved
  BY DEF OwnRecords
<1>2. RecordInv(c) /\ \A i \in DOMAIN runs : DOMAIN runs[i] = RunFields
  BY DEF EvidenceInv
<1>3. RecordInv(c)' /\ KeepsIds(c)
  <2>1. CASE call'[c].pc \notin ToolPCs
    BY <2>1 DEF RecordInv, KeepsIds, RunPCs, ToolPCs, EndingPCs, Steps
  <2>2. CASE call'[c].pc \in ToolPCs \ RunPCs /\ call'[c].val = None
    BY <2>2 DEF RecordInv, KeepsIds, RunPCs, ToolPCs, EndingPCs, Steps
  <2>3. CASE Execute(c)
    <3>1. PICK result \in Results : call' = [call EXCEPT ![c] = [@ EXCEPT !.pc = "tool.ended", !.val = result]]
      BY <2>3, AfterExecute, Zenon DEF Execute, Results
    <3>2. /\ call'[c].pc = "tool.ended" /\ call'[c].val = result /\ call[c].pc = "execute"
          /\ call'[c].id = call[c].id /\ call'[c].obs = call[c].obs
      <4>1. c \in DOMAIN call /\ DOMAIN call[c] = CallFields
        BY DEF EvidenceInv, Control, Shape, ControlOf
      <4>2. call'[c] = [call[c] EXCEPT !.pc = "tool.ended", !.val = result]
        BY <3>1, <4>1
      <4>3. {"pc", "val", "id", "obs"} \subseteq DOMAIN call[c]
        BY <4>1 DEF CallFields
      <4> QED BY <2>3, <4>2, <4>3 DEF Execute
    <3>3. OnRecord("tool.ended", result) = OnRecord("execute", call[c].val)
      BY DEF OnRecord
    <3> QED
      BY <1>2, <3>2, <3>3 DEF RecordInv, KeepsIds, RunPCs, ToolPCs, EndingPCs, Steps
  <2> QED
    BY <2>1, <2>2, <2>3
<1> QED
  BY <1>1, <1>2, <1>3, ApartKept, IdsKept, EvidenceKept

LEMMA Reserving ==
  ASSUME NEW table, NEW i, reserved' = reserved \cup {<<table, i>>}
  PROVE  /\ ReservedIds(table)' = ReservedIds(table) \cup {i}
         /\ \A u : u # table => ReservedIds(u)' = ReservedIds(u)
<1>1. PICK p : p = <<table, i>>
  OBVIOUS
<1>2. p[1] = table /\ p[2] = i
  BY <1>1
<1>3. reserved' = reserved \cup {p}
  BY <1>1
<1>4. ReservedIds(table)' = ReservedIds(table) \cup {i}
  BY <1>2, <1>3 DEF ReservedIds
<1>5. ASSUME NEW u, u # table PROVE ReservedIds(u)' = ReservedIds(u)
  BY <1>2, <1>3, <1>5 DEF ReservedIds
<1> QED
  BY <1>4, <1>5

LEMMA ReservedIs == ASSUME NEW table, NEW i, <<table, i>> \in reserved PROVE i \in ReservedIds(table)
<1>1. PICK p \in reserved : p = <<table, i>>
  OBVIOUS
<1>2. p[1] = table /\ p[2] = i
  BY <1>1
<1> QED
  BY <1>2 DEF ReservedIds

(* The id that is reserved is nobody else's.                               *)
LEMMA ReserveRunEvidence ==
  ASSUME EvidenceInv, Control', NEW c \in Callers, OnlyOf(c), ReserveRun(c)
  PROVE  EvidenceInv'
<1>1. PICK i :
        /\ i = NextId("runs", DOMAIN runs)
        /\ call[c].pc = "run id" /\ runs' = runs /\ observed' = observed
        /\ reserved' = reserved \cup {<<"runs", i>>}
        /\ call' = [call EXCEPT ![c] = [@ EXCEPT !.pc = "observation id", !.id = i]]
  BY Zenon DEF ReserveRun, tables
<1>2. i \in Nat /\ i \notin ReservedIds("runs") /\ i \notin DOMAIN runs
  BY <1>1, NextIdIsFree DEF EvidenceInv, IdsBounded
<1>3. call' = [call EXCEPT ![c] = [@ EXCEPT !.pc = "observation id", !.id = i]]
  BY <1>1, Zenon
<1>4. c \in DOMAIN call /\ DOMAIN call[c] = CallFields
  BY DEF EvidenceInv, Control, Shape, ControlOf
<1>5. /\ call'[c].pc = "observation id" /\ call'[c].id = i /\ call'[c].val = call[c].val
      /\ call'[c].obs = call[c].obs
  BY <1>3, <1>4 DEF CallFields
<1>6. reserved \subseteq reserved' /\ <<"runs", i>> \in reserved' /\ runs' = runs /\ observed' = observed
  BY <1>1, Zenon
<1>7. RecordInv(c) /\ call[c].pc = "run id"
  BY <1>1 DEF EvidenceInv
<1>8. RecordInv(c)'
  BY <1>2, <1>5, <1>6, <1>7 DEF RecordInv, RunPCs, ToolPCs, EndingPCs, Steps
<1>9. OwnRecords(c)
  BY <1>6 DEF OwnRecords
<1>10. Apart'
  <2>1. ASSUME NEW d \in Callers \ {c}, call[d].pc \in RunPCs PROVE call[d].id # i
    <3>1. <<"runs", call[d].id>> \in reserved
      BY <2>1 DEF EvidenceInv, RecordInv
    <3> QED
      BY <1>2, <3>1, ReservedIs
  <2>2. ASSUME NEW d \in Callers \ {c}, NEW e \in Callers \ {c}, d # e
        PROVE  /\ call[d].pc \in RunPCs /\ call[e].pc \in RunPCs => call[d].id # call[e].id
               /\ call[d].pc \in Steps /\ call[e].pc \in Steps => call[d].obs # call[e].obs
    BY <2>2 DEF EvidenceInv, Apart
  <2>3. "observation id" \notin Steps
    BY DEF Steps
  <2>4. \A d \in Callers \ {c} : call'[d] = call[d]
    BY DEF OnlyOf
  <2>5. ASSUME NEW d \in Callers \ {c}
        PROVE  /\ call'[c].pc \in RunPCs /\ call'[d].pc \in RunPCs => call'[c].id # call'[d].id
               /\ call'[c].pc \in Steps /\ call'[d].pc \in Steps => call'[c].obs # call'[d].obs
    BY <1>5, <2>1, <2>3, <2>4
  <2>6. ASSUME NEW d \in Callers \ {c}, NEW e \in Callers \ {c}, d # e
        PROVE  /\ call'[d].pc \in RunPCs /\ call'[e].pc \in RunPCs => call'[d].id # call'[e].id
               /\ call'[d].pc \in Steps /\ call'[e].pc \in Steps => call'[d].obs # call'[e].obs
    BY <2>2, <2>4, <2>6
  <2> QED
    BY <2>5, <2>6 DEF Apart
<1>11. IdsBounded'
  <2>1. /\ ReservedIds("runs")' = ReservedIds("runs") \cup {i}
        /\ ReservedIds("observed")' = ReservedIds("observed")
    <3>1. reserved' = reserved \cup {<<"runs", i>>} /\ "observed" # "runs"
      BY <1>1
    <3> QED
      BY <3>1, Reserving, Zenon
  <2>2. Bounded(DOMAIN runs \cup ReservedIds("runs") \cup {i})
    BY <1>2, BoundedMore DEF EvidenceInv, IdsBounded
  <2>3. DOMAIN runs' \cup ReservedIds("runs")' = DOMAIN runs \cup ReservedIds("runs") \cup {i}
    BY <1>6, <2>1
  <2>4. Bounded(DOMAIN runs' \cup ReservedIds("runs")')
    BY <2>2, <2>3
  <2> QED
    BY <1>6, <2>1, <2>4 DEF EvidenceInv, IdsBounded
<1>12. \A j \in DOMAIN runs' : DOMAIN runs'[j] = RunFields
  BY <1>6 DEF EvidenceInv
<1> QED
  BY <1>6, <1>8, <1>9, <1>10, <1>11, <1>12, EvidenceKept

LEMMA ReserveObservationEvidence ==
  ASSUME EvidenceInv, Control', NEW c \in Callers, OnlyOf(c), ReserveObservation(c)
  PROVE  EvidenceInv'
<1>0. Writes[1] = "run.saved"
  BY DEF Writes
<1>1. PICK i :
        /\ i = NextId("observed", DOMAIN observed)
        /\ call[c].pc = "observation id" /\ runs' = runs /\ observed' = observed
        /\ reserved' = reserved \cup {<<"observed", i>>}
        /\ call' = [call EXCEPT ![c] = [@ EXCEPT !.pc = "run.saved", !.obs = i]]
  BY <1>0, Zenon DEF ReserveObservation, tables
<1>2. i \in Nat /\ i \notin ReservedIds("observed") /\ i \notin DOMAIN observed
  BY <1>1, NextIdIsFree DEF EvidenceInv, IdsBounded
<1>3. call' = [call EXCEPT ![c] = [@ EXCEPT !.pc = "run.saved", !.obs = i]]
  BY <1>1, Zenon
<1>4. c \in DOMAIN call /\ DOMAIN call[c] = CallFields
  BY DEF EvidenceInv, Control, Shape, ControlOf
<1>5. /\ call'[c].pc = "run.saved" /\ call'[c].obs = i /\ call'[c].val = call[c].val
      /\ call'[c].id = call[c].id
  BY <1>3, <1>4 DEF CallFields
<1>6. reserved \subseteq reserved' /\ <<"observed", i>> \in reserved' /\ runs' = runs /\ observed' = observed
  BY <1>1, Zenon
<1>7. RecordInv(c) /\ call[c].pc = "observation id"
  BY <1>1 DEF EvidenceInv
<1>8. RecordInv(c)'
  BY <1>2, <1>5, <1>6, <1>7 DEF RecordInv, RunPCs, ToolPCs, EndingPCs, Steps
<1>9. OwnRecords(c)
  BY <1>6 DEF OwnRecords
<1>10. Apart'
  <2>1. ASSUME NEW d \in Callers \ {c}, call[d].pc \in Steps PROVE call[d].obs # i
    <3>1. <<"observed", call[d].obs>> \in reserved
      BY <2>1 DEF EvidenceInv, RecordInv
    <3> QED
      BY <1>2, <3>1, ReservedIs
  <2>2. ASSUME NEW d \in Callers \ {c}, NEW e \in Callers \ {c}, d # e
        PROVE  /\ call[d].pc \in RunPCs /\ call[e].pc \in RunPCs => call[d].id # call[e].id
               /\ call[d].pc \in Steps /\ call[e].pc \in Steps => call[d].obs # call[e].obs
    BY <2>2 DEF EvidenceInv, Apart
  <2>3. \A d \in Callers \ {c} : call[d].pc \in RunPCs => call[d].id # call[c].id
    BY <1>7 DEF EvidenceInv, Apart, RunPCs
  <2>4. \A d \in Callers \ {c} : call'[d] = call[d]
    BY DEF OnlyOf
  <2>5. ASSUME NEW d \in Callers \ {c}
        PROVE  /\ call'[c].pc \in RunPCs /\ call'[d].pc \in RunPCs => call'[c].id # call'[d].id
               /\ call'[c].pc \in Steps /\ call'[d].pc \in Steps => call'[c].obs # call'[d].obs
    BY <1>5, <2>1, <2>3, <2>4
  <2>6. ASSUME NEW d \in Callers \ {c}, NEW e \in Callers \ {c}, d # e
        PROVE  /\ call'[d].pc \in RunPCs /\ call'[e].pc \in RunPCs => call'[d].id # call'[e].id
               /\ call'[d].pc \in Steps /\ call'[e].pc \in Steps => call'[d].obs # call'[e].obs
    BY <2>2, <2>4, <2>6
  <2> QED
    BY <2>5, <2>6 DEF Apart
<1>11. IdsBounded'
  <2>1. /\ ReservedIds("observed")' = ReservedIds("observed") \cup {i}
        /\ ReservedIds("runs")' = ReservedIds("runs")
    <3>1. reserved' = reserved \cup {<<"observed", i>>} /\ "runs" # "observed"
      BY <1>1
    <3> QED
      BY <3>1, Reserving, Zenon
  <2>2. Bounded(DOMAIN observed \cup ReservedIds("observed") \cup {i})
    BY <1>2, BoundedMore DEF EvidenceInv, IdsBounded
  <2>3. DOMAIN observed' \cup ReservedIds("observed")' = DOMAIN observed \cup ReservedIds("observed") \cup {i}
    BY <1>6, <2>1
  <2>4. Bounded(DOMAIN observed' \cup ReservedIds("observed")')
    BY <2>2, <2>3
  <2> QED
    BY <1>6, <2>1, <2>4 DEF EvidenceInv, IdsBounded
<1>12. \A j \in DOMAIN runs' : DOMAIN runs'[j] = RunFields
  BY <1>6 DEF EvidenceInv
<1> QED
  BY <1>6, <1>8, <1>9, <1>10, <1>11, <1>12, EvidenceKept

LEMMA AppendThird == ASSUME NEW a, NEW b, NEW c PROVE Append(<<a, b>>, c) = <<a, b, c>>
<1> DEFINE S == {a, b, c}
           s == Append(<<a, b>>, c)
<1>1. a \in S /\ b \in S /\ c \in S
  OBVIOUS
<1> HIDE DEF S
<1>2. <<a, b>> \in Seq(S) /\ <<a, b, c>> \in Seq(S)
  BY <1>1
<1>3. s \in Seq(S) /\ Len(s) = 3 /\ s[1] = a /\ s[2] = b /\ s[3] = c
  BY <1>1, <1>2, AppendProperties
<1> HIDE DEF s
<1>4. s = <<a, b, c>>
  BY <1>2, <1>3, SeqEqual
<1> QED
  BY <1>4 DEF s

LEMMA AppendFourth == ASSUME NEW a, NEW b, NEW c, NEW d PROVE Append(<<a, b, c>>, d) = <<a, b, c, d>>
<1> DEFINE S == {a, b, c, d}
           s == Append(<<a, b, c>>, d)
<1>1. a \in S /\ b \in S /\ c \in S /\ d \in S
  OBVIOUS
<1> HIDE DEF S
<1>2. <<a, b, c>> \in Seq(S) /\ <<a, b, c, d>> \in Seq(S)
  BY <1>1
<1>3. s \in Seq(S) /\ Len(s) = 4 /\ s[1] = a /\ s[2] = b /\ s[3] = c /\ s[4] = d
  BY <1>1, <1>2, AppendProperties
<1> HIDE DEF s
<1>4. s = <<a, b, c, d>>
  BY <1>2, <1>3, SeqEqual
<1> QED
  BY <1>4 DEF s

(* A save of a tool call.                                                  *)
LEMMA SaveEvidence ==
  ASSUME EvidenceInv, Control', NEW c \in Callers, OnlyOf(c),
         SaveToolRun(c) \/ SaveToolEvent(c) \/ SaveObservation(c)
  PROVE  EvidenceInv'
<1> DEFINE k == call[c]
<1>1. RecordInv(c) /\ Control /\ \A i \in DOMAIN runs : DOMAIN runs[i] = RunFields
  BY DEF EvidenceInv
<1>2. k.pc \in Steps \ {"run.closed", "execute"} /\ Continue(c)
  BY DEF SaveToolRun, SaveToolEvent, SaveObservation, Steps
<1>3. call' = [call EXCEPT ![c].pc = After[k.pc]] /\ reserved' = reserved
  BY <1>2, Continues
<1>4. /\ call'[c].pc = After[k.pc] /\ call'[c].id = k.id /\ call'[c].obs = k.obs /\ call'[c].val = k.val
  BY <1>1, <1>3 DEF Control, Shape, ControlOf, CallFields
<1>5. KeepsIds(c)
  BY <1>2, <1>4 DEF KeepsIds, RunPCs
<1>6. k.pc \in RunPCs /\ <<"runs", k.id>> \in reserved' /\ <<"observed", k.obs>> \in reserved'
  BY <1>1, <1>2, <1>3 DEF RecordInv, RunPCs
<1>7. CASE SaveToolRun(c)
  <2>1. /\ k.pc = "run.saved" /\ observed' = observed /\ After[k.pc] = "run.started" /\ k.val = None
        /\ runs' = Put(runs, k.id, [by |-> k.n, state |-> "running", events |-> <<>>])
    BY <1>1, <1>7 DEF SaveToolRun, After, Steps, RecordInv, ToolPCs, EndingPCs
  <2>2. /\ DOMAIN runs' = DOMAIN runs \cup {k.id}
        /\ \A i \in DOMAIN runs \ {k.id} : runs'[i] = runs[i]
        /\ runs'[k.id] = [by |-> k.n, state |-> "running", events |-> <<>>]
    BY <2>1 DEF Put
  <2>3. OwnRecords(c)
    BY <1>3, <1>6, <2>1, <2>2 DEF OwnRecords
  <2>4. OnRecord("run.started", k.val) = <<>>
    BY DEF OnRecord
  <2>5. RecordInv(c)'
    BY <1>1, <1>4, <1>6, <2>1, <2>2, <2>4 DEF RecordInv, RunPCs, ToolPCs, EndingPCs, Steps
  <2> QED
    BY <1>3, <1>5, <2>2, <2>3, <2>5, ApartKept, IdsKept, EvidenceKept DEF RunFields
<1>8. CASE SaveToolEvent(c)
  <2>1. /\ k.pc \in {"run.started", "tool.started", "tool.ended", "run.ended"} /\ observed' = observed
        /\ runs' = [runs EXCEPT ![k.id].events =
                       Append(runs[k.id].events, <<k.pc, IF k.val = None THEN None ELSE Ended(k.val)>>)]
    BY <1>8 DEF SaveToolEvent
  <2>2. k.id \in DOMAIN runs /\ runs[k.id].state = "running" /\ runs[k.id].events = OnRecord(k.pc, k.val)
    BY <1>1, <2>1 DEF RecordInv, Steps
  <2>3. /\ DOMAIN runs' = DOMAIN runs
        /\ \A i \in DOMAIN runs \ {k.id} : runs'[i] = runs[i]
        /\ runs'[k.id].state = "running" /\ DOMAIN runs'[k.id] = RunFields
        /\ runs'[k.id].events = Append(OnRecord(k.pc, k.val),
                                       <<k.pc, IF k.val = None THEN None ELSE Ended(k.val)>>)
    BY <1>1, <2>1, <2>2 DEF RunFields
  <2>4. runs'[k.id].events = OnRecord(After[k.pc], k.val)
    <3>1. CASE k.pc \in {"run.started", "tool.started"}
      <4>1. k.val = None
        BY <1>1, <3>1 DEF RecordInv, ToolPCs, EndingPCs, Steps
      <4> QED
        <5>1. CASE k.pc = "run.started"
          <6>1. OnRecord("run.started", None) = <<>> /\ After["run.started"] = "tool.started"
                /\ OnRecord("tool.started", None) = <<<<"run.started", None>>>>
            BY DEF OnRecord, After, Steps
          <6> QED
            BY <2>3, <4>1, <5>1, <6>1
        <5>2. CASE k.pc = "tool.started"
          <6>1. /\ OnRecord("tool.started", None) = <<<<"run.started", None>>>>
                /\ After["tool.started"] = "execute"
                /\ OnRecord("execute", None) = <<<<"run.started", None>>, <<"tool.started", None>>>>
            BY DEF OnRecord, After, Steps
          <6> QED
            BY <2>3, <4>1, <5>2, <6>1
        <5> QED
          BY <3>1, <5>1, <5>2
    <3>2. CASE k.pc \in {"tool.ended", "run.ended"}
      <4>1. k.val # None
        BY <1>1, <3>2, ServicesAssumption DEF RecordInv, EndingPCs, Results
      <4> QED
        <5> DEFINE e1 == <<"run.started", None>>
                   e2 == <<"tool.started", None>>
                   e3 == <<"tool.ended", Ended(k.val)>>
                   e4 == <<"run.ended", Ended(k.val)>>
        <5>1. CASE k.pc = "tool.ended"
          <6>1. OnRecord("tool.ended", k.val) = <<e1, e2>> /\ After["tool.ended"] = "run.ended"
                /\ OnRecord("run.ended", k.val) = <<e1, e2, e3>>
            BY DEF OnRecord, After, Steps
          <6>2. runs'[k.id].events = Append(<<e1, e2>>, e3)
            BY <2>3, <4>1, <5>1, <6>1
          <6>3. Append(<<e1, e2>>, e3) = <<e1, e2, e3>>
            BY AppendThird
          <6> QED
            BY <5>1, <6>1, <6>2, <6>3
        <5>2. CASE k.pc = "run.ended"
          <6>1. OnRecord("run.ended", k.val) = <<e1, e2, e3>> /\ After["run.ended"] = "observation"
                /\ OnRecord("observation", k.val) = <<e1, e2, e3, e4>>
            BY DEF OnRecord, After, Steps
          <6>2. runs'[k.id].events = Append(<<e1, e2, e3>>, e4)
            BY <2>3, <4>1, <5>2, <6>1
          <6>3. Append(<<e1, e2, e3>>, e4) = <<e1, e2, e3, e4>>
            BY AppendFourth
          <6> QED
            BY <5>2, <6>1, <6>2, <6>3
        <5> QED
          BY <3>2, <5>1, <5>2
    <3> QED
      BY <2>1, <3>1, <3>2
  <2>5. OwnRecords(c)
    BY <1>3, <1>6, <2>1, <2>3 DEF OwnRecords
  <2>6. /\ After[k.pc] \in Steps \ {"run.saved", "run.closed"}
        /\ k.pc \in EndingPCs <=> After[k.pc] \in EndingPCs
    BY <2>1 DEF After, Steps, EndingPCs
  <2>7. RecordInv(c)'
    <3>1. k.pc \in ToolPCs /\ After[k.pc] \in ToolPCs
      BY <1>2, <2>6 DEF ToolPCs
    <3>2. /\ After[k.pc] \in ToolPCs \ EndingPCs => k.val = None
          /\ After[k.pc] \in EndingPCs => k.val \in Results
      BY <1>1, <2>6, <3>1 DEF RecordInv
    <3>3. k.obs \notin DOMAIN observed'
      BY <1>1, <1>2, <2>1 DEF RecordInv
    <3> QED
      BY <1>4, <1>6, <2>2, <2>3, <2>4, <2>6, <3>2, <3>3 DEF RecordInv
  <2> QED
    BY <1>3, <1>5, <2>3, <2>5, <2>7, ApartKept, IdsKept, EvidenceKept
<1>9. CASE SaveObservation(c)
  <2>1. /\ k.pc = "observation" /\ runs' = runs /\ After[k.pc] = "run.closed"
        /\ observed' = Put(observed, k.obs, [by |-> k.n, run |-> k.id, state |-> k.val])
    BY <1>9 DEF SaveObservation, After, Steps
  <2>2. k.obs \notin DOMAIN observed
    BY <1>1, <2>1 DEF RecordInv, Steps
  <2>3. /\ DOMAIN observed' = DOMAIN observed \cup {k.obs}
        /\ \A o \in DOMAIN observed : observed'[o] = observed[o]
        /\ observed'[k.obs] = [by |-> k.n, run |-> k.id, state |-> k.val]
    BY <2>1, <2>2 DEF Put
  <2>4. OwnRecords(c)
    BY <1>2, <1>3, <2>1, <2>3 DEF OwnRecords
  <2>5. OnRecord("run.closed", k.val) = OnRecord("observation", k.val)
    BY DEF OnRecord
  <2>6. RecordInv(c)'
    BY <1>1, <1>4, <1>6, <2>1, <2>3, <2>5 DEF RecordInv, RunPCs, ToolPCs, EndingPCs, Steps
  <2> QED
    BY <1>1, <1>3, <1>5, <2>1, <2>4, <2>6, ApartKept, IdsKept, EvidenceKept
<1> QED
  BY <1>7, <1>8, <1>9

(* The last save closes the run, whose evidence is complete.               *)
LEMMA CloseEvidence ==
  ASSUME EvidenceInv, Control', NEW c \in Callers, OnlyOf(c), CloseToolRun(c)
  PROVE  EvidenceInv'
<1> DEFINE k == call[c]
<1>1. RecordInv(c) /\ Control /\ EvidenceFirst /\ \A i \in DOMAIN runs : DOMAIN runs[i] = RunFields
  BY DEF EvidenceInv
<1>2. /\ k.pc = "run.closed" /\ observed' = observed /\ Continue(c)
      /\ runs' = [runs EXCEPT ![k.id].state = k.val]
  BY DEF CloseToolRun
<1>3. Done(c) /\ Release(c)
  BY <1>2, Continues DEF Steps
<1>4. /\ k.id \in DOMAIN runs /\ k.val \in Results /\ k.obs \in DOMAIN observed
      /\ runs[k.id].events = OnRecord("run.closed", k.val)
      /\ observed[k.obs].run = k.id /\ observed[k.obs].state = k.val
  BY <1>1, <1>2 DEF RecordInv, EndingPCs, Steps
<1>5. /\ DOMAIN runs' = DOMAIN runs /\ \A i \in DOMAIN runs \ {k.id} : runs'[i] = runs[i]
      /\ runs'[k.id].state = k.val /\ runs'[k.id].events = OnRecord("run.closed", k.val)
      /\ DOMAIN runs'[k.id] = RunFields
  BY <1>1, <1>2, <1>4 DEF RunFields
<1>6. call'[c].pc = "idle"
  BY <1>1, <1>3 DEF Done, Idle, Control, Shape
<1>7. RecordInv(c)' /\ KeepsIds(c)
  BY <1>6 DEF RecordInv, KeepsIds, RunPCs, ToolPCs, EndingPCs, Steps
<1>8. OwnRecords(c) /\ reserved' \subseteq reserved
  BY <1>2, <1>3, <1>5 DEF OwnRecords, Release, RunPCs, Steps
<1>9. EvidenceFirst'
  <2> SUFFICES ASSUME NEW i \in DOMAIN runs', runs'[i].state # "running"
               PROVE  /\ runs'[i].events = <<<<"run.started", None>>, <<"tool.started", None>>,
                                             <<"tool.ended", Ended(runs'[i].state)>>,
                                             <<"run.ended", Ended(runs'[i].state)>>>>
                      /\ \E o \in DOMAIN observed' : observed'[o].run = i /\ observed'[o].state = runs'[i].state
    BY DEF EvidenceFirst, Ended
  <2>1. CASE i = k.id
    <3>1. OnRecord("run.closed", k.val) =
            <<<<"run.started", None>>, <<"tool.started", None>>, <<"tool.ended", Ended(k.val)>>,
              <<"run.ended", Ended(k.val)>>>>
      BY DEF OnRecord
    <3> QED
      BY <1>2, <1>4, <1>5, <2>1, <3>1
  <2>2. CASE i # k.id
    <3>1. i \in DOMAIN runs /\ runs'[i] = runs[i]
      BY <1>5, <2>2
    <3> QED
      <4>1. /\ runs[i].events = <<<<"run.started", None>>, <<"tool.started", None>>,
                                  <<"tool.ended", Ended(runs[i].state)>>,
                                  <<"run.ended", Ended(runs[i].state)>>>>
            /\ \E o \in DOMAIN observed : observed[o].run = i /\ observed[o].state = runs[i].state
        BY <1>1, <3>1, Zenon DEF EvidenceFirst
      <4> QED
        BY <1>2, <3>1, <4>1
  <2> QED
    BY <2>1, <2>2
<1>10. \A i \in DOMAIN runs' : DOMAIN runs'[i] = RunFields
  BY <1>1, <1>5
<1>11. \A d \in Callers : RecordInv(d)'
  BY <1>7, <1>8, RecordsOfOthers
<1> QED
  BY <1>7, <1>8, <1>9, <1>10, <1>11, ApartKept, IdsKept DEF EvidenceInv

(* A save that fails ends the call and releases its ids.                   *)
LEMMA FailEvidence ==
  ASSUME EvidenceInv, Control', NEW c \in Callers, OnlyOf(c), SaveFails(c)
  PROVE  EvidenceInv'
<1>1. /\ call[c].pc \in {"skill", "save"} \cup ToSet(Writes)
      /\ Done(c) /\ Release(c) /\ runs' = runs /\ observed' = observed
  BY DEF SaveFails, tables
<1>2. ToSet(Writes) \subseteq Steps
  BY DEF ToSet, Writes, Steps
<1>3. RecordInv(c) /\ ControlOf(c) /\ \A i \in DOMAIN runs : DOMAIN runs[i] = RunFields
  BY DEF EvidenceInv, Control
<1>4. call'[c].pc = "idle"
  BY <1>1 DEF Done, Idle, EvidenceInv, Control, Shape
<1>5. RecordInv(c)' /\ KeepsIds(c)
  BY <1>4 DEF RecordInv, KeepsIds, RunPCs, ToolPCs, EndingPCs, Steps
<1>6. call[c].op = "tool" => call[c].pc \in Steps
  BY <1>1, <1>2, <1>3 DEF ControlOf, TableNames
<1>7. OwnRecords(c) /\ reserved' \subseteq reserved
  BY <1>1, <1>6 DEF OwnRecords, Release
<1> QED
  BY <1>1, <1>3, <1>5, <1>7, ApartKept, IdsKept, EvidenceKept

LEMMA StepEvidence ==
  ASSUME EvidenceInv, Control', NEW c \in Callers, Step(c), OnlyOf(c)
  PROVE  EvidenceInv'
<1>1. Control /\ RecordInv(c)
  BY DEF EvidenceInv
<1>2. CASE SkillCall(c) \/ ConnectorCall(c) \/ ModelCall(c)
  <2>1. CASE Requests(c)
    <3>1. \E op, key, val : Begin(c, "lock", op, key, val)
      BY <2>1, Zenon DEF Requests
    <3>2. UNCHANGED <<runs, observed, reserved>> /\ call'[c].pc = "lock"
      BY <1>1, <3>1 DEF Begin, Control, Shape, Idle, tables
    <3> QED
      BY <3>2, QuietEvidence DEF ToolPCs, Steps
  <2>2. CASE Rewrites(c)
    <3>1. \E t : \E i, val : Rewrite(c, t, i, val)
      BY <2>2, Zenon DEF Rewrites
    <3>2. UNCHANGED <<runs, observed, reserved>> /\ call'[c].pc = "save"
      BY <1>1, <3>1 DEF Rewrite, Control, Shape, Idle, tables
    <3> QED
      BY <3>2, QuietEvidence DEF ToolPCs, Steps
  <2>3. CASE \E k \in Connectors : ExecuteTool(c, k)
    <3>1. PICK k \in Connectors : Begin(c, "bindings", "tool", k, None)
      BY <2>3 DEF ExecuteTool
    <3>2. UNCHANGED <<runs, observed, reserved>> /\ call'[c].pc = "bindings" /\ call'[c].val = None
      BY <1>1, <3>1 DEF Begin, Control, Shape, Idle, tables
    <3> QED
      BY <3>2, QuietEvidence DEF ToolPCs, RunPCs, Steps
  <2> QED
    BY <1>2, <2>1, <2>2, <2>3, CallsBegin
<1>3. CASE Lock(c) \/ SaveSkill(c) \/ Save(c)
  <2>1. UNCHANGED <<runs, observed, reserved>>
    BY <1>3, Zenon DEF Lock, SaveSkill, Save, tables
  <2> QED
    BY <1>3, <2>1, QuietEvidence, LockEnds DEF ToolPCs, Steps, EvidenceInv
<1>4. CASE ReadBindings(c) \/ ReadVersions(c) \/ ReadApproval(c)
  <2>1. UNCHANGED <<runs, observed, reserved>>
    BY <1>4, Zenon DEF ReadBindings, ReadVersions, ReadApproval, tables
  <2>2. /\ call[c].pc \in {"bindings", "versions", "approval"}
        /\ \/ call' = [call EXCEPT ![c] = Idle]
           \/ \E seen : call' = [call EXCEPT ![c] = [@ EXCEPT !.pc = "versions", !.seen = seen]]
           \/ call' = [call EXCEPT ![c] = [@ EXCEPT !.pc = "approval", !.seen = {}]]
           \/ call' = [call EXCEPT ![c].pc = "run id"]
    BY <1>4, Zenon DEF ReadBindings, ReadVersions, ReadApproval, Done
  <2>3. call[c].val = None
    BY <1>1, <2>2 DEF RecordInv, ToolPCs, EndingPCs
  <2>4. \/ call'[c].pc = "idle"
        \/ call'[c].pc \in {"versions", "approval", "run id"} /\ call'[c].val = None
    <3>1. /\ c \in DOMAIN call /\ DOMAIN call[c] = CallFields
      BY <1>1 DEF Control, Shape, ControlOf
    <3>2. CASE call' = [call EXCEPT ![c] = Idle]
      BY <3>1, <3>2 DEF Idle
    <3>3. CASE \E seen : call' = [call EXCEPT ![c] = [@ EXCEPT !.pc = "versions", !.seen = seen]]
      BY <2>3, <3>1, <3>3 DEF CallFields
    <3>4. CASE call' = [call EXCEPT ![c] = [@ EXCEPT !.pc = "approval", !.seen = {}]]
      BY <2>3, <3>1, <3>4 DEF CallFields
    <3>5. CASE call' = [call EXCEPT ![c].pc = "run id"]
      BY <2>3, <3>1, <3>5 DEF CallFields
    <3> QED
      BY <2>2, <3>2, <3>3, <3>4, <3>5
  <2> QED
    BY <2>1, <2>4, QuietEvidence DEF ToolPCs, RunPCs, Steps
<1>5. CASE Execute(c)
  <2>1. UNCHANGED <<runs, observed, reserved>>
    BY <1>5 DEF Execute, tables
  <2> QED
    BY <1>5, <2>1, QuietEvidence
<1> QED
  BY <1>2, <1>3, <1>4, <1>5, ReserveRunEvidence, ReserveObservationEvidence, SaveEvidence, CloseEvidence,
     FailEvidence DEF Step, Running

LEMMA NextEvidence == EvidenceInv /\ Safe /\ [Next]_vars => EvidenceInv'
<1> SUFFICES ASSUME EvidenceInv, Safe, [Next]_vars PROVE EvidenceInv'
  OBVIOUS
<1>1. CASE UNCHANGED vars
  <2>1. Control'
    BY NextControl DEF EvidenceInv
  <2> QED
    BY <1>1, <2>1 DEF vars, EvidenceInv, Apart, IdsBounded, ReservedIds, EvidenceFirst, RecordInv
<1>2. CASE Next
  <2>1. DOMAIN held' = Callers
    BY <1>2 DEF Next, History
  <2>2. PICK c \in Callers : Step(c)
    BY <1>2 DEF Next, Step
  <2>3. Control' /\ OnlyOf(c)
    BY <2>1, <2>2, StepSafe DEF Safe
  <2> QED
    BY <2>2, <2>3, StepEvidence
<1> QED
  BY <1>1, <1>2

(* The run of a tool is closed only when its four events, in order, and an *)
(* observation with the same outcome are on record, whichever save fails.  *)
THEOREM EvidenceComesFirst == Spec => []EvidenceFirst
<1>1. EvidenceInv => EvidenceFirst
  BY DEF EvidenceInv
<1> QED
  BY <1>1, InitEvidence, InitSafe, NextSafe, NextEvidence, PTL DEF Spec
=============================================================================
