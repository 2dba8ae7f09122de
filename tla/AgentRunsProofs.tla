--------------------------- MODULE AgentRunsProofs ---------------------------
(***************************************************************************)
(* Proofs about AgentRuns for any number of chains and retries, any bound  *)
(* on faults and, where nothing else is said, any number of processes.     *)
(***************************************************************************)
EXTENDS AgentRuns, FiniteSetTheorems, WellFoundedInduction, TLAPS

-----------------------------------------------------------------------------
(* Numbers.                                                                *)

(* A set of numbers that is not empty has a least element.                 *)
LEMMA LeastNumber == ASSUME NEW T, T \subseteq Nat, T # {} PROVE \E x \in T : \A y \in T : x <= y
<1>1. PICK x \in T : \A y \in T : ~(<<y, x>> \in OpToRel(<, Nat))
  BY WFMin, NatLessThanWellFounded
<1>2. \A y \in T : ~(y < x)
  BY <1>1 DEF OpToRel
<1> QED
  BY <1>2

Bounded(S) == S \subseteq Nat /\ \E n \in Nat : \A i \in S : i <= n

(* A bounded one has a greatest.                                           *)
LEMMA MaxIs ==
  ASSUME NEW S, Bounded(S), S # {}
  PROVE  Max(S) \in S /\ \A y \in S : y <= Max(S)
<1> DEFINE T == {k \in Nat : \A y \in S : y <= k}
<1>1. PICK m \in T : \A k \in T : m <= k
  BY LeastNumber DEF Bounded
<1>2. m \in S
  <2> SUFFICES ASSUME m \notin S PROVE FALSE
    OBVIOUS
  <2>1. PICK y \in S : TRUE
    OBVIOUS
  <2>2. \A z \in S : z \in Nat /\ z < m
    BY DEF Bounded
  <2>3. y \in Nat /\ m \in Nat /\ y < m
    BY <2>1, <2>2
  <2>4. m - 1 \in Nat /\ \A z \in S : z <= m - 1
    BY <2>2, <2>3
  <2>5. m - 1 \in T
    BY <2>4
  <2> QED
    BY <1>1, <2>3, <2>5
<1> QED
  BY <1>1, <1>2 DEF Max

(* The number after the greatest is in none of the sets.                   *)
LEMMA NextIsFree ==
  ASSUME NEW S, NEW T, Bounded(S), Bounded(T)
  PROVE  LET n == Max(S \cup T \cup {0}) + 1 IN n \in Nat \ (S \cup T)
<1> DEFINE U == S \cup T \cup {0}
<1>1. PICK a \in Nat, b \in Nat : (\A i \in S : i <= a) /\ (\A i \in T : i <= b)
  BY DEF Bounded
<1>2. U \subseteq Nat /\ a + b \in Nat /\ \A i \in U : i <= a + b
  BY <1>1 DEF Bounded
<1>3. Bounded(U) /\ U # {}
  BY <1>2 DEF Bounded
<1> HIDE DEF U
<1>4. Max(U) \in U /\ \A y \in U : y <= Max(U)
  BY <1>3, MaxIs
<1>5. Max(U) \in Nat
  BY <1>2, <1>4
<1>6. Max(U) + 1 \notin U
  <2> SUFFICES ASSUME Max(U) + 1 \in U PROVE FALSE
    OBVIOUS
  <2> QED
    BY <1>4, <1>5
<1> QED
  BY <1>5, <1>6 DEF U

(* Among one number more than a finite set has elements, one is free: the  *)
(* id of a retry.                                                          *)
LEMMA FreeNumber ==
  ASSUME NEW D, IsFiniteSet(D), NEW r \in RunId
  PROVE  LET Numbered(n) == [r EXCEPT !.retries = Append(@, n)]
         IN \E n \in 1..(Cardinality(D) + 1) :
              Numbered(n) \notin D /\ \A m \in 1..(n - 1) : Numbered(m) \in D
<1> DEFINE Numbered(n) == [r EXCEPT !.retries = Append(@, n)]
           K == Cardinality(D) + 1
           free == {n \in 1..K : Numbered(n) \notin D}
<1>1. K \in Nat /\ Cardinality(D) < K
  BY FS_CardinalityType
<1>2. IsFiniteSet(1..K) /\ Cardinality(1..K) = K
  BY <1>1, FS_Interval
<1>3. free # {}
  <2> SUFFICES ASSUME \A n \in 1..K : Numbered(n) \in D PROVE FALSE
    OBVIOUS
  <2> DEFINE f == [n \in 1..K |-> Numbered(n)]
  <2>1. f \in [1..K -> D]
    OBVIOUS
  <2>a. \A x \in 1..K : f[x] = Numbered(x)
    OBVIOUS
  <2> HIDE DEF f, K
  <2>b. PICK x \in 1..K, y \in 1..K : x # y /\ f[x] = f[y]
    BY <1>1, <1>2, <2>1, FS_PigeonHole
  <2>2. Numbered(x) = Numbered(y) /\ x # y
    BY <2>a, <2>b
  <2>3. [r EXCEPT !.retries = Append(@, x)].retries = [r EXCEPT !.retries = Append(@, y)].retries
    BY <2>2
  <2>4. Append(r.retries, x) = Append(r.retries, y) /\ r.retries \in Seq(Nat)
    BY <2>3 DEF RunId
  <2>5. Append(r.retries, x)[Len(r.retries) + 1] = x /\ Append(r.retries, y)[Len(r.retries) + 1] = y
    BY <2>4, <1>1 DEF K
  <2> QED
    BY <2>2, <2>4, <2>5
<1>4. free \subseteq Nat
  BY <1>1
<1> HIDE DEF K
<1>5. PICK n \in free : \A k \in free : n <= k
  BY <1>3, <1>4, LeastNumber
<1>6. n \in 1..K /\ Numbered(n) \notin D
  BY <1>5
<1>7. ASSUME NEW m \in 1..(n - 1) PROVE Numbered(m) \in D
  <2>1. m \in 1..K /\ ~(n <= m)
    BY <1>1, <1>6
  <2> QED
    BY <2>1, <1>5
<1> QED
  BY <1>6, <1>7 DEF K

-----------------------------------------------------------------------------
(* Types, and what a caller has at each step of its call.                  *)

LEMMA PutFacts ==
  ASSUME NEW f, NEW k, NEW v
  PROVE  /\ DOMAIN Put(f, k, v) = DOMAIN f \cup {k}
         /\ Put(f, k, v)[k] = v
         /\ \A x \in DOMAIN f : x # k => Put(f, k, v)[x] = f[x]
BY DEF Put

Ran == {"list", "consume", "consumed", "start", "runtime", "fail", "complete", "completeEvent",
        "output", "created", "handoff", "handoffEvent"}
Busy == Ran \cup {"begin", "saveRun", "shown", "saveDeployment", "done"}
PCs == Busy \cup {"idle", "failEvent", "error", "wait", "answered", "failed", "refused", "stopped"}

Ref == RunId \cup {None}
No == Nat \cup {None}
Caller == [pc: PCs, role: Roles, run: Ref, brief: No, page: No, seq: Nat, got: SUBSET RunId,
           good: BOOLEAN, target: Ref, marked: Ref]
RunRecord == [state: {"running", "completed", "failed"}, prompt: Nat,
              knewBriefs: SUBSET Nat, knewPages: SUBSET Nat]
HandoffRecord == [to: Roles, brief: Nat, page: No, state: {"ready", "blocked", "consumed"}, at: Nat]
PageRecord == [run: RunId, brief: Nat, status: Verdicts \cup {"pending"}, blocker: BOOLEAN]

Reserved == [kind: Roles \cup {"brief", "page"}, no: Nat, by: Callers]

MeInv == me \in [Callers -> Caller]

TablesInv ==
  /\ \A r \in DOMAIN runs : r \in RunId /\ runs[r] \in RunRecord
  /\ IsFiniteSet(DOMAIN runs)
  /\ DOMAIN briefs \subseteq Nat
  /\ \A p \in DOMAIN pages : p \in Nat /\ pages[p] \in PageRecord /\ pages[p].brief \in DOMAIN briefs
  /\ deployments \subseteq DOMAIN pages /\ DOMAIN requested \subseteq DOMAIN pages
  /\ snapshot.brief \in DOMAIN briefs \cup {None} /\ snapshot.page \in DOMAIN pages \cup {None}

HandoffTypes ==
  /\ \A r \in DOMAIN handoffs :
       /\ r \in DOMAIN runs /\ r.role \in {"planner", "builder", "reviewer"}
       /\ handoffs[r] \in HandoffRecord /\ handoffs[r].to = After[r.role]
       /\ handoffs[r].brief \in DOMAIN briefs
       /\ r.role # "planner" => handoffs[r].page \in DOMAIN pages
  /\ \A e \in events :
       /\ e.run \in DOMAIN runs
       /\ e.type = "handoff.consumed" =>
            e.ref \in DOMAIN handoffs /\ handoffs[e.ref].to = e.run.role

OtherTypes ==
  /\ asked \in Nat /\ faults \in 0..MaxFaults
  /\ reserved \in [Processes -> SUBSET Reserved]
  /\ idLock \in [Processes -> Callers \cup {None}]
  /\ retryLock \in [Processes -> Callers \cup {None}]

PlaceInv(c) ==
  /\ me[c].pc \in Ran \cup {"saveRun", "failEvent"} => me[c].run \in RunId /\ me[c].run.role = me[c].role
  /\ me[c].pc \in Ran \cup {"failEvent"} => me[c].run \in DOMAIN runs
  /\ me[c].pc \in {"list", "consume", "consumed"} => me[c].role # "planner"
  /\ me[c].pc = "created" => me[c].role = "builder"
  /\ me[c].pc = "saveDeployment" => me[c].role = "deployer"
  /\ me[c].pc \in {"handoff", "handoffEvent", "shown"} => me[c].role # "deployer"
  /\ me[c].pc = "done" => me[c].role \in {"reviewer", "deployer"}
  /\ me[c].pc \in Busy /\ me[c].role # "planner" => me[c].brief \in DOMAIN briefs
  /\ me[c].pc \in Busy \ {"begin"} /\ me[c].role = "planner" => me[c].brief \in Nat
  /\ me[c].pc \in {"handoff", "handoffEvent", "shown"} => me[c].brief \in DOMAIN briefs
  /\ me[c].pc \in Busy /\ me[c].role \in {"reviewer", "deployer"} => me[c].page \in DOMAIN pages
  /\ me[c].pc \in Busy \ {"begin"} /\ me[c].role = "builder" => me[c].page \in Nat
  /\ me[c].pc \in {"created", "handoff", "handoffEvent", "shown"} /\ me[c].role # "planner" =>
       me[c].page \in DOMAIN pages
  /\ me[c].pc \in {"consume", "consumed"} =>
       \A r \in me[c].got : r \in DOMAIN handoffs /\ handoffs[r].to = me[c].role
  /\ me[c].pc = "consumed" => me[c].marked \in me[c].got
  /\ c \in Retries /\ me[c].pc # "idle" => me[c].target \in DOMAIN runs /\ me[c].target.role = me[c].role
  /\ c \in Chains /\ me[c].pc = "idle" => me[c].role = "planner"
  /\ c \in Retries /\ me[c].pc = "begin" => me[c].run \in RunId /\ me[c].run.role = me[c].role

(* A step is one caller's: the others stay where they are.                 *)
Moves(c) == Step(c) \/ AskRetry(c) \/ SaveFails(c)

LEMMA OthersStay ==
  ASSUME NEW c \in Callers, MeInv, Moves(c)
  PROVE  DOMAIN me' = Callers /\ \A d \in Callers : d # c => me'[d] = me[d]
  <1> USE DEF MeInv, Go, Started
  <1>1. CASE Ask(c)
    BY <1>1 DEF Ask
  <1>2. CASE BeginPlanner(c)
    BY <1>2 DEF BeginPlanner
  <1>3. CASE BeginBuilder(c)
    BY <1>3 DEF BeginBuilder
  <1>4. CASE BeginReviewer(c)
    BY <1>4 DEF BeginReviewer
  <1>5. CASE BeginDeployer(c)
    BY <1>5 DEF BeginDeployer
  <1>6. CASE SaveRun(c)
    BY <1>6 DEF SaveRun
  <1>7. CASE ListReady(c)
    BY <1>7 DEF ListReady
  <1>8. CASE Consume(c)
    BY <1>8 DEF Consume
  <1>9. CASE ConsumedEvent(c)
    BY <1>9 DEF ConsumedEvent
  <1>10. CASE Start(c)
    BY <1>10 DEF Start
  <1>11. CASE Runtime(c)
    BY <1>11 DEF Runtime
  <1>12. CASE FailRun(c)
    BY <1>12 DEF FailRun
  <1>13. CASE CompleteRun(c)
    BY <1>13 DEF CompleteRun
  <1>14. CASE SaveBrief(c)
    BY <1>14 DEF SaveBrief
  <1>15. CASE SavePage(c)
    BY <1>15 DEF SavePage
  <1>16. CASE CreatedEvent(c)
    BY <1>16 DEF CreatedEvent
  <1>17. CASE SaveReview(c)
    BY <1>17 DEF SaveReview
  <1>18. CASE RequestDeployment(c)
    BY <1>18 DEF RequestDeployment
  <1>19. CASE SaveDeployment(c)
    BY <1>19 DEF SaveDeployment
  <1>20. CASE SaveHandoff(c)
    BY <1>20 DEF SaveHandoff
  <1>21. CASE NextService(c)
    BY <1>21 DEF NextService
  <1>22. CASE Answer(c)
    BY <1>22 DEF Answer
  <1>23. CASE Retry(c)
    BY <1>23 DEF Retry
  <1>24. CASE EndRetry(c)
    BY <1>24 DEF EndRetry
  <1>25. CASE AskRetry(c)
    BY <1>25 DEF AskRetry
  <1>26. CASE SaveFails(c)
    BY <1>26 DEF SaveFails
  <1> QED
    BY <1>1, <1>2, <1>3, <1>4, <1>5, <1>6, <1>7, <1>8, <1>9, <1>10, <1>11, <1>12, <1>13, <1>14, <1>15, <1>16, <1>17, <1>18, <1>19, <1>20, <1>21, <1>22, <1>23, <1>24, <1>25, <1>26 DEF Moves, Step

(* One number bounds all ids and times.                                    *)
BoundedBy(n) ==
  /\ \A x \in Processes : \A j \in reserved[x] : j.no <= n
  /\ \A r \in DOMAIN runs : r.no <= n
  /\ \A b \in DOMAIN briefs : b <= n
  /\ \A p \in DOMAIN pages : p <= n
  /\ \A h \in DOMAIN handoffs : handoffs[h].at <= n
CountInv == \E n \in Nat : BoundedBy(n)

(* An id that a caller chooses is neither stored nor reserved.             *)
LEMMA NextIdIsFree ==
  ASSUME NEW c \in Callers, NEW kind, NEW used, OtherTypes, CountInv, Bounded(used)
  PROVE  /\ NextId(c, kind, used) \in Nat \ used
         /\ \A j \in reserved[Home[c]] : j.kind = kind => j.no # NextId(c, kind, used)
<1>1. Home[c] \in Processes
  BY AgentRunsAssumption
<1> DEFINE T == {i.no : i \in {j \in reserved[Home[c]] : j.kind = kind}}
<1>2. PICK n \in Nat : \A j \in reserved[Home[c]] : j.no <= n
  BY <1>1 DEF CountInv, BoundedBy
<1>3. \A j \in reserved[Home[c]] : j.no \in Nat
  BY <1>1 DEF OtherTypes, Reserved
<1>4. Bounded(T)
  BY <1>2, <1>3 DEF Bounded
<1>5. \A j \in reserved[Home[c]] : j.kind = kind => j.no \in T
  OBVIOUS
<1> HIDE DEF T
<1>6. Max(used \cup T \cup {0}) + 1 \in Nat \ (used \cup T)
  BY <1>4, NextIsFree
<1>7. NextId(c, kind, used) = Max(used \cup T \cup {0}) + 1
  BY DEF NextId, T
<1> QED
  BY <1>5, <1>6, <1>7

LEMMA StoredIds ==
  ASSUME TablesInv, CountInv
  PROVE  /\ \A role : Bounded(OriginalRuns(role))
         /\ Bounded(DOMAIN briefs) /\ Bounded(DOMAIN pages)
<1>1. PICK n \in Nat : BoundedBy(n)
  BY DEF CountInv
<1>2. Bounded(DOMAIN briefs) /\ Bounded(DOMAIN pages)
  BY <1>1 DEF Bounded, BoundedBy, TablesInv
<1>3. ASSUME NEW role PROVE Bounded(OriginalRuns(role))
  <2>1. \A r \in DOMAIN runs : r.no \in Nat /\ r.no <= n
    BY <1>1 DEF BoundedBy, TablesInv, RunId
  <2> QED
    BY <2>1 DEF Bounded, OriginalRuns
<1> QED
  BY <1>2, <1>3

(* The time of a handoff that is saved is later than those of its page.    *)
LEMMA NowIsLater ==
  ASSUME NEW b, NEW p, HandoffTypes, CountInv
  PROVE  /\ Now(b, p) \in Nat
         /\ \A h \in DOMAIN handoffs :
              handoffs[h].brief = b /\ handoffs[h].page = p => handoffs[h].at < Now(b, p)
<1> DEFINE G == {g \in Range(handoffs) : g.brief = b /\ g.page = p}
           S == {h.at : h \in G}
<1>1. PICK n \in Nat : \A h \in DOMAIN handoffs : handoffs[h].at <= n
  BY DEF CountInv, BoundedBy
<1>2. \A g \in Range(handoffs) : g.at \in Nat /\ g.at <= n
  BY <1>1 DEF Range, HandoffTypes, HandoffRecord
<1>3. Bounded(S \cup {0})
  BY <1>2 DEF Bounded
<1>4. \A h \in DOMAIN handoffs :
        handoffs[h].brief = b /\ handoffs[h].page = p => handoffs[h].at \in S
  BY DEF Range
<1>5. Now(b, p) = Max(S \cup {0}) + 1
  BY DEF Now
<1> HIDE DEF S
<1>6. Max(S \cup {0}) \in Nat /\ \A k \in S : k \in Nat /\ k <= Max(S \cup {0})
  BY <1>3, MaxIs DEF Bounded
<1> QED
  BY <1>4, <1>5, <1>6

(* The ids of new runs, briefs and pages.                                  *)
LEMMA NewIds ==
  ASSUME NEW c \in Callers, TablesInv, OtherTypes, CountInv
  PROVE  /\ NextId(c, "brief", DOMAIN briefs) \in Nat \ DOMAIN briefs
         /\ NextId(c, "page", DOMAIN pages) \in Nat \ DOMAIN pages
         /\ \A role : NextId(c, role, OriginalRuns(role)) \in Nat \ OriginalRuns(role)
  BY NextIdIsFree, StoredIds

LEMMA NewRunType ==
  ASSUME NEW c \in Callers, TablesInv, OtherTypes, CountInv, MeInv, PlaceInv(c), At(c, "begin")
  PROVE  NewRun(c) \in RunId /\ NewRun(c).role = me[c].role
<1>1. CASE c \in Retries
  BY <1>1 DEF NewRun, PlaceInv, At
<1>2. CASE c \notin Retries
  <2>1. PICK n \in Nat : n = NextId(c, me[c].role, OriginalRuns(me[c].role))
    BY NewIds
  <2>2. me[c].role \in Roles /\ <<>> \in Seq(Nat)
    BY DEF MeInv, Caller
  <2>3. NewRun(c) = [role |-> me[c].role, no |-> n, retries |-> <<>>]
    BY <1>2, <2>1 DEF NewRun
  <2> QED
    BY <2>2, <2>3 DEF RunId
<1> QED
  BY <1>1, <1>2

LEMMA RetryIdFree ==
  ASSUME TablesInv, NEW r \in DOMAIN runs
  PROVE  RetryId(r) \in RunId /\ RetryId(r) \notin DOMAIN runs /\ RetryId(r).role = r.role
<1> DEFINE Numbered(n) == [r EXCEPT !.retries = Append(@, n)]
           Free(n) == Numbered(n) \notin DOMAIN runs /\ \A m \in 1..(n - 1) : Numbered(m) \in DOMAIN runs
           K == Cardinality(DOMAIN runs) + 1
<1>1. r \in RunId /\ IsFiniteSet(DOMAIN runs)
  BY DEF TablesInv
<1>2. \E n \in 1..K : Free(n)
  BY <1>1, FreeNumber
<1>3. PICK n : n = CHOOSE m \in 1..K : Free(m)
  OBVIOUS
<1>4. n \in 1..K /\ Free(n)
  BY <1>2, <1>3
<1>5. RetryId(r) = Numbered(n)
  BY <1>3 DEF RetryId
<1>6. Numbered(n) \in RunId /\ Numbered(n).role = r.role
  <2>1. n \in Nat /\ r.retries \in Seq(Nat)
    BY <1>1, <1>4, FS_CardinalityType DEF RunId
  <2>2. Append(r.retries, n) \in Seq(Nat)
    BY <2>1
  <2> QED
    BY <1>1, <2>2 DEF RunId
<1> QED
  BY <1>4, <1>5, <1>6

(* What a retry works on is stored.                                        *)
LEMMA RetryInputTypes ==
  ASSUME TablesInv, HandoffTypes, NEW r \in DOMAIN runs, NEW input \in RetryInputs(r)
  PROVE  /\ r.role = "planner" => input.brief = None /\ input.page = None
         /\ r.role = "builder" => input.brief \in DOMAIN briefs /\ input.page = None
         /\ r.role \in {"reviewer", "deployer"} =>
              /\ input.page \in DOMAIN pages /\ input.page \in ReviewedPages(r)
              /\ input.brief = pages[input.page].brief /\ input.brief \in DOMAIN briefs
         /\ {input.brief, input.page} \subseteq Nat \cup {None}
  <1>1. r.role \in Roles
    BY DEF TablesInv, RunId
  <1>2. CASE r.role = "planner"
    BY <1>2 DEF RetryInputs
  <1>3. CASE r.role = "builder"
    <2>1. input.brief \in BuilderBriefs(r) /\ input.page = None
      BY <1>3 DEF RetryInputs
    <2>2. BuilderBriefs(r) \subseteq {snapshot.brief} \ {None}
      BY DEF BuilderBriefs
    <2> QED
      BY <1>3, <2>1, <2>2 DEF TablesInv
  <1>4. CASE r.role \in {"reviewer", "deployer"}
    <2>1. PICK p \in ReviewedPages(r) : input = [brief |-> pages[p].brief, page |-> p]
      BY <1>4 DEF RetryInputs
    <2>2. \A h \in Consumed(r) : h.page \in DOMAIN pages
      <3> SUFFICES ASSUME NEW e \in events, e.run = r, e.type = "handoff.consumed"
                   PROVE  handoffs[e.ref].page \in DOMAIN pages
        BY DEF Consumed, EventsOf
      <3>1. e.ref \in DOMAIN handoffs /\ After[e.ref.role] = r.role
        BY DEF HandoffTypes
      <3>2. e.ref.role # "planner"
        BY <1>4, <3>1 DEF After
      <3> QED
        BY <3>1, <3>2 DEF HandoffTypes
    <2>3. p \in DOMAIN pages
      BY <2>1, <2>2 DEF ReviewedPages, TablesInv
    <2> QED
      BY <1>4, <2>1, <2>3 DEF TablesInv
  <1> QED
    BY <1>1, <1>2, <1>3, <1>4 DEF Roles

(* The call of c goes on with the fields that e says.                      *)
LEMMA MeChange ==
  ASSUME NEW c \in Callers, MeInv, NEW m \in Caller, me' = [me EXCEPT ![c] = m]
  PROVE  MeInv'
  BY DEF MeInv

LEMMA MeStep ==
  ASSUME NEW c \in Callers, MeInv, TablesInv, HandoffTypes, OtherTypes, CountInv, PlaceInv(c), Moves(c)
  PROVE  MeInv'
  <1>a. me[c] \in Caller
    BY DEF MeInv
  <1>b. ASSUME NEW x \in PCs, Go(c, x) PROVE MeInv'
    <2>1. [me[c] EXCEPT !.pc = x] \in Caller
      BY <1>a DEF Caller
    <2> QED
      BY <1>b, <2>1, MeChange DEF Go
  <1>c. ASSUME At(c, "begin"), me' = Started(c) PROVE MeInv'
    <2>1. NewRun(c) \in RunId
      BY <1>c, NewRunType
    <2>2. [me[c] EXCEPT !.pc = "saveRun", !.run = NewRun(c), !.seq = 1, !.got = {}] \in Caller
      BY <1>a, <2>1 DEF Caller, PCs, Busy, Ref
    <2> QED
      BY <1>c, <2>2, MeChange DEF Started
  <1>d. ASSUME NEW x \in PCs, me' = [me EXCEPT ![c] = [@ EXCEPT !.seq = me[c].seq + 1, !.pc = x]] PROVE MeInv'
    <2>1. PICK n \in Nat : n = me[c].seq + 1
      BY <1>a DEF Caller
    <2>2. [me[c] EXCEPT !.seq = n, !.pc = x] \in Caller
      BY <1>a, <2>1 DEF Caller
    <2>3. me' = [me EXCEPT ![c] = [me[c] EXCEPT !.seq = n, !.pc = x]]
      BY <1>d, <2>1
    <2> QED
      BY <2>2, <2>3, MeChange
  <1>p. {"begin", "list", "start", "consume", "consumed", "fail", "failEvent", "error", "runtime", "complete",
         "completeEvent", "output", "handoff", "created", "done", "saveDeployment", "handoffEvent", "shown",
         "answered", "failed", "refused", "wait"} \subseteq PCs
    BY DEF PCs, Busy, Ran
  <1>1. CASE Ask(c)
    BY <1>1, <1>p, <1>b DEF Ask
  <1>2. CASE BeginPlanner(c)
    <2>1. PICK b : b = NextId(c, "brief", DOMAIN briefs)
      OBVIOUS
    <2>2. NewRun(c) \in RunId /\ b \in Nat
      BY <1>2, <2>1, NewRunType, NewIds DEF BeginPlanner, Begins
    <2>3. [me[c] EXCEPT !.pc = "saveRun", !.run = NewRun(c), !.seq = 1, !.got = {}, !.brief = b] \in Caller
      BY <1>a, <2>2 DEF Caller, PCs, Busy, Ref, No
    <2>4. me' = [Started(c) EXCEPT ![c].brief = b]
      BY <1>2, <2>1 DEF BeginPlanner
    <2>5. me' = [me EXCEPT ![c] = [me[c] EXCEPT !.pc = "saveRun", !.run = NewRun(c), !.seq = 1, !.got = {}, !.brief = b]]
      BY <2>4 DEF Started, MeInv, Caller
    <2> QED
      BY <2>3, <2>5, MeChange
  <1>3. CASE BeginBuilder(c)
    <2>1. PICK p : p = NextId(c, "page", DOMAIN pages)
      OBVIOUS
    <2>2. NewRun(c) \in RunId /\ p \in Nat
      BY <1>3, <2>1, NewRunType, NewIds DEF BeginBuilder, Begins
    <2>3. [me[c] EXCEPT !.pc = "saveRun", !.run = NewRun(c), !.seq = 1, !.got = {}, !.page = p] \in Caller
      BY <1>a, <2>2 DEF Caller, PCs, Busy, Ref, No
    <2>4. me' = [Started(c) EXCEPT ![c].page = p]
      BY <1>3, <2>1 DEF BeginBuilder
    <2>5. me' = [me EXCEPT ![c] = [me[c] EXCEPT !.pc = "saveRun", !.run = NewRun(c), !.seq = 1, !.got = {}, !.page = p]]
      BY <2>4 DEF Started, MeInv, Caller
    <2> QED
      BY <2>3, <2>5, MeChange
  <1>4. CASE BeginReviewer(c)
    BY <1>4, <1>p, <1>b, <1>c DEF BeginReviewer, Begins
  <1>5. CASE BeginDeployer(c)
    BY <1>5, <1>p, <1>b, <1>c DEF BeginDeployer, Begins
  <1>6. CASE SaveRun(c)
    BY <1>6, <1>p, <1>b DEF SaveRun
  <1>7. CASE ListReady(c)
    <2>1. PICK ready : /\ ready = {r \in DOMAIN handoffs : handoffs[r].state = "ready" /\ Matching(c, handoffs[r])}
                       /\ me' = [me EXCEPT ![c] = [@ EXCEPT !.got = ready, !.pc = IF ready = {} THEN "start" ELSE "consume"]]
      BY <1>7 DEF ListReady
    <2>2. ready \subseteq RunId
      BY <2>1 DEF HandoffTypes, TablesInv
    <2>3. PICK x \in PCs : x = IF ready = {} THEN "start" ELSE "consume"
      BY <1>p
    <2>4. [me[c] EXCEPT !.got = ready, !.pc = x] \in Caller
      BY <1>a, <2>2 DEF Caller
    <2> QED
      BY <2>1, <2>3, <2>4, MeChange
  <1>8. CASE Consume(c)
    <2>1. PICK r \in me[c].got : me' = [me EXCEPT ![c] = [@ EXCEPT !.pc = "consumed", !.marked = r]]
      BY <1>8 DEF Consume
    <2>2. [me[c] EXCEPT !.pc = "consumed", !.marked = r] \in Caller
      BY <1>a, <1>p, <2>1 DEF Caller, Ref
    <2> QED
      BY <2>1, <2>2, MeChange
  <1>9. CASE ConsumedEvent(c)
    <2>1. CASE Go(c, "fail")
      BY <1>p, <1>b, <2>1
    <2>2. CASE ~Go(c, "fail")
      <3>1. PICK left : /\ left = me[c].got \ {me[c].marked}
                        /\ me' = [me EXCEPT ![c] = [@ EXCEPT !.seq = me[c].seq + 1, !.got = left,
                                                 !.pc = IF left = {} THEN "start" ELSE "consume"]]
        BY <1>9, <2>2 DEF ConsumedEvent
      <3>2. left \subseteq RunId
        BY <1>a, <3>1 DEF Caller
      <3>3. PICK x \in PCs : x = IF left = {} THEN "start" ELSE "consume"
        BY <1>p
      <3>4. PICK n \in Nat : n = me[c].seq + 1
        BY <1>a DEF Caller
      <3>5. [me[c] EXCEPT !.seq = n, !.got = left, !.pc = x] \in Caller
        BY <1>a, <3>2, <3>4 DEF Caller
      <3>6. me' = [me EXCEPT ![c] = [me[c] EXCEPT !.seq = n, !.got = left, !.pc = x]]
        BY <3>1, <3>3, <3>4
      <3> QED
        BY <3>5, <3>6, MeChange
    <2> QED BY <2>1, <2>2
  <1>10. CASE Start(c)
    BY <1>10, <1>p, <1>d DEF Start
  <1>11. CASE Runtime(c)
    <2>1. CASE Go(c, "fail")
      BY <1>p, <1>b, <2>1
    <2>2. ASSUME NEW g \in BOOLEAN, me' = [me EXCEPT ![c] = [@ EXCEPT !.pc = "complete", !.good = g]]
          PROVE  MeInv'
      <3>1. [me[c] EXCEPT !.pc = "complete", !.good = g] \in Caller
        BY <1>a, <1>p DEF Caller
      <3> QED
        BY <2>2, <3>1, MeChange
    <2> QED BY <1>11, <2>1, <2>2 DEF Runtime
  <1>12. CASE FailRun(c)
    BY <1>12, <1>p, <1>b DEF FailRun
  <1>13. CASE CompleteRun(c)
    BY <1>13, <1>p, <1>b, <1>d DEF CompleteRun
  <1>14. CASE SaveBrief(c)
    BY <1>14, <1>p, <1>b DEF SaveBrief
  <1>15. CASE SavePage(c)
    BY <1>15, <1>p, <1>b DEF SavePage
  <1>16. CASE CreatedEvent(c)
    BY <1>16, <1>p, <1>d DEF CreatedEvent
  <1>17. CASE SaveReview(c)
    BY <1>17, <1>p, <1>b DEF SaveReview
  <1>18. CASE RequestDeployment(c)
    BY <1>18, <1>p, <1>b DEF RequestDeployment
  <1>19. CASE SaveDeployment(c)
    BY <1>19, <1>p, <1>b DEF SaveDeployment
  <1>20. CASE SaveHandoff(c)
    BY <1>20, <1>p, <1>b DEF SaveHandoff
  <1>21. CASE NextService(c)
    <2>1. CASE Go(c, "done")
      BY <1>p, <1>b, <2>1
    <2>2. CASE ~Go(c, "done")
      <3>1. me' = [me EXCEPT ![c] = [@ EXCEPT !.pc = "begin", !.role = After[me[c].role]]]
        BY <1>21, <2>2 DEF NextService
      <3>2. After[me[c].role] \in Roles
        <4>1. me[c].role \in {"planner", "builder", "reviewer"}
          BY <1>21, <1>a DEF NextService, At, PlaceInv, Caller, Roles
        <4> QED BY <4>1 DEF After, Roles
      <3>3. [me[c] EXCEPT !.pc = "begin", !.role = After[me[c].role]] \in Caller
        BY <1>a, <1>p, <3>2 DEF Caller
      <3> QED
        BY <3>1, <3>3, MeChange
    <2> QED BY <2>1, <2>2
  <1>22. CASE Answer(c)
    BY <1>22, <1>p, <1>b DEF Answer
  <1>23. CASE Retry(c)
    <2>1. CASE Go(c, "refused")
      BY <1>p, <1>b, <2>1
    <2>2. CASE ~Go(c, "refused")
      <3>1. PICK input \in RetryInputs(me[c].target) :
              me' = [me EXCEPT ![c] = [@ EXCEPT !.pc = "begin", !.run = RetryId(me[c].target),
                                              !.brief = input.brief, !.page = input.page]]
        BY <1>23, <2>2 DEF Retry
      <3>2. me[c].target \in DOMAIN runs
        BY <1>23 DEF Retry, PlaceInv, At
      <3>3. RetryId(me[c].target) \in Ref
        BY <3>2, RetryIdFree DEF Ref
      <3>4. PICK b \in No, p \in No : b = input.brief /\ p = input.page
        BY <3>1, <3>2, RetryInputTypes DEF No
      <3>5. [me[c] EXCEPT !.pc = "begin", !.run = RetryId(me[c].target), !.brief = b, !.page = p] \in Caller
        BY <1>a, <1>p, <3>3 DEF Caller
      <3> QED
        BY <3>1, <3>4, <3>5, MeChange
    <2> QED BY <2>1, <2>2
  <1>24. CASE EndRetry(c)
    BY <1>24, <1>p, <1>b DEF EndRetry
  <1>25. CASE AskRetry(c)
    <2>1. PICK r \in DOMAIN runs : me' = [me EXCEPT ![c] = [@ EXCEPT !.pc = "wait", !.target = r, !.role = r.role]]
      BY <1>25 DEF AskRetry
    <2>2. r \in RunId /\ r.role \in Roles
      BY DEF TablesInv, RunId
    <2>3. [me[c] EXCEPT !.pc = "wait", !.target = r, !.role = r.role] \in Caller
      BY <1>a, <1>p, <2>2 DEF Caller, Ref
    <2> QED
      BY <2>1, <2>3, MeChange
  <1>26. CASE SaveFails(c)
    BY <1>26, <1>p, <1>b DEF SaveFails
  <1> QED
    BY <1>1, <1>2, <1>3, <1>4, <1>5, <1>6, <1>7, <1>8, <1>9, <1>10, <1>11, <1>12, <1>13, <1>14, <1>15, <1>16, <1>17, <1>18, <1>19, <1>20, <1>21, <1>22, <1>23, <1>24, <1>25, <1>26 DEF Moves, Step

-----------------------------------------------------------------------------
(* Who saves what.                                                         *)

LEMMA WhoSaves ==
  ASSUME NEW c \in Callers, Moves(c)
  PROVE  /\ asked' = asked \/ Ask(c)
         /\ runs' = runs \/ SaveRun(c) \/ FailRun(c) \/ CompleteRun(c)
         /\ \/ events' = events \/ ConsumedEvent(c) \/ Start(c) \/ FailRun(c)
            \/ CompleteRun(c) \/ CreatedEvent(c) \/ SaveHandoff(c)
         /\ handoffs' = handoffs \/ Consume(c) \/ ConsumedEvent(c) \/ SaveHandoff(c)
         /\ briefs' = briefs \/ SaveBrief(c)
         /\ pages' = pages \/ SavePage(c) \/ SaveReview(c)
         /\ deployments' = deployments \/ SaveDeployment(c)
         /\ requested' = requested \/ RequestDeployment(c)
         /\ snapshot' = snapshot \/ NextService(c) \/ Answer(c) \/ EndRetry(c)
         /\ \/ reserved' = reserved \/ BeginPlanner(c) \/ BeginBuilder(c) \/ BeginReviewer(c)
            \/ BeginDeployer(c) \/ NextService(c) \/ Answer(c) \/ EndRetry(c)
         /\ idLock' = idLock \/ RequestDeployment(c) \/ SaveDeployment(c) \/ SaveFails(c)
         /\ retryLock' = retryLock \/ Retry(c) \/ EndRetry(c)
         /\ faults' = faults \/ ConsumedEvent(c) \/ Runtime(c) \/ SaveFails(c)
  <1> USE DEF records
  <1>1. CASE Ask(c)
    BY <1>1 DEF Ask
  <1>2. CASE BeginPlanner(c)
    BY <1>2 DEF BeginPlanner, Begins
  <1>3. CASE BeginBuilder(c)
    BY <1>3 DEF BeginBuilder, Begins
  <1>4. CASE BeginReviewer(c)
    BY <1>4 DEF BeginReviewer, Begins
  <1>5. CASE BeginDeployer(c)
    BY <1>5 DEF BeginDeployer, Begins
  <1>6. CASE SaveRun(c)
    BY <1>6 DEF SaveRun
  <1>7. CASE ListReady(c)
    BY <1>7 DEF ListReady
  <1>8. CASE Consume(c)
    BY <1>8 DEF Consume
  <1>9. CASE ConsumedEvent(c)
    BY <1>9 DEF ConsumedEvent
  <1>10. CASE Start(c)
    BY <1>10 DEF Start
  <1>11. CASE Runtime(c)
    BY <1>11 DEF Runtime
  <1>12. CASE FailRun(c)
    BY <1>12 DEF FailRun
  <1>13. CASE CompleteRun(c)
    BY <1>13 DEF CompleteRun
  <1>14. CASE SaveBrief(c)
    BY <1>14 DEF SaveBrief
  <1>15. CASE SavePage(c)
    BY <1>15 DEF SavePage
  <1>16. CASE CreatedEvent(c)
    BY <1>16 DEF CreatedEvent
  <1>17. CASE SaveReview(c)
    BY <1>17 DEF SaveReview
  <1>18. CASE RequestDeployment(c)
    BY <1>18 DEF RequestDeployment
  <1>19. CASE SaveDeployment(c)
    BY <1>19 DEF SaveDeployment
  <1>20. CASE SaveHandoff(c)
    BY <1>20 DEF SaveHandoff
  <1>21. CASE NextService(c)
    BY <1>21 DEF NextService
  <1>22. CASE Answer(c)
    BY <1>22 DEF Answer
  <1>23. CASE Retry(c)
    BY <1>23 DEF Retry
  <1>24. CASE EndRetry(c)
    BY <1>24 DEF EndRetry
  <1>25. CASE AskRetry(c)
    BY <1>25 DEF AskRetry
  <1>26. CASE SaveFails(c)
    BY <1>26 DEF SaveFails
  <1> QED
    BY <1>1, <1>2, <1>3, <1>4, <1>5, <1>6, <1>7, <1>8, <1>9, <1>10, <1>11, <1>12, <1>13, <1>14, <1>15, <1>16, <1>17, <1>18, <1>19, <1>20, <1>21, <1>22, <1>23, <1>24, <1>25, <1>26 DEF Moves, Step
-----------------------------------------------------------------------------
(* The tables: records are added and never removed.                        *)

LEMMA RunsGrow ==
  ASSUME NEW c \in Callers, MeInv, TablesInv, OtherTypes, PlaceInv(c), Moves(c)
  PROVE  /\ DOMAIN runs \subseteq DOMAIN runs' /\ IsFiniteSet(DOMAIN runs')
         /\ \A r \in DOMAIN runs' : r \in RunId /\ runs'[r] \in RunRecord
         /\ \A r \in DOMAIN runs' \ DOMAIN runs : SaveRun(c) /\ r = me[c].run
<1> DEFINE r0 == me[c].run
<1>1. CASE runs' = runs
  BY <1>1 DEF TablesInv
<1>2. CASE SaveRun(c)
  <2> DEFINE rec == [state |-> "running", prompt |-> asked,
                     knewBriefs |-> DOMAIN briefs, knewPages |-> DOMAIN pages]
  <2>1. rec \in RunRecord
    BY DEF RunRecord, TablesInv, OtherTypes
  <2>2. runs' = Put(runs, r0, rec)
    BY <1>2 DEF SaveRun
  <2>3. r0 \in RunId
    BY <1>2 DEF SaveRun, PlaceInv, At
  <2> HIDE DEF rec
  <2>4. DOMAIN runs' = DOMAIN runs \cup {r0} /\ runs'[r0] = rec
        /\ \A r \in DOMAIN runs : r # r0 => runs'[r] = runs[r]
    BY <2>2 DEF Put
  <2>5. IsFiniteSet(DOMAIN runs')
    BY <2>4, FS_AddElement DEF TablesInv
  <2> QED
    BY <1>2, <2>1, <2>3, <2>4, <2>5 DEF TablesInv
<1>3. ASSUME NEW state \in {"failed", "completed"}, Ended(c, state), r0 \in DOMAIN runs
      PROVE  /\ DOMAIN runs' = DOMAIN runs /\ runs'[r0] \in RunRecord
             /\ \A r \in DOMAIN runs : r # r0 => runs'[r] = runs[r]
  <2>1. PICK kept : /\ kept = IF state = "failed" THEN runs[r0]
                              ELSE [state |-> state, prompt |-> 0, knewBriefs |-> {}, knewPages |-> {}]
                    /\ runs' = [runs EXCEPT ![r0] = [kept EXCEPT !.state = state]]
    BY <1>3 DEF Ended
  <2>2. kept \in RunRecord
    BY <1>3, <2>1 DEF TablesInv, RunRecord
  <2>3. [kept EXCEPT !.state = state] \in RunRecord
    BY <2>2 DEF RunRecord
  <2> QED
    BY <1>3, <2>1, <2>3
<1>4. CASE (FailRun(c) \/ CompleteRun(c)) /\ runs' # runs
  <2>1. PICK state \in {"failed", "completed"} : Ended(c, state) /\ r0 \in DOMAIN runs
    BY <1>4 DEF FailRun, CompleteRun, PlaceInv, At, Ran
  <2> QED
    BY <1>3, <2>1 DEF TablesInv
<1> QED
  BY <1>1, <1>2, <1>4, WhoSaves

LEMMA BriefsGrow ==
  ASSUME NEW c \in Callers, TablesInv, PlaceInv(c), Moves(c)
  PROVE  /\ DOMAIN briefs \subseteq DOMAIN briefs' /\ DOMAIN briefs' \subseteq Nat
         /\ \A b \in DOMAIN briefs' \ DOMAIN briefs : SaveBrief(c) /\ b = me[c].brief
<1>1. CASE briefs' = briefs
  BY <1>1 DEF TablesInv
<1>2. CASE SaveBrief(c)
  <2>1. me[c].brief \in Nat
    BY <1>2 DEF SaveBrief, PlaceInv, At, Busy, Ran
  <2> QED
    BY <1>2, <2>1 DEF Put, SaveBrief, TablesInv
<1> QED
  BY <1>1, <1>2, WhoSaves

LEMMA PagesGrow ==
  ASSUME NEW c \in Callers, MeInv, TablesInv, PlaceInv(c), Moves(c)
  PROVE  /\ DOMAIN pages \subseteq DOMAIN pages'
         /\ \A p \in DOMAIN pages' : p \in Nat /\ pages'[p] \in PageRecord /\ pages'[p].brief \in DOMAIN briefs
         /\ \A p \in DOMAIN pages' \ DOMAIN pages : SavePage(c) /\ p = me[c].page
         /\ \A p \in DOMAIN pages : p = me[c].page \/ pages'[p] = pages[p]
<1> DEFINE p0 == me[c].page
<1>1. CASE pages' = pages
  BY <1>1 DEF TablesInv
<1>2. CASE SavePage(c) /\ pages' # pages
  <2>1. p0 \in Nat /\ me[c].brief \in DOMAIN briefs /\ me[c].run \in RunId
    BY <1>2 DEF SavePage, PlaceInv, At, Busy, Ran
  <2> DEFINE rec == [run |-> me[c].run, brief |-> me[c].brief, status |-> "pending", blocker |-> FALSE]
  <2>2. rec \in PageRecord /\ rec.brief \in DOMAIN briefs
    BY <2>1 DEF PageRecord, TablesInv
  <2>3. pages' = Put(pages, p0, rec)
    BY <1>2 DEF SavePage
  <2> HIDE DEF rec
  <2>4. DOMAIN pages' = DOMAIN pages \cup {p0} /\ pages'[p0] = rec
        /\ \A p \in DOMAIN pages : p # p0 => pages'[p] = pages[p]
    BY <2>3 DEF Put
  <2> QED
    BY <1>2, <2>1, <2>2, <2>4 DEF TablesInv
<1>3. CASE SaveReview(c)
  <2>1. p0 \in DOMAIN pages
    BY <1>3 DEF SaveReview, PlaceInv, At, Busy, Ran
  <2>2. me[c].good \in BOOLEAN
    BY DEF MeInv, Caller
  <2>3. PICK v \in Verdicts, b \in BOOLEAN : v = Verdict(c) /\ b = ~me[c].good
    BY <2>2 DEF Verdict, Verdicts
  <2>4. pages' = [pages EXCEPT ![p0] = [@ EXCEPT !.status = v, !.blocker = b]]
    BY <1>3, <2>3 DEF SaveReview
  <2>5. [pages[p0] EXCEPT !.status = v, !.blocker = b] \in PageRecord
    <3>1. pages[p0] \in PageRecord /\ v \in Verdicts \cup {"pending"}
      BY <2>1 DEF TablesInv
    <3> QED
      BY <3>1 DEF PageRecord
  <2>6. [pages[p0] EXCEPT !.status = v, !.blocker = b].brief = pages[p0].brief
    BY <2>1 DEF TablesInv, PageRecord
  <2>7. DOMAIN pages' = DOMAIN pages /\ pages'[p0] \in PageRecord /\ pages'[p0].brief = pages[p0].brief
        /\ \A p \in DOMAIN pages : p # p0 => pages'[p] = pages[p]
    BY <2>1, <2>4, <2>5, <2>6
  <2> QED
    BY <1>3, <2>1, <2>7 DEF TablesInv
<1> QED
  BY <1>1, <1>2, <1>3, WhoSaves

LEMMA TablesStep ==
  ASSUME NEW c \in Callers, MeInv, TablesInv, OtherTypes, PlaceInv(c), Moves(c)
  PROVE  TablesInv'
<1>1. \A r \in DOMAIN runs' : r \in RunId /\ runs'[r] \in RunRecord
  BY RunsGrow
<1>2. IsFiniteSet(DOMAIN runs')
  BY RunsGrow
<1>3. DOMAIN briefs \subseteq DOMAIN briefs' /\ DOMAIN briefs' \subseteq Nat
  BY BriefsGrow
<1>4. /\ DOMAIN pages \subseteq DOMAIN pages'
      /\ \A p \in DOMAIN pages' : p \in Nat /\ pages'[p] \in PageRecord /\ pages'[p].brief \in DOMAIN briefs
  BY PagesGrow
<1>5. deployments' \subseteq DOMAIN pages'
  <2>1. CASE SaveDeployment(c)
    BY <1>4, <2>1 DEF SaveDeployment, PlaceInv, At, Busy, TablesInv
  <2> QED
    BY <1>4, <2>1, WhoSaves DEF TablesInv
<1>6. DOMAIN requested' \subseteq DOMAIN pages'
  <2>1. CASE RequestDeployment(c) /\ requested' # requested
    <3>1. me[c].page \in DOMAIN pages
      BY <2>1 DEF RequestDeployment, PlaceInv, At, Busy, Ran
    <3>2. DOMAIN requested' = DOMAIN requested \cup {me[c].page}
      BY <2>1 DEF Put, RequestDeployment
    <3> QED
      BY <1>4, <3>1, <3>2 DEF TablesInv
  <2> QED
    BY <1>4, <2>1, WhoSaves DEF TablesInv
<1>7. snapshot'.brief \in DOMAIN briefs \cup {None} /\ snapshot'.page \in DOMAIN pages \cup {None}
  <2>1. CASE snapshot' = snapshot
    BY <2>1 DEF TablesInv
  <2>2. CASE snapshot' = Shown(c) /\ me[c].pc \in {"shown", "done"}
    BY <2>2 DEF Shown, PlaceInv, Busy, Ran
  <2> QED
    BY <2>1, <2>2, WhoSaves DEF NextService, Answer, EndRetry, At
<1> QED
  BY <1>1, <1>2, <1>3, <1>4, <1>5, <1>6, <1>7 DEF TablesInv
-----------------------------------------------------------------------------
(* The handoffs and the events.                                            *)

LEMMA MarkedFacts ==
  ASSUME NEW r \in DOMAIN handoffs, NEW state \in {"ready", "blocked", "consumed"},
         HandoffTypes, CountInv, Marked(r, state)
  PROVE  /\ DOMAIN handoffs' = DOMAIN handoffs
         /\ \A h \in DOMAIN handoffs : h # r => handoffs'[h] = handoffs[h]
         /\ handoffs'[r] \in HandoffRecord /\ handoffs'[r].state = state
         /\ handoffs'[r].to = handoffs[r].to /\ handoffs'[r].brief = handoffs[r].brief
         /\ handoffs'[r].page = handoffs[r].page
         /\ handoffs'[r].at = Now(handoffs[r].brief, handoffs[r].page)
<1>1. PICK n \in Nat : n = Now(handoffs[r].brief, handoffs[r].page)
  BY NowIsLater
<1>2. PICK h : h = [handoffs[r] EXCEPT !.state = state, !.at = n]
  OBVIOUS
<1>3. handoffs[r] \in HandoffRecord
  BY DEF HandoffTypes
<1>4. /\ h \in HandoffRecord /\ h.state = state /\ h.at = n
      /\ h.to = handoffs[r].to /\ h.brief = handoffs[r].brief /\ h.page = handoffs[r].page
  BY <1>2, <1>3 DEF HandoffRecord
<1>5. handoffs' = [handoffs EXCEPT ![r] = h]
  BY <1>1, <1>2 DEF Marked
<1> QED
  BY <1>1, <1>4, <1>5

(* The record that a step changes is one that c has listed, or the handoff *)
(* of its run.                                                             *)
Marks(c) ==
  /\ me[c].pc \in {"consume", "consumed"}
  /\ \E r \in DOMAIN handoffs, state \in {"ready", "consumed"} :
       r \in me[c].got /\ r = me'[c].marked /\ Marked(r, state)

Hands(c) ==
  /\ SaveHandoff(c) /\ At(c, "handoff")
  /\ me[c].run \in RunId /\ me[c].run \in DOMAIN runs /\ me[c].run.role = me[c].role
  /\ me[c].role \in {"planner", "builder", "reviewer"}
  /\ me[c].brief \in DOMAIN briefs
  /\ me[c].role # "planner" => me[c].page \in DOMAIN pages
  /\ DOMAIN handoffs' = DOMAIN handoffs \cup {me[c].run}
  /\ \A h \in DOMAIN handoffs : h # me[c].run => handoffs'[h] = handoffs[h]
  /\ handoffs'[me[c].run] \in HandoffRecord
  /\ handoffs'[me[c].run].to = After[me[c].role]
  /\ handoffs'[me[c].run].brief = me[c].brief /\ handoffs'[me[c].run].page = me[c].page
  /\ handoffs'[me[c].run].state = HandoffState(c)
  /\ handoffs'[me[c].run].at = Now(me[c].brief, me[c].page)

LEMMA HandoffSteps ==
  ASSUME NEW c \in Callers, MeInv, TablesInv, HandoffTypes, CountInv, PlaceInv(c), Moves(c)
  PROVE  handoffs' = handoffs \/ Marks(c) \/ Hands(c)
<1>1. CASE Consume(c)
  <2>1. PICK r \in me[c].got : Take(r) /\ me' = [me EXCEPT ![c] = [@ EXCEPT !.pc = "consumed", !.marked = r]]
    BY <1>1 DEF Consume
  <2>2. r \in DOMAIN handoffs /\ me[c].pc = "consume"
    BY <1>1, <2>1 DEF Consume, At, PlaceInv
  <2>3. me'[c].marked = r
    BY <2>1 DEF MeInv, Caller
  <2> QED
    BY <2>1, <2>2, <2>3 DEF Take, Marks
<1>2. CASE ConsumedEvent(c) /\ handoffs' # handoffs
  <2>1. me[c].pc = "consumed" /\ me[c].marked \in me[c].got /\ me[c].marked \in DOMAIN handoffs
    BY <1>2 DEF ConsumedEvent, At, PlaceInv
  <2>2. Marked(me[c].marked, "ready") /\ Go(c, "fail")
    BY <1>2 DEF ConsumedEvent, Rollback
  <2>3. me'[c].marked = me[c].marked
    BY <2>2 DEF Go, MeInv, Caller
  <2> QED
    BY <2>1, <2>2, <2>3 DEF Marks
<1>3. CASE SaveHandoff(c) /\ handoffs' # handoffs
  <2> DEFINE r == me[c].run
  <2>1. At(c, "handoff")
    BY <1>3 DEF SaveHandoff
  <2>2. /\ r \in RunId /\ r \in DOMAIN runs /\ r.role = me[c].role
        /\ me[c].role # "deployer" /\ me[c].brief \in DOMAIN briefs
        /\ me[c].role # "planner" => me[c].page \in DOMAIN pages
    BY <2>1 DEF At, PlaceInv, Ran
  <2>3. me[c].role \in {"planner", "builder", "reviewer"} /\ me[c].page \in No
    BY <2>2 DEF MeInv, Caller, Roles
  <2>4. PICK n \in Nat : n = Now(me[c].brief, me[c].page)
    BY NowIsLater
  <2>5. PICK rec : rec = [to |-> After[me[c].role], brief |-> me[c].brief, page |-> me[c].page,
                          state |-> HandoffState(c), at |-> n]
    OBVIOUS
  <2>6. rec \in HandoffRecord
    <3>1. After[me[c].role] \in Roles /\ HandoffState(c) \in {"ready", "blocked", "consumed"}
      BY <2>3 DEF After, Roles, HandoffState
    <3>2. me[c].brief \in Nat
      BY <2>2 DEF TablesInv
    <3> QED
      BY <2>3, <2>5, <3>1, <3>2 DEF HandoffRecord
  <2>7. handoffs' = Put(handoffs, r, rec)
    BY <1>3, <2>1, <2>4, <2>5 DEF SaveHandoff
  <2>8. DOMAIN handoffs' = DOMAIN handoffs \cup {r} /\ handoffs'[r] = rec
        /\ \A h \in DOMAIN handoffs : h # r => handoffs'[h] = handoffs[h]
    BY <2>7 DEF Put
  <2> QED
    BY <1>3, <2>1, <2>2, <2>3, <2>4, <2>5, <2>6, <2>8 DEF Hands
<1> QED
  BY <1>1, <1>2, <1>3, WhoSaves
LEMMA HandoffsGrow ==
  ASSUME NEW c \in Callers, MeInv, TablesInv, HandoffTypes, CountInv, PlaceInv(c), Moves(c)
  PROVE  /\ DOMAIN handoffs \subseteq DOMAIN handoffs'
         /\ \A r \in DOMAIN handoffs : handoffs'[r].to = handoffs[r].to
<1>1. CASE Marks(c)
  <2>1. PICK r \in DOMAIN handoffs, state \in {"ready", "consumed"} : Marked(r, state)
    BY <1>1 DEF Marks
  <2>2. DOMAIN handoffs' = DOMAIN handoffs /\ handoffs'[r].to = handoffs[r].to
        /\ \A h \in DOMAIN handoffs : h # r => handoffs'[h] = handoffs[h]
    BY <2>1, MarkedFacts
  <2> QED
    BY <2>2
<1>2. CASE Hands(c)
  <2>1. \A r \in DOMAIN handoffs : handoffs[r].to = After[r.role]
    BY DEF HandoffTypes
  <2> QED
    BY <1>2, <2>1 DEF Hands
<1> QED
  BY <1>1, <1>2, HandoffSteps

(* A step saves at most one event, of the run of its caller.               *)
Says(c, new) ==
  /\ events' \subseteq events \cup {new}
  /\ new.run = me[c].run /\ me[c].run \in DOMAIN runs /\ me[c].run.role = me[c].role
  /\ new.type = "handoff.consumed" =>
       At(c, "consumed") /\ new.ref = me[c].marked /\ handoffs' = handoffs
  /\ new.type = "run.failed" => At(c, "failEvent") /\ runs' = runs

LEMMA EventSteps ==
  ASSUME NEW c \in Callers, PlaceInv(c), Moves(c)
  PROVE  events' = events \/ \E new : Says(c, new)
<1>1. ASSUME NEW type, NEW ref, NEW n, events' = WithEvent(me[c].run, n, type, ref), me[c].pc \in Ran \cup {"failEvent"},
             type = "handoff.consumed" => At(c, "consumed") /\ ref = me[c].marked /\ handoffs' = handoffs,
             type = "run.failed" => At(c, "failEvent") /\ runs' = runs
      PROVE  \E new : Says(c, new)
  <2>1. PICK new : new = [run |-> me[c].run, seq |-> n, type |-> type, ref |-> ref]
    OBVIOUS
  <2>2. new.run = me[c].run /\ new.type = type /\ new.ref = ref
    BY <2>1
  <2>3. events' \subseteq events \cup {new}
    BY <1>1, <2>1 DEF WithEvent
  <2>4. me[c].run \in DOMAIN runs /\ me[c].run.role = me[c].role
    BY <1>1 DEF PlaceInv
  <2>5. Says(c, new)
    BY <1>1, <2>2, <2>3, <2>4 DEF Says
  <2> QED
    BY <2>5
<1>2. CASE ConsumedEvent(c) /\ events' # events
  <2>1. /\ events' = WithEvent(me[c].run, me[c].seq, "handoff.consumed", me[c].marked)
        /\ At(c, "consumed") /\ handoffs' = handoffs
    BY <1>2 DEF ConsumedEvent
  <2> QED
    BY <1>1, <2>1 DEF At, Ran
<1>3. CASE Start(c)
  BY <1>1, <1>3 DEF Start, At, Ran
<1>4. CASE FailRun(c) /\ events' # events
  BY <1>1, <1>4 DEF FailRun, At
<1>5. CASE CompleteRun(c) /\ events' # events
  BY <1>1, <1>5 DEF CompleteRun, At, Ran
<1>6. CASE CreatedEvent(c)
  BY <1>1, <1>6 DEF CreatedEvent, At, Ran
<1>7. CASE SaveHandoff(c) /\ events' # events
  BY <1>1, <1>7 DEF SaveHandoff, At, Ran
<1> QED
  BY <1>2, <1>3, <1>4, <1>5, <1>6, <1>7, WhoSaves

LEMMA HandoffTypesStep ==
  ASSUME NEW c \in Callers, MeInv, TablesInv, HandoffTypes, OtherTypes, CountInv, PlaceInv(c), Moves(c)
  PROVE  HandoffTypes'
<1>1. DOMAIN runs \subseteq DOMAIN runs' /\ DOMAIN briefs \subseteq DOMAIN briefs' /\ DOMAIN pages \subseteq DOMAIN pages'
  BY RunsGrow, BriefsGrow, PagesGrow
<1>2. ASSUME NEW r \in DOMAIN handoffs'
      PROVE  /\ r \in DOMAIN runs /\ r.role \in {"planner", "builder", "reviewer"}
             /\ handoffs'[r] \in HandoffRecord /\ handoffs'[r].to = After[r.role]
             /\ handoffs'[r].brief \in DOMAIN briefs
             /\ r.role # "planner" => handoffs'[r].page \in DOMAIN pages
  <2>1. CASE handoffs' = handoffs
    BY <2>1 DEF HandoffTypes
  <2>2. CASE Marks(c)
    <3>1. PICK q \in DOMAIN handoffs, state \in {"ready", "consumed"} : Marked(q, state)
      BY <2>2 DEF Marks
    <3>2. /\ DOMAIN handoffs' = DOMAIN handoffs
          /\ \A h \in DOMAIN handoffs : h # q => handoffs'[h] = handoffs[h]
          /\ handoffs'[q] \in HandoffRecord
          /\ handoffs'[q].to = handoffs[q].to /\ handoffs'[q].brief = handoffs[q].brief
          /\ handoffs'[q].page = handoffs[q].page
      BY <3>1, MarkedFacts
    <3> QED
      BY <3>2 DEF HandoffTypes
  <2>3. CASE Hands(c)
    BY <2>3 DEF Hands, HandoffTypes
  <2> QED
    BY <2>1, <2>2, <2>3, HandoffSteps
<1>3. DOMAIN handoffs \subseteq DOMAIN handoffs' /\ \A r \in DOMAIN handoffs : handoffs'[r].to = handoffs[r].to
  BY HandoffsGrow
<1>4. ASSUME NEW e \in events'
      PROVE  /\ e.run \in DOMAIN runs
             /\ e.type = "handoff.consumed" => e.ref \in DOMAIN handoffs /\ handoffs[e.ref].to = e.run.role
  <2>1. CASE e \in events
    BY <2>1 DEF HandoffTypes
  <2>2. CASE e \notin events
    <3>1. Says(c, e)
      <4>1. PICK new : Says(c, new)
        BY <2>2, EventSteps
      <4>2. new = e
        BY <2>2, <4>1 DEF Says
      <4> QED
        BY <4>1, <4>2
    <3> QED
      BY <3>1 DEF Says, PlaceInv, At
  <2> QED
    BY <2>1, <2>2
<1> QED
  BY <1>1, <1>2, <1>3, <1>4 DEF HandoffTypes

-----------------------------------------------------------------------------
(* Locks, reserved ids, counters.                                          *)

LEMMA ReserveSteps ==
  ASSUME NEW c \in Callers, MeInv, TablesInv, OtherTypes, CountInv, PlaceInv(c), Moves(c)
  PROVE  \E K : /\ K \subseteq Reserved
                /\ \E n \in Nat : \A j \in K : j.no <= n
                /\ DOMAIN reserved' = Processes
                /\ \A x \in Processes : reserved'[x] \subseteq reserved[x] \cup K
<1>0. Home[c] \in Processes /\ DOMAIN reserved = Processes
  BY AgentRunsAssumption DEF OtherTypes
<1>1. CASE reserved' = reserved
  <2>3. PICK K : K = {}
    OBVIOUS
  <2>4. K \subseteq Reserved /\ 0 \in Nat /\ \A j \in K : j.no <= 0
    BY <2>3
  <2> QED
    BY <1>0, <1>1, <2>4
<1>2. CASE Release(c)
  <2>2. DOMAIN reserved' = Processes /\ \A x \in Processes : reserved'[x] \subseteq reserved[x]
    BY <1>0, <1>2 DEF Release
  <2>3. PICK K : K = {}
    OBVIOUS
  <2>4. K \subseteq Reserved /\ 0 \in Nat /\ \A j \in K : j.no <= 0
    BY <2>3
  <2> QED
    BY <2>2, <2>4
<1>3. ASSUME NEW kind \in {"brief", "page"}, NEW n \in Nat, At(c, "begin"),
             Reserve(c, ReservedRun(c) \cup {[kind |-> kind, no |-> n, by |-> c]})
      PROVE  \E K : /\ K \subseteq Reserved
                    /\ \E k \in Nat : \A j \in K : j.no <= k
                    /\ DOMAIN reserved' = Processes
                    /\ \A x \in Processes : reserved'[x] \subseteq reserved[x] \cup K
  <2>1. PICK m \in Nat, role \in Roles : m = NewRun(c).no /\ role = me[c].role
    BY <1>3, NewRunType DEF RunId, MeInv, Caller
  <2>2. PICK K : K = ReservedRun(c) \cup {[kind |-> kind, no |-> n, by |-> c]}
    OBVIOUS
  <2>3. \A j \in K : j = [kind |-> role, no |-> m, by |-> c] \/ j = [kind |-> kind, no |-> n, by |-> c]
    BY <2>1, <2>2 DEF ReservedRun
  <2>4. K \subseteq Reserved
    BY <2>3 DEF Reserved
  <2>5. m + n \in Nat /\ \A j \in K : j.no <= m + n
    <3>1. SUFFICES ASSUME NEW j \in K PROVE j.no <= m + n
      OBVIOUS
    <3>2. j.no = m \/ j.no = n
      BY <2>3
    <3> QED
      BY <3>2
  <2>6. DOMAIN reserved' = Processes /\ \A x \in Processes : reserved'[x] \subseteq reserved[x] \cup K
    BY <1>0, <1>3, <2>2 DEF Reserve
  <2> QED
    BY <2>4, <2>5, <2>6
<1>4. ASSUME At(c, "begin"), Reserve(c, ReservedRun(c))
      PROVE  \E K : /\ K \subseteq Reserved
                    /\ \E k \in Nat : \A j \in K : j.no <= k
                    /\ DOMAIN reserved' = Processes
                    /\ \A x \in Processes : reserved'[x] \subseteq reserved[x] \cup K
  <2>1. PICK m \in Nat, role \in Roles : m = NewRun(c).no /\ role = me[c].role
    BY <1>4, NewRunType DEF RunId, MeInv, Caller
  <2>2. PICK K : K = ReservedRun(c)
    OBVIOUS
  <2>3. \A j \in K : j = [kind |-> role, no |-> m, by |-> c]
    BY <2>1, <2>2 DEF ReservedRun
  <2>4. K \subseteq Reserved
    BY <2>3 DEF Reserved
  <2>5. \A j \in K : j.no <= m
    BY <2>3
  <2>6. DOMAIN reserved' = Processes /\ \A x \in Processes : reserved'[x] \subseteq reserved[x] \cup K
    BY <1>0, <1>4, <2>2 DEF Reserve
  <2> QED
    BY <2>4, <2>5, <2>6
<1>5. CASE BeginPlanner(c)
  BY <1>3, <1>5, NewIds DEF BeginPlanner, Begins
<1>6. CASE BeginBuilder(c)
  BY <1>3, <1>6, NewIds DEF BeginBuilder, Begins
<1>7. CASE BeginReviewer(c)
  BY <1>1, <1>4, <1>7 DEF BeginReviewer, Begins
<1>8. CASE BeginDeployer(c)
  BY <1>1, <1>4, <1>8 DEF BeginDeployer, Begins
<1> QED
  BY <1>1, <1>2, <1>5, <1>6, <1>7, <1>8, WhoSaves DEF NextService, Answer, EndRetry
LEMMA OtherTypesStep ==
  ASSUME NEW c \in Callers, MeInv, TablesInv, OtherTypes, CountInv, PlaceInv(c), Moves(c)
  PROVE  OtherTypes'
<1>0. Home[c] \in Processes /\ MaxFaults \in Nat
  BY AgentRunsAssumption
<1>1. asked' \in Nat
  BY WhoSaves DEF OtherTypes, Ask
<1>2. faults' \in 0..MaxFaults
  <2>1. faults' = faults \/ (faults < MaxFaults /\ faults' = faults + 1)
    BY WhoSaves DEF ConsumedEvent, Runtime, SaveFails
  <2> QED
    BY <1>0, <2>1 DEF OtherTypes
<1>3. reserved' \in [Processes -> SUBSET Reserved]
  <2>1. PICK K : /\ K \subseteq Reserved /\ DOMAIN reserved' = Processes
                 /\ \A x \in Processes : reserved'[x] \subseteq reserved[x] \cup K
    BY ReserveSteps
  <2>2. \A x \in Processes : reserved'[x] \subseteq Reserved
    BY <2>1 DEF OtherTypes
  <2>3. reserved' = [x \in Processes |-> reserved'[x]]
    <3>1. CASE reserved' = reserved
      BY <3>1 DEF OtherTypes
    <3>2. CASE reserved' # reserved
      BY <3>2, WhoSaves DEF OtherTypes, BeginPlanner, BeginBuilder, BeginReviewer, BeginDeployer, NextService, Answer,
                          EndRetry, Reserve, Release
    <3> QED BY <3>1, <3>2
  <2> QED
    BY <2>2, <2>3
<1>4. idLock' \in [Processes -> Callers \cup {None}]
  BY <1>0, WhoSaves DEF OtherTypes, RequestDeployment, SaveDeployment, SaveFails, IdLockAfterError
<1>5. retryLock' \in [Processes -> Callers \cup {None}]
  BY <1>0, WhoSaves DEF OtherTypes, Retry, EndRetry
<1> QED
  BY <1>1, <1>2, <1>3, <1>4, <1>5 DEF OtherTypes

LEMMA CountStep ==
  ASSUME NEW c \in Callers, MeInv, TablesInv, HandoffTypes, OtherTypes, CountInv, PlaceInv(c), Moves(c)
  PROVE  CountInv'
<1>1. PICK n \in Nat : BoundedBy(n)
  BY DEF CountInv
<1>2. PICK n1 \in Nat : \A x \in Processes : \A j \in reserved'[x] : j.no <= n + n1
  <2>1. PICK K : /\ K \subseteq Reserved /\ \E k \in Nat : \A j \in K : j.no <= k
                 /\ \A x \in Processes : reserved'[x] \subseteq reserved[x] \cup K
    BY ReserveSteps
  <2>2. PICK k \in Nat : \A j \in K : j.no <= k
    BY <2>1
  <2>3. \A x \in Processes : \A j \in reserved[x] : j.no \in Nat /\ j.no <= n
    BY <1>1 DEF BoundedBy, OtherTypes, Reserved
  <2>4. \A j \in K : j.no \in Nat
    BY <2>1 DEF Reserved
  <2>5. ASSUME NEW x \in Processes, NEW j \in reserved'[x] PROVE j.no <= n + k
    <3>1. j \in reserved[x] \/ j \in K
      BY <2>1
    <3> QED
      BY <2>2, <2>3, <2>4, <3>1
  <2> QED
    BY <2>5
<1>3. PICK n2 \in Nat : \A r \in DOMAIN runs' : r.no <= n + n2
  <2>1. me[c].run \in DOMAIN runs' => me[c].run.no \in Nat
    BY RunsGrow DEF RunId
  <2>2. PICK k \in Nat : me[c].run \in DOMAIN runs' => k = me[c].run.no
    BY <2>1
  <2>3. \A r \in DOMAIN runs : r.no \in Nat /\ r.no <= n
    BY <1>1 DEF BoundedBy, TablesInv, RunId
  <2>4. ASSUME NEW r \in DOMAIN runs' PROVE r.no <= n + k
    <3>1. r \in DOMAIN runs \/ r = me[c].run
      BY RunsGrow
    <3> QED
      BY <2>2, <2>3, <3>1
  <2> QED
    BY <2>4
<1>4. PICK n3 \in Nat : \A b \in DOMAIN briefs' : b <= n + n3
  <2>1. PICK k \in Nat : me[c].brief \in DOMAIN briefs' => k = me[c].brief
    BY BriefsGrow
  <2>2. ASSUME NEW b \in DOMAIN briefs' PROVE b <= n + k
    <3>1. b \in Nat /\ (b <= n \/ b = k)
      BY <1>1, <2>1, BriefsGrow DEF BoundedBy
    <3> QED
      BY <3>1
  <2> QED
    BY <2>2
<1>5. PICK n4 \in Nat : \A p \in DOMAIN pages' : p <= n + n4
  <2>1. PICK k \in Nat : me[c].page \in DOMAIN pages' => k = me[c].page
    BY PagesGrow
  <2>2. ASSUME NEW p \in DOMAIN pages' PROVE p <= n + k
    <3>1. p \in Nat /\ (p <= n \/ p = k)
      BY <1>1, <2>1, PagesGrow DEF BoundedBy
    <3> QED
      BY <3>1
  <2> QED
    BY <2>2
<1>6. PICK n5 \in Nat : \A h \in DOMAIN handoffs' : handoffs'[h].at <= n + n5
  <2>0. \A h \in DOMAIN handoffs : handoffs[h].at \in Nat /\ handoffs[h].at <= n
    BY <1>1 DEF BoundedBy, HandoffTypes, HandoffRecord
  <2>1. CASE handoffs' = handoffs
    <3>1. 0 \in Nat /\ \A h \in DOMAIN handoffs' : handoffs'[h].at <= n + 0
      BY <2>0, <2>1
    <3> QED BY <3>1
  <2>2. CASE Marks(c)
    <3>1. PICK q \in DOMAIN handoffs, state \in {"ready", "consumed"} : Marked(q, state)
      BY <2>2 DEF Marks
    <3>2. PICK k \in Nat : k = Now(handoffs[q].brief, handoffs[q].page)
      BY NowIsLater
    <3>3. DOMAIN handoffs' = DOMAIN handoffs /\ handoffs'[q].at = k
          /\ \A h \in DOMAIN handoffs : h # q => handoffs'[h] = handoffs[h]
      BY <3>1, <3>2, MarkedFacts
    <3>4. \A h \in DOMAIN handoffs' : handoffs'[h].at <= n + k
      BY <2>0, <3>3
    <3> QED BY <3>4
  <2>3. CASE Hands(c)
    <3>1. PICK k \in Nat : k = Now(me[c].brief, me[c].page)
      BY NowIsLater
    <3>2. \A h \in DOMAIN handoffs' : handoffs'[h].at <= n + k
      BY <2>0, <2>3, <3>1 DEF Hands
    <3> QED BY <3>2
  <2> QED
    BY <2>1, <2>2, <2>3, HandoffSteps
<1>7. PICK m \in Nat : m = n + n1 + n2 + n3 + n4 + n5
  OBVIOUS
<1>a. \A x \in Processes : \A j \in reserved'[x] : j.no <= m
  <2>1. \A x \in Processes : \A j \in reserved'[x] : j.no \in Nat
    BY OtherTypesStep DEF OtherTypes, Reserved
  <2> QED
    BY <1>2, <1>7, <2>1
<1>b. \A r \in DOMAIN runs' : r.no <= m
  <2>1. \A r \in DOMAIN runs' : r.no \in Nat
    BY RunsGrow DEF RunId
  <2> QED
    BY <1>3, <1>7, <2>1
<1>c. \A b \in DOMAIN briefs' : b <= m
  <2>1. \A b \in DOMAIN briefs' : b \in Nat
    BY BriefsGrow
  <2> QED
    BY <1>4, <1>7, <2>1
<1>d. \A p \in DOMAIN pages' : p <= m
  <2>1. \A p \in DOMAIN pages' : p \in Nat
    BY PagesGrow
  <2> QED
    BY <1>5, <1>7, <2>1
<1>e. \A h \in DOMAIN handoffs' : handoffs'[h].at <= m
  <2>1. \A h \in DOMAIN handoffs' : handoffs'[h].at \in Nat
    BY HandoffTypesStep DEF HandoffTypes, HandoffRecord
  <2> QED
    BY <1>6, <1>7, <2>1
<1> QED
  BY <1>7, <1>a, <1>b, <1>c, <1>d, <1>e DEF CountInv, BoundedBy

-----------------------------------------------------------------------------
(* Where the callers are.                                                  *)

Growth ==
  /\ DOMAIN runs \subseteq DOMAIN runs' /\ DOMAIN briefs \subseteq DOMAIN briefs'
  /\ DOMAIN pages \subseteq DOMAIN pages' /\ DOMAIN handoffs \subseteq DOMAIN handoffs'
  /\ \A r \in DOMAIN handoffs : handoffs'[r].to = handoffs[r].to

LEMMA AllGrow ==
  ASSUME NEW c \in Callers, MeInv, TablesInv, HandoffTypes, OtherTypes, CountInv, PlaceInv(c), Moves(c)
  PROVE  Growth
  BY RunsGrow, BriefsGrow, PagesGrow, HandoffsGrow DEF Growth

LEMMA OthersPlace ==
  ASSUME NEW d \in Callers, Growth, PlaceInv(d), me'[d] = me[d]
  PROVE  PlaceInv(d)'
<1>1. me[d].pc \in {"consume", "consumed"} =>
        \A r \in me[d].got : r \in DOMAIN handoffs' /\ handoffs'[r].to = me[d].role
  BY DEF Growth, PlaceInv
<1> QED
  BY <1>1 DEF Growth, PlaceInv

(* All that a step which only moves on leaves as it is.                    *)
Stays(c) ==
  /\ me'[c].role = me[c].role /\ me'[c].run = me[c].run /\ me'[c].brief = me[c].brief
  /\ me'[c].page = me[c].page /\ me'[c].target = me[c].target

LEMMA GoStays ==
  ASSUME NEW c \in Callers, MeInv, NEW x, Go(c, x)
  PROVE  /\ Stays(c) /\ me'[c].pc = x
         /\ me'[c].got = me[c].got /\ me'[c].marked = me[c].marked /\ me'[c].good = me[c].good
  BY DEF Go, MeInv, Caller, Stays

(* The step that saves the run of a service.                               *)
LEMMA StartedIs ==
  ASSUME NEW c \in Callers, MeInv, me' = Started(c)
  PROVE  /\ me'[c].pc = "saveRun" /\ me'[c].run = NewRun(c)
         /\ me'[c].role = me[c].role /\ me'[c].brief = me[c].brief
         /\ me'[c].page = me[c].page /\ me'[c].target = me[c].target
  BY DEF Started, MeInv, Caller

LEMMA PlaceStep ==
  ASSUME NEW c \in Callers, MeInv, TablesInv, HandoffTypes, OtherTypes, CountInv, PlaceInv(c), Moves(c)
  PROVE  PlaceInv(c)'
  <1>g. Growth
    BY AllGrow
  <1>1. CASE Ask(c)
    BY <1>1, <1>g, GoStays, AgentRunsAssumption DEF Ask, PlaceInv, Ran, Busy, At, Stays, Growth
  <1>2. CASE BeginPlanner(c)
    <2>1. PICK x : x = NextId(c, "brief", DOMAIN briefs)
      OBVIOUS
    <2>2. NewRun(c) \in RunId /\ NewRun(c).role = me[c].role /\ x \in Nat /\ me[c].role = "planner" /\ At(c, "begin")
      BY <1>2, <2>1, NewRunType, NewIds DEF BeginPlanner, Begins
    <2>3. me' = [Started(c) EXCEPT ![c].brief = x]
      BY <1>2, <2>1 DEF BeginPlanner
    <2>4. /\ me'[c].pc = "saveRun" /\ me'[c].run = NewRun(c) /\ me'[c].role = me[c].role
          /\ me'[c].brief = x /\ me'[c].target = me[c].target
          /\ me'[c].page = me[c].page
      BY <2>3 DEF Started, MeInv, Caller
    <2> QED
      BY <2>2, <2>4, <1>g DEF PlaceInv, Ran, Busy, At, Stays, Growth
  <1>3. CASE BeginBuilder(c)
    <2>1. PICK x : x = NextId(c, "page", DOMAIN pages)
      OBVIOUS
    <2>2. NewRun(c) \in RunId /\ NewRun(c).role = me[c].role /\ x \in Nat /\ me[c].role = "builder" /\ At(c, "begin")
      BY <1>3, <2>1, NewRunType, NewIds DEF BeginBuilder, Begins
    <2>3. me' = [Started(c) EXCEPT ![c].page = x]
      BY <1>3, <2>1 DEF BeginBuilder
    <2>4. /\ me'[c].pc = "saveRun" /\ me'[c].run = NewRun(c) /\ me'[c].role = me[c].role
          /\ me'[c].page = x /\ me'[c].target = me[c].target
          /\ me'[c].brief = me[c].brief
      BY <2>3 DEF Started, MeInv, Caller
    <2> QED
      BY <2>2, <2>4, <1>g DEF PlaceInv, Ran, Busy, At, Stays, Growth
  <1>4. CASE BeginReviewer(c)
    <2>1. CASE me' = Started(c)
      BY <1>4, <2>1, <1>g, StartedIs, NewRunType DEF BeginReviewer, Begins, PlaceInv, Ran, Busy, At, Stays, Growth
    <2>2. CASE me' # Started(c)
      BY <1>4, <2>2, <1>g, GoStays DEF BeginReviewer, Begins, PlaceInv, Ran, Busy, At, Stays, Growth
    <2> QED BY <2>1, <2>2
  <1>5. CASE BeginDeployer(c)
    <2>1. CASE me' = Started(c)
      BY <1>5, <2>1, <1>g, StartedIs, NewRunType DEF BeginDeployer, Begins, PlaceInv, Ran, Busy, At, Stays, Growth
    <2>2. CASE me' # Started(c)
      BY <1>5, <2>2, <1>g, GoStays DEF BeginDeployer, Begins, PlaceInv, Ran, Busy, At, Stays, Growth
    <2> QED BY <2>1, <2>2
  <1>6. CASE SaveRun(c)
    <2>1. /\ Stays(c) /\ At(c, "saveRun") /\ me'[c].pc \in {"start", "list"}
          /\ me'[c].pc = "list" => me[c].role # "planner"
      BY <1>6, GoStays DEF SaveRun
    <2>2. me[c].run \in DOMAIN runs'
      BY <1>6 DEF SaveRun, Put
    <2> QED
      BY <2>1, <2>2, <1>g DEF PlaceInv, Ran, Busy, At, Stays, Growth
  <1>7. CASE ListReady(c)
    <2>1. PICK ready : /\ ready = {r \in DOMAIN handoffs : handoffs[r].state = "ready" /\ Matching(c, handoffs[r])}
                       /\ me' = [me EXCEPT ![c] = [@ EXCEPT !.got = ready, !.pc = IF ready = {} THEN "start" ELSE "consume"]]
      BY <1>7 DEF ListReady
    <2>2. /\ Stays(c) /\ me'[c].got = ready /\ me'[c].pc \in {"start", "consume"}
      BY <2>1 DEF MeInv, Caller, Stays
    <2>3. At(c, "list") /\ handoffs' = handoffs
      BY <1>7 DEF ListReady, records
    <2>4. \A r \in ready : r \in DOMAIN handoffs /\ handoffs[r].to = me[c].role
      BY <2>1 DEF Matching
    <2> QED
      BY <2>2, <2>3, <2>4, <1>g DEF PlaceInv, Ran, Busy, At, Stays, Growth
  <1>8. CASE Consume(c)
    <2>1. PICK r \in me[c].got : me' = [me EXCEPT ![c] = [@ EXCEPT !.pc = "consumed", !.marked = r]]
      BY <1>8 DEF Consume
    <2>2. Stays(c) /\ me'[c].got = me[c].got /\ me'[c].marked = r /\ me'[c].pc = "consumed"
      BY <2>1 DEF MeInv, Caller, Stays
    <2>3. At(c, "consume")
      BY <1>8 DEF Consume
    <2> QED
      BY <2>1, <2>2, <2>3, <1>g DEF PlaceInv, Ran, Busy, At, Stays, Growth
  <1>9. CASE ConsumedEvent(c)
    <2>1. CASE Go(c, "fail")
      BY <1>9, <2>1, <1>g, GoStays DEF ConsumedEvent, PlaceInv, Ran, Busy, At, Stays, Growth
    <2>2. CASE ~Go(c, "fail")
      <3>1. PICK left : /\ left = me[c].got \ {me[c].marked}
                        /\ me' = [me EXCEPT ![c] = [@ EXCEPT !.seq = me[c].seq + 1, !.got = left,
                                                 !.pc = IF left = {} THEN "start" ELSE "consume"]]
        BY <1>9, <2>2 DEF ConsumedEvent
      <3>2. Stays(c) /\ me'[c].got = left /\ me'[c].pc \in {"start", "consume"}
        BY <3>1 DEF MeInv, Caller, Stays
      <3>3. At(c, "consumed")
        BY <1>9 DEF ConsumedEvent
      <3> QED
        BY <3>1, <3>2, <3>3, <1>g DEF PlaceInv, Ran, Busy, At, Stays, Growth
    <2> QED BY <2>1, <2>2
  <1>10. CASE Start(c)
    <2>1. Stays(c) /\ me'[c].pc = "runtime" /\ At(c, "start")
      BY <1>10 DEF Start, MeInv, Caller, Stays
    <2> QED
      BY <2>1, <1>g DEF PlaceInv, Ran, Busy, At, Stays, Growth
  <1>11. CASE Runtime(c)
    <2>1. Stays(c) /\ me'[c].pc \in {"complete", "fail"} /\ At(c, "runtime")
      BY <1>11 DEF Runtime, MeInv, Caller, Stays, Go
    <2> QED
      BY <2>1, <1>g DEF PlaceInv, Ran, Busy, At, Stays, Growth
  <1>12. CASE FailRun(c)
    BY <1>12, <1>g, GoStays DEF FailRun, PlaceInv, Ran, Busy, At, Stays, Growth
  <1>13. CASE CompleteRun(c)
    <2>1. /\ Stays(c)
          /\ \/ At(c, "complete") /\ me'[c].pc = "completeEvent"
             \/ At(c, "completeEvent") /\ me'[c].pc = "output"
      BY <1>13 DEF CompleteRun, MeInv, Caller, Stays, Go
    <2> QED
      BY <2>1, <1>g DEF PlaceInv, Ran, Busy, At, Stays, Growth
  <1>14. CASE SaveBrief(c)
    <2>1. Stays(c) /\ me'[c].pc = "handoff" /\ At(c, "output") /\ me[c].role = "planner"
      BY <1>14, GoStays DEF SaveBrief
    <2>2. me[c].brief \in DOMAIN briefs'
      BY <1>14 DEF SaveBrief, Put
    <2> QED
      BY <2>1, <2>2, <1>g DEF PlaceInv, Ran, Busy, At, Stays, Growth
  <1>15. CASE SavePage(c)
    <2>1. Stays(c) /\ me'[c].pc \in {"created", "error"} /\ At(c, "output") /\ me[c].role = "builder"
      BY <1>15, GoStays DEF SavePage
    <2>2. me'[c].pc = "created" => me[c].page \in DOMAIN pages'
      BY <1>15, GoStays DEF SavePage, Put
    <2> QED
      BY <2>1, <2>2, <1>g DEF PlaceInv, Ran, Busy, At, Stays, Growth
  <1>16. CASE CreatedEvent(c)
    <2>1. Stays(c) /\ me'[c].pc = "handoff" /\ At(c, "created")
      BY <1>16 DEF CreatedEvent, MeInv, Caller, Stays
    <2> QED
      BY <2>1, <1>g DEF PlaceInv, Ran, Busy, At, Stays, Growth
  <1>17. CASE SaveReview(c)
    BY <1>17, <1>g, GoStays DEF SaveReview, PlaceInv, Ran, Busy, At, Stays, Growth
  <1>18. CASE RequestDeployment(c)
    BY <1>18, <1>g, GoStays DEF RequestDeployment, PlaceInv, Ran, Busy, At, Stays, Growth
  <1>19. CASE SaveDeployment(c)
    BY <1>19, <1>g, GoStays DEF SaveDeployment, PlaceInv, Ran, Busy, At, Stays, Growth
  <1>20. CASE SaveHandoff(c)
    BY <1>20, <1>g, GoStays DEF SaveHandoff, PlaceInv, Ran, Busy, At, Stays, Growth
  <1>21. CASE NextService(c)
    <2>a. At(c, "shown") /\ c \in Chains /\ c \notin Retries
      BY <1>21, AgentRunsAssumption DEF NextService
    <2>1. CASE Go(c, "done")
      <3>1. Stays(c) /\ me'[c].pc = "done"
        BY <2>1, GoStays
      <3>2. me[c].role = "reviewer"
        <4>1. CASE me[c].role = "reviewer"
          BY <4>1
        <4>2. CASE me[c].role # "reviewer"
          <5>1. me' = [me EXCEPT ![c] = [@ EXCEPT !.pc = "begin", !.role = After[me[c].role]]]
            BY <1>21, <4>2 DEF NextService
          <5>2. me'[c].pc = "begin"
            BY <5>1 DEF MeInv, Caller
          <5> QED
            BY <3>1, <5>2
        <4> QED BY <4>1, <4>2
      <3> QED
        BY <2>a, <3>1, <3>2, <1>g DEF PlaceInv, Ran, Busy, At, Stays, Growth
    <2>2. CASE ~Go(c, "done")
      <3>1. me' = [me EXCEPT ![c] = [@ EXCEPT !.pc = "begin", !.role = After[me[c].role]]]
        BY <1>21, <2>2 DEF NextService
      <3>2. me'[c].pc = "begin" /\ me'[c].role = After[me[c].role] /\ me'[c].brief = me[c].brief /\ me'[c].page = me[c].page
        BY <3>1 DEF MeInv, Caller
      <3>3. /\ me[c].role = "planner" => me'[c].role = "builder"
            /\ me[c].role = "builder" => me'[c].role = "reviewer"
            /\ me[c].role = "reviewer" => me'[c].role = "deployer"
        BY <3>2 DEF After
      <3>4. me[c].role \in {"planner", "builder", "reviewer"}
        BY <2>a DEF At, PlaceInv, MeInv, Caller, Roles
      <3> QED
        BY <2>a, <3>2, <3>3, <3>4, <1>g DEF PlaceInv, Ran, Busy, At, Stays, Growth
    <2> QED BY <2>1, <2>2
  <1>22. CASE Answer(c)
    BY <1>22, <1>g, GoStays, AgentRunsAssumption DEF Answer, PlaceInv, Ran, Busy, At, Stays, Growth
  <1>23. CASE Retry(c)
    <2>a. c \in Retries /\ me[c].target \in DOMAIN runs /\ me[c].target.role = me[c].role
      BY <1>23 DEF Retry, PlaceInv, At
    <2>1. CASE Go(c, "refused")
      BY <2>1, <2>a, <1>g, GoStays DEF PlaceInv, Ran, Busy, At, Stays, Growth
    <2>2. CASE ~Go(c, "refused")
      <3>1. PICK input \in RetryInputs(me[c].target) :
              me' = [me EXCEPT ![c] = [@ EXCEPT !.pc = "begin", !.run = RetryId(me[c].target),
                                              !.brief = input.brief, !.page = input.page]]
        BY <1>23, <2>2 DEF Retry
      <3>2. /\ me'[c].pc = "begin" /\ me'[c].run = RetryId(me[c].target) /\ me'[c].brief = input.brief
            /\ me'[c].page = input.page /\ me'[c].target = me[c].target /\ me'[c].role = me[c].role
        BY <3>1 DEF MeInv, Caller
      <3>3. RetryId(me[c].target) \in RunId /\ RetryId(me[c].target).role = me[c].role
        BY <2>a, RetryIdFree
      <3>4. /\ me[c].role = "builder" => input.brief \in DOMAIN briefs
            /\ me[c].role \in {"reviewer", "deployer"} => input.page \in DOMAIN pages /\ input.brief \in DOMAIN briefs
        BY <2>a, <3>1, RetryInputTypes
      <3>5. me[c].role \in Roles
        BY DEF MeInv, Caller
      <3> QED
        BY <2>a, <3>2, <3>3, <3>4, <3>5, <1>g DEF PlaceInv, Ran, Busy, At, Stays, Growth, Roles
    <2> QED BY <2>1, <2>2
  <1>24. CASE EndRetry(c)
    BY <1>24, <1>g, GoStays DEF EndRetry, PlaceInv, Ran, Busy, At, Stays, Growth
  <1>25. CASE AskRetry(c)
    <2>1. PICK r \in DOMAIN runs : me' = [me EXCEPT ![c] = [@ EXCEPT !.pc = "wait", !.target = r, !.role = r.role]]
      BY <1>25 DEF AskRetry
    <2>2. me'[c].pc = "wait" /\ me'[c].target = r /\ me'[c].role = r.role
      BY <2>1 DEF MeInv, Caller
    <2> QED
      BY <2>2, <1>g DEF PlaceInv, Ran, Busy, At, Stays, Growth
  <1>26. CASE SaveFails(c)
    BY <1>26, <1>g, GoStays DEF SaveFails, PlaceInv, Ran, Busy, At, Stays, Growth
  <1> QED
    BY <1>1, <1>2, <1>3, <1>4, <1>5, <1>6, <1>7, <1>8, <1>9, <1>10, <1>11, <1>12, <1>13, <1>14, <1>15, <1>16, <1>17, <1>18, <1>19, <1>20, <1>21, <1>22, <1>23, <1>24, <1>25, <1>26 DEF Moves, Step
-----------------------------------------------------------------------------
(* Type correctness, for any number of processes.                          *)

TypeInv ==
  MeInv /\ TablesInv /\ HandoffTypes /\ OtherTypes /\ CountInv /\ \A c \in Callers : PlaceInv(c)

(* What is left of the calls of a process that stops.                      *)
LEMMA StopIs ==
  ASSUME MeInv, NEW x \in Processes, Stop(x), NEW c \in Callers
  PROVE  me'[c] = me[c] \/ (me[c].pc # "idle" /\ Stays(c) /\ me'[c].pc = "stopped")
  BY DEF Stop, MeInv, Caller, Stays, At

LEMMA StopTypes == ASSUME TypeInv, NEW x \in Processes, Stop(x) PROVE TypeInv'
<1>1. MeInv'
  <2>1. ASSUME NEW c \in Callers PROVE (IF Home[c] = x /\ ~At(c, "idle") THEN [me[c] EXCEPT !.pc = "stopped"] ELSE me[c]) \in Caller
    <3>1. me[c] \in Caller /\ "stopped" \in PCs
      BY DEF TypeInv, MeInv, PCs
    <3> QED
      BY <3>1 DEF Caller
  <2> QED
    BY <2>1 DEF MeInv, Stop
<1>2. TablesInv' /\ HandoffTypes'
  BY DEF TypeInv, TablesInv, HandoffTypes, Stop, records
<1>3. OtherTypes'
  <2>1. MaxFaults \in Nat
    BY AgentRunsAssumption
  <2>2. faults' \in 0..MaxFaults /\ asked' \in Nat
    BY <2>1 DEF TypeInv, OtherTypes, Stop
  <2>3. /\ reserved' \in [Processes -> SUBSET Reserved]
        /\ idLock' \in [Processes -> Callers \cup {None}]
        /\ retryLock' \in [Processes -> Callers \cup {None}]
    BY DEF TypeInv, OtherTypes, Stop
  <2> QED
    BY <2>2, <2>3 DEF OtherTypes
<1>4. CountInv'
  <2>1. PICK n \in Nat : BoundedBy(n)
    BY DEF TypeInv, CountInv
  <2>2. \A y \in Processes : reserved'[y] \subseteq reserved[y]
    BY DEF TypeInv, OtherTypes, Stop
  <2> QED
    BY <2>1, <2>2 DEF Stop, records, CountInv, BoundedBy
<1>5. ASSUME NEW c \in Callers PROVE PlaceInv(c)'
  <2>1. UNCHANGED records
    BY DEF Stop
  <2> QED
    BY <2>1, StopIs DEF TypeInv, PlaceInv, records, Ran, Busy, Stays
<1> QED
  BY <1>1, <1>2, <1>3, <1>4, <1>5 DEF TypeInv

LEMMA StepTypes == ASSUME TypeInv, NEW c \in Callers, Moves(c) PROVE TypeInv'
<1>1. /\ MeInv /\ TablesInv /\ HandoffTypes /\ OtherTypes /\ CountInv
      /\ \A d \in Callers : PlaceInv(d)
  BY DEF TypeInv
<1>2. MeInv' /\ TablesInv' /\ HandoffTypes' /\ OtherTypes' /\ CountInv'
  BY <1>1, MeStep, TablesStep, HandoffTypesStep, OtherTypesStep, CountStep
<1>3. Growth
  BY <1>1, AllGrow
<1>4. ASSUME NEW d \in Callers PROVE PlaceInv(d)'
  BY <1>1, <1>3, OthersStay, OthersPlace, PlaceStep
<1> QED
  BY <1>2, <1>4 DEF TypeInv

LEMMA InitTypes == Init => TypeInv
<1> SUFFICES ASSUME Init PROVE TypeInv
  OBVIOUS
<1>1. Idle \in Caller
  BY DEF Idle, Caller, PCs, Roles, Ref, No
<1>2. \A c \in Callers : me[c] = Idle
  BY DEF Init
<1>3. MeInv
  BY <1>1 DEF Init, MeInv
<1>4. DOMAIN runs = {} /\ DOMAIN briefs = {} /\ DOMAIN pages = {} /\ DOMAIN handoffs = {} /\ DOMAIN requested = {}
  BY DEF Init
<1>5. TablesInv
  BY <1>4, FS_EmptySet DEF Init, TablesInv
<1>6. HandoffTypes
  BY <1>4 DEF Init, HandoffTypes
<1>7. OtherTypes
  BY AgentRunsAssumption DEF Init, OtherTypes
<1>8. CountInv
  <2>1. \A x \in Processes : reserved[x] = {}
    BY DEF Init
  <2>2. BoundedBy(0)
    BY <1>4, <2>1 DEF BoundedBy
  <2> QED
    BY <2>2 DEF CountInv
<1>9. ASSUME NEW c \in Callers PROVE PlaceInv(c)
  <2>1. me[c].pc = "idle" /\ me[c].role = "planner"
    BY <1>2 DEF Idle
  <2> QED
    BY <2>1 DEF PlaceInv, Ran, Busy
<1> QED
  BY <1>3, <1>5, <1>6, <1>7, <1>8, <1>9 DEF TypeInv

LEMMA NextTypes == ASSUME TypeInv, [Next]_vars PROVE TypeInv'
<1>1. CASE UNCHANGED vars
  BY <1>1 DEF vars, records, TypeInv, MeInv, TablesInv, HandoffTypes, OtherTypes, CountInv, BoundedBy, PlaceInv
<1>2. CASE \E c \in Callers : Moves(c)
  BY <1>2, StepTypes
<1>3. CASE \E x \in Processes : Stop(x)
  BY <1>3, StopTypes
<1> QED
  BY <1>1, <1>2, <1>3 DEF Next, Moves

(* Every record refers to records that exist, and the locks are held by    *)
(* callers.                                                                *)
THEOREM RecordsAreSound == Spec => []TypeOK
<1>1. TypeInv => TypeOK
  <2> SUFFICES ASSUME TypeInv PROVE TypeOK
    OBVIOUS
  <2>1. \A r \in DOMAIN runs : r \in RunId /\ runs[r].state \in {"running", "completed", "failed"}
    BY DEF TypeInv, TablesInv, RunRecord
  <2>2. \A r \in DOMAIN handoffs : r \in DOMAIN runs /\ handoffs[r].state \in {"ready", "blocked", "consumed"}
    BY DEF TypeInv, HandoffTypes, HandoffRecord
  <2>3. \A p \in DOMAIN pages : pages[p].status \in Verdicts \cup {"pending"}
    BY DEF TypeInv, TablesInv, PageRecord
  <2>4. \A x \in Processes : {idLock[x], retryLock[x]} \subseteq Callers \cup {None}
    BY DEF TypeInv, OtherTypes
  <2> QED
    BY <2>1, <2>2, <2>3, <2>4 DEF TypeInv, TypeOK, TablesInv, OtherTypes
<1> QED
  BY <1>1, InitTypes, NextTypes, PTL DEF Spec
-----------------------------------------------------------------------------
(* One process, and no retry beside the chain of another prompt: nobody    *)
(* works on what another caller works on.                                  *)

(* In one process the retries take turns.                                  *)
Holding == Busy \cup {"failEvent", "error"}
TurnInv == \A c \in Retries : me[c].pc \in Holding => retryLock[Home[c]] = c

(* While the task has one prompt: only the chain of that prompt runs, then *)
(* retries of what has failed.                                             *)
Over == {"failEvent", "error", "failed", "stopped"}
Failed(r) == r \in DOMAIN runs /\ runs[r].state = "failed"
PromptInv ==
  /\ asked = 0 => \A c \in Chains : At(c, "idle")
  /\ asked <= 1 => /\ \A c, d \in Chains : ~At(c, "idle") /\ ~At(d, "idle") => c = d
                   /\ \A r \in DOMAIN runs : Failed(r) =>
                        \E c \in Chains : me[c].pc \in Over /\ me[c].role = r.role
                   /\ \A c \in Retries : ~At(c, "idle") => Failed(me[c].target)
  /\ \A e \in events : e.type = "run.failed" => Failed(e.run)

(* The run of a caller and its ids.                                        *)
RunInv(c) ==
  /\ me[c].pc = "saveRun" \/ (c \in Retries /\ me[c].pc = "begin") => me[c].run \notin DOMAIN runs
  /\ me[c].pc \in {"list", "consume", "consumed", "start", "runtime", "fail", "complete"} =>
       runs[me[c].run].state = "running"
  /\ me[c].pc = "failEvent" => Failed(me[c].run)
  /\ me[c].pc \in {"completeEvent", "output", "created", "handoff", "handoffEvent"} =>
       runs[me[c].run].state = "completed"
  /\ me[c].pc \in Ran \ {"handoffEvent"} => me[c].run \notin DOMAIN handoffs

HasReserved(c, kind, n) == \E j \in reserved[Home[c]] : j.kind = kind /\ j.no = n /\ j.by = c
ReserveInv(c) ==
  c \in Chains /\ me[c].pc \in Ran \cup {"saveRun"} =>
    /\ me[c].run.retries = <<>> /\ HasReserved(c, me[c].role, me[c].run.no)
    /\ me[c].role = "planner" => HasReserved(c, "brief", me[c].brief)
    /\ me[c].role = "builder" => HasReserved(c, "page", me[c].page)

(* What a caller works on: a brief, then a page.                           *)
HasBrief(c) == me[c].pc \in Busy /\ (me[c].role # "planner" \/ me[c].pc # "begin")
HasPage(c) ==
  me[c].pc \in Busy /\ (me[c].role \in {"reviewer", "deployer"} \/ (me[c].role = "builder" /\ me[c].pc # "begin"))
Apart(c, d) ==
  /\ {me[c].pc, me[d].pc} \subseteq Ran \cup {"saveRun"} => me[c].run # me[d].run
  /\ HasBrief(c) /\ HasBrief(d) => me[c].brief # me[d].brief
  /\ HasPage(c) /\ HasPage(d) => me[c].page # me[d].page

(* Who has listed a handoff is the only one who works on it.               *)
ConsumedEvents(r) == {e \in events : e.type = "handoff.consumed" /\ e.ref = r}
HandoffInv ==
  /\ \A r \in DOMAIN handoffs : handoffs[r].state = "ready" => ConsumedEvents(r) = {}
  /\ \A e, f \in events :
       e.type = "handoff.consumed" /\ f.type = "handoff.consumed" /\ e.ref = f.ref => e = f
  /\ \A c \in Callers : me[c].pc \in {"consume", "consumed"} =>
       \A r \in me[c].got : Matching(c, handoffs[r]) /\ ConsumedEvents(r) = {}
  /\ \A c \in Callers : At(c, "consumed") => handoffs[me[c].marked].state = "consumed"

(* A page that may be deployed is no longer worked on by a builder or a    *)
(* reviewer.                                                               *)
DeployInv ==
  /\ \A p \in DOMAIN pages : pages[p].status = "passed" => ~pages[p].blocker
  /\ \A p \in DOMAIN requested : MayDeploy(p)
  /\ \A c \in Callers :
       /\ HasPage(c) /\ me[c].role \in {"builder", "reviewer"} => me[c].page \notin DOMAIN requested
       /\ me[c].role = "deployer" /\ me[c].pc \in Ran \cup {"saveRun"} => MayDeploy(me[c].page)

(* A builder retry that has succeeded shows a page.                        *)
BuiltInv ==
  asked <= 1 =>
    \A c \in Retries : me[c].role = "builder" /\ At(c, "answered") =>
      /\ snapshot.page # None
      /\ \A d \in Retries : me[d].role = "builder" => me[d].pc \notin Busy /\ (At(d, "answered") => d = c)

WorkInv ==
  /\ PromptInv /\ HandoffInv /\ DeployInv /\ BuiltInv
  /\ \A c \in Callers : RunInv(c) /\ ReserveInv(c)
  /\ \A c, d \in Callers : c # d => Apart(c, d)

SafeInv == TypeInv /\ TurnInv /\ (RetriesApart => WorkInv)

(* How a step moves its caller: a call begins, a service begins, the run   *)
(* of a service begins, or the call goes on.                               *)
Launch(c) ==
  /\ At(c, "begin") /\ UNCHANGED <<asked, records, snapshot, idLock, retryLock>>
  /\ me'[c].pc = "saveRun" /\ me'[c].run = NewRun(c)
  /\ me'[c].role = me[c].role /\ me'[c].target = me[c].target
  /\ IF me[c].role = "planner" THEN me'[c].brief = NextId(c, "brief", DOMAIN briefs)
     ELSE me'[c].brief = me[c].brief
  /\ IF me[c].role = "builder" THEN me'[c].page = NextId(c, "page", DOMAIN pages)
     ELSE me'[c].page = me[c].page
  /\ me[c].role = "deployer" => MayDeploy(me[c].page)
  /\ \A x \in Processes : reserved[x] \subseteq reserved'[x]
  /\ c \notin Retries => [kind |-> me[c].role, no |-> NewRun(c).no, by |-> c] \in reserved'[Home[c]]
  /\ me[c].role = "planner" => [kind |-> "brief", no |-> me'[c].brief, by |-> c] \in reserved'[Home[c]]
  /\ me[c].role = "builder" => [kind |-> "page", no |-> me'[c].page, by |-> c] \in reserved'[Home[c]]

Onward(c) ==
  /\ Stays(c) /\ me[c].pc \in Holding /\ me'[c].pc \notin {"idle", "begin", "saveRun", "wait"}
  /\ me'[c].pc \in Busy => me[c].pc \in Busy
  /\ me'[c].pc \in Ran => me[c].pc \in Ran \cup {"saveRun"} /\ reserved' = reserved
  /\ me[c].pc = "begin" => me[c].role \in {"reviewer", "deployer"}
  /\ me[c].pc \in {"failEvent", "error"} => me'[c].pc \in {"error", "failed"}
  /\ me'[c].pc # me[c].pc

LEMMA Kinds ==
  ASSUME NEW c \in Callers, MeInv, OtherTypes, Moves(c)
  PROVE  Ask(c) \/ AskRetry(c) \/ Retry(c) \/ NextService(c) \/ Launch(c) \/ Onward(c)
  <1>h. Home[c] \in Processes /\ DOMAIN reserved = Processes
    BY AgentRunsAssumption DEF OtherTypes
  <1>1. CASE Ask(c)
    BY <1>1
  <1>2. CASE BeginPlanner(c)
    <2>1. PICK x : x = NextId(c, "brief", DOMAIN briefs)
      OBVIOUS
    <2>2. At(c, "begin") /\ me[c].role = "planner" /\ UNCHANGED <<asked, records, snapshot, idLock, retryLock>>
      BY <1>2 DEF BeginPlanner, Begins
    <2>3. me' = [Started(c) EXCEPT ![c].brief = x]
      BY <1>2, <2>1 DEF BeginPlanner
    <2>4. /\ me'[c].pc = "saveRun" /\ me'[c].run = NewRun(c) /\ me'[c].role = me[c].role
          /\ me'[c].brief = x /\ me'[c].target = me[c].target /\ me'[c].page = me[c].page
      BY <2>3 DEF Started, MeInv, Caller
    <2>5. reserved' = [reserved EXCEPT ![Home[c]] = @ \cup (ReservedRun(c) \cup {[kind |-> "brief", no |-> x, by |-> c]})]
      BY <1>2, <2>1 DEF BeginPlanner, Reserve
    <2>6. /\ \A y \in Processes : reserved[y] \subseteq reserved'[y]
          /\ [kind |-> "brief", no |-> x, by |-> c] \in reserved'[Home[c]]
          /\ ReservedRun(c) \subseteq reserved'[Home[c]]
      BY <2>5, <1>h
    <2>7. c \notin Retries => [kind |-> me[c].role, no |-> NewRun(c).no, by |-> c] \in reserved'[Home[c]]
      BY <2>6 DEF ReservedRun
    <2>8. Launch(c)
      BY <2>1, <2>2, <2>4, <2>6, <2>7 DEF Launch
    <2> QED
      BY <2>8
  <1>3. CASE BeginBuilder(c)
    <2>1. PICK x : x = NextId(c, "page", DOMAIN pages)
      OBVIOUS
    <2>2. At(c, "begin") /\ me[c].role = "builder" /\ UNCHANGED <<asked, records, snapshot, idLock, retryLock>>
      BY <1>3 DEF BeginBuilder, Begins
    <2>3. me' = [Started(c) EXCEPT ![c].page = x]
      BY <1>3, <2>1 DEF BeginBuilder
    <2>4. /\ me'[c].pc = "saveRun" /\ me'[c].run = NewRun(c) /\ me'[c].role = me[c].role
          /\ me'[c].page = x /\ me'[c].target = me[c].target /\ me'[c].brief = me[c].brief
      BY <2>3 DEF Started, MeInv, Caller
    <2>5. reserved' = [reserved EXCEPT ![Home[c]] = @ \cup (ReservedRun(c) \cup {[kind |-> "page", no |-> x, by |-> c]})]
      BY <1>3, <2>1 DEF BeginBuilder, Reserve
    <2>6. /\ \A y \in Processes : reserved[y] \subseteq reserved'[y]
          /\ [kind |-> "page", no |-> x, by |-> c] \in reserved'[Home[c]]
          /\ ReservedRun(c) \subseteq reserved'[Home[c]]
      BY <2>5, <1>h
    <2>7. c \notin Retries => [kind |-> me[c].role, no |-> NewRun(c).no, by |-> c] \in reserved'[Home[c]]
      BY <2>6 DEF ReservedRun
    <2>8. Launch(c)
      BY <2>1, <2>2, <2>4, <2>6, <2>7 DEF Launch
    <2> QED
      BY <2>8
  <1>4. CASE BeginReviewer(c)
    <2>1. CASE me' = Started(c)
      <3>1. At(c, "begin") /\ me[c].role = "reviewer" /\ UNCHANGED <<asked, records, snapshot, idLock, retryLock>>
        BY <1>4 DEF BeginReviewer, Begins
      <3>2. /\ me'[c].pc = "saveRun" /\ me'[c].run = NewRun(c) /\ me'[c].role = me[c].role
            /\ me'[c].brief = me[c].brief /\ me'[c].page = me[c].page /\ me'[c].target = me[c].target
        BY <2>1, StartedIs
      <3>3. Reserve(c, ReservedRun(c)) /\ (me[c].role = "deployer" => MayDeploy(me[c].page))
        BY <1>4, <3>1, <3>2, GoStays DEF BeginReviewer
      <3>4. /\ \A y \in Processes : reserved[y] \subseteq reserved'[y]
            /\ ReservedRun(c) \subseteq reserved'[Home[c]]
        BY <3>3, <1>h DEF Reserve
      <3>5. c \notin Retries => [kind |-> me[c].role, no |-> NewRun(c).no, by |-> c] \in reserved'[Home[c]]
        BY <3>4 DEF ReservedRun
      <3>6. Launch(c)
        BY <3>1, <3>2, <3>3, <3>4, <3>5 DEF Launch
      <3> QED
        BY <3>6
    <2>2. CASE me' # Started(c)
      BY <1>4, <2>2, GoStays DEF BeginReviewer, Begins, Onward, Stays, At, Holding, Busy, Ran
    <2> QED BY <2>1, <2>2
  <1>5. CASE BeginDeployer(c)
    <2>1. CASE me' = Started(c)
      <3>1. At(c, "begin") /\ me[c].role = "deployer" /\ UNCHANGED <<asked, records, snapshot, idLock, retryLock>>
        BY <1>5 DEF BeginDeployer, Begins
      <3>2. /\ me'[c].pc = "saveRun" /\ me'[c].run = NewRun(c) /\ me'[c].role = me[c].role
            /\ me'[c].brief = me[c].brief /\ me'[c].page = me[c].page /\ me'[c].target = me[c].target
        BY <2>1, StartedIs
      <3>3. Reserve(c, ReservedRun(c)) /\ (me[c].role = "deployer" => MayDeploy(me[c].page))
        BY <1>5, <3>1, <3>2, GoStays DEF BeginDeployer
      <3>4. /\ \A y \in Processes : reserved[y] \subseteq reserved'[y]
            /\ ReservedRun(c) \subseteq reserved'[Home[c]]
        BY <3>3, <1>h DEF Reserve
      <3>5. c \notin Retries => [kind |-> me[c].role, no |-> NewRun(c).no, by |-> c] \in reserved'[Home[c]]
        BY <3>4 DEF ReservedRun
      <3>6. Launch(c)
        BY <3>1, <3>2, <3>3, <3>4, <3>5 DEF Launch
      <3> QED
        BY <3>6
    <2>2. CASE me' # Started(c)
      BY <1>5, <2>2, GoStays DEF BeginDeployer, Begins, Onward, Stays, At, Holding, Busy, Ran
    <2> QED BY <2>1, <2>2
  <1>6. CASE SaveRun(c)
    BY <1>6, GoStays DEF SaveRun, Onward, Stays, At, Holding, Busy, Ran
  <1>7. CASE ListReady(c)
    <2>1. Stays(c) /\ me'[c].pc \in {"start", "consume"} /\ At(c, "list")
      BY <1>7 DEF ListReady, MeInv, Caller, Stays, Go
    <2>2. reserved' = reserved
      BY <1>7 DEF ListReady
    <2> QED
      BY <2>1, <2>2 DEF Onward, Stays, At, Holding, Busy, Ran
  <1>8. CASE Consume(c)
    <2>1. Stays(c) /\ me'[c].pc \in {"consumed"} /\ At(c, "consume")
      BY <1>8 DEF Consume, MeInv, Caller, Stays, Go
    <2>2. reserved' = reserved
      BY <1>8 DEF Consume
    <2> QED
      BY <2>1, <2>2 DEF Onward, Stays, At, Holding, Busy, Ran
  <1>9. CASE ConsumedEvent(c)
    <2>1. Stays(c) /\ me'[c].pc \in {"start", "consume", "fail"} /\ At(c, "consumed")
      BY <1>9 DEF ConsumedEvent, MeInv, Caller, Stays, Go
    <2>2. reserved' = reserved
      BY <1>9 DEF ConsumedEvent
    <2> QED
      BY <2>1, <2>2 DEF Onward, Stays, At, Holding, Busy, Ran
  <1>10. CASE Start(c)
    <2>1. Stays(c) /\ me'[c].pc \in {"runtime"} /\ At(c, "start")
      BY <1>10 DEF Start, MeInv, Caller, Stays, Go
    <2>2. reserved' = reserved
      BY <1>10 DEF Start
    <2> QED
      BY <2>1, <2>2 DEF Onward, Stays, At, Holding, Busy, Ran
  <1>11. CASE Runtime(c)
    <2>1. Stays(c) /\ me'[c].pc \in {"complete", "fail"} /\ At(c, "runtime")
      BY <1>11 DEF Runtime, MeInv, Caller, Stays, Go
    <2>2. reserved' = reserved
      BY <1>11 DEF Runtime
    <2> QED
      BY <2>1, <2>2 DEF Onward, Stays, At, Holding, Busy, Ran
  <1>12. CASE FailRun(c)
    BY <1>12, GoStays DEF FailRun, Onward, Stays, At, Holding, Busy, Ran
  <1>13. CASE CompleteRun(c)
    <2>1. /\ Stays(c) /\ reserved' = reserved
          /\ \/ At(c, "complete") /\ me'[c].pc = "completeEvent"
             \/ At(c, "completeEvent") /\ me'[c].pc = "output"
      BY <1>13 DEF CompleteRun, MeInv, Caller, Stays, Go
    <2> QED
      BY <2>1 DEF Onward, Stays, At, Holding, Busy, Ran
  <1>14. CASE SaveBrief(c)
    BY <1>14, GoStays DEF SaveBrief, Onward, Stays, At, Holding, Busy, Ran
  <1>15. CASE SavePage(c)
    BY <1>15, GoStays DEF SavePage, Onward, Stays, At, Holding, Busy, Ran
  <1>16. CASE CreatedEvent(c)
    <2>1. Stays(c) /\ me'[c].pc \in {"handoff"} /\ At(c, "created")
      BY <1>16 DEF CreatedEvent, MeInv, Caller, Stays, Go
    <2>2. reserved' = reserved
      BY <1>16 DEF CreatedEvent
    <2> QED
      BY <2>1, <2>2 DEF Onward, Stays, At, Holding, Busy, Ran
  <1>17. CASE SaveReview(c)
    BY <1>17, GoStays DEF SaveReview, Onward, Stays, At, Holding, Busy, Ran
  <1>18. CASE RequestDeployment(c)
    BY <1>18, GoStays DEF RequestDeployment, Onward, Stays, At, Holding, Busy, Ran
  <1>19. CASE SaveDeployment(c)
    BY <1>19, GoStays DEF SaveDeployment, Onward, Stays, At, Holding, Busy, Ran
  <1>20. CASE SaveHandoff(c)
    BY <1>20, GoStays DEF SaveHandoff, Onward, Stays, At, Holding, Busy, Ran
  <1>21. CASE NextService(c)
    BY <1>21
  <1>22. CASE Answer(c)
    BY <1>22, GoStays DEF Answer, Onward, Stays, At, Holding, Busy, Ran
  <1>23. CASE Retry(c)
    BY <1>23
  <1>24. CASE EndRetry(c)
    BY <1>24, GoStays DEF EndRetry, Onward, Stays, At, Holding, Busy, Ran
  <1>25. CASE AskRetry(c)
    BY <1>25
  <1>26. CASE SaveFails(c)
    BY <1>26, GoStays DEF SaveFails, Onward, Stays, At, Holding, Busy, Ran
  <1> QED
    BY <1>1, <1>2, <1>3, <1>4, <1>5, <1>6, <1>7, <1>8, <1>9, <1>10, <1>11, <1>12, <1>13, <1>14, <1>15, <1>16, <1>17, <1>18, <1>19, <1>20, <1>21, <1>22, <1>23, <1>24, <1>25, <1>26 DEF Moves, Step
(* The retries.                                                            *)
LEMMA TurnStep ==
  ASSUME TypeInv, TurnInv, NEW c \in Callers, Moves(c)
  PROVE  TurnInv'
<1>0. MeInv /\ OtherTypes /\ Chains \cap Retries = {} /\ Retries \subseteq Callers
      /\ Home \in [Callers -> Processes] /\ None \notin Callers
  BY AgentRunsAssumption DEF TypeInv, Callers
<1>1. ASSUME NEW d \in Retries, me'[d].pc \in Holding PROVE retryLock'[Home[d]] = d
  <2>1. CASE me[d].pc \in Holding
    <3>1. retryLock[Home[d]] = d
      BY <2>1 DEF TurnInv
    <3>2. CASE Retry(c)
      <4>1. c \in Retries /\ me[c].pc = "wait" /\ retryLock[Home[c]] = None
        BY <3>2 DEF Retry, At, RetryTurn
      <4>2. retryLock' = retryLock \/ retryLock' = [retryLock EXCEPT ![Home[c]] = c]
        BY <3>2 DEF Retry
      <4>3. Home[c] # Home[d]
        BY <1>0, <3>1, <4>1
      <4> QED
        BY <1>0, <3>1, <4>2, <4>3 DEF OtherTypes
    <3>3. CASE EndRetry(c)
      <4>1. c \in Retries /\ me[c].pc \in Holding /\ retryLock' = [retryLock EXCEPT ![Home[c]] = None]
        BY <3>3 DEF EndRetry, Holding, Busy
      <4>2. c # d
        BY <1>0, <1>1, <3>3, GoStays DEF EndRetry, Holding, Busy, Ran
      <4>3. Home[c] # Home[d]
        BY <3>1, <4>1, <4>2 DEF TurnInv
      <4> QED
        BY <1>0, <3>1, <4>1, <4>3 DEF OtherTypes
    <3> QED
      BY <3>1, <3>2, <3>3, WhoSaves
  <2>2. CASE me[d].pc \notin Holding
    <3>1. d = c
      BY <1>0, <1>1, <2>2, OthersStay DEF Callers
    <3>2. Retry(c)
      <4>1. ~Ask(c) /\ ~NextService(c)
        BY <1>0, <3>1 DEF Ask, NextService
      <4>2. ~Onward(c) /\ ~Launch(c)
        BY <2>2, <3>1 DEF Onward, Launch, At, Holding, Busy
      <4>3. ~AskRetry(c)
        <5> SUFFICES ASSUME AskRetry(c) PROVE FALSE
          OBVIOUS
        <5>1. me'[c].pc = "wait"
          BY <1>0 DEF AskRetry, MeInv, Caller
        <5> QED
          BY <1>1, <3>1, <5>1 DEF Holding, Busy, Ran
      <4> QED
        BY <1>0, <4>1, <4>2, <4>3, Kinds
    <3>3. retryLock' = [retryLock EXCEPT ![Home[c]] = c]
      <4>1. retryLock' = [retryLock EXCEPT ![Home[c]] = c] \/ Go(c, "refused")
        BY <3>2 DEF Retry
      <4> QED
        BY <1>0, <1>1, <3>1, <4>1, GoStays DEF Holding, Busy, Ran
    <3> QED
      BY <1>0, <3>1, <3>3 DEF OtherTypes
  <2> QED
    BY <2>1, <2>2
<1> QED
  BY <1>1 DEF TurnInv

(* A retry that has been asked for never becomes idle again.               *)
LEMMA ApartBefore ==
  ASSUME TypeInv, NEW c \in Callers, Moves(c), RetriesApart'
  PROVE  RetriesApart /\ (asked' <= 1 => asked <= 1)
<1>1. MeInv /\ OtherTypes /\ asked \in Nat
  BY DEF TypeInv, OtherTypes
<1>2. asked' = asked \/ asked' = asked + 1
  BY WhoSaves DEF Ask
<1>3. ASSUME NEW d \in Retries, At(d, "idle")' PROVE At(d, "idle")
  <2>0. d \in Callers
    BY DEF Callers
  <2>1. CASE d # c
    BY <1>1, <1>3, <2>0, <2>1, OthersStay DEF At
  <2>2. CASE d = c /\ ~At(c, "idle")
    <3>1. me'[c].pc = "idle"
      BY <1>3, <2>2 DEF At
    <3>2. Onward(c) \/ Launch(c) \/ Retry(c) \/ NextService(c)
      BY <1>1, <2>2, Kinds DEF Ask, AskRetry
    <3>3. ~Onward(c) /\ ~Launch(c)
      BY <3>1 DEF Onward, Launch
    <3>4. ~NextService(c)
      BY <2>2, <1>3, AgentRunsAssumption DEF NextService
    <3>5. ~Retry(c)
      <4> SUFFICES ASSUME Retry(c) PROVE FALSE
        OBVIOUS
      <4>1. CASE Go(c, "refused")
        BY <1>1, <3>1, <4>1, GoStays
      <4>2. CASE ~Go(c, "refused")
        <5>1. PICK input \in RetryInputs(me[c].target) :
                me' = [me EXCEPT ![c] = [@ EXCEPT !.pc = "begin", !.run = RetryId(me[c].target),
                                                !.brief = input.brief, !.page = input.page]]
          BY <4>2 DEF Retry
        <5>2. me'[c].pc = "begin"
          BY <1>1, <5>1 DEF MeInv, Caller
        <5> QED
          BY <3>1, <5>2
      <4> QED
        BY <4>1, <4>2
    <3> QED
      BY <3>2, <3>3, <3>4, <3>5
  <2> QED
    BY <2>1, <2>2
<1> QED
  BY <1>1, <1>2, <1>3 DEF RetriesApart

(* With one prompt, one caller works at a time.                            *)
LEMMA Alone ==
  ASSUME OneProcess, TypeInv, TurnInv, PromptInv, asked <= 1,
         NEW c \in Callers, NEW d \in Callers, me[c].pc \in Busy, me[d].pc \in Holding
  PROVE  c = d \/ (d \in Chains /\ me[d].pc \in Over)
<1>0. Home[c] = Home[d] /\ Chains \cap Retries = {}
  BY AgentRunsAssumption DEF OneProcess
<1>1. CASE c \in Chains /\ d \in Chains
  BY <1>1 DEF PromptInv, At, Busy, Ran, Holding
<1>2. CASE c \in Retries /\ d \in Retries
  BY <1>0, <1>2 DEF TurnInv, Holding
<1>3. ASSUME NEW r \in Retries, me[r].pc \in Holding
      PROVE  \A k \in Chains : ~At(k, "idle") => me[k].pc \in Over
  <2>1. Failed(me[r].target)
    BY <1>3 DEF PromptInv, At, Holding, Busy, Ran
  <2>2. PICK k \in Chains : me[k].pc \in Over
    BY <2>1 DEF PromptInv, Failed
  <2>3. ~At(k, "idle")
    BY <2>2 DEF At, Over
  <2> QED
    BY <2>2, <2>3 DEF PromptInv
<1>4. CASE c \in Chains /\ d \in Retries
  <2>1. me[c].pc \in Over
    BY <1>3, <1>4 DEF At, Busy, Ran
  <2> QED
    BY <2>1 DEF Over, Busy, Ran
<1>5. CASE c \in Retries /\ d \in Chains
  BY <1>3, <1>5 DEF At, Busy, Ran, Holding
<1> QED
  BY <1>1, <1>2, <1>4, <1>5 DEF Callers
LEMMA Exclusive ==
  ASSUME OneProcess, TypeInv, TurnInv, PromptInv, asked <= 1,
         NEW c \in Callers, NEW d \in Callers, me[c].pc \in Busy, me[d].pc \in Busy
  PROVE  c = d
  BY Alone DEF Holding, Busy, Ran, Over

(* The steps of Kinds, field by field.                                     *)
AskRetried(c) ==
  /\ c \in Retries /\ At(c, "idle") /\ me'[c].pc = "wait"
  /\ \E r \in DOMAIN runs : OffersRetry(r) /\ me'[c].target = r /\ me'[c].role = r.role
  /\ UNCHANGED <<asked, records, snapshot, reserved>>

Retried(c) ==
  /\ c \in Retries /\ At(c, "wait") /\ retryLock[Home[c]] = None
  /\ UNCHANGED <<asked, records, snapshot, reserved>>
  /\ me'[c].target = me[c].target /\ me'[c].role = me[c].role
  /\ \/ me'[c].pc = "refused"
     \/ /\ me'[c].pc = "begin" /\ me'[c].run = RetryId(me[c].target)
        /\ \E input \in RetryInputs(me[c].target) : me'[c].brief = input.brief /\ me'[c].page = input.page

WentOn(c) ==
  /\ c \in Chains \ Retries /\ At(c, "shown")
  /\ me'[c].brief = me[c].brief /\ me'[c].page = me[c].page
  /\ \/ me'[c].pc = "done" /\ me'[c].role = "reviewer" /\ me[c].role = "reviewer"
     \/ me'[c].pc = "begin" /\ me'[c].role = After[me[c].role]
  /\ UNCHANGED <<asked, records>>

LEMMA KindsAre ==
  ASSUME TypeInv, NEW c \in Callers, Moves(c)
  PROVE  \/ Ask(c) /\ me'[c].pc = "begin" /\ Stays(c)
         \/ AskRetried(c) \/ Retried(c) \/ WentOn(c) \/ Launch(c) \/ Onward(c)
<1>1. MeInv /\ OtherTypes
  BY DEF TypeInv
<1>2. CASE Ask(c)
  BY <1>1, <1>2, GoStays DEF Ask
<1>3. CASE AskRetry(c)
  <2>1. PICK r \in DOMAIN runs : OffersRetry(r) /\ me' = [me EXCEPT ![c] = [@ EXCEPT !.pc = "wait", !.target = r, !.role = r.role]]
    BY <1>3 DEF AskRetry
  <2>2. me'[c].pc = "wait" /\ me'[c].target = r /\ me'[c].role = r.role
    BY <1>1, <2>1 DEF MeInv, Caller
  <2> QED
    BY <1>3, <2>1, <2>2 DEF AskRetry, AskRetried
<1>4. CASE Retry(c)
  <2>1. CASE Go(c, "refused")
    BY <1>1, <1>4, <2>1, GoStays DEF Retry, Retried, RetryTurn, Stays
  <2>2. CASE ~Go(c, "refused")
    <3>1. PICK input \in RetryInputs(me[c].target) :
            me' = [me EXCEPT ![c] = [@ EXCEPT !.pc = "begin", !.run = RetryId(me[c].target),
                                            !.brief = input.brief, !.page = input.page]]
      BY <1>4, <2>2 DEF Retry
    <3>2. /\ me'[c].pc = "begin" /\ me'[c].run = RetryId(me[c].target) /\ me'[c].brief = input.brief
          /\ me'[c].page = input.page /\ me'[c].target = me[c].target /\ me'[c].role = me[c].role
      BY <1>1, <3>1 DEF MeInv, Caller
    <3> QED
      BY <1>4, <3>1, <3>2 DEF Retry, Retried, RetryTurn
  <2> QED BY <2>1, <2>2
<1>5. CASE NextService(c)
  <2>a. c \in Chains \ Retries /\ At(c, "shown") /\ UNCHANGED <<asked, records>>
    BY <1>5, AgentRunsAssumption DEF NextService
  <2>1. CASE me[c].role = "reviewer" /\ Verdict(c) # "passed"
    <3>1. Go(c, "done")
      BY <1>5, <2>1 DEF NextService
    <3> QED
      BY <1>1, <2>a, <2>1, <3>1, GoStays DEF WentOn, Stays
  <2>2. CASE ~(me[c].role = "reviewer" /\ Verdict(c) # "passed")
    <3>1. me' = [me EXCEPT ![c] = [@ EXCEPT !.pc = "begin", !.role = After[me[c].role]]]
      BY <1>5, <2>2 DEF NextService
    <3>2. me'[c].pc = "begin" /\ me'[c].role = After[me[c].role] /\ me'[c].brief = me[c].brief /\ me'[c].page = me[c].page
      BY <1>1, <3>1 DEF MeInv, Caller
    <3> QED
      BY <2>a, <3>2 DEF WentOn
  <2> QED BY <2>1, <2>2
<1> QED
  BY <1>1, <1>2, <1>3, <1>4, <1>5, Kinds

(* What a step does to the record of the run of its caller.                *)
RunChanges(c, pc, state, next) ==
  /\ At(c, pc) /\ me'[c].pc \in next /\ Stays(c)
  /\ DOMAIN runs' = DOMAIN runs \cup {me[c].run} /\ runs'[me[c].run].state = state
  /\ \A r \in DOMAIN runs : r # me[c].run => runs'[r] = runs[r]

LEMMA RunFate ==
  ASSUME TypeInv, NEW c \in Callers, Moves(c)
  PROVE  \/ runs' = runs
         \/ RunChanges(c, "saveRun", "running", {"list", "start"})
         \/ RunChanges(c, "fail", "failed", {"failEvent"})
         \/ RunChanges(c, "complete", "completed", {"completeEvent"})
<1> DEFINE r0 == me[c].run
<1>0. MeInv /\ TablesInv /\ PlaceInv(c)
  BY DEF TypeInv
<1>1. CASE SaveRun(c)
  <2>1. PICK rec : rec.state = "running" /\ runs' = Put(runs, r0, rec)
    BY <1>1 DEF SaveRun
  <2>2. DOMAIN runs' = DOMAIN runs \cup {r0} /\ runs'[r0] = rec
        /\ \A r \in DOMAIN runs : r # r0 => runs'[r] = runs[r]
    BY <2>1 DEF Put
  <2>3. At(c, "saveRun") /\ me'[c].pc \in {"list", "start"} /\ Stays(c)
    BY <1>0, <1>1, GoStays DEF SaveRun
  <2> QED
    BY <2>1, <2>2, <2>3 DEF RunChanges
<1>2. ASSUME NEW state \in {"failed", "completed"}, Ended(c, state), r0 \in DOMAIN runs
      PROVE  /\ DOMAIN runs' = DOMAIN runs \cup {r0} /\ runs'[r0].state = state
             /\ \A r \in DOMAIN runs : r # r0 => runs'[r] = runs[r]
  <2>1. PICK kept : /\ kept = IF state = "failed" THEN runs[r0]
                              ELSE [state |-> state, prompt |-> 0, knewBriefs |-> {}, knewPages |-> {}]
                    /\ runs' = [runs EXCEPT ![r0] = [kept EXCEPT !.state = state]]
    BY <1>2 DEF Ended
  <2>2. kept \in RunRecord
    BY <1>0, <1>2, <2>1 DEF TablesInv, RunRecord
  <2>3. [kept EXCEPT !.state = state].state = state
    BY <2>2 DEF RunRecord
  <2> QED
    BY <1>2, <2>1, <2>3
<1>3. CASE FailRun(c) /\ runs' # runs
  <2>1. At(c, "fail") /\ Ended(c, "failed") /\ Go(c, "failEvent")
    BY <1>3 DEF FailRun
  <2>2. r0 \in DOMAIN runs
    BY <1>0, <2>1 DEF PlaceInv, At, Ran
  <2> QED
    BY <1>0, <1>2, <2>1, <2>2, GoStays DEF RunChanges
<1>4. CASE CompleteRun(c) /\ runs' # runs
  <2>1. At(c, "complete") /\ Ended(c, "completed") /\ Go(c, "completeEvent")
    BY <1>4 DEF CompleteRun
  <2>2. r0 \in DOMAIN runs
    BY <1>0, <2>1 DEF PlaceInv, At, Ran
  <2> QED
    BY <1>0, <1>2, <2>1, <2>2, GoStays DEF RunChanges
<1> QED
  BY <1>1, <1>3, <1>4, WhoSaves
(* A run that has failed stays so.                                         *)
LEMMA FailedStay ==
  ASSUME TypeInv, NEW c \in Callers, RunInv(c), Moves(c), NEW r, Failed(r)
  PROVE  Failed(r)'
<1>1. r \in DOMAIN runs /\ runs[r].state = "failed"
  BY DEF Failed
<1>2. r \in DOMAIN runs' /\ runs'[r] = runs[r]
  <2>1. CASE runs' = runs
    BY <1>1, <2>1
  <2>2. CASE RunChanges(c, "saveRun", "running", {"list", "start"})
    BY <1>1, <2>2 DEF RunChanges, RunInv, At
  <2>3. CASE RunChanges(c, "fail", "failed", {"failEvent"})
    BY <1>1, <2>3 DEF RunChanges, RunInv, At
  <2>4. CASE RunChanges(c, "complete", "completed", {"completeEvent"})
    BY <1>1, <2>4 DEF RunChanges, RunInv, At
  <2> QED
    BY <2>1, <2>2, <2>3, <2>4, RunFate
<1> QED
  BY <1>1, <1>2 DEF Failed

LEMMA PromptStep ==
  ASSUME TypeInv, PromptInv, NEW c \in Callers, RunInv(c), Moves(c)
  PROVE  PromptInv'
<1>0. MeInv /\ OtherTypes /\ PlaceInv(c) /\ asked \in Nat /\ Chains \cap Retries = {}
  BY AgentRunsAssumption DEF TypeInv, OtherTypes
<1>1. /\ \A d \in Callers : d # c => me'[d] = me[d]
      /\ asked' = asked \/ (Ask(c) /\ asked' = asked + 1)
  BY <1>0, OthersStay, WhoSaves DEF Ask
<1>2. ASSUME NEW k \in Chains, At(k, "idle"), ~Ask(c) PROVE me'[k] = me[k]
  <2>1. k \in Callers /\ k \notin Retries
    BY <1>0 DEF Callers
  <2>2. CASE k = c
    BY <1>2, <2>1, <2>2, KindsAre DEF AskRetried, Retried, WentOn, Launch, Onward, At, Holding, Busy, Ran
  <2> QED
    BY <1>1, <2>1, <2>2
<1>3. ASSUME asked' = 0, NEW k \in Chains PROVE At(k, "idle")'
  <2>1. asked = 0 /\ ~Ask(c)
    BY <1>0, <1>1, <1>3 DEF Ask
  <2>2. At(k, "idle")
    BY <2>1 DEF PromptInv
  <2> QED
    BY <1>2, <2>1, <2>2 DEF At
<1>4. ASSUME asked' <= 1, NEW k \in Chains, NEW m \in Chains, ~At(k, "idle")', ~At(m, "idle")' PROVE k = m
  <2>0. k \in Callers /\ m \in Callers
    BY DEF Callers
  <2>1. CASE Ask(c)
    <3>1. asked = 0
      BY <1>0, <1>4, <2>1 DEF Ask
    <3>2. At(k, "idle") /\ At(m, "idle")
      BY <3>1 DEF PromptInv
    <3>3. k = c /\ m = c
      BY <1>1, <1>4, <2>0, <3>2 DEF At
    <3> QED BY <3>3
  <2>2. CASE ~Ask(c)
    <3>1. ~At(k, "idle") /\ ~At(m, "idle")
      BY <1>2, <1>4, <2>2 DEF At
    <3> QED
      BY <1>0, <1>1, <1>4, <2>2, <3>1 DEF PromptInv
  <2> QED BY <2>1, <2>2
<1>5. asked' <= 1 => asked <= 1
  BY <1>0, <1>1
<1>6. ASSUME asked <= 1, NEW k \in Chains, me[k].pc \in Over
      PROVE  me'[k].pc \in Over /\ me'[k].role = me[k].role
  <2>0. k \in Callers /\ k \notin Retries
    BY <1>0 DEF Callers
  <2>1. CASE k = c
    <3>1. Onward(c)
      BY <1>6, <2>0, <2>1, KindsAre DEF Ask, AskRetried, Retried, WentOn, Launch, At, Over
    <3> QED
      BY <1>6, <2>1, <3>1 DEF Onward, Stays, Over, Holding, Busy, Ran
  <2> QED
    BY <1>1, <1>6, <2>0, <2>1
<1>7. ASSUME asked' <= 1, NEW r \in DOMAIN runs', Failed(r)'
      PROVE  \E k \in Chains : me'[k].pc \in Over /\ me'[k].role = r.role
  <2>1. CASE Failed(r)
    BY <1>5, <1>6, <1>7, <2>1 DEF PromptInv, Failed
  <2>2. CASE ~Failed(r)
    <3>1. RunChanges(c, "fail", "failed", {"failEvent"}) /\ r = me[c].run
      BY <1>7, <2>2, RunFate DEF Failed, RunChanges
    <3>2. me[c].pc = "fail" /\ me'[c].pc = "failEvent" /\ me'[c].role = me[c].role /\ me[c].run.role = me[c].role
      BY <1>0, <3>1 DEF RunChanges, At, Stays, PlaceInv, Ran
    <3>3. CASE c \in Chains
      BY <3>1, <3>2, <3>3 DEF Over
    <3>4. CASE c \in Retries
      <4>1. Failed(me[c].target) /\ me[c].target.role = me[c].role
        BY <1>0, <1>5, <1>7, <3>2, <3>4 DEF PromptInv, At, PlaceInv
      <4>2. PICK k \in Chains : me[k].pc \in Over /\ me[k].role = me[c].role
        BY <1>5, <1>7, <4>1 DEF PromptInv, Failed
      <4> QED
        BY <1>5, <1>6, <1>7, <3>1, <3>2, <4>2
    <3> QED
      BY <3>3, <3>4 DEF Callers
  <2> QED BY <2>1, <2>2
<1>8. ASSUME asked' <= 1, NEW d \in Retries, ~At(d, "idle")' PROVE Failed(me[d].target)'
  <2>0. d \in Callers /\ d \notin Chains
    BY <1>0 DEF Callers
  <2>1. CASE ~At(d, "idle")
    <3>1. Failed(me[d].target)
      BY <1>5, <1>8, <2>1 DEF PromptInv
    <3>2. me'[d].target = me[d].target
      <4>1. CASE d = c
        BY <2>0, <2>1, <4>1, KindsAre DEF Ask, AskRetried, Retried, WentOn, Launch, Onward, Stays
      <4> QED
        BY <1>1, <2>0, <4>1
    <3>3. PICK r : r = me[d].target
      OBVIOUS
    <3>4. Failed(r)' /\ r = me'[d].target
      BY <3>1, <3>2, <3>3, FailedStay
    <3> QED
      BY <3>4 DEF Failed
  <2>2. CASE At(d, "idle")
    <3>1. d = c
      BY <1>1, <1>8, <2>0, <2>2 DEF At
    <3>2. AskRetried(c)
      BY <2>0, <2>2, <3>1, KindsAre DEF Ask, Retried, WentOn, Launch, Onward, At, Holding, Busy, Ran
    <3>3. PICK r \in DOMAIN runs : OffersRetry(r) /\ me'[c].target = r
      BY <3>2 DEF AskRetried
    <3>4. Failed(r)
      <4>1. CASE Terminals(r) = {}
        BY <3>3, <4>1 DEF OffersRetry, Failed
      <4>2. CASE Terminals(r) # {}
        <5>1. PICK e \in events : e.run = r /\ e.type = "run.failed"
          BY <3>3, <4>2 DEF OffersRetry, Terminals, EventsOf
        <5> QED
          BY <5>1 DEF PromptInv
      <4> QED BY <4>1, <4>2
    <3>5. Failed(r)' /\ r = me'[d].target
      BY <3>1, <3>3, <3>4, FailedStay
    <3> QED
      BY <3>5 DEF Failed
  <2> QED BY <2>1, <2>2
<1>9. ASSUME NEW e \in events', e.type = "run.failed" PROVE Failed(e.run)'
  <2>1. CASE e \in events
    BY <1>9, <2>1, FailedStay DEF PromptInv
  <2>2. CASE e \notin events
    <3>1. PICK new : Says(c, new)
      BY <1>0, <2>2, EventSteps
    <3>2. Says(c, e)
      BY <1>9, <2>2, <3>1 DEF Says
    <3>3. Failed(e.run)
      BY <1>9, <3>2 DEF Says, RunInv, At
    <3> QED
      BY <3>3, FailedStay
  <2> QED BY <2>1, <2>2
<1> QED
  BY <1>3, <1>4, <1>7, <1>8, <1>9 DEF PromptInv

(* The way of a run.                                                       *)
Running == {"list", "consume", "consumed", "start", "runtime", "fail", "complete"}
Done == {"completeEvent", "output", "created", "handoff", "handoffEvent"}

LEMMA RunWay ==
  ASSUME NEW c \in Callers, MeInv, Moves(c), me'[c].pc \in Ran \cup {"failEvent"}
  PROVE  /\ Stays(c)
         /\ \/ me[c].pc \in Running /\ me'[c].pc \in Running /\ runs' = runs
            \/ SaveRun(c) /\ me'[c].pc \in {"list", "start"}
            \/ FailRun(c) /\ At(c, "fail") /\ me'[c].pc = "failEvent"
            \/ CompleteRun(c) /\ At(c, "complete") /\ me'[c].pc = "completeEvent"
            \/ me[c].pc \in Done /\ me'[c].pc \in Done /\ runs' = runs
         /\ At(c, "handoff") => me'[c].pc = "handoffEvent"
         /\ ~At(c, "handoffEvent")
  <1> USE DEF Running, Done
  <1>1. CASE Ask(c)
    BY <1>1, GoStays DEF Ask, At, Ran
  <1>2. CASE BeginPlanner(c)
    <2>1. PICK x : me' = [Started(c) EXCEPT ![c].brief = x]
      BY <1>2 DEF BeginPlanner
    <2>2. me'[c].pc = "saveRun"
      BY <2>1 DEF Started, MeInv, Caller
    <2> QED
      BY <2>2 DEF Ran
  <1>3. CASE BeginBuilder(c)
    <2>1. PICK x : me' = [Started(c) EXCEPT ![c].page = x]
      BY <1>3 DEF BeginBuilder
    <2>2. me'[c].pc = "saveRun"
      BY <2>1 DEF Started, MeInv, Caller
    <2> QED
      BY <2>2 DEF Ran
  <1>4. CASE BeginReviewer(c)
    BY <1>4, GoStays, StartedIs DEF BeginReviewer, At, Ran, Begins
  <1>5. CASE BeginDeployer(c)
    BY <1>5, GoStays, StartedIs DEF BeginDeployer, At, Ran, Begins
  <1>6. CASE SaveRun(c)
    BY <1>6, GoStays DEF SaveRun, At, Ran
  <1>7. CASE ListReady(c)
    <2>1. Stays(c) /\ me'[c].pc \in {"start", "consume"} /\ At(c, "list")
      BY <1>7 DEF ListReady, MeInv, Caller, Stays, Go
    <2>2. runs' = runs
      BY <1>7 DEF ListReady, records
    <2> QED
      BY <2>1, <2>2 DEF At, Ran
  <1>8. CASE Consume(c)
    <2>1. Stays(c) /\ me'[c].pc \in {"consumed"} /\ At(c, "consume")
      BY <1>8 DEF Consume, MeInv, Caller, Stays, Go
    <2>2. runs' = runs
      BY <1>8 DEF Consume, records
    <2> QED
      BY <2>1, <2>2 DEF At, Ran
  <1>9. CASE ConsumedEvent(c)
    <2>1. Stays(c) /\ me'[c].pc \in {"start", "consume", "fail"} /\ At(c, "consumed")
      BY <1>9 DEF ConsumedEvent, MeInv, Caller, Stays, Go
    <2>2. runs' = runs
      BY <1>9 DEF ConsumedEvent, records
    <2> QED
      BY <2>1, <2>2 DEF At, Ran
  <1>10. CASE Start(c)
    <2>1. Stays(c) /\ me'[c].pc \in {"runtime"} /\ At(c, "start")
      BY <1>10 DEF Start, MeInv, Caller, Stays, Go
    <2>2. runs' = runs
      BY <1>10 DEF Start, records
    <2> QED
      BY <2>1, <2>2 DEF At, Ran
  <1>11. CASE Runtime(c)
    <2>1. Stays(c) /\ me'[c].pc \in {"complete", "fail"} /\ At(c, "runtime")
      <3>1. CASE Go(c, "fail")
        BY <1>11, <3>1, GoStays DEF Runtime
      <3>2. CASE ~Go(c, "fail")
        <4>1. PICK g : me' = [me EXCEPT ![c] = [@ EXCEPT !.pc = "complete", !.good = g]]
          BY <1>11, <3>2 DEF Runtime
        <4> QED
          BY <1>11, <4>1 DEF Runtime, MeInv, Caller, Stays
      <3> QED
        BY <3>1, <3>2
    <2>2. runs' = runs
      BY <1>11 DEF Runtime, records
    <2> QED
      BY <2>1, <2>2 DEF At, Ran
  <1>12. CASE FailRun(c)
    BY <1>12, GoStays DEF FailRun, At, Ran
  <1>13. CASE CompleteRun(c)
    <2>1. /\ Stays(c)
          /\ \/ At(c, "complete") /\ me'[c].pc = "completeEvent"
             \/ At(c, "completeEvent") /\ me'[c].pc = "output" /\ runs' = runs
      BY <1>13 DEF CompleteRun, MeInv, Caller, Stays, Go
    <2> QED
      BY <1>13, <2>1 DEF At, Ran
  <1>14. CASE SaveBrief(c)
    BY <1>14, GoStays DEF SaveBrief, At, Ran
  <1>15. CASE SavePage(c)
    BY <1>15, GoStays DEF SavePage, At, Ran
  <1>16. CASE CreatedEvent(c)
    <2>1. Stays(c) /\ me'[c].pc \in {"handoff"} /\ At(c, "created")
      BY <1>16 DEF CreatedEvent, MeInv, Caller, Stays, Go
    <2>2. runs' = runs
      BY <1>16 DEF CreatedEvent, records
    <2> QED
      BY <2>1, <2>2 DEF At, Ran
  <1>17. CASE SaveReview(c)
    BY <1>17, GoStays DEF SaveReview, At, Ran
  <1>18. CASE RequestDeployment(c)
    BY <1>18, GoStays DEF RequestDeployment, At, Ran
  <1>19. CASE SaveDeployment(c)
    BY <1>19, GoStays DEF SaveDeployment, At, Ran
  <1>20. CASE SaveHandoff(c)
    BY <1>20, GoStays DEF SaveHandoff, At, Ran
  <1>21. CASE NextService(c)
    <2>1. me'[c].pc = "begin" \/ Go(c, "done")
      BY <1>21 DEF NextService, MeInv, Caller
    <2> QED
      BY <2>1, GoStays DEF Ran
  <1>22. CASE Answer(c)
    BY <1>22, GoStays DEF Answer, At, Ran
  <1>23. CASE Retry(c)
    <2>1. me'[c].pc = "begin" \/ Go(c, "refused")
      BY <1>23 DEF Retry, MeInv, Caller
    <2> QED
      BY <2>1, GoStays DEF Ran
  <1>24. CASE EndRetry(c)
    BY <1>24, GoStays DEF EndRetry, At, Ran
  <1>25. CASE AskRetry(c)
    <2>1. me'[c].pc = "wait"
      BY <1>25 DEF AskRetry, MeInv, Caller
    <2> QED
      BY <2>1 DEF Ran
  <1>26. CASE SaveFails(c)
    BY <1>26, GoStays DEF SaveFails, At, Ran, records
  <1> QED
    BY <1>1, <1>2, <1>3, <1>4, <1>5, <1>6, <1>7, <1>8, <1>9, <1>10, <1>11, <1>12, <1>13, <1>14, <1>15, <1>16, <1>17, <1>18, <1>19, <1>20, <1>21, <1>22, <1>23, <1>24, <1>25, <1>26 DEF Moves, Step

LEMMA NewRunIsFree ==
  ASSUME TypeInv, NEW c \in Callers, RunInv(c), At(c, "begin")
  PROVE  NewRun(c) \notin DOMAIN runs
<1>1. TablesInv /\ OtherTypes /\ CountInv
  BY DEF TypeInv
<1>2. CASE c \in Retries
  BY <1>2 DEF NewRun, RunInv, At
<1>3. CASE c \notin Retries
  <2>1. PICK n : n = NextId(c, me[c].role, OriginalRuns(me[c].role)) /\ n \notin OriginalRuns(me[c].role)
    BY <1>1, NewIds
  <2>2. NewRun(c) = [role |-> me[c].role, no |-> n, retries |-> <<>>]
    BY <1>3, <2>1 DEF NewRun
  <2> QED
    BY <2>1, <2>2 DEF OriginalRuns
<1> QED
  BY <1>2, <1>3

LEMMA OwnRunStep ==
  ASSUME TypeInv, NEW c \in Callers, RunInv(c), Moves(c)
  PROVE  RunInv(c)'
<1>0. MeInv /\ TablesInv /\ HandoffTypes /\ CountInv /\ PlaceInv(c)
  BY DEF TypeInv
<1>1. ASSUME me'[c].pc = "saveRun" PROVE me'[c].run \notin DOMAIN runs'
  <2>1. Launch(c)
    BY <1>1, KindsAre DEF AskRetried, Retried, WentOn, Onward
  <2> QED
    BY <2>1, NewRunIsFree DEF Launch, records
<1>2. ASSUME c \in Retries, me'[c].pc = "begin" PROVE me'[c].run \notin DOMAIN runs'
  <2>1. Retried(c)
    BY <1>2, KindsAre, AgentRunsAssumption DEF Ask, AskRetried, WentOn, Onward, Launch
  <2>2. me'[c].run = RetryId(me[c].target) /\ me[c].target \in DOMAIN runs /\ runs' = runs
    BY <1>0, <1>2, <2>1 DEF Retried, PlaceInv, At, records
  <2> QED
    BY <1>0, <2>2, RetryIdFree
<1>3. ASSUME me'[c].pc \in Ran \cup {"failEvent"}
      PROVE  /\ me'[c].pc \in Running => runs'[me'[c].run].state = "running"
             /\ me'[c].pc = "failEvent" => Failed(me[c].run)'
             /\ me'[c].pc \in Done => runs'[me'[c].run].state = "completed"
             /\ me'[c].pc # "failEvent" /\ me'[c].pc # "handoffEvent" => me'[c].run \notin DOMAIN handoffs'
  <2>0. Stays(c)
    BY <1>0, <1>3, RunWay
  <2>r. PICK r : r = me[c].run /\ r = me'[c].run
    BY <2>0 DEF Stays
  <2>1. CASE me[c].pc \in Running /\ me'[c].pc \in Running /\ runs' = runs
    <3>1. r \notin DOMAIN handoffs /\ runs[r].state = "running"
      BY <2>r, <2>1 DEF RunInv, Running, Ran
    <3>2. ~Hands(c)
      BY <2>1 DEF Hands, At, Running
    <3>3. DOMAIN handoffs' = DOMAIN handoffs
      BY <1>0, <3>2, HandoffSteps, MarkedFacts DEF Marks
    <3> QED
      BY <2>1, <2>r, <3>1, <3>3 DEF Running, Done
  <2>2. CASE SaveRun(c) /\ me'[c].pc \in {"list", "start"}
    <3>1. r \notin DOMAIN runs /\ handoffs' = handoffs /\ runs'[r].state = "running"
      BY <2>2, <2>r DEF SaveRun, RunInv, At, Put
    <3>2. r \notin DOMAIN handoffs
      BY <1>0, <3>1 DEF HandoffTypes
    <3> QED
      BY <2>2, <2>r, <3>1, <3>2 DEF Running, Done
  <2>3. CASE FailRun(c) /\ At(c, "fail") /\ me'[c].pc = "failEvent"
    <3>1. r \in DOMAIN runs
      BY <1>0, <2>r, <2>3 DEF PlaceInv, At, Ran
    <3>2. RunChanges(c, "fail", "failed", {"failEvent"})
      <4>1. runs[r].state = "running" /\ Ended(c, "failed")
        BY <2>3, <2>r DEF RunInv, At, FailRun
      <4>2. runs'[r].state = "failed"
        <5>1. runs[r] \in RunRecord
          BY <1>0, <3>1 DEF TablesInv
        <5>2. [runs[r] EXCEPT !.state = "failed"].state = "failed"
          BY <5>1 DEF RunRecord
        <5> QED
          BY <2>r, <3>1, <4>1, <5>2 DEF Ended
      <4> QED
        BY <2>3, <4>1, <4>2, RunFate DEF RunChanges, At
    <3>3. Failed(r)' /\ r = me'[c].run
      BY <2>r, <3>2 DEF RunChanges, Failed
    <3> QED
      BY <2>3, <3>3 DEF Running, Done, Failed
  <2>4. CASE CompleteRun(c) /\ At(c, "complete") /\ me'[c].pc = "completeEvent"
    <3>1. runs[r].state = "running" /\ handoffs' = handoffs /\ r \notin DOMAIN handoffs
      BY <2>4, <2>r DEF RunInv, At, CompleteRun, Ran
    <3>2. runs'[r].state = "completed"
      <4>1. r \in DOMAIN runs /\ Ended(c, "completed")
        BY <1>0, <2>r, <2>4 DEF PlaceInv, At, Ran, CompleteRun
      <4> QED
        BY <2>r, <4>1 DEF Ended
    <3> QED
      BY <2>4, <2>r, <3>1, <3>2 DEF Running, Done
  <2>5. CASE me[c].pc \in Done /\ me'[c].pc \in Done /\ runs' = runs
    <3>1. runs[r].state = "completed"
      BY <2>r, <2>5 DEF RunInv, Done
    <3>2. me'[c].pc # "handoffEvent" => r \notin DOMAIN handoffs'
      <4> SUFFICES ASSUME me'[c].pc # "handoffEvent" PROVE r \notin DOMAIN handoffs'
        OBVIOUS
      <4>1. ~At(c, "handoff")
        BY <1>0, <1>3, RunWay
      <4>2. DOMAIN handoffs' = DOMAIN handoffs
        BY <1>0, <4>1, HandoffSteps, MarkedFacts DEF Marks, Hands
      <4>3. me[c].pc # "handoffEvent"
        BY <1>0, <1>3, RunWay DEF At
      <4> QED
        BY <2>5, <2>r, <4>2, <4>3 DEF RunInv, Done, Ran
    <3> QED
      BY <2>5, <2>r, <3>1, <3>2 DEF Running, Done
  <2> QED
    BY <1>0, <1>3, <2>1, <2>2, <2>3, <2>4, <2>5, RunWay
<1> QED
  BY <1>1, <1>2, <1>3 DEF RunInv, Running, Done, Ran
(* A step leaves the run of another caller alone.                          *)
LEMMA OtherRunStep ==
  ASSUME OneProcess, TypeInv, TurnInv, RetriesApart, WorkInv,
         NEW c \in Callers, NEW d \in Callers, c # d, Moves(c)
  PROVE  RunInv(d)'
<1> DEFINE r == me[d].run
<1>0. /\ MeInv /\ TablesInv /\ HandoffTypes /\ CountInv /\ PlaceInv(c) /\ PlaceInv(d)
      /\ PromptInv /\ RunInv(c) /\ RunInv(d) /\ Apart(c, d)
  BY DEF TypeInv, WorkInv
<1>1. me'[d] = me[d]
  BY <1>0, OthersStay
<1>2. ASSUME me[d].pc = "saveRun" \/ (d \in Retries /\ me[d].pc = "begin") PROVE r \notin DOMAIN runs'
  <2>1. r \notin DOMAIN runs
    BY <1>0, <1>2 DEF RunInv
  <2>2. CASE RunChanges(c, "saveRun", "running", {"list", "start"})
    <3>1. CASE me[d].pc = "saveRun"
      BY <1>0, <2>1, <2>2, <3>1 DEF RunChanges, Apart, At
    <3>2. CASE d \in Retries /\ me[d].pc = "begin"
      <4>1. asked <= 1
        BY <3>2 DEF RetriesApart, At
      <4>2. me[c].pc \in Busy /\ me[d].pc \in Busy
        BY <2>2, <3>2 DEF RunChanges, At, Busy
      <4> QED
        BY <1>0, <4>1, <4>2, Exclusive
    <3> QED
      BY <1>2, <3>1, <3>2
  <2>3. CASE \/ RunChanges(c, "fail", "failed", {"failEvent"})
             \/ RunChanges(c, "complete", "completed", {"completeEvent"})
    <3>1. me[c].run \in DOMAIN runs
      BY <1>0, <2>3 DEF RunChanges, At, PlaceInv, Ran
    <3> QED
      BY <2>1, <2>3, <3>1 DEF RunChanges
  <2> QED
    BY <2>1, <2>2, <2>3, RunFate
<1>3. ASSUME me[d].pc \in Ran PROVE runs'[r] = runs[r]
  <2>1. r \in DOMAIN runs
    BY <1>0, <1>3 DEF PlaceInv
  <2>2. me[c].pc \in Ran \cup {"saveRun"} => me[c].run # r
    BY <1>0, <1>3 DEF Apart
  <2> QED
    BY <2>1, <2>2, RunFate DEF RunChanges, At, Ran
<1>4. ASSUME me[d].pc = "failEvent" PROVE Failed(r)'
  <2>1. Failed(r)
    BY <1>0, <1>4 DEF RunInv
  <2>2. PICK q : q = r
    OBVIOUS
  <2>3. Failed(q)'
    BY <1>0, <2>1, <2>2, FailedStay
  <2> QED
    BY <1>1, <2>2, <2>3 DEF Failed
<1>5. ASSUME me[d].pc \in Ran \ {"handoffEvent"} PROVE r \notin DOMAIN handoffs'
  <2>1. r \notin DOMAIN handoffs
    BY <1>0, <1>5 DEF RunInv
  <2>2. CASE Hands(c)
    BY <1>0, <1>5, <2>1, <2>2 DEF Hands, Apart, At, Ran
  <2>3. CASE Marks(c)
    BY <1>0, <2>1, <2>3, MarkedFacts DEF Marks
  <2> QED
    BY <1>0, <2>1, <2>2, <2>3, HandoffSteps
<1>6. r = me'[d].run /\ me'[d].pc = me[d].pc
  BY <1>1
<1> HIDE DEF r
<1> QED
  BY <1>0, <1>2, <1>3, <1>4, <1>5, <1>6 DEF RunInv, Ran, r

LEMMA ReserveStep ==
  ASSUME TypeInv, NEW c \in Callers, NEW d \in Callers, ReserveInv(d), Moves(c)
  PROVE  ReserveInv(d)'
<1>0. MeInv /\ OtherTypes /\ Chains \cap Retries = {} /\ Home[d] \in Processes /\ DOMAIN reserved = Processes
  BY AgentRunsAssumption DEF TypeInv, OtherTypes
<1>1. CASE c = d
  <2> SUFFICES ASSUME c \in Chains, me'[c].pc \in Ran \cup {"saveRun"}
               PROVE  /\ me'[c].run.retries = <<>>
                      /\ HasReserved(c, me[c].role, me[c].run.no)'
                      /\ me'[c].role = "planner" => HasReserved(c, "brief", me[c].brief)'
                      /\ me'[c].role = "builder" => HasReserved(c, "page", me[c].page)'
    BY <1>1 DEF ReserveInv
  <2>1. CASE Launch(c)
    <3>1. NewRun(c).retries = <<>>
      BY <1>0 DEF NewRun
    <3> QED
      BY <1>0, <2>1, <3>1 DEF Launch, HasReserved
  <2>2. CASE Onward(c)
    BY <1>1, <2>2 DEF Onward, Stays, ReserveInv, HasReserved
  <2> QED
    BY <1>0, <2>1, <2>2, KindsAre DEF AskRetried, Retried, WentOn, Ran
<1>2. CASE c # d
  <2>1. me'[d] = me[d]
    BY <1>0, <1>2, OthersStay
  <2>2. \A j \in reserved[Home[d]] : j.by = d => j \in reserved'[Home[d]]
    <3>1. CASE reserved' = reserved
      BY <3>1
    <3>2. CASE Release(c)
      BY <1>0, <1>2, <3>2 DEF Release
    <3>3. CASE \E kinds : Reserve(c, kinds)
      BY <1>0, <3>3 DEF Reserve
    <3> QED
      BY <3>1, <3>2, <3>3, WhoSaves DEF BeginPlanner, BeginBuilder, BeginReviewer, BeginDeployer,
                                        NextService, Answer, EndRetry
  <2> QED
    BY <2>1, <2>2 DEF ReserveInv, HasReserved
<1> QED
  BY <1>1, <1>2

(* A retry begins when nobody works.                                       *)
LEMMA RetryAlone ==
  ASSUME OneProcess, TypeInv, TurnInv, PromptInv, asked <= 1, NEW c \in Retries, Retried(c), NEW d \in Callers
  PROVE  me[d].pc \notin Holding \/ (d \in Chains /\ me[d].pc \in Over)
<1>1. CASE d \in Chains
  <2>1. Failed(me[c].target)
    BY DEF PromptInv, Retried, At
  <2>2. PICK k \in Chains : me[k].pc \in Over
    BY <2>1 DEF PromptInv, Failed
  <2> QED
    BY <1>1, <2>2 DEF PromptInv, At, Over, Holding, Busy, Ran
<1>2. CASE d \in Retries
  <2>1. Home[d] = Home[c] /\ d # None
    BY AgentRunsAssumption DEF OneProcess, Callers
  <2> QED
    BY <1>2, <2>1 DEF TurnInv, Retried
<1> QED
  BY <1>1, <1>2 DEF Callers

LEMMA StepApart ==
  ASSUME OneProcess, TypeInv, TurnInv, RetriesApart, WorkInv,
         NEW c \in Callers, NEW d \in Callers, c # d, Moves(c)
  PROVE  Apart(c, d)' /\ Apart(d, c)'
<1>0. /\ MeInv /\ TablesInv /\ OtherTypes /\ CountInv /\ PlaceInv(c) /\ PlaceInv(d)
      /\ PromptInv /\ ReserveInv(c) /\ ReserveInv(d) /\ Apart(c, d) /\ Chains \cap Retries = {}
      /\ Home[c] = Home[d]
  BY AgentRunsAssumption DEF TypeInv, WorkInv, OneProcess
<1>1. me'[d] = me[d]
  BY <1>0, OthersStay
<1>2. HasBrief(d)' = HasBrief(d) /\ HasPage(d)' = HasPage(d)
  BY <1>1 DEF HasBrief, HasPage
<1> SUFFICES /\ {me'[c].pc, me[d].pc} \subseteq Ran \cup {"saveRun"} => me'[c].run # me[d].run
             /\ HasBrief(c)' /\ HasBrief(d) => me'[c].brief # me[d].brief
             /\ HasPage(c)' /\ HasPage(d) => me'[c].page # me[d].page
  BY <1>1, <1>2 DEF Apart
<1>3. CASE Ask(c) /\ me'[c].pc = "begin" /\ Stays(c)
  <2>1. me'[c].role = "planner"
    BY <1>0, <1>3 DEF Ask, PlaceInv, At, Stays
  <2> QED
    BY <1>3, <2>1 DEF HasBrief, HasPage, Ran
<1>4. CASE AskRetried(c)
  BY <1>4 DEF AskRetried, HasBrief, HasPage, Ran, Busy
<1>5. CASE Retried(c)
  <2>1. CASE me'[c].pc = "refused"
    BY <2>1 DEF HasBrief, HasPage, Ran, Busy
  <2>2. CASE me'[c].pc = "begin"
    <3>1. asked <= 1 /\ c \in Retries
      BY <1>5 DEF Retried, RetriesApart, At
    <3>2. me[d].pc \notin Busy
      BY <1>0, <1>5, <3>1, RetryAlone DEF Holding, Over, Busy, Ran
    <3> QED
      BY <2>2, <3>2 DEF HasBrief, HasPage, Ran, Busy
  <2> QED
    BY <1>5, <2>1, <2>2 DEF Retried
<1>6. CASE WentOn(c)
  <2>1. HasBrief(c) /\ (me[c].role # "planner" => HasPage(c))
    <3>1. me[c].role \in Roles
      BY <1>0 DEF MeInv, Caller
    <3> QED
      BY <1>6, <3>1 DEF WentOn, HasBrief, HasPage, At, Busy, Roles
  <2>2. HasPage(c)' => me[c].role # "planner"
    BY <1>6 DEF WentOn, HasPage, After
  <2> QED
    BY <1>0, <1>6, <2>1, <2>2 DEF WentOn, Apart, Ran
<1>7. CASE Launch(c)
  <2>1. CASE me[d].pc \notin Busy
    BY <2>1 DEF HasBrief, HasPage, Busy
  <2>2. CASE me[d].pc \in Busy
    <3>1. me[c].pc \in Busy
      BY <1>7 DEF Launch, At, Busy
    <3>2. c \notin Retries /\ d \notin Retries /\ d \in Chains
      <4>1. c \in Retries \/ d \in Retries => asked <= 1
        BY <2>2, <3>1 DEF RetriesApart, At, Busy, Ran
      <4>2. ~(asked <= 1)
        BY <1>0, <2>2, <3>1, Exclusive
      <4> QED
        BY <4>1, <4>2 DEF Callers
    <3>3. ASSUME me[d].pc \in Ran \cup {"saveRun"} PROVE me'[c].run # me[d].run
      <4>1. PICK n : n = NextId(c, me[c].role, OriginalRuns(me[c].role))
                     /\ \A j \in reserved[Home[c]] : j.kind = me[c].role => j.no # n
        BY <1>0, NextIdIsFree, StoredIds
      <4>2. me'[c].run = [role |-> me[c].role, no |-> n, retries |-> <<>>]
        BY <1>7, <3>2, <4>1 DEF Launch, NewRun
      <4>3. PICK j \in reserved[Home[c]] : j.kind = me[d].role /\ j.no = me[d].run.no
        BY <1>0, <3>2, <3>3 DEF ReserveInv, HasReserved
      <4>4. me[d].run.role = me[d].role
        BY <1>0, <3>3 DEF PlaceInv
      <4> QED
        BY <4>1, <4>2, <4>3, <4>4
    <3>4. ASSUME HasBrief(d) PROVE me'[c].brief # me[d].brief \/ ~HasBrief(c)'
      <4>1. CASE me[c].role = "planner"
        <5>1. PICK n : n = NextId(c, "brief", DOMAIN briefs) /\ n \notin DOMAIN briefs
                       /\ \A j \in reserved[Home[c]] : j.kind = "brief" => j.no # n
          BY <1>0, NextIdIsFree, StoredIds
        <5>2. me'[c].brief = n
          BY <1>7, <4>1, <5>1 DEF Launch
        <5>3. me[d].brief \in DOMAIN briefs \/ HasReserved(d, "brief", me[d].brief)
          BY <1>0, <3>2, <3>4 DEF HasBrief, ReserveInv, PlaceInv, Busy
        <5> QED
          BY <1>0, <5>1, <5>2, <5>3 DEF HasReserved
      <4>2. CASE me[c].role # "planner"
        BY <1>0, <1>7, <3>1, <3>4, <4>2 DEF Launch, Apart, HasBrief
      <4> QED BY <4>1, <4>2
    <3>5. ASSUME HasPage(d) PROVE me'[c].page # me[d].page \/ ~HasPage(c)'
      <4>1. CASE me[c].role = "builder"
        <5>1. PICK n : n = NextId(c, "page", DOMAIN pages) /\ n \notin DOMAIN pages
                       /\ \A j \in reserved[Home[c]] : j.kind = "page" => j.no # n
          BY <1>0, NextIdIsFree, StoredIds
        <5>2. me'[c].page = n
          BY <1>7, <4>1, <5>1 DEF Launch
        <5>3. me[d].page \in DOMAIN pages \/ HasReserved(d, "page", me[d].page)
          BY <1>0, <3>2, <3>5 DEF HasPage, ReserveInv, PlaceInv, Busy
        <5> QED
          BY <1>0, <5>1, <5>2, <5>3 DEF HasReserved
      <4>2. CASE me[c].role # "builder"
        BY <1>0, <1>7, <3>1, <3>5, <4>2 DEF Launch, Apart, HasPage
      <4> QED BY <4>1, <4>2
    <3> QED
      BY <3>3, <3>4, <3>5
  <2> QED BY <2>1, <2>2
<1>8. CASE Onward(c)
  <2>1. (HasBrief(c)' => HasBrief(c)) /\ (HasPage(c)' => HasPage(c))
    BY <1>8 DEF Onward, Stays, HasBrief, HasPage, Holding, Busy
  <2>2. me'[c].pc \in Ran \cup {"saveRun"} => me[c].pc \in Ran \cup {"saveRun"}
    BY <1>8 DEF Onward
  <2> QED
    BY <1>0, <1>8, <2>1, <2>2 DEF Onward, Stays, Apart
<1> QED
  BY <1>3, <1>4, <1>5, <1>6, <1>7, <1>8, KindsAre

(* Who holds handoffs has listed them.                                     *)
LEMMA HoldWay ==
  ASSUME NEW c \in Callers, MeInv, Moves(c), me'[c].pc \in {"consume", "consumed"}
  PROVE  ListReady(c) \/ Consume(c) \/ (ConsumedEvent(c) /\ me'[c].pc = "consume")
  <1>1. CASE Ask(c)
    BY <1>1, GoStays DEF Ask
  <1>2. CASE BeginPlanner(c)
    <2>1. PICK x : me' = [Started(c) EXCEPT ![c].brief = x]
      BY <1>2 DEF BeginPlanner
    <2> QED
      BY <2>1 DEF Started, MeInv, Caller
  <1>3. CASE BeginBuilder(c)
    <2>1. PICK x : me' = [Started(c) EXCEPT ![c].page = x]
      BY <1>3 DEF BeginBuilder
    <2> QED
      BY <2>1 DEF Started, MeInv, Caller
  <1>4. CASE BeginReviewer(c)
    BY <1>4, GoStays, StartedIs DEF BeginReviewer
  <1>5. CASE BeginDeployer(c)
    BY <1>5, GoStays, StartedIs DEF BeginDeployer
  <1>6. CASE SaveRun(c)
    BY <1>6, GoStays DEF SaveRun
  <1>7. CASE ListReady(c)
    BY <1>7
  <1>8. CASE Consume(c)
    BY <1>8
  <1>9. CASE ConsumedEvent(c)
    <2>1. me'[c].pc \in {"start", "consume", "fail"}
      BY <1>9 DEF ConsumedEvent, MeInv, Caller, Go
    <2> QED
      BY <1>9, <2>1
  <1>10. CASE Start(c)
    BY <1>10 DEF Start, MeInv, Caller, Go
  <1>11. CASE Runtime(c)
    BY <1>11 DEF Runtime, MeInv, Caller, Go
  <1>12. CASE FailRun(c)
    BY <1>12, GoStays DEF FailRun
  <1>13. CASE CompleteRun(c)
    BY <1>13 DEF CompleteRun, MeInv, Caller, Go
  <1>14. CASE SaveBrief(c)
    BY <1>14, GoStays DEF SaveBrief
  <1>15. CASE SavePage(c)
    BY <1>15, GoStays DEF SavePage
  <1>16. CASE CreatedEvent(c)
    BY <1>16 DEF CreatedEvent, MeInv, Caller, Go
  <1>17. CASE SaveReview(c)
    BY <1>17, GoStays DEF SaveReview
  <1>18. CASE RequestDeployment(c)
    BY <1>18, GoStays DEF RequestDeployment
  <1>19. CASE SaveDeployment(c)
    BY <1>19, GoStays DEF SaveDeployment
  <1>20. CASE SaveHandoff(c)
    BY <1>20, GoStays DEF SaveHandoff
  <1>21. CASE NextService(c)
    BY <1>21 DEF NextService, MeInv, Caller, Go
  <1>22. CASE Answer(c)
    BY <1>22, GoStays DEF Answer
  <1>23. CASE Retry(c)
    BY <1>23 DEF Retry, MeInv, Caller, Go
  <1>24. CASE EndRetry(c)
    BY <1>24, GoStays DEF EndRetry
  <1>25. CASE AskRetry(c)
    BY <1>25 DEF AskRetry, MeInv, Caller, Go
  <1>26. CASE SaveFails(c)
    BY <1>26, GoStays DEF SaveFails
  <1> QED
    BY <1>1, <1>2, <1>3, <1>4, <1>5, <1>6, <1>7, <1>8, <1>9, <1>10, <1>11, <1>12, <1>13, <1>14, <1>15, <1>16, <1>17, <1>18, <1>19, <1>20, <1>21, <1>22, <1>23, <1>24, <1>25, <1>26 DEF Moves, Step

LEMMA OneHolder ==
  ASSUME NEW c \in Callers, NEW d \in Callers, Apart(c, d), PlaceInv(c), PlaceInv(d), HandoffInv, MeInv,
         {me[c].pc, me[d].pc} \subseteq {"consume", "consumed"}, NEW r \in me[c].got, r \in me[d].got
  PROVE  FALSE
<1>1. Matching(c, handoffs[r]) /\ Matching(d, handoffs[r])
  BY DEF HandoffInv
<1>2. me[c].role = me[d].role /\ me[c].role # "planner" /\ me[c].role \in Roles
  BY <1>1 DEF Matching, PlaceInv, MeInv, Caller
<1>3. CASE me[c].role = "builder"
  BY <1>1, <1>2, <1>3 DEF Matching, Apart, HasBrief, Busy, Ran
<1>4. CASE me[c].role \in {"reviewer", "deployer"}
  BY <1>1, <1>2, <1>4 DEF Matching, Apart, HasPage, Busy, Ran
<1> QED
  BY <1>2, <1>3, <1>4 DEF Roles

(* What becomes of a stored handoff.                                       *)
LEMMA HandoffFate ==
  ASSUME TypeInv, NEW c \in Callers, RunInv(c), Moves(c), NEW r \in DOMAIN handoffs
  PROVE  /\ r \in DOMAIN handoffs' /\ handoffs'[r].to = handoffs[r].to
         /\ handoffs'[r].brief = handoffs[r].brief /\ handoffs'[r].page = handoffs[r].page
         /\ \/ handoffs'[r] = handoffs[r]
            \/ /\ r \in me[c].got /\ me[c].pc \in {"consume", "consumed"}
               /\ handoffs'[r].state \in {"ready", "consumed"}
               /\ handoffs'[r].at = Now(handoffs[r].brief, handoffs[r].page)
<1>0. MeInv /\ TablesInv /\ HandoffTypes /\ CountInv /\ PlaceInv(c)
  BY DEF TypeInv
<1>1. CASE Marks(c)
  <2>1. PICK q \in DOMAIN handoffs, state \in {"ready", "consumed"} : q \in me[c].got /\ Marked(q, state)
    BY <1>1 DEF Marks
  <2>2. /\ DOMAIN handoffs' = DOMAIN handoffs
        /\ \A h \in DOMAIN handoffs : h # q => handoffs'[h] = handoffs[h]
        /\ handoffs'[q].state = state
        /\ handoffs'[q].to = handoffs[q].to /\ handoffs'[q].brief = handoffs[q].brief
        /\ handoffs'[q].page = handoffs[q].page
        /\ handoffs'[q].at = Now(handoffs[q].brief, handoffs[q].page)
    BY <1>0, <2>1, MarkedFacts
  <2> QED
    BY <1>1, <2>1, <2>2 DEF Marks
<1>2. CASE Hands(c)
  <2>1. r # me[c].run
    BY <1>2 DEF Hands, RunInv, At, Ran
  <2> QED
    BY <1>2, <2>1 DEF Hands
<1> QED
  BY <1>0, <1>1, <1>2, HandoffSteps

LEMMA HandoffStep ==
  ASSUME TypeInv, WorkInv, NEW c \in Callers, Moves(c)
  PROVE  HandoffInv'
<1>0. /\ MeInv /\ TablesInv /\ HandoffTypes /\ CountInv /\ \A d \in Callers : PlaceInv(d)
      /\ HandoffInv /\ RunInv(c) /\ \A d \in Callers : c # d => Apart(c, d)
      /\ DOMAIN me' = Callers /\ \A d \in Callers : d # c => me'[d] = me[d]
  BY OthersStay DEF TypeInv, WorkInv
<1>1. ASSUME NEW e \in events' \ events, e.type = "handoff.consumed"
      PROVE  /\ At(c, "consumed") /\ e.ref = me[c].marked /\ handoffs' = handoffs
             /\ me[c].marked \in me[c].got /\ ConsumedEvents(e.ref) = {}
             /\ e.ref \in DOMAIN handoffs /\ handoffs[e.ref].state = "consumed"
  <2>1. PICK new : Says(c, new)
    BY <1>0, <1>1, EventSteps
  <2>2. Says(c, e)
    BY <1>1, <2>1 DEF Says
  <2>3. At(c, "consumed") /\ e.ref = me[c].marked /\ handoffs' = handoffs
    BY <1>1, <2>2 DEF Says
  <2> QED
    BY <1>0, <2>3 DEF At, PlaceInv, HandoffInv
<1>2. \A e, f \in events' \ events : e = f
  BY <1>0, EventSteps DEF Says
<1>3. ASSUME NEW r \in DOMAIN handoffs', handoffs'[r].state = "ready" PROVE ConsumedEvents(r)' = {}
  <2> SUFFICES ASSUME NEW e \in events', e.type = "handoff.consumed", e.ref = r PROVE FALSE
    BY DEF ConsumedEvents
  <2>1. e \in events
    BY <1>1, <1>3
  <2>2. r \in DOMAIN handoffs /\ e \in ConsumedEvents(r)
    BY <1>0, <2>1 DEF HandoffTypes, ConsumedEvents
  <2>3. handoffs[r].state # "ready"
    BY <1>0, <2>2 DEF HandoffInv
  <2>4. r \in me[c].got /\ me[c].pc \in {"consume", "consumed"}
    BY <1>0, <1>3, <2>2, <2>3, HandoffFate
  <2> QED
    BY <1>0, <2>2, <2>4 DEF HandoffInv
<1>4. ASSUME NEW e \in events', NEW f \in events', e.type = "handoff.consumed", f.type = "handoff.consumed",
             e.ref = f.ref
      PROVE  e = f
  <2>1. CASE e \in events /\ f \in events
    BY <1>0, <1>4, <2>1 DEF HandoffInv
  <2>2. CASE e \notin events /\ f \notin events
    BY <1>2, <2>2
  <2>3. CASE e \in events /\ f \notin events
    BY <1>1, <1>4, <2>3 DEF ConsumedEvents
  <2>4. CASE e \notin events /\ f \in events
    BY <1>1, <1>4, <2>4 DEF ConsumedEvents
  <2> QED
    BY <2>1, <2>2, <2>3, <2>4
<1>5. ASSUME NEW d \in Callers, me'[d].pc \in {"consume", "consumed"}, NEW r \in me'[d].got
      PROVE  Matching(d, handoffs[r])' /\ ConsumedEvents(r)' = {}
  <2>1. CASE d # c
    <3>1. me'[d] = me[d] /\ r \in me[d].got /\ r \in DOMAIN handoffs
      BY <1>0, <1>5, <2>1 DEF PlaceInv
    <3>2. Matching(d, handoffs[r]) /\ ConsumedEvents(r) = {}
      BY <1>0, <1>5, <3>1 DEF HandoffInv
    <3>3. Matching(d, handoffs[r])'
      BY <1>0, <3>1, <3>2, HandoffFate DEF Matching
    <3>4. ASSUME NEW e \in events', e.type = "handoff.consumed", e.ref = r PROVE FALSE
      <4>1. e \notin events
        BY <3>2, <3>4 DEF ConsumedEvents
      <4>2. At(c, "consumed") /\ r \in me[c].got
        BY <1>1, <3>4, <4>1
      <4> QED
        BY <1>0, <1>5, <2>1, <3>1, <4>2, OneHolder DEF At
    <3> QED
      BY <3>3, <3>4 DEF ConsumedEvents
  <2>2. CASE d = c /\ ListReady(c)
    <3>1. PICK ready : /\ ready = {q \in DOMAIN handoffs : handoffs[q].state = "ready" /\ Matching(c, handoffs[q])}
                       /\ me' = [me EXCEPT ![c] = [@ EXCEPT !.got = ready, !.pc = IF ready = {} THEN "start" ELSE "consume"]]
      BY <2>2 DEF ListReady
    <3>2. Stays(c) /\ me'[c].got = ready
      BY <1>0, <3>1 DEF MeInv, Caller, Stays
    <3>3. events' = events /\ handoffs' = handoffs
      BY <2>2 DEF ListReady, records
    <3>4. r \in DOMAIN handoffs /\ handoffs[r].state = "ready" /\ Matching(c, handoffs[r])
      BY <1>5, <2>2, <3>1, <3>2
    <3>5. ConsumedEvents(r) = {}
      BY <1>0, <3>4 DEF HandoffInv
    <3> QED
      BY <2>2, <3>2, <3>3, <3>4, <3>5 DEF ConsumedEvents, Matching, Stays
  <2>3. CASE d = c /\ Consume(c)
    <3>1. me'[c].got = me[c].got /\ Stays(c)
      BY <1>0, <2>3 DEF Consume, MeInv, Caller, Stays
    <3>2. events' = events /\ me[c].pc = "consume"
      BY <2>3 DEF Consume, At
    <3>3. r \in me[c].got /\ r \in DOMAIN handoffs
      BY <1>0, <1>5, <2>3, <3>1, <3>2 DEF PlaceInv
    <3>4. Matching(c, handoffs[r]) /\ ConsumedEvents(r) = {}
      BY <1>0, <3>2, <3>3 DEF HandoffInv
    <3> QED
      BY <1>0, <2>3, <3>1, <3>2, <3>3, <3>4, HandoffFate DEF Matching, Stays, ConsumedEvents
  <2>4. CASE d = c /\ ConsumedEvent(c) /\ me'[c].pc = "consume"
    <3>1. ~Go(c, "fail")
      BY <1>0, <2>4, GoStays
    <3>2. /\ me' = [me EXCEPT ![c] = [@ EXCEPT !.seq = me[c].seq + 1, !.got = me[c].got \ {me[c].marked},
                                  !.pc = IF me[c].got \ {me[c].marked} = {} THEN "start" ELSE "consume"]]
          /\ handoffs' = handoffs /\ me[c].pc = "consumed"
      BY <2>4, <3>1 DEF ConsumedEvent, At
    <3>3. Stays(c) /\ me'[c].got = me[c].got \ {me[c].marked}
      BY <1>0, <3>2 DEF MeInv, Caller, Stays
    <3>4. r \in me[c].got /\ r # me[c].marked
      BY <1>5, <2>4, <3>3
    <3>5. Matching(c, handoffs[r]) /\ ConsumedEvents(r) = {}
      BY <1>0, <3>2, <3>4 DEF HandoffInv
    <3>6. ConsumedEvents(r)' = {}
      BY <1>1, <3>4, <3>5 DEF ConsumedEvents
    <3> QED
      BY <2>4, <3>2, <3>3, <3>5, <3>6 DEF Matching, Stays
  <2> QED
    BY <1>0, <1>5, <2>1, <2>2, <2>3, <2>4, HoldWay
<1>6. ASSUME NEW d \in Callers, me'[d].pc = "consumed" PROVE handoffs'[me'[d].marked].state = "consumed"
  <2>1. CASE d # c
    <3>1. /\ me'[d] = me[d] /\ me[d].marked \in me[d].got /\ me[d].marked \in DOMAIN handoffs
          /\ handoffs[me[d].marked].state = "consumed"
      BY <1>0, <1>6, <2>1 DEF PlaceInv, HandoffInv, At
    <3>2. handoffs'[me[d].marked] = handoffs[me[d].marked]
      BY <1>0, <1>6, <2>1, <3>1, HandoffFate, OneHolder
    <3> QED
      BY <3>1, <3>2
  <2>2. CASE d = c
    <3>1. ~ListReady(c) /\ ~(ConsumedEvent(c) /\ me'[c].pc = "consume")
      BY <1>0, <1>6, <2>2 DEF ListReady, MeInv, Caller
    <3>2. Consume(c)
      BY <1>0, <1>6, <2>2, <3>1, HoldWay
    <3>3. PICK r \in me[c].got : Take(r) /\ me' = [me EXCEPT ![c] = [@ EXCEPT !.pc = "consumed", !.marked = r]]
      BY <3>2 DEF Consume
    <3>4. r \in DOMAIN handoffs /\ me'[c].marked = r
      <4>1. r \in DOMAIN handoffs
        BY <1>0, <3>2, <3>3 DEF Consume, At, PlaceInv
      <4>2. me'[c].marked = r
        BY <1>0, <3>3 DEF MeInv, Caller
      <4> QED
        BY <4>1, <4>2
    <3>5. handoffs'[r].state = "consumed"
      BY <1>0, <3>3, <3>4, MarkedFacts DEF Take
    <3> QED
      BY <2>2, <3>4, <3>5
  <2> QED BY <2>1, <2>2
<1> QED
  BY <1>3, <1>4, <1>5, <1>6 DEF HandoffInv, At
(* A deployment that is allowed stays so: a handoff that is marked is      *)
(* later than before, and the page is no longer changed.                   *)
LEMMA MayDeployStays ==
  ASSUME TypeInv, NEW c \in Callers, RunInv(c), Moves(c), NEW p \in DOMAIN pages, MayDeploy(p),
         ~(HasPage(c) /\ me[c].role \in {"builder", "reviewer"} /\ me[c].page = p)
  PROVE  MayDeploy(p)'
<1>0. MeInv /\ TablesInv /\ HandoffTypes /\ CountInv /\ PlaceInv(c)
  BY DEF TypeInv
<1>1. pages'[p] = pages[p]
  <2>1. CASE SavePage(c) \/ SaveReview(c)
    <3>1. me[c].page # p
      BY <2>1 DEF SavePage, SaveReview, HasPage, At, Busy, Ran
    <3> QED
      BY <1>0, <3>1, PagesGrow
  <2> QED
    BY <2>1, WhoSaves
<1>2. ASSUME NEW x \in DOMAIN handoffs', handoffs'[x].to = "deployer", handoffs'[x].page = p,
             handoffs'[x].state = "blocked"
      PROVE  x \in DOMAIN handoffs /\ handoffs'[x] = handoffs[x]
  <2>1. CASE x \in DOMAIN handoffs
    BY <1>2, <2>1, HandoffFate
  <2>2. CASE x \notin DOMAIN handoffs
    <3>1. Hands(c) /\ x = me[c].run
      BY <1>0, <2>2, HandoffSteps, MarkedFacts DEF Marks, Hands
    <3>2. After[me[c].role] = "deployer" /\ me[c].page = p
      BY <1>2, <3>1 DEF Hands
    <3>3. me[c].role = "reviewer" /\ HasPage(c)
      BY <3>1, <3>2 DEF Hands, After, HasPage, At, Busy, Ran
    <3> QED
      BY <3>2, <3>3
  <2> QED BY <2>1, <2>2
<1>3. ASSUME NEW y \in DOMAIN handoffs
      PROVE  /\ y \in DOMAIN handoffs' /\ handoffs'[y].to = handoffs[y].to /\ handoffs'[y].page = handoffs[y].page
             /\ handoffs[y].at \in Nat /\ handoffs'[y].at \in Nat /\ handoffs'[y].at >= handoffs[y].at
  <2>1. /\ y \in DOMAIN handoffs' /\ handoffs'[y].to = handoffs[y].to /\ handoffs'[y].page = handoffs[y].page
        /\ \/ handoffs'[y] = handoffs[y]
           \/ handoffs'[y].at = Now(handoffs[y].brief, handoffs[y].page)
    BY HandoffFate
  <2>2. PICK n \in Nat : n = Now(handoffs[y].brief, handoffs[y].page) /\ handoffs[y].at < n
    BY <1>0, NowIsLater
  <2>3. handoffs[y].at \in Nat
    BY <1>0 DEF HandoffTypes, HandoffRecord
  <2> QED
    BY <2>1, <2>2, <2>3
<1>4. ASSUME NEW x \in DOMAIN handoffs, handoffs[x].to = "deployer", handoffs[x].page = p, handoffs[x].state = "blocked"
      PROVE  \E y \in DOMAIN handoffs : /\ handoffs[y].to = "deployer" /\ handoffs[y].page = p
                                        /\ handoffs[y].at > handoffs[x].at
  BY <1>4 DEF MayDeploy, Range
<1>5. ASSUME NEW x \in DOMAIN handoffs', handoffs'[x].to = "deployer", handoffs'[x].page = p,
             handoffs'[x].state = "blocked"
      PROVE  \E y \in DOMAIN handoffs' : /\ handoffs'[y].to = "deployer" /\ handoffs'[y].page = p
                                         /\ handoffs'[y].at > handoffs'[x].at
  <2>1. x \in DOMAIN handoffs /\ handoffs'[x] = handoffs[x]
    BY <1>2, <1>5
  <2>2. PICK y \in DOMAIN handoffs : /\ handoffs[y].to = "deployer" /\ handoffs[y].page = p
                                     /\ handoffs[y].at > handoffs[x].at
    BY <1>4, <1>5, <2>1
  <2>3. /\ y \in DOMAIN handoffs' /\ handoffs'[y].to = "deployer" /\ handoffs'[y].page = p
        /\ handoffs'[y].at > handoffs'[x].at
    BY <1>3, <2>1, <2>2
  <2> QED
    BY <2>3
<1>6. \A h \in Range(handoffs)' : h.to = "deployer" /\ h.page = p /\ h.state = "blocked" =>
        \E g \in Range(handoffs)' : g.to = "deployer" /\ g.page = p /\ g.at > h.at
  BY <1>5 DEF Range
<1>7. pages'[p].status = "passed"
  BY <1>1 DEF MayDeploy
<1> QED
  BY <1>6, <1>7 DEF MayDeploy

LEMMA DeployStep ==
  ASSUME OneProcess, TypeInv, TurnInv, RetriesApart, WorkInv, NEW c \in Callers, Moves(c)
  PROVE  DeployInv'
<1>0. /\ MeInv /\ TablesInv /\ OtherTypes /\ CountInv /\ \A d \in Callers : PlaceInv(d)
      /\ DeployInv /\ RunInv(c) /\ \A d \in Callers : c # d => Apart(c, d)
      /\ DOMAIN me' = Callers /\ \A d \in Callers : d # c => me'[d] = me[d]
  BY OthersStay DEF TypeInv, WorkInv
<1>1. ASSUME NEW p \in DOMAIN pages', pages'[p].status = "passed" PROVE ~pages'[p].blocker
  <2>1. CASE pages' = pages
    BY <1>0, <1>1, <2>1 DEF DeployInv
  <2>2. CASE SavePage(c) /\ pages' # pages
    BY <1>0, <1>1, <2>2 DEF DeployInv, SavePage, Put
  <2>3. CASE SaveReview(c)
    <3>1. me[c].page \in DOMAIN pages /\ me[c].good \in BOOLEAN
      BY <1>0, <2>3 DEF SaveReview, PlaceInv, At, Busy, Ran, MeInv, Caller
    <3>2. pages[me[c].page] \in PageRecord
      BY <1>0, <3>1 DEF TablesInv
    <3>a. PICK b \in BOOLEAN : b = ~me[c].good
      BY <3>1
    <3>3. PICK v : v = Verdict(c) /\ b = ~me[c].good /\ (v = "passed" => ~b)
      <4>1. Verdict(c) = "passed" => me[c].good
        BY DEF Verdict
      <4>2. me[c].good => ~b
        BY <3>a
      <4> QED
        BY <3>a, <4>1, <4>2, Zenon
    <3>4. pages' = [pages EXCEPT ![me[c].page] = [@ EXCEPT !.status = v, !.blocker = b]]
      BY <2>3, <3>3 DEF SaveReview
    <3>5. [pages[me[c].page] EXCEPT !.status = v, !.blocker = b].status = v
          /\ [pages[me[c].page] EXCEPT !.status = v, !.blocker = b].blocker = b
      BY <3>2 DEF PageRecord
    <3>6. DOMAIN pages' = DOMAIN pages /\ pages'[me[c].page].status = v /\ pages'[me[c].page].blocker = b
          /\ \A q \in DOMAIN pages : q # me[c].page => pages'[q] = pages[q]
      BY <3>1, <3>4, <3>5
    <3> QED
      BY <1>0, <1>1, <3>3, <3>6 DEF DeployInv
  <2> QED
    BY <2>1, <2>2, <2>3, WhoSaves
<1>2. ASSUME NEW p \in DOMAIN requested' PROVE MayDeploy(p)'
  <2>1. CASE p \in DOMAIN requested
    BY <1>0, <2>1, MayDeployStays DEF DeployInv, TablesInv
  <2>2. CASE p \notin DOMAIN requested
    <3>1. RequestDeployment(c) /\ p = me[c].page
      <4>1. RequestDeployment(c) => DOMAIN requested' \subseteq DOMAIN requested \cup {me[c].page}
        BY DEF RequestDeployment, Put
      <4> QED
        BY <1>2, <2>2, <4>1, WhoSaves
    <3>2. me[c].role = "deployer" /\ me[c].pc = "output" /\ p \in DOMAIN pages
      BY <1>0, <3>1 DEF RequestDeployment, At, PlaceInv, Busy, Ran
    <3>3. MayDeploy(p)
      BY <1>0, <3>1, <3>2 DEF DeployInv, Ran
    <3> QED
      BY <1>0, <3>2, <3>3, MayDeployStays
  <2> QED BY <2>1, <2>2
<1>3. ASSUME NEW d \in Callers, HasPage(d)', me'[d].role \in {"builder", "reviewer"}
      PROVE  me'[d].page \notin DOMAIN requested'
  <2>1. CASE d # c
    <3>1. me'[d] = me[d] /\ HasPage(d) /\ me[d].page \notin DOMAIN requested
      BY <1>0, <1>3, <2>1 DEF HasPage, DeployInv
    <3>2. RequestDeployment(c) => me[c].page # me[d].page
      BY <1>0, <2>1, <3>1 DEF RequestDeployment, Apart, HasPage, At, Busy, Ran
    <3>3. RequestDeployment(c) => DOMAIN requested' \subseteq DOMAIN requested \cup {me[c].page}
      BY DEF RequestDeployment, Put
    <3> QED
      BY <3>1, <3>2, <3>3, WhoSaves
  <2>2. CASE d = c
    <3>1. requested' = requested
      <4>1. CASE RequestDeployment(c)
        <5>1. me'[c].role = "deployer"
          BY <1>0, <4>1, GoStays DEF RequestDeployment, Stays
        <5> QED
          BY <1>3, <2>2, <5>1
      <4> QED
        BY <4>1, WhoSaves
    <3>2. CASE Ask(c) /\ me'[c].pc = "begin" /\ Stays(c)
      BY <1>0, <1>3, <2>2, <3>2 DEF Ask, PlaceInv, At, Stays, HasPage
    <3>3. CASE AskRetried(c)
      BY <1>3, <2>2, <3>3 DEF AskRetried, HasPage, Busy, Ran
    <3>4. CASE Retried(c)
      <4>1. me'[c].pc = "begin" /\ me[c].role = "reviewer" /\ me[c].target \in DOMAIN runs /\ me[c].target.role = "reviewer"
        BY <1>0, <1>3, <2>2, <3>4 DEF Retried, HasPage, Busy, Ran, PlaceInv, At
      <4>2. PICK input \in RetryInputs(me[c].target) : me'[c].page = input.page
        BY <3>4, <4>1 DEF Retried
      <4>3. pages[input.page].status = "pending"
        BY <4>1, <4>2 DEF RetryInputs
      <4> QED
        BY <1>0, <2>2, <3>1, <4>2, <4>3 DEF DeployInv, MayDeploy
    <3>5. CASE WentOn(c)
      <4>1. me[c].role \in Roles
        BY <1>0 DEF MeInv, Caller
      <4>2. me[c].role \in {"builder", "reviewer"} /\ HasPage(c)
        <5>1. After["planner"] = "builder" /\ After["reviewer"] = "deployer"
          BY DEF After
        <5>2. me'[c].pc = "begin" \/ (me'[c].pc = "done" /\ me[c].role = "reviewer")
          BY <3>5 DEF WentOn
        <5>3. me[c].role # "planner"
          BY <1>3, <2>2, <3>5, <5>1, <5>2 DEF WentOn, HasPage
        <5>4. me[c].role # "deployer"
          BY <1>0, <3>5 DEF WentOn, At, PlaceInv
        <5> QED
          BY <3>5, <4>1, <5>3, <5>4 DEF WentOn, HasPage, Roles, At, Busy
      <4> QED
        BY <1>0, <2>2, <3>1, <3>5, <4>2 DEF WentOn, DeployInv
    <3>6. CASE Launch(c)
      <4>1. CASE me[c].role = "builder"
        <5>1. NextId(c, "page", DOMAIN pages) \notin DOMAIN pages
          BY <1>0, NewIds
        <5> QED
          BY <1>0, <2>2, <3>1, <3>6, <4>1, <5>1 DEF Launch, TablesInv
      <4>2. CASE me[c].role # "builder"
        <5>1. HasPage(c) /\ me[c].role = "reviewer" /\ me'[c].page = me[c].page
          BY <1>3, <2>2, <3>6, <4>2 DEF Launch, HasPage, At, Busy
        <5> QED
          BY <1>0, <2>2, <3>1, <5>1 DEF DeployInv
      <4> QED BY <4>1, <4>2
    <3>7. CASE Onward(c)
      <4>1. HasPage(c) /\ me[c].role \in {"builder", "reviewer"} /\ me'[c].page = me[c].page
        BY <1>3, <2>2, <3>7 DEF Onward, Stays, HasPage, Busy
      <4> QED
        BY <1>0, <2>2, <3>1, <4>1 DEF DeployInv
    <3> QED
      BY <3>2, <3>3, <3>4, <3>5, <3>6, <3>7, KindsAre
  <2> QED BY <2>1, <2>2
<1>4. ASSUME NEW d \in Callers, me'[d].role = "deployer", me'[d].pc \in Ran \cup {"saveRun"}
      PROVE  MayDeploy(me[d].page)'
  <2>1. me'[d].page = me[d].page /\ me[d].role = "deployer" /\ me[d].page \in DOMAIN pages /\ MayDeploy(me[d].page)
    <3>1. CASE d # c
      BY <1>0, <1>4, <3>1 DEF DeployInv, PlaceInv, Busy
    <3>2. CASE d = c /\ Launch(c)
      BY <1>0, <1>4, <3>2 DEF Launch, PlaceInv, At, Busy
    <3>3. CASE d = c /\ Onward(c)
      <4>1. Stays(c) /\ me[c].role = "deployer" /\ me[c].pc \in Ran \cup {"saveRun"}
        BY <1>4, <3>3 DEF Onward, Stays
      <4> QED
        BY <1>0, <3>3, <4>1 DEF DeployInv, PlaceInv, Busy, Stays
    <3> QED
      BY <1>4, <3>1, <3>2, <3>3, KindsAre DEF AskRetried, Retried, WentOn, Ran
  <2>2. ~(HasPage(c) /\ me[c].role \in {"builder", "reviewer"} /\ me[c].page = me[d].page)
    <3>1. CASE d = c
      BY <2>1, <3>1
    <3>2. CASE d # c
      <4>1. HasPage(d)
        BY <1>0, <1>4, <2>1, <3>2 DEF HasPage, Busy
      <4> QED
        BY <1>0, <3>2, <4>1 DEF Apart
    <3> QED BY <3>1, <3>2
  <2>3. PICK p \in DOMAIN pages : p = me[d].page /\ p = me'[d].page
    BY <2>1
  <2>4. MayDeploy(p)'
    BY <1>0, <2>1, <2>2, <2>3, MayDeployStays
  <2> QED
    BY <2>3, <2>4 DEF MayDeploy
<1> QED
  BY <1>1, <1>2, <1>3, <1>4 DEF DeployInv

LEMMA AnswerWay ==
  ASSUME NEW c \in Callers, MeInv, Moves(c), me'[c].pc = "answered"
  PROVE  Answer(c) \/ EndRetry(c)
  <1>1. CASE Ask(c)
    BY <1>1, GoStays DEF Ask
  <1>2. CASE BeginPlanner(c)
    <2>1. PICK x : me' = [Started(c) EXCEPT ![c].brief = x]
      BY <1>2 DEF BeginPlanner
    <2> QED
      BY <2>1 DEF Started, MeInv, Caller
  <1>3. CASE BeginBuilder(c)
    <2>1. PICK x : me' = [Started(c) EXCEPT ![c].page = x]
      BY <1>3 DEF BeginBuilder
    <2> QED
      BY <2>1 DEF Started, MeInv, Caller
  <1>4. CASE BeginReviewer(c)
    BY <1>4, GoStays, StartedIs DEF BeginReviewer
  <1>5. CASE BeginDeployer(c)
    BY <1>5, GoStays, StartedIs DEF BeginDeployer
  <1>6. CASE SaveRun(c)
    BY <1>6, GoStays DEF SaveRun
  <1>7. CASE ListReady(c)
    BY <1>7 DEF ListReady, MeInv, Caller, Go
  <1>8. CASE Consume(c)
    BY <1>8 DEF Consume, MeInv, Caller, Go
  <1>9. CASE ConsumedEvent(c)
    BY <1>9 DEF ConsumedEvent, MeInv, Caller, Go
  <1>10. CASE Start(c)
    BY <1>10 DEF Start, MeInv, Caller, Go
  <1>11. CASE Runtime(c)
    BY <1>11 DEF Runtime, MeInv, Caller, Go
  <1>12. CASE FailRun(c)
    BY <1>12, GoStays DEF FailRun
  <1>13. CASE CompleteRun(c)
    BY <1>13 DEF CompleteRun, MeInv, Caller, Go
  <1>14. CASE SaveBrief(c)
    BY <1>14, GoStays DEF SaveBrief
  <1>15. CASE SavePage(c)
    BY <1>15, GoStays DEF SavePage
  <1>16. CASE CreatedEvent(c)
    BY <1>16 DEF CreatedEvent, MeInv, Caller, Go
  <1>17. CASE SaveReview(c)
    BY <1>17, GoStays DEF SaveReview
  <1>18. CASE RequestDeployment(c)
    BY <1>18, GoStays DEF RequestDeployment
  <1>19. CASE SaveDeployment(c)
    BY <1>19, GoStays DEF SaveDeployment
  <1>20. CASE SaveHandoff(c)
    BY <1>20, GoStays DEF SaveHandoff
  <1>21. CASE NextService(c)
    BY <1>21 DEF NextService, MeInv, Caller, Go
  <1>22. CASE Answer(c)
    BY <1>22
  <1>23. CASE Retry(c)
    BY <1>23 DEF Retry, MeInv, Caller, Go
  <1>24. CASE EndRetry(c)
    BY <1>24
  <1>25. CASE AskRetry(c)
    BY <1>25 DEF AskRetry, MeInv, Caller, Go
  <1>26. CASE SaveFails(c)
    BY <1>26, GoStays DEF SaveFails
  <1> QED
    BY <1>1, <1>2, <1>3, <1>4, <1>5, <1>6, <1>7, <1>8, <1>9, <1>10, <1>11, <1>12, <1>13, <1>14, <1>15, <1>16, <1>17, <1>18, <1>19, <1>20, <1>21, <1>22, <1>23, <1>24, <1>25, <1>26 DEF Moves, Step

LEMMA BuiltStep ==
  ASSUME OneProcess, TypeInv, TurnInv, RetriesApart, WorkInv, NEW c \in Callers, Moves(c),
         asked' <= 1 => asked <= 1
  PROVE  BuiltInv'
<1> SUFFICES ASSUME asked' <= 1, NEW a \in Retries, me'[a].role = "builder", me'[a].pc = "answered"
             PROVE  /\ snapshot'.page # None
                    /\ \A d \in Retries : me'[d].role = "builder" =>
                         me'[d].pc \notin Busy /\ (me'[d].pc = "answered" => d = a)
  BY DEF BuiltInv, At
<1>0. /\ MeInv /\ TablesInv /\ \A d \in Callers : PlaceInv(d)
      /\ BuiltInv /\ PromptInv /\ asked <= 1 /\ Chains \cap Retries = {} /\ None \notin Nat
      /\ DOMAIN me' = Callers /\ (\A d \in Callers : d # c => me'[d] = me[d]) /\ Retries \subseteq Callers
  BY OthersStay, AgentRunsAssumption DEF TypeInv, WorkInv, Callers
<1>1. CASE a # c
  <2>1. me'[a] = me[a] /\ me[a].role = "builder" /\ me[a].pc = "answered"
    BY <1>0, <1>1
  <2>2. /\ snapshot.page # None
        /\ \A d \in Retries : me[d].role = "builder" => me[d].pc \notin Busy /\ (me[d].pc = "answered" => d = a)
    BY <1>0, <2>1 DEF BuiltInv, At
  <2>3. PICK k \in Chains : me[k].pc \in Over /\ me[k].role = "builder"
    <3>1. Failed(me[a].target) /\ me[a].target.role = "builder"
      BY <1>0, <2>1 DEF PromptInv, At, PlaceInv
    <3> QED
      BY <1>0, <3>1 DEF PromptInv, Failed
  <2>4. \A m \in Chains : ~At(m, "idle") => m = k
    BY <1>0, <2>3 DEF PromptInv, At, Over
  <2>5. ASSUME c \in Retries, ~At(c, "idle") PROVE me[c].role = "builder"
    <3>1. Failed(me[c].target) /\ me[c].target.role = me[c].role
      BY <1>0, <2>5 DEF PromptInv, At, PlaceInv
    <3>2. PICK m \in Chains : me[m].pc \in Over /\ me[m].role = me[c].role
      BY <1>0, <3>1 DEF PromptInv, Failed
    <3> QED
      BY <2>3, <2>4, <3>2 DEF At, Over
  <2>6. c \in Chains /\ ~At(c, "idle") => me[c].pc \in Over
    BY <2>3, <2>4
  <2>7. snapshot' = snapshot
    <3>1. CASE NextService(c)
      BY <2>6, <3>1 DEF NextService, At, Over
    <3>2. CASE Answer(c)
      BY <2>6, <3>2 DEF Answer, At, Over
    <3>3. CASE EndRetry(c)
      <4>1. ~At(c, "shown")
        <5> SUFFICES ASSUME At(c, "shown") PROVE FALSE
          OBVIOUS
        <5>1. c \in Retries /\ me[c].role = "builder"
          BY <2>5, <3>3 DEF EndRetry, At
        <5> QED
          BY <2>2, <5>1 DEF At, Busy
      <4> QED
        BY <3>3, <4>1 DEF EndRetry
    <3> QED
      BY <3>1, <3>2, <3>3, WhoSaves
  <2>8. ASSUME NEW d \in Retries, me'[d].role = "builder"
        PROVE  me'[d].pc \notin Busy /\ (me'[d].pc = "answered" => d = a)
    <3>1. CASE d # c
      BY <1>0, <2>2, <2>8, <3>1
    <3>2. CASE d = c
      <4>1. me'[c].pc \notin Busy
        <5> SUFFICES ASSUME me'[c].pc \in Busy PROVE FALSE
          OBVIOUS
        <5>1. CASE Retried(c)
          <6>1. me'[c].pc = "begin"
            BY <5>1 DEF Retried, Busy, Ran
          <6>2. RetryInputs(me[c].target) # {}
            BY <5>1, <6>1 DEF Retried
          <6>3. me[c].target.role = "builder"
            BY <1>0, <2>8, <3>2, <5>1 DEF Retried, PlaceInv, At
          <6>4. BuilderBriefs(me[c].target) # {}
            BY <6>2, <6>3 DEF RetryInputs
          <6> QED
            BY <2>2, <6>4 DEF BuilderBriefs
        <5>2. CASE Launch(c)
          BY <2>2, <2>8, <3>2, <5>2 DEF Launch, At, Busy
        <5>3. CASE Onward(c)
          BY <2>2, <2>8, <3>2, <5>3 DEF Onward, Stays
        <5> QED
          BY <1>0, <3>2, <5>1, <5>2, <5>3, KindsAre DEF Ask, AskRetried, WentOn, Busy, Ran
      <4>2. me'[c].pc # "answered"
        <5> SUFFICES ASSUME me'[c].pc = "answered" PROVE FALSE
          OBVIOUS
        <5>1. EndRetry(c)
          BY <1>0, <3>2, AnswerWay DEF Answer
        <5>2. me[c].pc \in {"shown", "done"} /\ me[c].role = "builder"
          BY <1>0, <2>8, <3>2, <5>1, GoStays DEF EndRetry, Stays, At
        <5> QED
          BY <2>2, <3>2, <5>2 DEF Busy
      <4> QED
        BY <3>2, <4>1, <4>2
    <3> QED BY <3>1, <3>2
  <2> QED
    BY <2>2, <2>7, <2>8
<1>2. CASE a = c
  <2>1. EndRetry(c)
    BY <1>0, <1>2, AnswerWay DEF Answer
  <2>2. me[c].pc \in {"shown", "done"} /\ me[c].role = "builder"
    BY <1>0, <1>2, <2>1, GoStays DEF EndRetry, Stays, At
  <2>3. At(c, "shown")
    BY <1>0, <2>2 DEF PlaceInv, At
  <2>4. snapshot'.page = me[c].page /\ me[c].page \in Nat
    BY <1>0, <2>1, <2>2, <2>3 DEF EndRetry, Shown, At, PlaceInv, Busy
  <2>5. ASSUME NEW d \in Retries, d # c PROVE me[d].pc \notin Busy /\ ~(me[d].role = "builder" /\ me[d].pc = "answered")
    <3>1. me[c].pc \in Busy
      BY <2>3 DEF At, Busy
    <3>2. me[d].pc \notin Busy
      BY <1>0, <2>5, <3>1, Exclusive
    <3>3. ~(me[d].role = "builder" /\ me[d].pc = "answered")
      BY <1>0, <1>2, <2>2, <3>1 DEF BuiltInv, At
    <3> QED BY <3>2, <3>3
  <2> QED
    BY <1>0, <1>2, <2>4, <2>5 DEF Busy, Ran
<1> QED BY <1>1, <1>2
-----------------------------------------------------------------------------
(* The invariant of all steps, and what follows from it.                   *)

LEMMA StepSafe ==
  ASSUME OneProcess, SafeInv, NEW c \in Callers, Moves(c)
  PROVE  SafeInv'
<1>1. TypeInv /\ TurnInv /\ TypeInv' /\ TurnInv'
  BY StepTypes, TurnStep DEF SafeInv
<1>2. ASSUME RetriesApart' PROVE WorkInv'
  <2>1. RetriesApart /\ (asked' <= 1 => asked <= 1) /\ WorkInv
    BY <1>1, <1>2, ApartBefore DEF SafeInv
  <2>2. RunInv(c) /\ PromptInv
    BY <2>1 DEF WorkInv
  <2>3. PromptInv'
    BY <1>1, <2>2, PromptStep
  <2>4. HandoffInv'
    BY <1>1, <2>1, HandoffStep
  <2>5. DeployInv'
    BY <1>1, <2>1, DeployStep
  <2>6. BuiltInv'
    BY <1>1, <2>1, BuiltStep
  <2>7. ASSUME NEW d \in Callers PROVE RunInv(d)' /\ ReserveInv(d)'
    <3>1. ReserveInv(d)
      BY <2>1 DEF WorkInv
    <3>2. ReserveInv(d)'
      BY <1>1, <3>1, ReserveStep
    <3>3. CASE d = c
      BY <1>1, <2>2, <3>2, <3>3, OwnRunStep
    <3>4. CASE d # c
      BY <1>1, <2>1, <3>2, <3>4, OtherRunStep
    <3> QED BY <3>3, <3>4
  <2>8. ASSUME NEW d \in Callers, NEW e \in Callers, d # e PROVE Apart(d, e)'
    <3>1. CASE d = c
      BY <1>1, <2>1, <2>8, <3>1, StepApart
    <3>2. CASE e = c
      BY <1>1, <2>1, <2>8, <3>2, StepApart
    <3>3. CASE d # c /\ e # c
      <4>1. me'[d] = me[d] /\ me'[e] = me[e]
        BY <1>1, <3>3, OthersStay DEF TypeInv
      <4>2. Apart(d, e)
        BY <2>1, <2>8 DEF WorkInv
      <4> QED
        BY <4>1, <4>2 DEF Apart, HasBrief, HasPage
    <3> QED BY <3>1, <3>2, <3>3
  <2> QED
    BY <2>3, <2>4, <2>5, <2>6, <2>7, <2>8 DEF WorkInv
<1> QED
  BY <1>1, <1>2 DEF SafeInv

LEMMA StopSafe ==
  ASSUME SafeInv, NEW x \in Processes, Stop(x)
  PROVE  SafeInv'
<1>1. TypeInv /\ TurnInv /\ TypeInv' /\ UNCHANGED <<asked, records, snapshot>>
  BY StopTypes DEF SafeInv, Stop
<1>2. ASSUME NEW c \in Callers
      PROVE  \/ me'[c] = me[c] /\ (me[c].pc = "idle" \/ Home[c] # x)
             \/ me[c].pc # "idle" /\ Stays(c) /\ me'[c].pc = "stopped"
  BY <1>1 DEF Stop, TypeInv, MeInv, Caller, Stays, At
<1>3. ASSUME NEW c \in Callers, me'[c].pc \in Holding \cup {"begin"} PROVE me'[c] = me[c] /\ Home[c] # x
  BY <1>2, <1>3 DEF Holding, Busy, Ran
<1>4. TurnInv'
  <2> SUFFICES ASSUME NEW c \in Retries, me'[c].pc \in Holding PROVE retryLock'[Home[c]] = c
    BY DEF TurnInv
  <2>1. c \in Callers /\ Home[c] \in Processes
    BY AgentRunsAssumption DEF Callers
  <2>2. me'[c] = me[c] /\ Home[c] # x
    BY <1>3, <2>1
  <2>3. retryLock[Home[c]] = c
    BY <1>1, <2>2 DEF TurnInv
  <2> QED
    BY <1>1, <2>1, <2>2, <2>3 DEF Stop, TypeInv, OtherTypes
<1>5. ASSUME RetriesApart' PROVE WorkInv'
  <2>1. RetriesApart
    BY <1>1, <1>2, <1>5 DEF RetriesApart, At, Callers
  <2>2. WorkInv
    BY <2>1 DEF SafeInv
  <2>3. /\ runs' = runs /\ events' = events /\ handoffs' = handoffs /\ briefs' = briefs /\ pages' = pages
        /\ requested' = requested /\ asked' = asked /\ snapshot' = snapshot
    BY <1>1 DEF records
  <2>4. PromptInv'
    BY <1>2, <2>2, <2>3 DEF WorkInv, PromptInv, Failed, At, Over, Stays, Callers
  <2>5. HandoffInv'
    BY <1>2, <2>2, <2>3 DEF WorkInv, HandoffInv, ConsumedEvents, Matching, At
  <2>6. ASSUME NEW c \in Callers, HasPage(c)' \/ HasBrief(c)' \/ me'[c].pc \in Ran \cup {"saveRun"}
        PROVE  me'[c] = me[c] /\ Home[c] # x /\ HasPage(c)' = HasPage(c) /\ HasBrief(c)' = HasBrief(c)
    <3>1. me'[c].pc \in Holding
      BY <2>6 DEF HasPage, HasBrief, Holding, Busy
    <3>2. me'[c] = me[c] /\ Home[c] # x
      BY <1>3, <3>1
    <3> QED
      BY <3>2 DEF HasPage, HasBrief
  <2>7. DeployInv'
    <3>1. ASSUME NEW p, MayDeploy(p) PROVE MayDeploy(p)'
      BY <2>3, <3>1 DEF MayDeploy
    <3>2. /\ \A p \in DOMAIN pages' : pages'[p].status = "passed" => ~pages'[p].blocker
          /\ \A p \in DOMAIN requested' : MayDeploy(p)'
      BY <2>2, <2>3, <3>1 DEF WorkInv, DeployInv
    <3>3. ASSUME NEW c \in Callers, HasPage(c)', me'[c].role \in {"builder", "reviewer"}
          PROVE  me'[c].page \notin DOMAIN requested'
      BY <2>2, <2>3, <2>6, <3>3 DEF WorkInv, DeployInv
    <3>4. ASSUME NEW c \in Callers, me'[c].role = "deployer", me'[c].pc \in Ran \cup {"saveRun"}
          PROVE  MayDeploy(me[c].page)'
      <4>1. me'[c] = me[c] /\ MayDeploy(me[c].page)
        BY <2>2, <2>6, <3>4 DEF WorkInv, DeployInv
      <4> QED
        BY <2>3, <4>1 DEF MayDeploy
    <3> QED
      BY <3>2, <3>3, <3>4 DEF DeployInv
  <2>8. BuiltInv'
    BY <1>2, <2>2, <2>3 DEF WorkInv, BuiltInv, At, Stays, Callers, Busy, Ran
  <2>9. ASSUME NEW c \in Callers PROVE RunInv(c)' /\ ReserveInv(c)'
    <3>1. RunInv(c) /\ ReserveInv(c) /\ Home[c] \in Processes
      BY <2>2, AgentRunsAssumption DEF WorkInv
    <3>2. RunInv(c)'
      BY <1>2, <2>3, <3>1 DEF RunInv, Failed, Ran
    <3>3. ReserveInv(c)'
      <4>1. CASE me'[c].pc \in Ran \cup {"saveRun"}
        <5>1. me'[c] = me[c] /\ reserved'[Home[c]] = reserved[Home[c]]
          BY <1>1, <2>6, <3>1, <4>1 DEF Stop, TypeInv, OtherTypes
        <5> QED
          BY <3>1, <5>1 DEF ReserveInv, HasReserved
      <4> QED
        BY <4>1 DEF ReserveInv
    <3> QED BY <3>2, <3>3
  <2>10. ASSUME NEW d \in Callers, NEW e \in Callers, d # e PROVE Apart(d, e)'
    <3>1. Apart(d, e)
      BY <2>2, <2>10 DEF WorkInv
    <3> QED
      BY <2>6, <3>1 DEF Apart
  <2> QED
    BY <2>4, <2>5, <2>7, <2>8, <2>9, <2>10 DEF WorkInv
<1> QED
  BY <1>1, <1>4, <1>5 DEF SafeInv

LEMMA InitSafe == ASSUME Init PROVE SafeInv
<1>1. TypeInv
  BY InitTypes
<1>2. /\ \A c \in Callers : me[c].pc = "idle" /\ me[c].role = "planner"
      /\ DOMAIN runs = {} /\ events = {} /\ DOMAIN handoffs = {} /\ DOMAIN pages = {} /\ DOMAIN requested = {}
  BY DEF Init, Idle
<1>3. TurnInv
  BY <1>2 DEF TurnInv, Holding, Busy, Ran, Callers
<1>4. PromptInv
  BY <1>2 DEF PromptInv, At, Callers
<1>5. HandoffInv
  BY <1>2 DEF HandoffInv, At
<1>6. DeployInv
  BY <1>2 DEF DeployInv, HasPage, Busy, Ran
<1>7. BuiltInv
  BY <1>2 DEF BuiltInv, At, Callers
<1>8. \A c \in Callers : RunInv(c) /\ ReserveInv(c)
  BY <1>2 DEF RunInv, ReserveInv, Ran
<1>9. \A c, d \in Callers : c # d => Apart(c, d)
  BY <1>2 DEF Apart, HasBrief, HasPage, Busy, Ran
<1> QED
  BY <1>1, <1>3, <1>4, <1>5, <1>6, <1>7, <1>8, <1>9 DEF SafeInv, WorkInv

LEMMA NextSafe == ASSUME OneProcess, SafeInv, [Next]_vars PROVE SafeInv'
<1>1. CASE UNCHANGED vars
  <2> USE <1>1 DEF vars, records
  <2>1. TypeInv' /\ TurnInv' /\ (RetriesApart' => RetriesApart)
    BY NextTypes DEF SafeInv, TurnInv, RetriesApart, At
  <2>2. ASSUME RetriesApart PROVE WorkInv'
    <3>0. WorkInv
      BY <2>2 DEF SafeInv
    <3>1. PromptInv'
      BY <3>0 DEF WorkInv, PromptInv, Failed, At
    <3>2. HandoffInv'
      BY <3>0 DEF WorkInv, HandoffInv, ConsumedEvents, Matching, At
    <3>3. DeployInv'
      BY <3>0 DEF WorkInv, DeployInv, HasPage, MayDeploy
    <3>4. BuiltInv'
      BY <3>0 DEF WorkInv, BuiltInv, At
    <3>5. \A c \in Callers : RunInv(c)' /\ ReserveInv(c)'
      BY <3>0 DEF WorkInv, RunInv, ReserveInv, HasReserved, Failed
    <3>6. \A c, d \in Callers : c # d => Apart(c, d)'
      BY <3>0 DEF WorkInv, Apart, HasBrief, HasPage
    <3> QED
      BY <3>1, <3>2, <3>3, <3>4, <3>5, <3>6 DEF WorkInv
  <2> QED
    BY <2>1, <2>2 DEF SafeInv
<1>2. CASE \E c \in Callers : Moves(c)
  BY <1>2, StepSafe
<1>3. CASE \E x \in Processes : Stop(x)
  BY <1>3, StopSafe
<1> QED
  BY <1>1, <1>2, <1>3 DEF Next, Moves

LEMMA SafeInvariance == OneProcess /\ Spec => []SafeInv
<1>1. OneProcess /\ Init => OneProcess /\ SafeInv
  BY InitSafe
<1>2. OneProcess /\ SafeInv /\ [Next]_vars => (OneProcess /\ SafeInv)'
  <2> SUFFICES ASSUME OneProcess, SafeInv, [Next]_vars PROVE OneProcess' /\ SafeInv'
    OBVIOUS
  <2>1. OneProcess'
    BY DEF OneProcess
  <2> QED
    BY <2>1, NextSafe
<1> QED
  BY <1>1, <1>2, PTL DEF Spec

(* In one process a handoff is consumed by one run: two chains, or a run   *)
(* and its retries, never both record that they consumed it, whatever save *)
(* fails and is rolled back between the mark and the event.                *)
THEOREM HandoffsAreConsumedOnce == OneProcess /\ Spec => []ConsumedOnce
<1>1. SafeInv => ConsumedOnce
  <2> SUFFICES ASSUME SafeInv, RetriesApart, NEW r \in DOMAIN handoffs
               PROVE  Cardinality({e \in events : e.type = "handoff.consumed" /\ e.ref = r}) <= 1
    BY DEF ConsumedOnce
  <2> DEFINE S == {e \in events : e.type = "handoff.consumed" /\ e.ref = r}
  <2>1. \A e, f \in S : e = f
    BY DEF SafeInv, WorkInv, HandoffInv
  <2>2. CASE S = {}
    <3>1. Cardinality(S) = 0
      BY <2>2, FS_EmptySet
    <3> QED BY <3>1
  <2>3. CASE S # {}
    <3>1. PICK e : S = {e}
      BY <2>1, <2>3
    <3>2. Cardinality(S) = 1
      BY <3>1, FS_Singleton
    <3> QED BY <3>2
  <2> QED BY <2>2, <2>3
<1> QED
  BY <1>1, SafeInvariance, PTL

(* In one process no two retries of a failed builder both succeed: the     *)
(* second finds the page of the first and is refused.                      *)
THEOREM BriefsAreBuiltOnce == OneProcess /\ Spec => []BuiltOnce
<1>1. SafeInv => BuiltOnce
  <2> SUFFICES ASSUME SafeInv, RetriesApart, NEW c \in Retries, NEW d \in Retries, c # d,
                      me[c].role = "builder", me[d].role = "builder", At(c, "answered"), At(d, "answered")
               PROVE  FALSE
    BY DEF BuiltOnce
  <2>1. asked <= 1
    BY DEF RetriesApart, At
  <2> QED
    BY <2>1 DEF SafeInv, WorkInv, BuiltInv
<1> QED
  BY <1>1, SafeInvariance, PTL

(* In one process no deployment is asked for while the review of the page  *)
(* has a blocker or its latest handoff to the deployer is blocked, also    *)
(* after later runs, reviews and retries.                                  *)
THEOREM BlockersAreNotDeployed == OneProcess /\ Spec => []NoBlockerDeployed
<1>1. SafeInv => NoBlockerDeployed
  <2> SUFFICES ASSUME SafeInv, RetriesApart, NEW p \in DOMAIN requested
               PROVE  ~pages[p].blocker /\ MayDeploy(p)
    BY DEF NoBlockerDeployed
  <2>1. MayDeploy(p)
    BY DEF SafeInv, WorkInv, DeployInv
  <2>2. p \in DOMAIN pages /\ pages[p].status = "passed"
    BY <2>1 DEF MayDeploy, SafeInv, TypeInv, TablesInv
  <2> QED
    BY <2>1, <2>2 DEF SafeInv, WorkInv, DeployInv
<1> QED
  BY <1>1, SafeInvariance, PTL

=============================================================================
