------------------------- MODULE ChatStreamProofs -------------------------
(***************************************************************************)
(* Proofs, for any number of requests, deletions and failing saves, that   *)
(* an answer a stream has stored belongs to a completed run, and that,     *)
(* unless a task is deleted, what a client was told of stays and what it   *)
(* abandoned does not.                                                     *)
(***************************************************************************)
EXTENDS ChatStream, WellFoundedInduction, TLAPS

ChatFields == {"pc", "task", "question", "answer", "text", "closed", "forced", "after",
               "completion", "time"}
GenFields == {"pc", "result", "attempt", "cancelled"}
Shape ==
  /\ DOMAIN chat = Chats /\ DOMAIN gen = Chats /\ DOMAIN run = Chats
  /\ \A c \in Chats : DOMAIN chat[c] = ChatFields /\ DOMAIN gen[c] = GenFields

Inv == Shape /\ AnswerInv

-----------------------------------------------------------------------------
(* Saving a message puts it under its id and leaves the others alone.      *)
LEMMA SavedMessage ==
  ASSUME NEW k, NEW m, NEW f, NEW g, g = [j \in DOMAIN f \cup {k} |-> IF j = k THEN m ELSE f[j]],
         NEW i \in DOMAIN g
  PROVE  (i = k /\ g[i] = m) \/ (i \in DOMAIN f /\ g[i] = f[i])
OBVIOUS

(* A store whose messages of c are old ones keeps Own(c) while the chat,   *)
(* the generator and the run of c keep what it speaks of.                  *)
LEMMA OwnKept ==
  ASSUME NEW c \in Chats, Own(c),
         chat[c].completion = "ok" /\ Streamed(c) => chat'[c].completion = "ok" /\ Streamed(c)',
         \A i \in DOMAIN messages' :
           \/ i \in DOMAIN messages /\ messages'[i] = messages[i]
           \/ ~(messages'[i].by = c /\ messages'[i].role = "assistant" /\ messages'[i].content = c)
  PROVE  Own(c)'
<1> SUFFICES ASSUME NEW i \in DOMAIN messages', messages'[i].by = c, messages'[i].role = "assistant",
                    messages'[i].content = c
             PROVE  Streamed(c)' /\ chat'[c].completion = "ok"
  BY DEF Own
<1>1. i \in DOMAIN messages /\ messages'[i] = messages[i]
  OBVIOUS
<1>2. Streamed(c) /\ chat[c].completion = "ok"
  BY <1>1 DEF Own
<1> QED BY <1>2

LEMMA InitInv == Init => Inv
<1> SUFFICES ASSUME Init PROVE Inv
  OBVIOUS
<1>1. Shape
  BY DEF Init, Shape, NoChat, NoGen, ChatFields, GenFields
<1>2. ASSUME NEW c \in Chats PROVE ChatInv(c)
  BY DEF Init, ChatInv, NoChat, NoGen
<1>3. ASSUME NEW c \in Chats, NEW i \in DOMAIN messages PROVE messages[i].by = None
  BY DEF Init
<1>4. ASSUME NEW c \in Chats PROVE Own(c)
  BY <1>3, ChatAssumption DEF Own
<1> QED BY <1>1, <1>2, <1>4 DEF Inv, AnswerInv

(* A step of the request c does not touch what others have.                *)
LEMMA StepOf ==
  ASSUME Inv, NEW c \in Chats, Shape', ChatInv(c)', Own(c)',
         \A d \in Chats \ {c} : chat'[d] = chat[d] /\ gen'[d] = gen[d] /\ run'[d] = run[d],
         \A i \in DOMAIN messages' :
           (i \in DOMAIN messages /\ messages'[i] = messages[i]) \/ messages'[i].by = c
  PROVE  Inv'
<1> SUFFICES ASSUME NEW d \in Chats, d # c PROVE ChatInv(d)' /\ Own(d)'
  BY DEF Inv, AnswerInv
<1>1. ChatInv(d) /\ Own(d)
  BY DEF Inv, AnswerInv
<1>2. ChatInv(d)' /\ (Streamed(d) => Streamed(d)')
  BY <1>1 DEF ChatInv, Streamed
<1>3. Own(d)'
  BY <1>1, <1>2, OwnKept
<1> QED BY <1>2, <1>3

(* A step of c that leaves the messages alone.                             *)
LEMMA QuietStepOf ==
  ASSUME Inv, NEW c \in Chats, Shape', ChatInv(c)', messages' = messages,
         chat[c].completion = "ok" /\ Streamed(c) => chat'[c].completion = "ok" /\ Streamed(c)',
         \A d \in Chats \ {c} : chat'[d] = chat[d] /\ gen'[d] = gen[d] /\ run'[d] = run[d]
  PROVE  Inv'
<1>1. Own(c)'
  BY OwnKept DEF Inv, AnswerInv
<1> QED BY <1>1, StepOf

(* The steps of the request that save no message.                          *)
LEMMA QuietServes ==
  ASSUME Inv, NEW c \in Chats,
         EnsureTask(c) \/ StartStream(c) \/ RunText(c) \/ RefuseStream(c)
         \/ OpenThread(c) \/ SaveTask(c) \/ LeaveStream(c) \/ StreamThrew(c)
         \/ StreamDone(c) \/ ReadForCompletion(c) \/ Completed(c) \/ LeaveCompletion(c)
         \/ AwaitCompletion(c)
  PROVE  Inv'
<1>0. Shape /\ ChatInv(c)
  BY DEF Inv, AnswerInv
<1> USE DEF ChatFields, GenFields, Shape, ChatInv, Streamed, store, counters
<1>1. CASE EnsureTask(c)
  BY <1>0, <1>1, QuietStepOf DEF EnsureTask, TaskFor
<1>2. CASE StartStream(c)
  BY <1>0, <1>2, QuietStepOf DEF StartStream, Go
<1>3. CASE RunText(c)
  BY <1>0, <1>3, QuietStepOf DEF RunText
<1>4. CASE RefuseStream(c)
  BY <1>0, <1>4, QuietStepOf DEF RefuseStream, Go
<1>5. CASE OpenThread(c)
  BY <1>0, <1>5, QuietStepOf DEF OpenThread
<1>6. CASE SaveTask(c)
  BY <1>0, <1>6, QuietStepOf DEF SaveTask, Go
<1>7. CASE LeaveStream(c)
  <2>1. CASE gen' = [gen EXCEPT ![c].cancelled = TRUE]
    BY <1>0, <1>7, <2>1, QuietStepOf DEF LeaveStream, Abandoning
  <2>2. CASE gen[c].pc = "wait" /\ Persist(c, "cancelled", 3)
    BY <1>0, <1>7, <2>2, QuietStepOf DEF LeaveStream, Abandoning, Persist
  <2> QED BY <1>7, <2>1, <2>2 DEF LeaveStream
<1>8. CASE StreamThrew(c)
  BY <1>0, <1>8, QuietStepOf DEF StreamThrew, Abandoning
<1>9. CASE StreamDone(c)
  <2>1. /\ chat[c].pc = "stream" /\ gen[c].pc \in {"none", "done"}
        /\ messages' = messages /\ gen' = gen /\ run' = run
        /\ \/ chat' = [chat EXCEPT ![c] = [@ EXCEPT !.pc = "complete", !.completion = "read"]]
           \/ Abandoning(c, FALSE, "error")
    BY <1>9, Zenon DEF StreamDone
  <2>2. CASE chat' = [chat EXCEPT ![c] = [@ EXCEPT !.pc = "complete", !.completion = "read"]]
    BY <1>0, <2>1, <2>2, QuietStepOf
  <2>3. CASE Abandoning(c, FALSE, "error")
    BY <1>0, <2>1, <2>3, QuietStepOf DEF Abandoning
  <2> QED BY <2>1, <2>2, <2>3
<1>10. CASE ReadForCompletion(c)
  BY <1>0, <1>10, QuietStepOf DEF ReadForCompletion
<1>11. CASE Completed(c)
  <2>1. /\ chat[c].pc = "complete" /\ UNCHANGED <<messages, gen, run>>
        /\ \/ \E f, a : Abandoning(c, f, a)
           \/ Go(c, "end")
    BY <1>11 DEF Completed
  <2>2. ASSUME NEW f, NEW a, Abandoning(c, f, a) PROVE Inv'
    BY <1>0, <2>1, <2>2, QuietStepOf DEF Abandoning
  <2>3. CASE Go(c, "end")
    BY <1>0, <2>1, <2>3, QuietStepOf DEF Go
  <2> QED BY <2>1, <2>2, <2>3
<1>12. CASE LeaveCompletion(c)
  BY <1>0, <1>12, QuietStepOf DEF LeaveCompletion, Abandoning
<1>13. CASE AwaitCompletion(c)
  BY <1>0, <1>13, QuietStepOf DEF AwaitCompletion, Abandoning
<1> QED BY <1>1, <1>2, <1>3, <1>4, <1>5, <1>6, <1>7, <1>8, <1>9, <1>10, <1>11, <1>12, <1>13

(* The steps of the generator.                                             *)
LEMMA QuietGenerates ==
  ASSUME Inv, NEW c \in Chats,
         SaveStartedRun(c) \/ YieldDelta(c) \/ ReadResult(c) \/ ReadCancelled(c)
         \/ SaveEndedRun(c) \/ SaveRunEvents(c)
  PROVE  Inv'
<1>0. Shape /\ ChatInv(c)
  BY DEF Inv, AnswerInv
<1> USE DEF ChatFields, GenFields, Shape, ChatInv, Streamed, store, counters
<1>1. CASE SaveStartedRun(c)
  BY <1>0, <1>1, QuietStepOf DEF SaveStartedRun
<1>2. CASE YieldDelta(c)
  <2>1. /\ gen[c].pc = "wait" /\ messages' = messages /\ run' = run
        /\ \/ Persist(c, "cancelled", 3) /\ chat' = chat
           \/ chat' = [chat EXCEPT ![c].text = TRUE] /\ gen' = gen
    BY <1>2, Zenon DEF YieldDelta
  <2>2. CASE Persist(c, "cancelled", 3) /\ chat' = chat
    BY <1>0, <2>1, <2>2, QuietStepOf DEF Persist
  <2>3. CASE chat' = [chat EXCEPT ![c].text = TRUE] /\ gen' = gen
    BY <1>0, <2>1, <2>3, QuietStepOf
  <2> QED BY <2>1, <2>2, <2>3
<1>3. CASE ReadResult(c)
  <2>1. PICK result \in {"completed", "failed"} : Persist(c, result, 1)
    BY <1>3 DEF ReadResult
  <2>2. gen[c].pc = "wait" /\ messages' = messages /\ chat' = chat /\ run' = run
    BY <1>3 DEF ReadResult
  <2> QED BY <1>0, <2>1, <2>2, QuietStepOf DEF Persist
<1>4. CASE ReadCancelled(c)
  BY <1>0, <1>4, QuietStepOf DEF ReadCancelled, Persist
<1>5. CASE SaveEndedRun(c)
  BY <1>0, <1>5, QuietStepOf DEF SaveEndedRun
<1>6. CASE SaveRunEvents(c)
  BY <1>0, <1>6, QuietStepOf DEF SaveRunEvents
<1> QED BY <1>1, <1>2, <1>3, <1>4, <1>5, <1>6

(* Failures, and a client that goes away.                                  *)
LEMMA QuietFails ==
  ASSUME Inv, NEW c \in Chats,
         GenSaveFails(c) \/ SaveAnswerFails(c) \/ AbandonFails(c) \/ StartFails(c)
         \/ Disconnect(c)
  PROVE  Inv'
<1>0. Shape /\ ChatInv(c)
  BY DEF Inv, AnswerInv
<1> USE DEF ChatFields, GenFields, Shape, ChatInv, Streamed, store, counters
<1>1. CASE GenSaveFails(c)
  <2>1. /\ gen[c].pc \in {"start", "persist", "events"}
        /\ UNCHANGED <<messages, chat, run>>
        /\ \/ \E result, attempt : Persist(c, result, attempt)
           \/ gen' = [gen EXCEPT ![c].pc = "threw"]
    <3>1. CASE gen[c].pc = "start" /\ Persist(c, "failed", 2)
      BY <1>1, <3>1, Zenon DEF GenSaveFails
    <3>2. CASE gen[c].pc \in {"persist", "events"}
      <4>1. CASE gen[c].attempt = 1
        BY <1>1, <3>2, <4>1 DEF GenSaveFails
      <4>2. CASE gen[c].attempt # 1
        BY <1>1, <3>2, <4>2 DEF GenSaveFails
      <4> QED BY <4>1, <4>2
    <3> QED BY <1>1, <3>1, <3>2, Zenon DEF GenSaveFails
  <2>2. ASSUME NEW result, NEW attempt, Persist(c, result, attempt) PROVE Inv'
    BY <1>0, <2>1, <2>2, QuietStepOf DEF Persist
  <2>3. CASE gen' = [gen EXCEPT ![c].pc = "threw"]
    BY <1>0, <2>1, <2>3, QuietStepOf
  <2> QED BY <2>1, <2>2, <2>3
<1>2. CASE SaveAnswerFails(c)
  BY <1>0, <1>2, QuietStepOf DEF SaveAnswerFails
<1>3. CASE AbandonFails(c)
  <2>1. PICK pc \in {"await completion", "end"} : Go(c, pc)
    BY <1>3 DEF AbandonFails, Abandoned
  <2> QED BY <1>0, <1>3, <2>1, QuietStepOf DEF AbandonFails, Go
<1>4. CASE StartFails(c)
  BY <1>0, <1>4, QuietStepOf DEF StartFails, Go
<1>5. CASE Disconnect(c)
  BY <1>0, <1>5, QuietStepOf DEF Disconnect
<1> QED BY <1>1, <1>2, <1>3, <1>4, <1>5

(* A request begins.                                                       *)
LEMMA Begins ==
  ASSUME Inv, NEW c \in Chats, NEW t, AskInProject(c, t) \/ AskWithoutProject(c, t)
  PROVE  Inv'
<1>0. Shape /\ ChatInv(c)
  BY DEF Inv, AnswerInv
<1> USE DEF ChatFields, GenFields, Shape, ChatInv, Streamed, store, counters
<1>1. CASE AskInProject(c, t)
  BY <1>0, <1>1, QuietStepOf DEF AskInProject
<1>2. CASE AskWithoutProject(c, t)
  BY <1>0, <1>2, QuietStepOf DEF AskWithoutProject
<1> QED BY <1>1, <1>2

(* The steps of the request that change the messages: a question or an     *)
(* empty answer is no answer of c, the answer is saved when the generator  *)
(* has ended well, and an abandoned answer is removed.                     *)
LEMMA Saves ==
  ASSUME Inv, NEW c \in Chats,
         AppendQuestion(c) \/ SaveQuestion(c) \/ SaveEmptyAnswer(c) \/ SaveAnswer(c) \/ Abandon(c)
  PROVE  Inv'
<1>0. Shape /\ ChatInv(c) /\ Own(c)
  BY DEF Inv, AnswerInv
<1>a. ASSUME NEW i, NEW m, messages' = Saved(i, m), NEW j \in DOMAIN messages'
      PROVE  (j = i /\ messages'[j] = m) \/ (j \in DOMAIN messages /\ messages'[j] = messages[j])
  BY <1>a, SavedMessage DEF Saved
(* A saved message that is no answer of c.                                 *)
<1>b. ASSUME NEW i, NEW m, messages' = Saved(i, m), m.by = c, m.role # "assistant" \/ m.content # c,
             Shape', ChatInv(c)', chat[c].completion # "ok",
             \A d \in Chats \ {c} : chat'[d] = chat[d], gen' = gen, run' = run
      PROVE  Inv'
  <2>1. \A j \in DOMAIN messages' :
          (j \in DOMAIN messages /\ messages'[j] = messages[j]) \/ messages'[j] = m
    BY <1>a, <1>b
  <2>2. Own(c)'
    BY <1>0, <1>b, <2>1, OwnKept
  <2> QED BY <1>b, <2>1, <2>2, StepOf
<1> USE DEF ChatFields, GenFields, Shape, ChatInv, Streamed, store, counters
<1>1. CASE AppendQuestion(c)
  <2> DEFINE i == NextMessage({})
             m == [task |-> chat[c].task, role |-> "user", content |-> c, by |-> c, time |-> MaxTime + 1]
  <2>1. messages' = Saved(i, m) /\ m.by = c /\ m.role # "assistant"
    BY <1>1 DEF AppendQuestion
  <2> HIDE DEF i, m
  <2> QED BY <1>0, <1>1, <1>b, <2>1 DEF AppendQuestion, Go
<1>2. CASE SaveQuestion(c)
  <2> DEFINE m == [task |-> chat[c].task, role |-> "user", content |-> c, by |-> c, time |-> chat[c].time]
  <2>1. messages' = Saved(chat[c].question, m) /\ m.by = c /\ m.role # "assistant"
    BY <1>2 DEF SaveQuestion
  <2> HIDE DEF m
  <2> QED BY <1>0, <1>2, <1>b, <2>1 DEF SaveQuestion, Go
<1>3. CASE SaveEmptyAnswer(c)
  <2> DEFINE m == [task |-> chat[c].task, role |-> "assistant", content |-> "", by |-> c,
                   time |-> chat[c].time]
  <2>1. messages' = Saved(chat[c].answer, m) /\ m.by = c /\ m.content # c
    BY <1>3, ChatAssumption DEF SaveEmptyAnswer
  <2> HIDE DEF m
  <2> QED BY <1>0, <1>3, <1>b, <2>1 DEF SaveEmptyAnswer, Go
<1>4. CASE SaveAnswer(c)
  <2> DEFINE m == [task |-> chat[c].task, role |-> "assistant", content |-> c, by |-> c,
                   time |-> chat[c].time]
  <2>1. messages' = Saved(chat[c].answer, m) /\ m.by = c
    BY <1>4 DEF SaveAnswer
  <2>2. \A j \in DOMAIN messages' :
          (j \in DOMAIN messages /\ messages'[j] = messages[j]) \/ messages'[j].by = c
    BY <1>a, <2>1
  <2>3. Shape' /\ ChatInv(c)' /\ Streamed(c)' /\ chat'[c].completion = "ok" /\ gen' = gen /\ run' = run
        /\ \A d \in Chats \ {c} : chat'[d] = chat[d]
    BY <1>0, <1>4 DEF SaveAnswer
  <2>4. Own(c)'
    BY <2>3 DEF Own
  <2> QED BY <2>2, <2>3, <2>4, StepOf
<1>5. CASE Abandon(c)
  <2>1. \A j \in DOMAIN messages' : j \in DOMAIN messages /\ messages'[j] = messages[j]
    BY <1>5 DEF Abandon
  <2>2. PICK pc \in {"await completion", "end"} : Go(c, pc)
    BY <1>5 DEF Abandon, Abandoned
  <2>3. chat[c].pc = "abandon" /\ gen' = gen /\ run' = run
    BY <1>5 DEF Abandon
  <2>4. Shape' /\ ChatInv(c)' /\ (Streamed(c) => Streamed(c)') /\ chat'[c].completion = chat[c].completion
        /\ \A d \in Chats \ {c} : chat'[d] = chat[d]
    BY <1>0, <2>2, <2>3 DEF Go
  <2>5. Own(c)'
    BY <1>0, <2>1, <2>4, OwnKept
  <2> QED BY <2>1, <2>3, <2>4, <2>5, StepOf
<1> QED BY <1>1, <1>2, <1>3, <1>4, <1>5

(* Deleting a task removes messages.                                       *)
LEMMA Deletes ==
  ASSUME Inv, NEW t, DeleteTask(t)
  PROVE  Inv'
<1>1. /\ \A j \in DOMAIN messages' : j \in DOMAIN messages /\ messages'[j] = messages[j]
      /\ chat' = chat /\ gen' = gen /\ run' = run
  BY DEF DeleteTask
<1>2. ASSUME NEW c \in Chats PROVE Own(c)'
  BY <1>1, OwnKept DEF Inv, AnswerInv, Streamed
<1> QED BY <1>1, <1>2 DEF Inv, AnswerInv, Shape, ChatInv, Streamed

LEMMA StepInv == Inv /\ [Next]_vars => Inv'
<1> SUFFICES ASSUME Inv, [Next]_vars PROVE Inv'
  OBVIOUS
<1>1. CASE UNCHANGED vars
  BY <1>1 DEF vars, Inv, AnswerInv, Shape, ChatInv, Own, Streamed
<1>2. ASSUME NEW c \in Chats, Asks(c) \/ Generates(c) \/ Serves(c) \/ Fails(c) \/ Disconnect(c)
      PROVE  Inv'
  <2>1. CASE Asks(c)
    BY <2>1, Begins DEF Asks
  <2>2. CASE Generates(c)
    BY <2>2, QuietGenerates DEF Generates
  <2>3. CASE Serves(c)
    BY <2>3, QuietServes, Saves DEF Serves
  <2>4. CASE Fails(c) \/ Disconnect(c)
    BY <2>4, QuietFails DEF Fails
  <2> QED BY <1>2, <2>1, <2>2, <2>3, <2>4
<1>3. ASSUME NEW t \in tasks, DeleteTask(t) PROVE Inv'
  BY <1>3, Deletes
<1> QED BY <1>1, <1>2, <1>3 DEF Next

-----------------------------------------------------------------------------
THEOREM AnswersInvariance == Spec => []Inv
BY InitInv, StepInv, PTL DEF Spec

(* In every run of the requests, whatever fails, goes away or is deleted,  *)
(* a stored answer of a stream has a run that is stored as completed       *)
(* (AnswerHasRun).                                                         *)
THEOREM AnswersHaveRuns == Spec => []AnswerHasRun
<1>1. Inv => AnswerHasRun
  BY DEF Inv, AnswerInv, Own, Streamed, AnswerHasRun
<1> QED BY <1>1, AnswersInvariance, PTL

-----------------------------------------------------------------------------
(* What is told stays, and nothing of an abandoned chat does.  New         *)
(* identifiers are the greatest plus one; that a bounded set of numbers    *)
(* has a greatest element follows from the least-element principle.        *)

LEMMA LeastNumber == ASSUME NEW T, T \subseteq Nat, T # {} PROVE \E x \in T : \A y \in T : x <= y
<1>1. PICK x \in T : \A y \in T : ~(<<y, x>> \in OpToRel(<, Nat))
  BY WFMin, NatLessThanWellFounded
<1>2. \A y \in T : ~(y < x)
  BY <1>1 DEF OpToRel
<1> QED
  BY <1>2

Bounded(S) == S \subseteq Nat /\ \E n \in Nat : \A i \in S : i <= n

LEMMA MaxIs ==
  ASSUME NEW S, Bounded(S), S # {}
  PROVE  Max(S) \in S /\ \A y \in S : y <= Max(S)
<1> DEFINE T == {k \in Nat : \A y \in S : y <= k}
<1>1. PICK m \in T : \A k \in T : m <= k
  BY LeastNumber DEF Bounded
<1>2. m \in S
  <2> SUFFICES ASSUME m \notin S PROVE FALSE
    OBVIOUS
  <2>1. PICK y \in S : TRUE
    OBVIOUS
  <2>2. \A z \in S : z \in Nat /\ z < m
    BY DEF Bounded
  <2>3. y \in Nat /\ m \in Nat /\ y < m
    BY <2>1, <2>2
  <2>4. m - 1 \in Nat /\ \A z \in S : z <= m - 1
    BY <2>2, <2>3
  <2>5. m - 1 \in T
    BY <2>4
  <2> QED
    BY <1>1, <2>3, <2>5
<1> QED
  BY <1>1, <1>2 DEF Max

LEMMA BoundedMore ==
  ASSUME NEW S, Bounded(S), NEW n \in Nat
  PROVE  Bounded(S \cup {n})
<1>1. PICK m \in Nat : \A i \in S : i <= m
  BY DEF Bounded
<1>2. m + n \in Nat /\ \A i \in S \cup {n} : i <= m + n
  BY <1>1 DEF Bounded
<1> QED
  BY <1>2 DEF Bounded

(* The identifiers that are not free.                                      *)
UsedIds == DOMAIN messages \cup retired

(* A request whose saves the lock protects; one whose answer was stored    *)
(* and may be written, removed or told of.                                 *)
Saving(c) == chat[c].pc \in {"save task", "save question", "save answer"}
Serving == {"stream", "complete", "abandon", "await completion"}
Opened(c) == chat[c].pc \in Serving \/ chat[c].completion # "none"

(* The identifiers a request has chosen are free until it saves under      *)
(* them; no two requests have the same answer.                             *)
IdsInv(c) ==
  /\ lock = c => Saving(c)
  /\ Saving(c) =>
       /\ lock = c /\ chat[c].question \in Nat /\ chat[c].answer \in Nat
       /\ chat[c].answer # chat[c].question /\ chat[c].answer \notin UsedIds
       /\ chat[c].pc # "save answer" => chat[c].question \notin UsedIds
  /\ Opened(c) =>
       /\ chat[c].answer \in UsedIds
       /\ \A d \in Chats \ {c} : Opened(d) => chat[d].answer # chat[c].answer

(* What is stored of c is its answer, empty until the completion has saved *)
(* it; a completion the client was told of is stored.                      *)
Mine(c, i) == messages[i].by = c /\ messages[i].role = "assistant"
MessageInv(c) ==
  /\ \A i \in DOMAIN messages :
       Mine(c, i) => i = chat[c].answer /\ chat[c].pc \in Serving \cup {"end"}
  /\ Opened(c) /\ chat[c].answer \in DOMAIN messages =>
       /\ Mine(c, chat[c].answer) /\ messages[chat[c].answer].task = chat[c].task
       /\ messages[chat[c].answer].content = IF chat[c].completion = "ok" THEN c ELSE ""
  /\ told[c] = "completed" =>
       chat[c].pc = "end" /\ chat[c].completion = "ok" /\ chat[c].answer \in DOMAIN messages
  /\ chat[c].completion = "ok" /\ chat[c].pc = "complete" => chat[c].answer \in DOMAIN messages
  /\ chat[c].pc \in {"save question", "save answer"} \cup Serving => chat[c].task \in tasks

(* A request that ends waits for its completion, and removes by force what *)
(* that may have stored.                                                   *)
EndInv(c) ==
  /\ chat[c].pc = "end" => chat[c].completion \notin {"read", "save"}
  /\ chat[c].pc = "abandon" /\ chat[c].completion \in {"read", "save"} =>
       chat[c].after = "await completion" /\ chat[c].forced
  /\ chat[c].pc = "abandon" /\ chat[c].completion = "ok" => chat[c].forced
  /\ faults = 0 /\ chat[c].pc = "end" /\ told[c] # "completed" =>
       \A i \in DOMAIN messages : ~Mine(c, i)

Counted == deletes \in Nat /\ faults \in Nat /\ DOMAIN told = Chats
KeptInv ==
  /\ Counted
  /\ deletes = 0 => Bounded(UsedIds) /\ \A c \in Chats : IdsInv(c) /\ MessageInv(c) /\ EndInv(c)

LEMMA NextMessageIsFree ==
  ASSUME Bounded(UsedIds), NEW used, used = {} \/ \E n \in Nat : used = {n}
  PROVE  NextMessage(used) \in Nat /\ NextMessage(used) \notin UsedIds \cup used
<1> DEFINE S == UsedIds \cup used \cup {0}
<1>1. Bounded(UsedIds \cup used)
  <2>1. CASE used = {}
    BY <2>1
  <2>2. ASSUME NEW n \in Nat, used = {n} PROVE Bounded(UsedIds \cup used)
    BY <2>2, BoundedMore
  <2> QED
    BY <2>1, <2>2
<1>2. Bounded(S)
  BY <1>1, BoundedMore
<1>3. Max(S) \in Nat /\ \A y \in S : y <= Max(S)
  BY <1>2, MaxIs DEF Bounded
<1>4. S \subseteq Nat
  BY <1>2 DEF Bounded
<1>5. PICK m \in Nat : m = Max(S) /\ \A y \in S : y <= m
  BY <1>3
<1>6. NextMessage(used) = m + 1
  BY <1>5 DEF NextMessage, UsedIds
<1> HIDE DEF S
<1>7. m + 1 \in Nat /\ \A y \in S : y # m + 1
  BY <1>4, <1>5
<1> QED
  BY <1>6, <1>7 DEF S

(* What a step of c may change.                                            *)
StepFrame(c) ==
  /\ deletes' = deletes /\ (faults' = 0 => faults = 0)
  /\ \A d \in Chats \ {c} : chat'[d] = chat[d] /\ told'[d] = told[d] /\ (lock = d <=> lock' = d)
  /\ tasks \subseteq tasks'
  /\ UsedIds \subseteq UsedIds' /\ Bounded(UsedIds')
  /\ UsedIds' = UsedIds \/ lock \in {None, c}
  /\ \A i \in DOMAIN messages :
       \/ i \in DOMAIN messages' /\ messages'[i] = messages[i]
       \/ Opened(c) /\ i = chat[c].answer
  /\ \A i \in DOMAIN messages' :
       \/ i \in DOMAIN messages /\ messages'[i] = messages[i]
       \/ messages'[i].by = c /\ (i \notin UsedIds \/ (Opened(c) /\ i = chat[c].answer))
  /\ Opened(c)' => \/ Opened(c) /\ chat'[c].answer = chat[c].answer
                   \/ chat'[c].answer \notin UsedIds

(* IdsInv without the others.                                              *)
OwnIdsInv(c) ==
  /\ lock = c => Saving(c)
  /\ Saving(c) =>
       /\ lock = c /\ chat[c].question \in Nat /\ chat[c].answer \in Nat
       /\ chat[c].answer # chat[c].question /\ chat[c].answer \notin UsedIds
       /\ chat[c].pc # "save answer" => chat[c].question \notin UsedIds
  /\ Opened(c) => chat[c].answer \in UsedIds

LEMMA KeptByStepOf ==
  ASSUME KeptInv, deletes = 0, NEW c \in Chats, StepFrame(c), Counted',
         OwnIdsInv(c)', MessageInv(c)', EndInv(c)'
  PROVE  KeptInv'
<1>1. \A d \in Chats : IdsInv(d) /\ MessageInv(d) /\ EndInv(d)
  BY DEF KeptInv
<1>2. ASSUME NEW d \in Chats \ {c} PROVE (Opened(d)' <=> Opened(d)) /\ (Saving(d)' <=> Saving(d))
  BY DEF StepFrame, Opened, Saving
<1>3. \A d \in Chats \ {c} : Opened(d) /\ Opened(c)' => chat[d].answer # chat'[c].answer
  BY <1>1 DEF StepFrame, IdsInv
<1>4. IdsInv(c)'
  BY <1>2, <1>3 DEF IdsInv, OwnIdsInv, StepFrame
<1>5. ASSUME NEW d \in Chats \ {c} PROVE IdsInv(d)'
  <2>1. Saving(d) => UsedIds' = UsedIds
    BY <1>1, ChatAssumption DEF StepFrame, IdsInv
  <2>2. lock' = d => Saving(d)'
    BY <1>1, <1>2 DEF StepFrame, IdsInv
  <2>3. Saving(d)' =>
          /\ lock' = d /\ chat'[d].question \in Nat /\ chat'[d].answer \in Nat
          /\ chat'[d].answer # chat'[d].question /\ chat'[d].answer \notin UsedIds'
          /\ chat'[d].pc # "save answer" => chat'[d].question \notin UsedIds'
    BY <1>1, <1>2, <2>1 DEF StepFrame, IdsInv
  <2>4. Opened(d)' => chat'[d].answer \in UsedIds'
    BY <1>1, <1>2 DEF StepFrame, IdsInv
  <2>5. ASSUME NEW e \in Chats \ {d}, Opened(d)', Opened(e)' PROVE chat'[e].answer # chat'[d].answer
    <3>1. CASE e = c
      BY <1>2, <1>3, <2>5, <3>1 DEF StepFrame
    <3>2. CASE e # c
      BY <1>1, <1>2, <2>5, <3>2 DEF StepFrame, IdsInv
    <3> QED
      BY <3>1, <3>2
  <2> QED
    BY <2>2, <2>3, <2>4, <2>5 DEF IdsInv
<1>6. ASSUME NEW d \in Chats \ {c}, NEW i \in DOMAIN messages', Mine(d, i)'
      PROVE  i \in DOMAIN messages /\ Mine(d, i)
  BY <1>6 DEF StepFrame, Mine
<1>7. ASSUME NEW d \in Chats \ {c}, Opened(d)
      PROVE  /\ chat[d].answer \in DOMAIN messages =>
                  chat[d].answer \in DOMAIN messages' /\ messages'[chat[d].answer] = messages[chat[d].answer]
             /\ chat[d].answer \in DOMAIN messages' =>
                  chat[d].answer \in DOMAIN messages /\ messages'[chat[d].answer] = messages[chat[d].answer]
  <2>1. chat[d].answer \in UsedIds /\ (Opened(c) => chat[d].answer # chat[c].answer)
    BY <1>1, <1>7 DEF IdsInv
  <2> QED
    BY <2>1 DEF StepFrame
<1>8. ASSUME NEW d \in Chats \ {c} PROVE MessageInv(d)' /\ EndInv(d)'
  <2>1. chat'[d] = chat[d] /\ told'[d] = told[d] /\ tasks \subseteq tasks' /\ (faults' = 0 => faults = 0)
    BY DEF StepFrame
  <2>2. MessageInv(d) /\ EndInv(d)
    BY <1>1
  <2>3. \A i \in DOMAIN messages' :
          Mine(d, i)' => i = chat'[d].answer /\ chat'[d].pc \in Serving \cup {"end"}
    BY <1>6, <2>1, <2>2 DEF MessageInv
  <2>4. Opened(d)' /\ chat'[d].answer \in DOMAIN messages' =>
          /\ Mine(d, chat[d].answer)' /\ messages'[chat[d].answer].task = chat[d].task
          /\ messages'[chat[d].answer].content = IF chat[d].completion = "ok" THEN d ELSE ""
    BY <1>2, <1>7, <2>1, <2>2 DEF MessageInv, Mine
  <2>5. told'[d] = "completed" =>
          chat'[d].pc = "end" /\ chat'[d].completion = "ok" /\ chat'[d].answer \in DOMAIN messages'
    BY <1>7, <2>1, <2>2 DEF MessageInv, Opened
  <2>6. chat'[d].completion = "ok" /\ chat'[d].pc = "complete" => chat'[d].answer \in DOMAIN messages'
    BY <1>7, <2>1, <2>2 DEF MessageInv, Opened
  <2>7. MessageInv(d)'
    BY <2>1, <2>2, <2>3, <2>4, <2>5, <2>6 DEF MessageInv, Mine
  <2>8. EndInv(d)'
    BY <1>6, <2>1, <2>2 DEF EndInv
  <2> QED
    BY <2>7, <2>8
<1> QED
  BY <1>4, <1>5, <1>8 DEF KeptInv, StepFrame
(* A step that changes nothing but what the invariant does not speak of.   *)
LEMMA KeptBySilentStep ==
  ASSUME KeptInv, deletes = 0, NEW c \in Chats, Counted', deletes' = deletes, faults' = 0 => faults = 0,
         UNCHANGED <<store, lock, told>>,
         \A d \in Chats \ {c} : chat'[d] = chat[d],
         /\ chat'[c].pc = chat[c].pc /\ chat'[c].task = chat[c].task
         /\ chat'[c].question = chat[c].question /\ chat'[c].answer = chat[c].answer
         /\ chat'[c].completion = chat[c].completion
         /\ chat'[c].forced = chat[c].forced /\ chat'[c].after = chat[c].after
  PROVE  KeptInv'
<1>1. Bounded(UsedIds) /\ IdsInv(c) /\ MessageInv(c) /\ EndInv(c)
  BY DEF KeptInv
<1>2. (Opened(c)' <=> Opened(c)) /\ (Saving(c)' <=> Saving(c)) /\ UsedIds' = UsedIds
  BY DEF Opened, Saving, UsedIds, store
<1>3. StepFrame(c)
  BY <1>1, <1>2 DEF StepFrame, store
<1>4. OwnIdsInv(c)'
  BY <1>1, <1>2 DEF OwnIdsInv, IdsInv
<1>5. MessageInv(c)'
  BY <1>1, <1>2 DEF MessageInv, Mine, store
<1>6. EndInv(c)'
  BY <1>1 DEF EndInv, Mine, store
<1> QED
  BY <1>3, <1>4, <1>5, <1>6, KeptByStepOf

(* A step before the messages are written.                                 *)
Early == {"idle", "ensure", "run", "thread", "append"}
LEMMA KeptByEarlyStep ==
  ASSUME Inv, KeptInv, deletes = 0, NEW c \in Chats, Counted', deletes' = deletes, faults' = faults,
         UNCHANGED <<messages, retired, lock, told>>, tasks \subseteq tasks',
         \A d \in Chats \ {c} : chat'[d] = chat[d],
         chat[c].pc \in Early, chat'[c].pc \in Early, chat'[c].completion = chat[c].completion
  PROVE  KeptInv'
<1>1. Bounded(UsedIds) /\ IdsInv(c) /\ MessageInv(c)
  BY DEF KeptInv
<1>2. chat[c].completion = "none" /\ ~Opened(c) /\ ~Opened(c)' /\ ~Saving(c) /\ ~Saving(c)'
  BY DEF Inv, AnswerInv, ChatInv, Early, Opened, Saving, Serving
<1>3. UsedIds' = UsedIds
  BY DEF UsedIds
<1>4. StepFrame(c)
  BY <1>1, <1>2, <1>3 DEF StepFrame
<1>5. OwnIdsInv(c)'
  BY <1>1, <1>2 DEF OwnIdsInv, IdsInv
<1>6. \A i \in DOMAIN messages : ~Mine(c, i)
  BY <1>1 DEF MessageInv, Early, Serving
<1>7. MessageInv(c)'
  <2>1. told'[c] # "completed"
    BY <1>1, <1>2 DEF MessageInv
  <2>2. \A i \in DOMAIN messages' : ~Mine(c, i)'
    BY <1>6 DEF Mine
  <2> QED
    BY <1>2, <2>1, <2>2 DEF MessageInv, Early, Serving
<1>8. EndInv(c)'
  BY DEF EndInv, Early
<1> QED
  BY <1>4, <1>5, <1>7, <1>8, KeptByStepOf

(* A step of a request that is served, where no message is written.        *)
LEMMA KeptByServingStep ==
  ASSUME Inv, KeptInv, deletes = 0, NEW c \in Chats, Counted', deletes' = deletes, faults' = 0 => faults = 0,
         UNCHANGED <<store, lock>>,
         \A d \in Chats \ {c} : chat'[d] = chat[d] /\ told'[d] = told[d],
         Opened(c), chat[c].pc \in Serving, Opened(c)', chat'[c].pc \in Serving \cup {"end"},
         chat'[c].task = chat[c].task, chat'[c].answer = chat[c].answer,
         chat'[c].completion = "ok" <=> chat[c].completion = "ok",
         told'[c] = "completed" =>
           told[c] = "completed" \/ (chat[c].pc = "complete" /\ chat[c].completion = "ok"),
         told'[c] = "completed" => chat'[c].pc = "end",
         chat[c].pc # "complete" => chat'[c].pc # "complete" \/ chat'[c].completion # "ok",
         EndInv(c)'
  PROVE  KeptInv'
<1>1. Bounded(UsedIds) /\ IdsInv(c) /\ MessageInv(c)
  BY DEF KeptInv
<1>2. UsedIds' = UsedIds
  BY DEF UsedIds, store
<1>3. StepFrame(c)
  BY <1>1, <1>2 DEF StepFrame, store
<1>4. ~Saving(c) /\ ~Saving(c)'
  BY DEF Saving, Serving
<1>5. OwnIdsInv(c)'
  BY <1>1, <1>2, <1>4 DEF OwnIdsInv, IdsInv
<1>6. MessageInv(c)'
  <2>1. \A i \in DOMAIN messages' :
          Mine(c, i)' => i = chat'[c].answer /\ chat'[c].pc \in Serving \cup {"end"}
    BY <1>1 DEF MessageInv, Mine, store
  <2>2. Opened(c)' /\ chat'[c].answer \in DOMAIN messages' =>
          /\ Mine(c, chat[c].answer)' /\ messages'[chat[c].answer].task = chat[c].task
          /\ messages'[chat[c].answer].content = IF chat'[c].completion = "ok" THEN c ELSE ""
    BY <1>1 DEF MessageInv, Mine, store
  <2>3. told'[c] = "completed" =>
          chat'[c].pc = "end" /\ chat'[c].completion = "ok" /\ chat'[c].answer \in DOMAIN messages'
    BY <1>1 DEF MessageInv, store
  <2>4. chat'[c].completion = "ok" /\ chat'[c].pc = "complete" => chat'[c].answer \in DOMAIN messages'
    BY <1>1 DEF MessageInv, store
  <2>5. chat'[c].pc \in {"save question", "save answer"} \cup Serving => chat'[c].task \in tasks'
    BY <1>1 DEF MessageInv, store, Serving
  <2> QED
    BY <2>1, <2>2, <2>3, <2>4, <2>5 DEF MessageInv, Mine
<1> QED
  BY <1>3, <1>5, <1>6, KeptByStepOf
-----------------------------------------------------------------------------
LEMMA KeptEarly ==
  ASSUME Inv, KeptInv, deletes = 0, NEW c \in Chats, Counted',
         \/ \E t : AskInProject(c, t) \/ AskWithoutProject(c, t)
         \/ EnsureTask(c) \/ StartStream(c) \/ RunText(c) \/ RefuseStream(c)
  PROVE  KeptInv'
<1> USE DEF Inv, Shape, ChatFields, Early, counters, store
<1>1. ASSUME NEW t, AskInProject(c, t) PROVE KeptInv'
  BY <1>1, KeptByEarlyStep DEF AskInProject
<1>2. ASSUME NEW t, AskWithoutProject(c, t) PROVE KeptInv'
  BY <1>2, KeptByEarlyStep DEF AskWithoutProject
<1>3. CASE EnsureTask(c)
  BY <1>3, KeptByEarlyStep DEF EnsureTask
<1>4. CASE StartStream(c)
  BY <1>4, KeptByEarlyStep DEF StartStream, Go
<1>5. CASE RunText(c)
  BY <1>5, KeptByEarlyStep DEF RunText
<1>6. CASE RefuseStream(c)
  BY <1>6, KeptByEarlyStep DEF RefuseStream, Go
<1> QED
  BY <1>1, <1>2, <1>3, <1>4, <1>5, <1>6

(* The steps that leave identifiers, tasks and messages to others.         *)
LEMMA KeptSilently ==
  ASSUME Inv, KeptInv, deletes = 0, NEW c \in Chats, Counted',
         Generates(c) \/ GenSaveFails(c) \/ Disconnect(c)
  PROVE  KeptInv'
<1>1. /\ deletes' = deletes /\ UNCHANGED <<store, lock, told>>
      /\ faults' = 0 => faults = 0
      /\ \/ chat' = chat
         \/ chat' = [chat EXCEPT ![c].text = TRUE]
         \/ chat' = [chat EXCEPT ![c].closed = TRUE]
  <2>1. CASE Generates(c)
    BY <2>1, Zenon DEF Generates, SaveStartedRun, YieldDelta, ReadResult, ReadCancelled, SaveEndedRun,
                SaveRunEvents, counters
  <2>2. CASE GenSaveFails(c)
    <3>1. deletes' = deletes /\ UNCHANGED <<store, lock, told, chat>> /\ faults' = faults + 1
      BY <2>2, Zenon DEF GenSaveFails
    <3> QED
      BY <3>1 DEF KeptInv, Counted
  <2>3. CASE Disconnect(c)
    BY <2>3 DEF Disconnect, counters
  <2> QED
    BY <2>1, <2>2, <2>3
<1>2. CASE chat' = chat
  BY <1>1, <1>2, KeptBySilentStep
<1>3. CASE chat' = [chat EXCEPT ![c].text = TRUE]
  BY <1>1, <1>3, KeptBySilentStep DEF Inv, Shape, ChatFields
<1>4. CASE chat' = [chat EXCEPT ![c].closed = TRUE]
  BY <1>1, <1>4, KeptBySilentStep DEF Inv, Shape, ChatFields
<1> QED
  BY <1>1, <1>2, <1>3, <1>4

(* The steps of a request that is served, up to the end of the completion. *)
LEMMA KeptServing ==
  ASSUME Inv, KeptInv, deletes = 0, NEW c \in Chats, Counted',
         \/ LeaveStream(c) \/ StreamThrew(c) \/ StreamDone(c) \/ ReadForCompletion(c)
         \/ SaveAnswerFails(c) \/ Completed(c) \/ LeaveCompletion(c) \/ AwaitCompletion(c)
  PROVE  KeptInv'
<1>0. ChatInv(c) /\ EndInv(c) /\ Shape /\ DOMAIN told = Chats /\ faults \in Nat /\ MessageInv(c)
  BY DEF Inv, AnswerInv, KeptInv, Counted
<1> USE DEF Shape, ChatFields, Serving, counters, store, Opened
<1>1. CASE LeaveStream(c) \/ StreamThrew(c)
  <2>1. PICK a : /\ chat[c].pc = "stream" /\ Abandoning(c, FALSE, a)
                 /\ UNCHANGED <<store, lock, told, counters>>
    BY <1>1 DEF LeaveStream, StreamThrew
  <2>2. chat[c].completion = "none"
    BY <1>0, <2>1 DEF ChatInv
  <2>3. EndInv(c)'
    BY <1>0, <2>1, <2>2 DEF EndInv, Abandoning
  <2> QED
    BY <1>0, <2>1, <2>2, <2>3, KeptByServingStep DEF Abandoning, MessageInv
<1>2. CASE StreamDone(c)
  <2>1. /\ chat[c].pc = "stream" /\ UNCHANGED <<store, lock, told, counters>>
        /\ \/ chat' = [chat EXCEPT ![c] = [@ EXCEPT !.pc = "complete", !.completion = "read"]]
           \/ Abandoning(c, FALSE, "error")
    BY <1>2, Zenon DEF StreamDone
  <2>2. chat[c].completion = "none"
    BY <1>0, <2>1 DEF ChatInv
  <2>3. EndInv(c)'
    BY <1>0, <2>1, <2>2 DEF EndInv, Abandoning
  <2>4. CASE chat' = [chat EXCEPT ![c] = [@ EXCEPT !.pc = "complete", !.completion = "read"]]
    BY <1>0, <2>1, <2>2, <2>3, <2>4, KeptByServingStep DEF MessageInv
  <2>5. CASE Abandoning(c, FALSE, "error")
    BY <1>0, <2>1, <2>2, <2>3, <2>5, KeptByServingStep DEF Abandoning, MessageInv
  <2> QED
    BY <2>1, <2>4, <2>5
<1>3. CASE ReadForCompletion(c) \/ SaveAnswerFails(c)
  <2>1. /\ chat[c].completion \in {"read", "save"} /\ UNCHANGED <<store, lock, told>>
        /\ deletes' = deletes /\ faults' \in {faults, faults + 1}
        /\ \E x \in {"save", "no", "failed"} : \E time :
              chat' = [chat EXCEPT ![c] = [@ EXCEPT !.completion = x, !.time = time]]
    <3>1. CASE ReadForCompletion(c)
      BY <1>0, <3>1 DEF ReadForCompletion
    <3>2. CASE SaveAnswerFails(c)
      <4>1. chat' = [chat EXCEPT ![c] = [@ EXCEPT !.completion = "failed", !.time = chat[c].time]]
        BY <1>0, <3>2 DEF SaveAnswerFails
      <4> QED
        BY <3>2, <4>1 DEF SaveAnswerFails
    <3> QED
      BY <1>3, <3>1, <3>2
  <2>2. PICK x \in {"save", "no", "failed"} :
          \E time : chat' = [chat EXCEPT ![c] = [@ EXCEPT !.completion = x, !.time = time]]
    BY <2>1
  <2>3. chat[c].pc \in {"complete", "abandon", "await completion"}
    BY <1>0, <2>1 DEF ChatInv, EndInv
  <2>4. /\ chat'[c].completion = x /\ chat'[c].pc = chat[c].pc /\ chat'[c].task = chat[c].task
        /\ chat'[c].answer = chat[c].answer /\ chat'[c].after = chat[c].after
        /\ chat'[c].forced = chat[c].forced
        /\ \A d \in Chats \ {c} : chat'[d] = chat[d]
    BY <1>0, <2>2
  <2>5. EndInv(c)'
    BY <1>0, <2>1, <2>3, <2>4 DEF EndInv
  <2>6. faults' = 0 => faults = 0
    BY <1>0, <2>1
  <2>7. told'[c] # "completed"
    BY <1>0, <2>1, <2>3 DEF MessageInv
  <2> QED
    BY <2>1, <2>3, <2>4, <2>5, <2>6, <2>7, KeptByServingStep
<1>4. CASE Completed(c)
  <2>1. /\ chat[c].pc = "complete" /\ UNCHANGED <<store, lock, counters>>
        /\ \/ chat[c].completion = "ok" /\ Go(c, "end") /\ Tell(c, "completed") /\ ~chat[c].closed
           \/ /\ told' = told /\ chat[c].completion \in {"ok", "no", "failed"}
              /\ \/ \E after : Abandoning(c, TRUE, after)
                 \/ chat[c].completion # "ok" /\ \E after : Abandoning(c, FALSE, after)
    BY <1>4 DEF Completed
  <2>2. CASE chat[c].completion = "ok" /\ Go(c, "end") /\ Tell(c, "completed") /\ ~chat[c].closed
    <3>1. told' = [told EXCEPT ![c] = "completed"] /\ chat' = [chat EXCEPT ![c].pc = "end"]
      BY <2>2 DEF Tell, Go
    <3>2. EndInv(c)'
      BY <1>0, <2>1, <2>2, <3>1 DEF EndInv
    <3> QED
      BY <1>0, <2>1, <2>2, <3>1, <3>2, KeptByServingStep
  <2>3. ASSUME NEW after, told' = told, chat[c].completion \in {"ok", "no", "failed"},
               Abandoning(c, TRUE, after) \/ (Abandoning(c, FALSE, after) /\ chat[c].completion # "ok")
        PROVE  KeptInv'
    <3>0. chat[c].pc = "complete" /\ UNCHANGED <<store, lock, counters>>
      BY <2>1
    <3>1. CASE Abandoning(c, TRUE, after)
      <4>0. chat[c].completion \in {"ok", "no", "failed"} /\ told' = told
        BY <2>3
      <4>1. EndInv(c)'
        BY <1>0, <3>0, <3>1, <4>0 DEF EndInv, Abandoning
      <4> QED
        BY <1>0, <3>0, <3>1, <4>0, <4>1, KeptByServingStep DEF Abandoning, MessageInv
    <3>2. CASE Abandoning(c, FALSE, after) /\ chat[c].completion # "ok"
      <4>1. EndInv(c)'
        BY <1>0, <2>3, <3>0, <3>2 DEF EndInv, Abandoning
      <4> QED
        BY <1>0, <2>3, <3>0, <3>2, <4>1, KeptByServingStep DEF Abandoning, MessageInv
    <3> QED
      BY <2>3, <3>1, <3>2
  <2> QED
    BY <2>1, <2>2, <2>3
<1>5. CASE LeaveCompletion(c)
  <2>1. chat[c].pc = "complete" /\ Abandoning(c, TRUE, "await completion")
        /\ UNCHANGED <<store, lock, told, counters>>
    BY <1>5 DEF LeaveCompletion
  <2>2. EndInv(c)'
    BY <1>0, <2>1 DEF EndInv, Abandoning
  <2> QED
    BY <1>0, <2>1, <2>2, KeptByServingStep DEF Abandoning, MessageInv
<1>6. CASE AwaitCompletion(c)
  <2>1. chat[c].pc = "await completion" /\ Abandoning(c, TRUE, "nothing")
        /\ chat[c].completion \in {"ok", "no", "failed"} /\ UNCHANGED <<store, lock, told, counters>>
    BY <1>6 DEF AwaitCompletion
  <2>2. EndInv(c)'
    BY <1>0, <2>1 DEF EndInv, Abandoning
  <2> QED
    BY <1>0, <2>1, <2>2, KeptByServingStep DEF Abandoning, MessageInv
<1> QED
  BY <1>1, <1>2, <1>3, <1>4, <1>5, <1>6
(* The thread is opened under the lock, with identifiers that are free.    *)
LEMMA KeptOpen ==
  ASSUME Inv, KeptInv, deletes = 0, NEW c \in Chats, Counted', OpenThread(c)
  PROVE  KeptInv'
<1>0. ChatInv(c) /\ EndInv(c) /\ Shape /\ MessageInv(c) /\ IdsInv(c) /\ Bounded(UsedIds)
  BY DEF Inv, AnswerInv, KeptInv
<1>1. PICK q : q = NextMessage({})
  OBVIOUS
<1>2. PICK a : a = NextMessage({q})
  OBVIOUS
<1>3. /\ chat[c].pc = "thread" /\ lock = None /\ lock' = c /\ UNCHANGED <<tasks, messages, retired, told>>
      /\ deletes' = deletes /\ faults' = faults
      /\ \A d \in Chats \ {c} : chat'[d] = chat[d]
      /\ chat'[c].pc = "save task" /\ chat'[c].question = q /\ chat'[c].answer = a
      /\ chat'[c].completion = chat[c].completion
  BY <1>0, <1>1, <1>2 DEF OpenThread, Shape, ChatFields, store, counters
<1>4. q \in Nat /\ q \notin UsedIds
  BY <1>0, <1>1, NextMessageIsFree
<1>5. a \in Nat /\ a \notin UsedIds /\ a # q
  BY <1>0, <1>2, <1>4, NextMessageIsFree
<1>6. chat[c].completion = "none" /\ ~Opened(c) /\ ~Opened(c)' /\ Saving(c)'
  BY <1>0, <1>3 DEF ChatInv, Opened, Serving, Saving
<1>7. UsedIds' = UsedIds
  BY <1>3 DEF UsedIds
<1>8. StepFrame(c)
  BY <1>0, <1>3, <1>6, <1>7, ChatAssumption DEF StepFrame
<1>9. OwnIdsInv(c)'
  BY <1>3, <1>4, <1>5, <1>6, <1>7 DEF OwnIdsInv
<1>10. \A i \in DOMAIN messages' : ~Mine(c, i)'
  BY <1>0, <1>3 DEF MessageInv, Mine, Serving
<1>11. MessageInv(c)' /\ EndInv(c)'
  BY <1>0, <1>3, <1>6, <1>10 DEF MessageInv, EndInv, Serving
<1> QED
  BY <1>8, <1>9, <1>11, KeptByStepOf

LEMMA SavedIds ==
  ASSUME NEW i, NEW m, messages' = Saved(i, m), retired' = retired
  PROVE  /\ UsedIds' = UsedIds \cup {i} /\ i \in DOMAIN messages' /\ messages'[i] = m
         /\ \A j \in DOMAIN messages : j # i => j \in DOMAIN messages' /\ messages'[j] = messages[j]
         /\ \A j \in DOMAIN messages' : j = i \/ (j \in DOMAIN messages /\ messages'[j] = messages[j])
BY DEF Saved, UsedIds

(* The saves of a thread and of a question without one, and their failure. *)
LEMMA KeptSaving ==
  ASSUME Inv, KeptInv, deletes = 0, NEW c \in Chats, Counted',
         AppendQuestion(c) \/ SaveTask(c) \/ SaveQuestion(c) \/ SaveEmptyAnswer(c) \/ StartFails(c)
  PROVE  KeptInv'
<1>0. /\ ChatInv(c) /\ EndInv(c) /\ Shape /\ MessageInv(c) /\ IdsInv(c) /\ Bounded(UsedIds)
      /\ DOMAIN told = Chats /\ faults \in Nat
  BY DEF Inv, AnswerInv, KeptInv, Counted
<1>a. ASSUME chat[c].pc \in Early \cup {"save task", "save question", "save answer"}
      PROVE  /\ chat[c].completion = "none" /\ ~Opened(c) /\ told[c] # "completed"
             /\ \A i \in DOMAIN messages : ~Mine(c, i)
  BY <1>0, <1>a DEF ChatInv, MessageInv, Opened, Serving, Early
<1>b. faults \in Nat
  BY <1>0 DEF Shape, ChatFields
<1>1. CASE AppendQuestion(c)
  <2>1. PICK i, m : /\ i = NextMessage({}) /\ messages' = Saved(i, m)
                    /\ m.by = c /\ m.role = "user"
    BY <1>1 DEF AppendQuestion
  <2>2. /\ chat[c].pc = "append" /\ lock = None /\ UNCHANGED <<tasks, retired, lock, deletes, faults>>
        /\ chat' = [chat EXCEPT ![c].pc = "end"]
        /\ told' \in {told, [told EXCEPT ![c] = "error"]}
    BY <1>1 DEF AppendQuestion, Go, Tell, counters
  <2>3. i \in Nat /\ i \notin UsedIds
    BY <1>0, <2>1, NextMessageIsFree
  <2>4. /\ UsedIds' = UsedIds \cup {i} /\ messages'[i] = m
        /\ \A j \in DOMAIN messages : j # i => j \in DOMAIN messages' /\ messages'[j] = messages[j]
        /\ \A j \in DOMAIN messages' : j = i \/ (j \in DOMAIN messages /\ messages'[j] = messages[j])
    <3>1. messages' = Saved(i, m) /\ retired' = retired
      BY <2>1, <2>2
    <3> QED
      BY <3>1, SavedIds
  <2>5. /\ chat[c].completion = "none" /\ ~Opened(c) /\ told[c] # "completed"
        /\ \A j \in DOMAIN messages : ~Mine(c, j)
    BY <1>a, <2>2 DEF Early
  <2>6. ~Saving(c) /\ ~Saving(c)' /\ ~Opened(c)' /\ chat'[c].completion = "none" /\ chat'[c].pc = "end"
        /\ told'[c] # "completed"
    BY <1>0, <2>2, <2>5 DEF Saving, Opened, Serving, Shape, ChatFields
  <2>7. StepFrame(c)
    <3>1. Bounded(UsedIds')
      BY <1>0, <2>3, <2>4, BoundedMore
    <3>2. \A d \in Chats \ {c} : chat'[d] = chat[d] /\ told'[d] = told[d]
      BY <1>0, <2>2 DEF Shape, ChatFields
    <3>3. \A j \in DOMAIN messages : j \in DOMAIN messages' /\ messages'[j] = messages[j]
      BY <2>3, <2>4 DEF UsedIds
    <3> QED
      BY <2>1, <2>2, <2>3, <2>4, <2>6, <3>1, <3>2, <3>3 DEF StepFrame
  <2>8. OwnIdsInv(c)'
    BY <2>2, <2>6, ChatAssumption DEF OwnIdsInv
  <2>9. \A j \in DOMAIN messages' : ~Mine(c, j)'
    BY <2>1, <2>4, <2>5 DEF Mine
  <2>10. MessageInv(c)' /\ EndInv(c)'
    BY <2>6, <2>9 DEF MessageInv, EndInv, Serving
  <2> QED
    BY <2>7, <2>8, <2>10, KeptByStepOf
<1>2. CASE SaveTask(c)
  <2>1. /\ chat[c].pc = "save task" /\ tasks' = tasks \cup {chat[c].task}
        /\ UNCHANGED <<messages, retired, lock, told, deletes, faults>>
        /\ chat' = [chat EXCEPT ![c].pc = "save question"]
    BY <1>2 DEF SaveTask, Go, counters
  <2>2. /\ chat[c].completion = "none" /\ ~Opened(c) /\ told[c] # "completed"
        /\ \A j \in DOMAIN messages : ~Mine(c, j)
    BY <1>a, <2>1
  <2>3. UsedIds' = UsedIds
    BY <2>1 DEF UsedIds
  <2>4. Saving(c) /\ Saving(c)' /\ ~Opened(c)'
    BY <1>0, <2>1, <2>2 DEF Saving, Opened, Serving, Shape, ChatFields
  <2>5. StepFrame(c)
    BY <1>0, <2>1, <2>3, <2>4 DEF StepFrame, Shape, ChatFields
  <2>6. OwnIdsInv(c)'
    <3>1. chat'[c].question = chat[c].question /\ chat'[c].answer = chat[c].answer /\ lock' = lock
          /\ chat[c].pc # "save answer"
      BY <1>0, <2>1 DEF Shape, ChatFields
    <3> QED
      BY <1>0, <2>3, <2>4, <3>1 DEF OwnIdsInv, IdsInv
  <2>7. MessageInv(c)'
    <3>1. \A j \in DOMAIN messages' : ~Mine(c, j)'
      BY <2>1, <2>2 DEF Mine
    <3>2. chat'[c].pc = "save question" /\ chat'[c].completion = "none" /\ told'[c] # "completed"
          /\ chat'[c].task \in tasks'
      BY <1>0, <2>1, <2>2 DEF Shape, ChatFields
    <3> QED
      BY <2>4, <3>1, <3>2 DEF MessageInv
  <2>8. EndInv(c)'
    BY <1>0, <2>1 DEF EndInv, Shape, ChatFields
  <2> QED
    BY <2>5, <2>6, <2>7, <2>8, KeptByStepOf
<1>3. CASE SaveQuestion(c)
  <2>0. PICK i : i = chat[c].question
    OBVIOUS
  <2>m. PICK m : m = [task |-> chat[c].task, role |-> "user", content |-> c, by |-> c, time |-> chat[c].time]
    OBVIOUS
  <2>1. i = chat[c].question /\ messages' = Saved(i, m) /\ m.by = c /\ m.role = "user"
    BY <1>3, <2>0, <2>m DEF SaveQuestion
  <2>2. /\ chat[c].pc = "save question" /\ UNCHANGED <<tasks, retired, lock, told, deletes, faults>>
        /\ chat' = [chat EXCEPT ![c].pc = "save answer"]
    BY <1>3 DEF SaveQuestion, Go, counters
  <2>3. i \in Nat /\ i \notin UsedIds /\ lock = c /\ chat[c].answer \in Nat /\ chat[c].answer # i
        /\ chat[c].answer \notin UsedIds
    BY <1>0, <2>1, <2>2 DEF IdsInv, Saving
  <2>4. /\ UsedIds' = UsedIds \cup {i} /\ messages'[i] = m
        /\ \A j \in DOMAIN messages : j # i => j \in DOMAIN messages' /\ messages'[j] = messages[j]
        /\ \A j \in DOMAIN messages' : j = i \/ (j \in DOMAIN messages /\ messages'[j] = messages[j])
    <3>1. messages' = Saved(i, m) /\ retired' = retired
      BY <2>1, <2>2
    <3> QED
      BY <3>1, SavedIds
  <2>5. /\ chat[c].completion = "none" /\ ~Opened(c) /\ told[c] # "completed"
        /\ \A j \in DOMAIN messages : ~Mine(c, j)
    BY <1>a, <2>2
  <2>6. /\ Saving(c)' /\ ~Opened(c)' /\ chat'[c].completion = "none" /\ chat'[c].pc = "save answer"
        /\ told'[c] # "completed" /\ chat'[c].task = chat[c].task
        /\ chat'[c].question = chat[c].question /\ chat'[c].answer = chat[c].answer
    BY <1>0, <2>2, <2>5 DEF Saving, Opened, Serving, Shape, ChatFields
  <2>7. StepFrame(c)
    <3>1. Bounded(UsedIds')
      BY <1>0, <2>3, <2>4, BoundedMore
    <3>2. \A d \in Chats \ {c} : chat'[d] = chat[d] /\ told'[d] = told[d]
      BY <1>0, <2>2 DEF Shape, ChatFields
    <3>3. \A j \in DOMAIN messages : j \in DOMAIN messages' /\ messages'[j] = messages[j]
      BY <2>3, <2>4 DEF UsedIds
    <3> QED
      BY <2>1, <2>2, <2>3, <2>4, <2>6, <3>1, <3>2, <3>3 DEF StepFrame
  <2>8. OwnIdsInv(c)'
    <3>1. UsedIds' = UsedIds \cup {i} /\ lock' = c /\ chat'[c].question = i
      BY <2>1, <2>2, <2>3, <2>4, <2>6
    <3> QED
      BY <2>3, <2>6, <3>1 DEF OwnIdsInv
  <2>9. \A j \in DOMAIN messages' : ~Mine(c, j)'
    BY <2>1, <2>4, <2>5 DEF Mine
  <2>10. chat'[c].task \in tasks'
    BY <1>0, <2>2, <2>6 DEF MessageInv, Shape, ChatFields
  <2>11. MessageInv(c)' /\ EndInv(c)'
    BY <2>6, <2>9, <2>10 DEF MessageInv, EndInv
  <2> QED
    BY <2>7, <2>8, <2>11, KeptByStepOf
<1>4. CASE SaveEmptyAnswer(c)
  <2>0. PICK i : i = chat[c].answer
    OBVIOUS
  <2>m. PICK m : m = [task |-> chat[c].task, role |-> "assistant", content |-> "", by |-> c,
                      time |-> chat[c].time]
    OBVIOUS
  <2>1. /\ i = chat[c].answer /\ messages' = Saved(i, m)
        /\ m.by = c /\ m.role = "assistant" /\ m.content = "" /\ m.task = chat[c].task
    BY <1>4, <2>0, <2>m DEF SaveEmptyAnswer
  <2>2. /\ chat[c].pc = "save answer" /\ UNCHANGED <<tasks, retired, told, deletes, faults>>
        /\ lock' = IF lock = c THEN None ELSE lock
        /\ chat' = [chat EXCEPT ![c].pc = "stream"]
    BY <1>4 DEF SaveEmptyAnswer, Go, counters, Unlock
  <2>3. i \in Nat /\ i \notin UsedIds /\ lock = c
    BY <1>0, <2>1, <2>2 DEF IdsInv, Saving
  <2>4. /\ UsedIds' = UsedIds \cup {i} /\ messages'[i] = m
        /\ \A j \in DOMAIN messages : j # i => j \in DOMAIN messages' /\ messages'[j] = messages[j]
        /\ \A j \in DOMAIN messages' : j = i \/ (j \in DOMAIN messages /\ messages'[j] = messages[j])
    <3>1. messages' = Saved(i, m) /\ retired' = retired
      BY <2>1, <2>2
    <3> QED
      BY <3>1, SavedIds
  <2>5. /\ chat[c].completion = "none" /\ ~Opened(c) /\ told[c] # "completed"
        /\ \A j \in DOMAIN messages : ~Mine(c, j)
    BY <1>a, <2>2
  <2>6. /\ ~Saving(c)' /\ chat'[c].completion = "none" /\ chat'[c].pc = "stream"
        /\ told'[c] # "completed" /\ chat'[c].task = chat[c].task /\ chat'[c].answer = chat[c].answer
    BY <1>0, <2>2, <2>5 DEF Saving, Shape, ChatFields
  <2>7. StepFrame(c)
    <3>1. Bounded(UsedIds')
      BY <1>0, <2>3, <2>4, BoundedMore
    <3>2. \A d \in Chats \ {c} : chat'[d] = chat[d] /\ told'[d] = told[d] /\ (lock = d <=> lock' = d)
      BY <1>0, <2>2, <2>3, ChatAssumption DEF Shape, ChatFields
    <3>3. \A j \in DOMAIN messages : j \in DOMAIN messages' /\ messages'[j] = messages[j]
      BY <2>3, <2>4 DEF UsedIds
    <3> QED
      <4>1. UsedIds \subseteq UsedIds' /\ lock \in {None, c} /\ tasks \subseteq tasks'
            /\ chat'[c].answer \notin UsedIds /\ deletes' = deletes /\ (faults' = 0 => faults = 0)
        BY <2>1, <2>2, <2>3, <2>4, <2>6
      <4>2. \A j \in DOMAIN messages' :
              (j \in DOMAIN messages /\ messages'[j] = messages[j]) \/ (messages'[j].by = c /\ j \notin UsedIds)
        BY <2>1, <2>3, <2>4
      <4> QED
        BY <3>1, <3>2, <3>3, <4>1, <4>2 DEF StepFrame
  <2>8. OwnIdsInv(c)'
    <3>1. lock' # c /\ chat'[c].answer \in UsedIds'
      <4>1. lock' = None /\ c # None
        BY <2>2, <2>3, ChatAssumption
      <4>2. chat'[c].answer = i
        BY <2>1, <2>6
      <4> QED
        BY <2>4, <4>1, <4>2
    <3> QED
      BY <2>6, <3>1 DEF OwnIdsInv
  <2>9. chat'[c].task \in tasks'
    BY <1>0, <2>2, <2>6 DEF MessageInv, Shape, ChatFields
  <2>10. MessageInv(c)'
    BY <2>1, <2>4, <2>5, <2>6, <2>9 DEF MessageInv, Mine, Serving
  <2>11. EndInv(c)'
    BY <2>6 DEF EndInv
  <2> QED
    BY <2>7, <2>8, <2>10, <2>11, KeptByStepOf
<1>5. CASE StartFails(c)
  <2>1. /\ chat[c].pc \in Early \cup {"save task", "save question", "save answer"}
        /\ UNCHANGED <<tasks, messages, retired, told, deletes>> /\ faults' = faults + 1
        /\ lock' = IF lock = c THEN None ELSE lock
        /\ chat' = [chat EXCEPT ![c].pc = "end"]
    BY <1>5 DEF StartFails, Go, store, Unlock, Early
  <2>2. /\ chat[c].completion = "none" /\ ~Opened(c) /\ told[c] # "completed"
        /\ \A j \in DOMAIN messages : ~Mine(c, j)
    BY <1>a, <2>1
  <2>3. /\ ~Saving(c)' /\ chat'[c].completion = "none" /\ chat'[c].pc = "end" /\ ~Opened(c)'
        /\ told'[c] # "completed" /\ UsedIds' = UsedIds
    BY <1>0, <2>1, <2>2 DEF Saving, Opened, Serving, UsedIds, Shape, ChatFields
  <2>4. StepFrame(c)
    <3>1. \A d \in Chats \ {c} : chat'[d] = chat[d] /\ told'[d] = told[d] /\ (lock = d <=> lock' = d)
      BY <1>0, <2>1, ChatAssumption DEF Shape, ChatFields
    <3> QED
      <4>1. faults' = 0 => faults = 0
        <5>1. faults' = faults + 1
          BY <2>1
        <5> QED
          BY <1>b, <5>1
      <4> QED
        BY <1>0, <2>1, <2>3, <3>1, <4>1 DEF StepFrame, Shape, ChatFields
  <2>5. OwnIdsInv(c)'
    BY <2>1, <2>3, ChatAssumption DEF OwnIdsInv
  <2>6. \A j \in DOMAIN messages' : ~Mine(c, j)'
    BY <2>1, <2>2 DEF Mine
  <2>7. MessageInv(c)' /\ EndInv(c)'
    BY <2>3, <2>6 DEF MessageInv, EndInv, Serving
  <2> QED
    BY <2>4, <2>5, <2>7, KeptByStepOf
<1> QED
  BY <1>1, <1>2, <1>3, <1>4, <1>5
(* The completion saves the answer, wherever the request is by now: if an  *)
(* abandonment has removed it, another one follows.                        *)
LEMMA KeptAnswer ==
  ASSUME Inv, KeptInv, deletes = 0, NEW c \in Chats, Counted', SaveAnswer(c)
  PROVE  KeptInv'
<1>0. ChatInv(c) /\ EndInv(c) /\ Shape /\ MessageInv(c) /\ IdsInv(c) /\ Bounded(UsedIds)
  BY DEF Inv, AnswerInv, KeptInv
<1>1. PICK i : i = chat[c].answer
  OBVIOUS
<1>2. PICK m : m = [task |-> chat[c].task, role |-> "assistant", content |-> c, by |-> c,
                    time |-> chat[c].time]
  OBVIOUS
<1>3. messages' = Saved(i, m) /\ retired' = retired
  BY <1>1, <1>2 DEF SaveAnswer
<1>4. m.by = c /\ m.role = "assistant" /\ m.content = c /\ m.task = chat[c].task
  BY <1>2
<1>5. UNCHANGED <<tasks, lock, told, deletes, faults>> /\ chat[c].completion = "save"
  BY DEF SaveAnswer, counters
<1>6. /\ chat'[c].completion = "ok" /\ chat'[c].pc = chat[c].pc /\ chat'[c].task = chat[c].task
      /\ chat'[c].answer = chat[c].answer /\ chat'[c].forced = chat[c].forced
      /\ \A d \in Chats \ {c} : chat'[d] = chat[d]
  BY <1>0 DEF SaveAnswer, Shape, ChatFields
<1>7. chat[c].pc \in {"complete", "abandon", "await completion"}
  BY <1>0, <1>5 DEF ChatInv, EndInv
<1>8. Opened(c) /\ Opened(c)' /\ ~Saving(c) /\ ~Saving(c)' /\ i \in UsedIds
  BY <1>0, <1>1, <1>5, <1>6, <1>7 DEF Opened, Saving, IdsInv
<1>9. UsedIds' = UsedIds \cup {i} /\ i \in DOMAIN messages' /\ messages'[i] = m
  BY <1>3, SavedIds
<1>10. \A j \in DOMAIN messages : j # i => j \in DOMAIN messages' /\ messages'[j] = messages[j]
  BY <1>3, SavedIds
<1>11. \A j \in DOMAIN messages' : j = i \/ (j \in DOMAIN messages /\ messages'[j] = messages[j])
  BY <1>3, SavedIds
<1>12. UsedIds' = UsedIds
  BY <1>8, <1>9
<1>13. StepFrame(c)
  <2>1. \A j \in DOMAIN messages' :
          (j \in DOMAIN messages /\ messages'[j] = messages[j]) \/ (messages'[j].by = c /\ j = chat[c].answer)
    BY <1>1, <1>4, <1>9, <1>11
  <2>2. \A j \in DOMAIN messages :
          (j \in DOMAIN messages' /\ messages'[j] = messages[j]) \/ j = chat[c].answer
    BY <1>1, <1>10
  <2> QED
    BY <1>0, <1>5, <1>6, <1>8, <1>12, <2>1, <2>2 DEF StepFrame
<1>14. OwnIdsInv(c)'
  BY <1>0, <1>1, <1>5, <1>6, <1>8, <1>12 DEF OwnIdsInv, IdsInv
<1>15. MessageInv(c)'
  <2>1. \A j \in DOMAIN messages' : Mine(c, j)' => j = chat'[c].answer
    BY <1>0, <1>1, <1>6, <1>11 DEF MessageInv, Mine
  <2>2. Mine(c, chat[c].answer)' /\ messages'[chat[c].answer].task = chat[c].task
        /\ messages'[chat[c].answer].content = c
    BY <1>1, <1>4, <1>6, <1>9 DEF Mine
  <2>3. told'[c] # "completed" /\ chat'[c].task \in tasks' /\ chat'[c].pc \in Serving
    BY <1>0, <1>5, <1>6, <1>7 DEF MessageInv, Serving
  <2> QED
    BY <1>1, <1>6, <1>9, <2>1, <2>2, <2>3 DEF MessageInv, Mine
<1>16. EndInv(c)'
  BY <1>0, <1>5, <1>6, <1>7 DEF EndInv
<1> QED
  BY <1>13, <1>14, <1>15, <1>16, KeptByStepOf

(* An abandonment removes the answer, or finds none that it may remove.    *)
LEMMA KeptAbandon ==
  ASSUME Inv, KeptInv, deletes = 0, NEW c \in Chats, Counted', Abandon(c) \/ AbandonFails(c)
  PROVE  KeptInv'
<1>0. /\ ChatInv(c) /\ EndInv(c) /\ Shape /\ MessageInv(c) /\ IdsInv(c) /\ Bounded(UsedIds)
      /\ DOMAIN told = Chats /\ faults \in Nat
  BY DEF Inv, AnswerInv, KeptInv, Counted
<1>1. chat[c].pc = "abandon" /\ UNCHANGED <<tasks, lock, deletes>> /\ Abandoned(c)
  BY DEF Abandon, AbandonFails, counters
<1>2. /\ chat'[c].completion = chat[c].completion /\ chat'[c].task = chat[c].task
      /\ chat'[c].answer = chat[c].answer
      /\ chat'[c].pc = IF chat[c].after = "await completion" THEN "await completion" ELSE "end"
      /\ \A d \in Chats \ {c} : chat'[d] = chat[d] /\ told'[d] = told[d]
      /\ told'[c] = told[c] \/ told'[c] = "error"
  <2>1. CASE chat[c].after = "await completion"
    <3>1. chat' = [chat EXCEPT ![c].pc = "await completion"] /\ told' = told
      BY <1>1, <2>1 DEF Abandoned, Go
    <3> QED
      BY <1>0, <2>1, <3>1 DEF Shape, ChatFields
  <2>2. CASE chat[c].after # "await completion"
    <3>1. chat' = [chat EXCEPT ![c].pc = "end"] /\ told' \in {told, [told EXCEPT ![c] = "error"]}
      BY <1>1, <2>2 DEF Abandoned, Go, Tell
    <3> QED
      BY <1>0, <2>2, <3>1 DEF Shape, ChatFields
  <2> QED
    BY <2>1, <2>2
<1>3. Opened(c) /\ ~Saving(c) /\ ~Saving(c)' /\ chat[c].answer \in UsedIds /\ told[c] # "completed"
  BY <1>0, <1>1, <1>2 DEF Opened, Saving, IdsInv, Serving, MessageInv
(* What it may do to the messages.                                         *)
<1>4. /\ UsedIds' = UsedIds
      /\ \A i \in DOMAIN messages' : i \in DOMAIN messages /\ messages'[i] = messages[i]
      /\ \A i \in DOMAIN messages : i \in DOMAIN messages' \/ i = chat[c].answer
      /\ faults' = 0 => faults = 0
      /\ \/ faults' # 0
         \/ chat[c].answer \notin DOMAIN messages'
         \/ /\ messages' = messages
            /\ ~ /\ chat[c].task \in tasks /\ chat[c].answer \in OfTask(chat[c].task)
                 /\ messages[chat[c].answer].role = "assistant"
                 /\ messages[chat[c].answer].content # "" => chat[c].forced
  <2>1. CASE AbandonFails(c)
    <3>1. messages' = messages /\ retired' = retired \cup {chat[c].answer} /\ faults' = faults + 1
      BY <2>1 DEF AbandonFails
    <3>2. faults' # 0
      BY <1>0, <3>1
    <3> QED
      BY <1>3, <3>1, <3>2 DEF UsedIds
  <2>2. CASE Abandon(c)
    <3> DEFINE i == chat[c].answer
               found == /\ chat[c].task \in tasks /\ i \in OfTask(chat[c].task)
                        /\ messages[i].role = "assistant"
                        /\ messages[i].content # "" => chat[c].forced
    <3>1. faults' = faults
      BY <2>2 DEF Abandon, counters
    <3>2. CASE found
      <4>1. retired' = retired \cup {i} /\ messages' = [j \in DOMAIN messages \ {i} |-> messages[j]]
        BY <2>2, <3>2 DEF Abandon
      <4>2. DOMAIN messages' = DOMAIN messages \ {i} /\ i \in DOMAIN messages
        BY <3>2, <4>1 DEF OfTask
      <4>3. UsedIds' = UsedIds
        BY <4>1, <4>2 DEF UsedIds
      <4> QED
        BY <3>1, <4>1, <4>2, <4>3
    <3>3. CASE ~found
      <4>1. retired' = retired /\ messages' = messages
        BY <2>2, <3>3 DEF Abandon
      <4> QED
        BY <3>1, <3>3, <4>1 DEF UsedIds
    <3> QED
      BY <3>2, <3>3
  <2> QED
    BY <2>1, <2>2
<1>5. Opened(c)' => chat'[c].answer = chat[c].answer
  BY <1>2
<1>6. StepFrame(c)
  BY <1>0, <1>1, <1>2, <1>3, <1>4, <1>5 DEF StepFrame
<1>7. OwnIdsInv(c)'
  BY <1>0, <1>1, <1>2, <1>3, <1>4 DEF OwnIdsInv, IdsInv
<1>8. chat'[c].pc \in {"await completion", "end"} /\ told'[c] # "completed"
  BY <1>2, <1>3
<1>9. MessageInv(c)'
  <2>1. \A j \in DOMAIN messages' : Mine(c, j)' => j = chat'[c].answer
    BY <1>0, <1>2, <1>4 DEF MessageInv, Mine
  <2>2. chat[c].answer \in DOMAIN messages' =>
          /\ Mine(c, chat[c].answer)' /\ messages'[chat[c].answer].task = chat[c].task
          /\ messages'[chat[c].answer].content = IF chat[c].completion = "ok" THEN c ELSE ""
    BY <1>0, <1>2, <1>3, <1>4 DEF MessageInv, Mine
  <2>3. chat'[c].task \in tasks'
    BY <1>0, <1>1, <1>2 DEF MessageInv, Serving
  <2> QED
    BY <1>2, <1>8, <2>1, <2>2, <2>3 DEF MessageInv, Mine, Serving
<1>10. EndInv(c)'
  <2>1. chat'[c].pc = "end" => chat'[c].completion \notin {"read", "save"}
    BY <1>0, <1>1, <1>2 DEF EndInv
  <2>2. ASSUME faults' = 0, NEW j \in DOMAIN messages', Mine(c, j)' PROVE FALSE
    <3>1. j = chat[c].answer /\ j \in DOMAIN messages /\ messages[j].role = "assistant"
      BY <1>0, <1>4, <2>2 DEF MessageInv, Mine
    <3>2. messages[j].task = chat[c].task /\ chat[c].task \in tasks
          /\ messages[j].content = (IF chat[c].completion = "ok" THEN c ELSE "")
      BY <1>0, <1>1, <1>3, <3>1 DEF MessageInv, Serving
    <3>3. j \in OfTask(chat[c].task)
      BY <3>1, <3>2 DEF OfTask
    <3>4. messages[j].content # "" => chat[c].forced
      BY <1>0, <1>1, <3>2 DEF EndInv
    <3> QED
      BY <1>4, <2>2, <3>1, <3>2, <3>3, <3>4
  <2> QED
    BY <1>8, <2>1, <2>2 DEF EndInv
<1> QED
  BY <1>6, <1>7, <1>9, <1>10, KeptByStepOf

-----------------------------------------------------------------------------
LEMMA Counts ==
  ASSUME KeptInv, [Next]_vars
  PROVE  Counted' /\ (deletes' = 0 => deletes = 0)
<1>0. deletes \in Nat /\ faults \in Nat /\ DOMAIN told = Chats
  BY DEF KeptInv, Counted
<1>1. CASE UNCHANGED vars
  BY <1>0, <1>1 DEF vars, Counted
<1>2. ASSUME NEW t, DeleteTask(t) PROVE Counted' /\ deletes' # 0
  BY <1>0, <1>2 DEF DeleteTask, Counted
<1>3. ASSUME NEW c \in Chats, Fails(c) PROVE Counted' /\ deletes' = deletes
  <2>1. deletes' = deletes /\ faults' = faults + 1 /\ (told' = told \/ Abandoned(c))
    BY <1>3, Zenon DEF Fails, GenSaveFails, SaveAnswerFails, AbandonFails, StartFails
  <2>2. DOMAIN told' = Chats
    BY <1>0, <2>1 DEF Abandoned, Tell
  <2> QED
    BY <1>0, <2>1, <2>2 DEF Counted
<1>4. ASSUME NEW c \in Chats, Asks(c) \/ Generates(c) \/ Disconnect(c) PROVE Counted' /\ deletes' = deletes
  <2>1. UNCHANGED <<deletes, faults, told>>
    BY <1>4, Zenon DEF Asks, AskInProject, AskWithoutProject, Generates, SaveStartedRun, YieldDelta,
       ReadResult, ReadCancelled, SaveEndedRun, SaveRunEvents, Disconnect, counters
  <2> QED
    BY <1>0, <2>1 DEF Counted
<1>5. ASSUME NEW c \in Chats, Serves(c) PROVE Counted' /\ deletes' = deletes
  <2>1. CASE AppendQuestion(c) \/ Abandon(c) \/ Completed(c)
    <3>1. deletes' = deletes /\ faults' = faults /\ DOMAIN told' = Chats
      <4>1. CASE AppendQuestion(c)
        BY <1>0, <4>1 DEF AppendQuestion, Tell, counters
      <4>2. CASE Abandon(c)
        BY <1>0, <4>2 DEF Abandon, Abandoned, Tell, counters
      <4>3. CASE Completed(c)
        BY <1>0, <4>3 DEF Completed, Tell, counters
      <4> QED
        BY <2>1, <4>1, <4>2, <4>3
    <3> QED
      BY <1>0, <3>1 DEF Counted
  <2>2. CASE ~(AppendQuestion(c) \/ Abandon(c) \/ Completed(c))
    <3>1. UNCHANGED <<deletes, faults, told>>
      BY <1>5, <2>2, Zenon DEF Serves, EnsureTask, StartStream, RunText, RefuseStream, OpenThread, SaveTask,
         SaveQuestion, SaveEmptyAnswer, LeaveStream, StreamThrew, StreamDone, ReadForCompletion, SaveAnswer,
         LeaveCompletion, AwaitCompletion, counters
    <3> QED
      BY <1>0, <3>1 DEF Counted
  <2> QED
    BY <2>1, <2>2
<1> QED
  BY <1>1, <1>2, <1>3, <1>4, <1>5 DEF Next

LEMMA InitKept == Init => KeptInv
<1> SUFFICES ASSUME Init PROVE KeptInv
  OBVIOUS
<1>1. Counted /\ Bounded(UsedIds)
  <2>0. Earlier \in Nat
    <3>1. Earlier \in 1..90
      BY ChatAssumption, Zenon
    <3> QED
      BY <3>1
  <2>1. UsedIds = {Earlier}
    BY DEF Init, UsedIds
  <2>2. Bounded(UsedIds)
    BY <2>0, <2>1 DEF Bounded
  <2> QED
    BY <2>2 DEF Init, Counted
<1>2. ASSUME NEW c \in Chats PROVE IdsInv(c) /\ EndInv(c)
  BY ChatAssumption DEF Init, NoChat, IdsInv, EndInv, Saving, Opened, Serving
<1>3. ASSUME NEW c \in Chats PROVE MessageInv(c)
  BY ChatAssumption DEF Init, NoChat, MessageInv, Mine, Opened, Serving
<1> QED
  BY <1>1, <1>2, <1>3 DEF KeptInv

LEMMA StepKept == Inv /\ KeptInv /\ [Next]_vars => KeptInv'
<1> SUFFICES ASSUME Inv, KeptInv, [Next]_vars PROVE KeptInv'
  OBVIOUS
<1>0. Counted' /\ (deletes' = 0 => deletes = 0)
  BY Counts
<1>1. CASE deletes' # 0
  BY <1>0, <1>1 DEF KeptInv
<1>2. CASE deletes' = 0
  <2>0. deletes = 0 /\ Counted'
    BY <1>0, <1>2
  <2>1. CASE UNCHANGED vars
    <3>1. UNCHANGED <<tasks, messages, retired, lock, chat, told, deletes, faults>>
      BY <2>1 DEF vars
    <3>2. UsedIds' = UsedIds
      BY <3>1 DEF UsedIds
    <3>3. ASSUME NEW c \in Chats, IdsInv(c) PROVE IdsInv(c)'
      BY <3>1, <3>2, <3>3 DEF IdsInv, Saving, Opened
    <3>4. ASSUME NEW c \in Chats, MessageInv(c) PROVE MessageInv(c)'
      BY <3>1, <3>4 DEF MessageInv, Mine, Opened
    <3>5. ASSUME NEW c \in Chats, EndInv(c) PROVE EndInv(c)'
      BY <3>1, <3>5 DEF EndInv, Mine
    <3> QED
      BY <2>0, <3>2, <3>3, <3>4, <3>5 DEF KeptInv
  <2>2. ASSUME NEW t, DeleteTask(t) PROVE KeptInv'
    BY <1>2, <2>0, <2>2 DEF DeleteTask
  <2>3. ASSUME NEW c \in Chats, Asks(c) \/ Generates(c) \/ Serves(c) \/ Fails(c) \/ Disconnect(c)
        PROVE  KeptInv'
    BY <2>0, <2>3, KeptEarly, KeptSilently, KeptServing, KeptOpen, KeptSaving, KeptAnswer, KeptAbandon
       DEF Asks, Serves, Fails
  <2> QED
    BY <2>1, <2>2, <2>3 DEF Next
<1> QED
  BY <1>1, <1>2

THEOREM KeptInvariance == Spec => []KeptInv
<1>1. Init => KeptInv
  BY InitKept
<1>2. Inv /\ KeptInv /\ [Next]_vars => KeptInv'
  BY StepKept
<1> QED
  BY <1>1, <1>2, AnswersInvariance, PTL DEF Spec

(* In every run in which no task is deleted, whatever fails and whoever    *)
(* goes away, an answer the client was told of is stored, with what it was *)
(* told (ToldAnswersStay).                                                 *)
THEOREM ToldAnswersAreKept == Spec => []ToldAnswersStay
<1>1. KeptInv => ToldAnswersStay
  BY DEF KeptInv, ToldAnswersStay, MessageInv, Mine, Opened
<1> QED
  BY <1>1, KeptInvariance, PTL

(* In every run in which no task is deleted and no save fails, a request   *)
(* that has ended leaves no answer its client was not told of              *)
(* (NothingAbandonedLeft).                                                 *)
THEOREM NothingAbandonedIsLeft == Spec => []NothingAbandonedLeft
<1>1. KeptInv => NothingAbandonedLeft
  BY DEF KeptInv, NothingAbandonedLeft, Ended, EndInv, Mine
<1> QED
  BY <1>1, KeptInvariance, PTL
=============================================================================
