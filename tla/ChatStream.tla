----------------------------- MODULE ChatStream -----------------------------
(***************************************************************************)
(* Chats that stream their answer: the route (apps/web/src/app/api/chat/   *)
(* stream/route.ts), the store behind it (apps/web/src/lib/workbench-      *)
(* store.ts) and the generator of the API that reads the provider          *)
(* (packages/api/src/index.ts).  The store saves the question and an empty *)
(* answer, the route fills or abandons the answer, the client may go away  *)
(* at any moment, other chats and deletions of tasks run at the same time. *)
(*                                                                         *)
(* Content is "" or the chat whose text it is.  Messages saved by one call *)
(* have the same time; equal times are listed in the order of the ids as   *)
(* strings.                                                                *)
(***************************************************************************)
EXTENDS Naturals, FiniteSets, FiniteSetsExt

CONSTANTS
  Chats,       \* requests
  Earlier,     \* the number of the last message of an earlier chat, in task 1
  None,
  MaxDeletes,  \* bound on deleted tasks
  MaxFaults    \* bound on failing saves and deletions

ASSUME ChatAssumption ==
  /\ Chats \cap {None, ""} = {}
  /\ Earlier \in 1..90 /\ MaxDeletes \in Nat /\ MaxFaults \in Nat

VARIABLES
  tasks,     \* stored tasks
  messages,  \* stored messages: id -> [task, role, content, by, time]
  retired,   \* repositoryRetiredMessageIds
  lock,      \* the chat in the task lock
  chat,      \* the requests
  gen,       \* their generators
  run,       \* their runs
  told,      \* the last event the client has received
  deletes, faults

vars == <<tasks, messages, retired, lock, chat, gen, run, told, deletes, faults>>
store == <<tasks, messages, retired>>
counters == <<deletes, faults>>

-----------------------------------------------------------------------------
NoChat == [pc |-> "idle", task |-> 0, question |-> 0, answer |-> 0, text |-> FALSE,
           closed |-> FALSE, forced |-> FALSE, after |-> "nothing", completion |-> "none", time |-> 0]
NoGen == [pc |-> "none", result |-> None, attempt |-> 0, cancelled |-> FALSE]

MaxTime == Max({messages[i].time : i \in DOMAIN messages} \cup {0})

(* localeCompare of "message_i" and "message_j", up to 99.                 *)
StringOrder(i) == IF i < 10 THEN i * 11 ELSE (i \div 10) * 11 + 1 + (i % 10)
Before(i, j) ==
  \/ messages[i].time < messages[j].time
  \/ messages[i].time = messages[j].time /\ StringOrder(i) < StringOrder(j)

OfTask(t) == {i \in DOMAIN messages : messages[i].task = t}
IsLatest(i) == \A j \in OfTask(messages[i].task) \ {i} : Before(j, i)

(* nextRepositoryMessageId.                                                *)
NextMessage(used) == Max(DOMAIN messages \cup retired \cup used \cup {0}) + 1
NextTask == Max(tasks \cup {0}) + 1

(* messages.save.                                                          *)
Saved(i, message) == [j \in DOMAIN messages \cup {i} |-> IF j = i THEN message ELSE messages[j]]

Go(c, pc) == chat' = [chat EXCEPT ![c].pc = pc]
Tell(c, event) == told' = IF chat[c].closed THEN told ELSE [told EXCEPT ![c] = event]
(* Mutant: the lock is not released.                                       *)
MutUnlock(c) == lock' = lock
Unlock(c) == lock' = IF lock = c THEN None ELSE lock

-----------------------------------------------------------------------------
(* startStreamingChatPrompt, for a new task (0) or a stored one.           *)
AskInProject(c, t) ==
  /\ chat[c].pc = "idle" /\ t \in tasks \cup {0}
  /\ chat' = [chat EXCEPT ![c] = [@ EXCEPT !.pc = "ensure", !.task = t]]
  /\ UNCHANGED <<store, lock, gen, run, told, counters>>

(* Without a project the answer is a fixed text.                           *)
AskWithoutProject(c, t) ==
  /\ chat[c].pc = "idle" /\ t \in tasks \cup {0}
  /\ chat' = [chat EXCEPT ![c] = [@ EXCEPT !.pc = "thread", !.task = t, !.text = TRUE]]
  /\ UNCHANGED <<store, lock, gen, run, told, counters>>

(* getOrCreateStreamingChatTask.                                           *)
TaskFor(c) == IF chat[c].task \in tasks THEN chat[c].task ELSE NextTask

EnsureTask(c) ==
  /\ chat[c].pc = "ensure" /\ lock = None
  /\ tasks' = tasks \cup {TaskFor(c)}
  /\ chat' = [chat EXCEPT ![c] = [@ EXCEPT !.pc = "run", !.task = TaskFor(c)]]
  /\ UNCHANGED <<messages, retired, lock, gen, run, told, counters>>

(* runAssistantChatStream: a stream, the text of a run that has ended, or  *)
(* an error.                                                               *)
StartStream(c) ==
  /\ chat[c].pc = "run" /\ chat[c].task \in tasks
  /\ gen' = [gen EXCEPT ![c].pc = "start"]
  /\ Go(c, "thread")
  /\ UNCHANGED <<store, lock, run, told, counters>>

RunText(c) ==
  /\ chat[c].pc = "run" /\ chat[c].task \in tasks
  /\ run' = [run EXCEPT ![c] = "completed"]
  /\ chat' = [chat EXCEPT ![c] = [@ EXCEPT !.pc = "thread", !.text = TRUE]]
  /\ UNCHANGED <<store, lock, gen, told, counters>>

RefuseStream(c) ==
  /\ chat[c].pc = "run"
  /\ Go(c, "append")
  /\ UNCHANGED <<store, lock, gen, run, told, counters>>

(* appendStreamingChatUserMessage; the task need not exist any more.       *)
AppendQuestion(c) ==
  /\ chat[c].pc = "append" /\ lock = None
  /\ messages' = Saved(NextMessage({}), [task |-> chat[c].task, role |-> "user", content |-> c, by |-> c,
                                         time |-> MaxTime + 1])
  /\ Tell(c, "error") /\ Go(c, "end")
  /\ UNCHANGED <<tasks, retired, lock, gen, run, counters>>

(* startStreamingChatThread: reads, then three saves under the lock.       *)
(* Mutant: it does not take the lock.                                      *)
MutOpenThread(c) ==
  LET q == NextMessage({})
  IN /\ chat[c].pc = "thread"
     /\ chat' = [chat EXCEPT ![c] = [@ EXCEPT !.pc = "save task", !.task = TaskFor(c), !.question = q,
                                              !.answer = NextMessage({q}), !.time = MaxTime + 1]]
     /\ UNCHANGED <<store, lock, gen, run, told, counters>>
OpenThread(c) ==
  LET q == NextMessage({})
  IN /\ chat[c].pc = "thread" /\ lock = None
     /\ lock' = c
     /\ chat' = [chat EXCEPT ![c] = [@ EXCEPT !.pc = "save task", !.task = TaskFor(c), !.question = q,
                                              !.answer = NextMessage({q}), !.time = MaxTime + 1]]
     /\ UNCHANGED <<store, gen, run, told, counters>>

SaveTask(c) ==
  /\ chat[c].pc = "save task"
  /\ tasks' = tasks \cup {chat[c].task}
  /\ Go(c, "save question")
  /\ UNCHANGED <<messages, retired, lock, gen, run, told, counters>>

SaveQuestion(c) ==
  /\ chat[c].pc = "save question"
  /\ messages' = Saved(chat[c].question, [task |-> chat[c].task, role |-> "user", content |-> c, by |-> c,
                                          time |-> chat[c].time])
  /\ Go(c, "save answer")
  /\ UNCHANGED <<tasks, retired, lock, gen, run, told, counters>>

SaveEmptyAnswer(c) ==
  /\ chat[c].pc = "save answer"
  /\ messages' = Saved(chat[c].answer, [task |-> chat[c].task, role |-> "assistant", content |-> "",
                                        by |-> c, time |-> chat[c].time])
  /\ Go(c, "stream") /\ Unlock(c)
  /\ UNCHANGED <<tasks, retired, gen, run, told, counters>>

-----------------------------------------------------------------------------
(* streamAssistantChatDeltas, once the route asks for the first delta.     *)
SaveStartedRun(c) ==
  /\ gen[c].pc = "start" /\ chat[c].pc = "stream"
  /\ run' = [run EXCEPT ![c] = "running"]
  /\ gen' = [gen EXCEPT ![c].pc = "wait"]
  /\ UNCHANGED <<store, lock, chat, told, counters>>

Persist(c, result, attempt) ==
  gen' = [gen EXCEPT ![c] = [@ EXCEPT !.pc = "persist", !.result = result, !.attempt = attempt]]

(* A delta is yielded; where the route has left, return() is in the queue  *)
(* and the finally block records a cancelled run.                          *)
YieldDelta(c) ==
  /\ gen[c].pc = "wait" /\ ~chat[c].text
  /\ IF gen[c].cancelled
     THEN Persist(c, "cancelled", 3) /\ chat' = chat
     ELSE /\ chat' = [chat EXCEPT ![c].text = TRUE]
          /\ gen' = gen
  /\ UNCHANGED <<store, lock, run, told, counters>>

(* The result of the runtime, or a stream that stops or throws.            *)
ReadResult(c) ==
  /\ gen[c].pc = "wait"
  /\ \E result \in {"completed", "failed"} : Persist(c, result, 1)
  /\ UNCHANGED <<store, lock, chat, run, told, counters>>

ReadCancelled(c) ==
  /\ gen[c].pc = "wait" /\ gen[c].cancelled
  /\ Persist(c, "cancelled", 1)
  /\ UNCHANGED <<store, lock, chat, run, told, counters>>

(* persistStreamingAssistantRun: the run, then its events.                 *)
(* Mutant: the run is not saved again.                                     *)
MutSaveEndedRun(c) ==
  /\ gen[c].pc = "persist"
  /\ gen' = [gen EXCEPT ![c].pc = "events"]
  /\ UNCHANGED <<store, lock, chat, run, told, counters>>
SaveEndedRun(c) ==
  /\ gen[c].pc = "persist"
  /\ run' = [run EXCEPT ![c] = gen[c].result]
  /\ gen' = [gen EXCEPT ![c].pc = "events"]
  /\ UNCHANGED <<store, lock, chat, told, counters>>

SaveRunEvents(c) ==
  /\ gen[c].pc = "events"
  /\ gen' = [gen EXCEPT ![c].pc = IF gen[c].result = "completed" THEN "done" ELSE "threw"]
  /\ UNCHANGED <<store, lock, chat, run, told, counters>>

(* A save that fails: the catch block records a failure, and where that    *)
(* fails the finally block a cancellation.                                 *)
GenSaveFails(c) ==
  /\ faults < MaxFaults /\ faults' = faults + 1
  /\ \/ gen[c].pc = "start" /\ chat[c].pc = "stream" /\ Persist(c, "failed", 2)
     \/ /\ gen[c].pc \in {"persist", "events"}
        /\ CASE gen[c].attempt = 1 -> Persist(c, "failed", 2)
             [] gen[c].attempt = 2 -> Persist(c, "cancelled", 3)
             [] OTHER -> gen' = [gen EXCEPT ![c].pc = "threw"]
  /\ UNCHANGED <<store, lock, chat, run, told, deletes>>

-----------------------------------------------------------------------------
(* The route.                                                              *)
Abandoning(c, forced, after) ==
  chat' = [chat EXCEPT ![c] = [@ EXCEPT !.pc = "abandon", !.forced = forced, !.after = after]]

(* The client goes away: enqueue does nothing from now on.                 *)
Disconnect(c) ==
  /\ chat[c].pc \in {"stream", "complete", "abandon"} /\ ~chat[c].closed
  /\ chat' = [chat EXCEPT ![c].closed = TRUE]
  /\ UNCHANGED <<store, lock, gen, run, told, counters>>

(* The route sees that while it waits for a delta, after one, or after the *)
(* last: the generator is cancelled where it is.                           *)
LeaveStream(c) ==
  /\ chat[c].pc = "stream" /\ chat[c].closed
  /\ \/ gen' = [gen EXCEPT ![c].cancelled = TRUE]
     \/ gen[c].pc = "wait" /\ chat[c].text /\ Persist(c, "cancelled", 3)
  /\ Abandoning(c, FALSE, "nothing")
  /\ UNCHANGED <<store, lock, run, told, counters>>

StreamThrew(c) ==
  /\ chat[c].pc = "stream" /\ gen[c].pc = "threw"
  /\ Abandoning(c, FALSE, "error")
  /\ UNCHANGED <<store, lock, gen, run, told, counters>>

StreamDone(c) ==
  /\ chat[c].pc = "stream" /\ gen[c].pc \in {"none", "done"} /\ ~chat[c].closed
  /\ IF chat[c].text THEN chat' = [chat EXCEPT ![c] = [@ EXCEPT !.pc = "complete", !.completion = "read"]]
     ELSE Abandoning(c, FALSE, "error")
  /\ UNCHANGED <<store, lock, gen, run, told, counters>>

(* completeStreamingChatPrompt: no lock between what it reads and the save.*)
Fillable(c) ==
  /\ chat[c].task \in tasks /\ chat[c].answer \in OfTask(chat[c].task)
  /\ messages[chat[c].answer].role = "assistant" /\ messages[chat[c].answer].content = ""
  /\ IsLatest(chat[c].answer)

ReadForCompletion(c) ==
  /\ chat[c].completion = "read"
  /\ chat' = [chat EXCEPT ![c] = [@ EXCEPT !.completion = IF Fillable(c) THEN "save" ELSE "no",
                                           !.time = IF Fillable(c) THEN messages[chat[c].answer].time ELSE chat[c].time]]
  /\ UNCHANGED <<store, lock, gen, run, told, counters>>

SaveAnswer(c) ==
  /\ chat[c].completion = "save"
  /\ messages' = Saved(chat[c].answer, [task |-> chat[c].task, role |-> "assistant", content |-> c,
                                        by |-> c, time |-> chat[c].time])
  /\ chat' = [chat EXCEPT ![c].completion = "ok"]
  /\ UNCHANGED <<tasks, retired, lock, gen, run, told, counters>>

SaveAnswerFails(c) ==
  /\ faults < MaxFaults /\ faults' = faults + 1
  /\ chat[c].completion = "save"
  /\ chat' = [chat EXCEPT ![c].completion = "failed"]
  /\ UNCHANGED <<store, lock, gen, run, told, deletes>>

(* The race of the completion and the client's going away.                 *)
Completed(c) ==
  /\ chat[c].pc = "complete"
  /\ CASE chat[c].completion = "failed" -> Abandoning(c, FALSE, "error") /\ told' = told
       [] chat[c].completion = "ok" /\ ~chat[c].closed -> Go(c, "end") /\ Tell(c, "completed")
       [] chat[c].completion = "no" /\ ~chat[c].closed -> Abandoning(c, FALSE, "error") /\ told' = told
       [] chat[c].completion \in {"ok", "no"} /\ chat[c].closed ->
            Abandoning(c, TRUE, "nothing") /\ told' = told
       [] OTHER -> FALSE
  /\ UNCHANGED <<store, lock, gen, run, counters>>

LeaveCompletion(c) ==
  /\ chat[c].pc = "complete" /\ chat[c].closed
  /\ Abandoning(c, TRUE, "await completion")
  /\ UNCHANGED <<store, lock, gen, run, told, counters>>

(* The abandonment after a cancelled completion is repeated when the       *)
(* completion has ended.                                                   *)
(* Mutant: it is not.                                                      *)
MutAwaitCompletion(c) ==
  /\ chat[c].pc = "await completion" /\ chat[c].completion \in {"ok", "no", "failed"}
  /\ Go(c, "end")
  /\ UNCHANGED <<store, lock, gen, run, told, counters>>
AwaitCompletion(c) ==
  /\ chat[c].pc = "await completion" /\ chat[c].completion \in {"ok", "no", "failed"}
  /\ Abandoning(c, TRUE, "nothing")
  /\ UNCHANGED <<store, lock, gen, run, told, counters>>

Abandoned(c) ==
  IF chat[c].after = "await completion" THEN Go(c, "await completion") /\ told' = told
  ELSE /\ Go(c, "end")
       /\ IF chat[c].after = "error" THEN Tell(c, "error") ELSE told' = told

(* abandonStreamingChatPrompt, under the task lock.                        *)
Abandon(c) ==
  LET i == chat[c].answer
      found == /\ chat[c].task \in tasks /\ i \in OfTask(chat[c].task)
               /\ messages[i].role = "assistant"
               /\ messages[i].content # "" => chat[c].forced
  IN /\ chat[c].pc = "abandon" /\ lock = None
     /\ IF found
        THEN /\ retired' = retired \cup {i}
             /\ messages' = [j \in DOMAIN messages \ {i} |-> messages[j]]
        ELSE UNCHANGED <<retired, messages>>
     /\ Abandoned(c)
     /\ UNCHANGED <<tasks, lock, gen, run, counters>>

(* Cleanup is best effort.                                                 *)
AbandonFails(c) ==
  /\ faults < MaxFaults /\ faults' = faults + 1
  /\ chat[c].pc = "abandon" /\ lock = None
  /\ retired' = retired \cup {chat[c].answer}
  /\ Abandoned(c)
  /\ UNCHANGED <<tasks, messages, lock, gen, run, deletes>>

(* A save before the stream fails: the request ends with an error, and a   *)
(* generator that has not been asked for a delta never runs.               *)
StartFails(c) ==
  /\ faults < MaxFaults /\ faults' = faults + 1
  /\ chat[c].pc \in {"ensure", "append", "save task", "save question", "save answer"}
  /\ Go(c, "end") /\ Unlock(c)
  /\ UNCHANGED <<store, gen, run, told, deletes>>

DeleteTask(t) ==
  /\ deletes < MaxDeletes /\ t \in tasks
  /\ deletes' = deletes + 1
  /\ tasks' = tasks \ {t}
  /\ messages' = [i \in DOMAIN messages \ OfTask(t) |-> messages[i]]
  /\ UNCHANGED <<retired, lock, chat, gen, run, told, faults>>

-----------------------------------------------------------------------------
Init ==
  /\ tasks = {1}
  /\ messages = [i \in {Earlier} |-> [task |-> 1, role |-> "assistant", content |-> None, by |-> None,
                                      time |-> 1]]
  /\ retired = {} /\ lock = None
  /\ chat = [c \in Chats |-> NoChat] /\ gen = [c \in Chats |-> NoGen]
  /\ run = [c \in Chats |-> "none"] /\ told = [c \in Chats |-> "nothing"]
  /\ deletes = 0 /\ faults = 0

Asks(c) == \E t \in tasks \cup {0} : AskInProject(c, t) \/ AskWithoutProject(c, t)

Generates(c) ==
  \/ SaveStartedRun(c) \/ YieldDelta(c) \/ ReadResult(c) \/ ReadCancelled(c)
  \/ SaveEndedRun(c) \/ SaveRunEvents(c)

Serves(c) ==
  \/ EnsureTask(c) \/ StartStream(c) \/ RunText(c) \/ RefuseStream(c) \/ AppendQuestion(c)
  \/ OpenThread(c) \/ SaveTask(c) \/ SaveQuestion(c) \/ SaveEmptyAnswer(c)
  \/ LeaveStream(c) \/ StreamThrew(c) \/ StreamDone(c)
  \/ ReadForCompletion(c) \/ SaveAnswer(c) \/ Completed(c) \/ LeaveCompletion(c)
  \/ AwaitCompletion(c) \/ Abandon(c)

Fails(c) == GenSaveFails(c) \/ SaveAnswerFails(c) \/ AbandonFails(c) \/ StartFails(c)

Next ==
  \/ \E c \in Chats : Asks(c) \/ Generates(c) \/ Serves(c) \/ Fails(c) \/ Disconnect(c)
  \/ \E t \in tasks : DeleteTask(t)

Spec == Init /\ [][Next]_vars

(* The event loop goes on and the provider answers or times out.  Nothing  *)
(* is assumed of clients and saves.                                        *)
FairSpec == Spec /\ \A c \in Chats : WF_vars(Generates(c)) /\ WF_vars(Serves(c))

-----------------------------------------------------------------------------
RunStates == {"none", "running", "completed", "failed", "cancelled"}

(* Type invariant.                                                         *)
TypeOK ==
  /\ tasks \subseteq Nat \ {0}
  /\ \A i \in DOMAIN messages :
       /\ messages[i].role \in {"user", "assistant"}
       /\ messages[i].content \in Chats \cup {"", None} /\ messages[i].by \in Chats \cup {None}
  /\ retired \subseteq Nat \ {0}
  /\ lock \in Chats \cup {None}
  /\ run \in [Chats -> RunStates]
  /\ told \in [Chats -> {"nothing", "completed", "error"}]
  /\ faults \in 0..MaxFaults /\ deletes \in 0..MaxDeletes

(* A client that was told of the completion finds the answer when it       *)
(* reloads.                                                                *)
ToldAnswersStay ==
  deletes = 0 =>
    \A c \in Chats : told[c] = "completed" =>
      /\ chat[c].answer \in DOMAIN messages
      /\ messages[chat[c].answer].content = c /\ messages[chat[c].answer].by = c

(* When everything a chat began has ended it leaves no empty answer, and   *)
(* no answer at all of a client that went away, unless the deletion of it  *)
(* failed.                                                                 *)
Ended(c) == chat[c].pc = "end" /\ chat[c].completion \notin {"read", "save"}
NothingAbandonedLeft ==
  deletes = 0 /\ faults = 0 =>
    \A c \in Chats : Ended(c) =>
      \A i \in DOMAIN messages :
        messages[i].by = c /\ messages[i].role = "assistant" => told[c] = "completed"

(* A stored answer of a stream has a completed run, whatever fails.        *)
AnswerHasRun ==
  \A c \in Chats : \A i \in DOMAIN messages :
    messages[i].by = c /\ messages[i].role = "assistant" /\ messages[i].content = c /\ gen[c].pc # "none"
      => run[c] = "completed"

(* The inductive invariant behind it: the completion is begun only when    *)
(* the generator, if there is one, has stored a completed run; from then   *)
(* on neither of the two moves, and no other call makes an answer of c.    *)
Streamed(c) == gen[c].pc = "none" \/ (gen[c].pc = "done" /\ run[c] = "completed")
ChatInv(c) ==
  /\ chat[c].pc \in {"idle", "ensure", "run"} => gen[c].pc = "none"
  /\ chat[c].completion # "none" =>
       Streamed(c) /\ chat[c].pc \in {"complete", "abandon", "await completion", "end"}
  /\ gen[c].pc = "events" => run[c] = gen[c].result
  /\ gen[c].pc = "done" => run[c] = "completed"
Own(c) ==
  \A i \in DOMAIN messages :
    messages[i].by = c /\ messages[i].role = "assistant" /\ messages[i].content = c
      => Streamed(c) /\ chat[c].completion = "ok"
AnswerInv == \A c \in Chats : ChatInv(c) /\ Own(c)

(* Every request comes to an end.                                          *)
EveryChatEnds == \A c \in Chats : chat[c].pc # "idle" ~> Ended(c)

(* What the chat design says of the path without errors: the route saves   *)
(* the final answer.  One chat, no failing save, no deletion, a client     *)
(* that stays.                                                             *)
AnswerIsSaved ==
  \A c \in Chats :
    /\ Chats = {c} /\ deletes = 0 /\ faults = 0 /\ ~chat[c].closed
    /\ gen[c].pc \in {"none", "done"} /\ chat[c].text /\ Ended(c) /\ run[c] # "failed"
    => told[c] = "completed"
=============================================================================
