----------------------------- MODULE ModelStream -----------------------------
(***************************************************************************)
(* One run of the runtime adapter (packages/runtime-adapters/src/index.ts) *)
(* through the model gateway (packages/model-gateway/src): the route, the  *)
(* request to the provider, its timers (stream-timeouts.ts), the stream of *)
(* frames or the single JSON answer, the retry, and the consumer that      *)
(* takes the deltas and may go away.  The output of a planner or builder   *)
(* run with structured output is parsed and repaired once by a second call *)
(* of the adapter (packages/api/src/index.ts).                             *)
(*                                                                         *)
(* The two protocols (openai-completions.ts, anthropic-messages.ts) have   *)
(* the same control and differ in the payloads, of which the model keeps   *)
(* whether they parse, whether their text is blank and which token counts  *)
(* they carry.  No clock: an armed timer may fire at any moment.  The      *)
(* generator is a sequential program that stops at a request, at a read    *)
(* and at a delta the consumer holds.                                      *)
(***************************************************************************)
EXTENDS Naturals, Sequences

CONSTANTS
  MaxAttempts,  \* maxModelProviderAttempts
  MaxFrames,    \* bound on the frames of one chunk
  MaxText       \* bound on the deltas of one attempt

ASSUME ModelStreamAssumption ==
  MaxAttempts \in Nat \ {0} /\ MaxFrames \in Nat /\ MaxText \in Nat

Modes == {"stream", "complete"}
Roles == {"assistant", "planner", "builder", "reviewer"}

(* A frame of the stream: a delta with text or with blanks only, one that  *)
(* carries token counts, one that carries neither ([DONE], ping), one that *)
(* does not parse.                                                         *)
Deltas == {"text", "blank"}
OpenAIFrames == Deltas \cup {"usage", "meta", "bad"}
AnthropicFrames == Deltas \cup {"message_start", "message_delta", "meta", "bad"}
Frames == OpenAIFrames \cup AnthropicFrames
Providers == {"openai", "anthropic"}
FramesOf(p) == IF p = "openai" THEN OpenAIFrames ELSE AnthropicFrames

(* The token counts a frame carries.                                       *)
Input == {"usage", "message_start"}
Output == {"usage", "message_start", "message_delta"}

(* The errors, by what the adapter does about them; "other" is one that no *)
(* model provider error describes.                                         *)
Errors == {"config", "http_busy", "http_refused", "timeout", "failed", "json", "shape", "other"}
Retryable == {"http_busy", "timeout", "failed", "json"}
ProviderErrors == Errors \ {"other"}

Timers == {"first_byte", "idle", "max_duration", "request"}

VARIABLES
  role, fallback,  \* the role of the run, whether its route has a fallback
  api,        \* the protocol of its route
  structured, \* its output is parsed
  stage,      \* the first call of the adapter or the repair
  mode,       \* stream or run of the adapter
  pc,        \* where the generator is
  attempt,
  armed,     \* timers that will fire
  activity,  \* the timer that activityTimeout refers to
  aborted,   \* why the signal of the attempt is aborted
  chunks,    \* whether a chunk of the attempt has arrived
  buffer,    \* frames that are read but not processed
  rest,      \* the buffer ends with a piece of a frame
  ended,     \* the provider has no more to send
  sse,       \* the answer is an event stream
  text,      \* deltas of the attempt
  usage,     \* the attempts that reported input and output tokens, 0 for none
  told,      \* deltas the consumer has got of this call: [attempt, delta]
  error,     \* why the attempt failed
  events,    \* how many events of each type the run has
  last,      \* the type of the last one
  result,    \* its state
  cancelled, \* the consumer has returned
  kept,      \* the events before the repair
  output,    \* how its output was had
  calls      \* attempts that have begun

call == <<role, fallback, api, structured, stage, mode, kept, output>>
timers == <<armed, activity, aborted>>
reading == <<chunks, buffer, rest, ended, sse, text, usage>>
outcome == <<error, events, last, result>>
vars == <<call, pc, attempt, timers, reading, told, outcome, cancelled, calls>>

-----------------------------------------------------------------------------
NoUsage == [input |-> 0, output |-> 0]

(* scheduleActivityTimeout: the old timer goes, the new one comes.         *)
\* Mutant: the old timer is not cleared.
MutSchedule(t) == armed' = armed \cup {t} /\ activity' = t
Schedule(t) == armed' = (armed \ {activity}) \cup {t} /\ activity' = t

\* Mutant: a stream without a limit on its whole duration.
MutArm(m) ==
  /\ armed' = IF m = "stream" THEN {"first_byte"} ELSE {"request"}
  /\ activity' = IF m = "stream" THEN "first_byte" ELSE "none"
  /\ aborted' = "none"
Arm(m) ==
  /\ armed' = IF m = "stream" THEN {"first_byte", "max_duration"} ELSE {"request"}
  /\ activity' = IF m = "stream" THEN "first_byte" ELSE "none"
  /\ aborted' = "none"

(* clear() and clearTimeout in the finally blocks.                         *)
Cleared == armed \ {activity, "max_duration", "request"}

markProgress == IF aborted = "none" THEN Schedule("idle") ELSE UNCHANGED <<armed, activity>>

Quiet == aborted = "none"

EventTypes ==
  {"run.started", "model.retry.scheduled", "model.retry.exhausted", "model.fallback.available",
   "model.fallback.not_configured", "model.completed", "artifact.created", "review.completed",
   "run.completed", "run.failed", "model.output.parsed", "model.output.parse_failed",
   "model.output.repair_started", "model.output.repaired", "model.output.repair_failed",
   "model.output.fallback_used"}

(* Events are counted by type, a filter of them is a filter of the types.  *)
NoEvents == [e \in EventTypes |-> 0]
Filtered(bag, types) == [e \in EventTypes |-> IF e \in types THEN bag[e] ELSE 0]
Plus(bag, types) == [e \in EventTypes |-> bag[e] + (IF e \in types THEN 1 ELSE 0)]

(* One event of each type, the last of which is e.                         *)
Emit(types, e) == events' = Plus(events, types \cup {e}) /\ last' = e
Fail(e) ==
  /\ pc' = "failed" /\ error' = e /\ armed' = Cleared
  /\ UNCHANGED <<call, attempt, activity, aborted, reading, told, events, last, result, cancelled, calls>>

-----------------------------------------------------------------------------
Init ==
  /\ role \in Roles /\ fallback \in BOOLEAN /\ api \in Providers /\ mode \in Modes
  /\ structured \in IF role \in {"planner", "builder"} THEN BOOLEAN ELSE {FALSE}
  /\ stage = "first" /\ kept = NoEvents /\ output = "none" /\ calls = 1
  /\ pc = "route" /\ attempt = 1
  /\ armed = {} /\ activity = "none" /\ aborted = "none"
  /\ chunks = FALSE /\ buffer = <<>> /\ rest = FALSE /\ ended = FALSE /\ sse = FALSE
  /\ text = <<>> /\ usage = NoUsage /\ told = <<>>
  /\ error = "none" /\ events = Plus(NoEvents, {"run.started"}) /\ last = "run.started" /\ result = "none"
  /\ cancelled = FALSE

(* selectRouteAndRecordAudit: a role without a route is no provider error. *)
NoRoute == pc = "route" /\ Fail("other")

(* resolveProviderRoute and the checks of base URL, key and fetch.         *)
NotConfigured == pc = "route" /\ Fail("config")

\* Mutant: the text of the failed attempt is kept.
MutFresh == chunks' = FALSE /\ rest' = FALSE /\ usage' = NoUsage /\ UNCHANGED text
Fresh == chunks' = FALSE /\ rest' = FALSE /\ usage' = NoUsage /\ text' = <<>>

(* createMockModelResponse and createMockModelStream: an answer at once.   *)
MockRoute ==
  /\ pc = "route" /\ pc' = "frames"
  /\ Fresh /\ buffer' = <<"text", "text">> /\ ended' = TRUE /\ sse' = FALSE
  /\ UNCHANGED <<call, attempt, timers, told, outcome, cancelled, calls>>

(* The timers run and the request is sent.                                 *)
Request ==
  /\ pc = "route" /\ pc' = "request"
  /\ Arm(mode)
  /\ Fresh /\ buffer' = <<>> /\ ended' = FALSE /\ sse' = FALSE
  /\ UNCHANGED <<call, attempt, told, outcome, cancelled, calls>>

(* abortForTimeout.  In complete mode the timer rejects the race at once.  *)
Fire(t) ==
  /\ t \in armed
  /\ armed' = armed \ {t} /\ aborted' = IF Quiet THEN t ELSE aborted
  /\ UNCHANGED <<call, pc, attempt, activity, reading, told, outcome, cancelled, calls>>

(* fetch, json() and a read reject when the signal is aborted; what comes  *)
(* later is dropped.                                                       *)
Waiting == {"request", "body", "read"}
TimesOut == pc \in Waiting /\ ~Quiet /\ Fail("timeout")

(* The provider refuses, or the connection breaks.                         *)
RequestFails ==
  /\ pc = "request" /\ Quiet
  /\ \E e \in {"http_busy", "http_refused", "failed"} : Fail(e)

Respond ==
  /\ pc = "request" /\ Quiet
  /\ \E s \in BOOLEAN :
       /\ (mode = "complete" => ~s)
       /\ sse' = s /\ pc' = IF s THEN "read" ELSE "body"
  /\ UNCHANGED <<call, attempt, timers, chunks, buffer, rest, ended, text, usage, told, outcome, cancelled, calls>>

(* response.json() and the parse of the whole answer.  A text of blanks is *)
(* refused by one protocol and let through by the other.                   *)
OpenAITexts == {"text"}
AnthropicTexts == Deltas
BodyFails == pc = "body" /\ Quiet /\ \E e \in {"json", "shape"} : Fail(e)
Body ==
  /\ pc = "body" /\ Quiet
  /\ \E d \in IF api = "openai" THEN OpenAITexts ELSE AnthropicTexts : buffer' = <<d>>
  /\ ended' = TRUE /\ pc' = "frames"
  /\ usage' = [input |-> attempt, output |-> attempt]
  /\ UNCHANGED <<call, attempt, timers, chunks, rest, sse, text, told, outcome, cancelled, calls>>

(* readResponseChunk and readSSEDataFrames: the frames the chunk completes *)
(* and whether a piece of another one is left.                             *)
Pieces == UNION {[1..n -> FramesOf(api)] : n \in 0..MaxFrames}
Chunk ==
  /\ pc = "read" /\ Quiet
  /\ \E f \in Pieces :
       /\ buffer' = f
       /\ Len(text) + Len(f) < MaxText
       /\ pc' = IF f = <<>> THEN "read" ELSE "frames"
  /\ rest' \in BOOLEAN
  /\ chunks' = TRUE /\ markProgress
  /\ UNCHANGED <<call, attempt, aborted, ended, sse, text, usage, told, outcome, cancelled, calls>>

(* The stream closes; what is left in the buffer is one more frame.        *)
Close ==
  /\ pc = "read" /\ Quiet
  /\ IF rest THEN \E f \in FramesOf(api) : buffer' = <<f>> ELSE buffer' = <<>>
  /\ rest' = FALSE /\ ended' = TRUE /\ pc' = "frames"
  /\ UNCHANGED <<call, attempt, timers, chunks, sse, text, usage, told, outcome, cancelled, calls>>

ReadFails == pc = "read" /\ Quiet /\ Fail("failed")

-----------------------------------------------------------------------------
BadFrame == pc = "frames" /\ buffer # <<>> /\ Head(buffer) = "bad" /\ Fail("shape")

Skip ==
  /\ pc = "frames" /\ buffer # <<>> /\ Head(buffer) \notin Deltas \cup {"bad"}
  /\ buffer' = Tail(buffer)
  /\ usage' = [input |-> IF Head(buffer) \in Input THEN attempt ELSE usage.input,
               output |-> IF Head(buffer) \in Output THEN attempt ELSE usage.output]
  /\ UNCHANGED <<call, pc, attempt, timers, chunks, rest, ended, sse, text, told, outcome, cancelled, calls>>

(* A delta is yielded: the generator stands still until the consumer asks  *)
(* for the next.  complete() takes the whole text itself.                  *)
Delta ==
  /\ pc = "frames" /\ buffer # <<>> /\ Head(buffer) \in Deltas
  /\ buffer' = Tail(buffer) /\ text' = Append(text, Head(buffer))
  /\ IF mode = "stream"
     THEN /\ pc' = "held"
          /\ told' = IF cancelled THEN told ELSE Append(told, [attempt |-> attempt, delta |-> Head(buffer)])
     ELSE UNCHANGED <<pc, told>>
  /\ UNCHANGED <<call, attempt, timers, chunks, rest, ended, sse, usage, outcome, cancelled, calls>>

Take ==
  /\ pc = "held" /\ ~cancelled /\ pc' = "frames"
  /\ UNCHANGED <<call, attempt, timers, reading, told, outcome, cancelled, calls>>

ReadOn ==
  /\ pc = "frames" /\ buffer = <<>> /\ ~ended /\ pc' = "read"
  /\ UNCHANGED <<call, attempt, timers, reading, told, outcome, cancelled, calls>>

Blank(s) == \A i \in DOMAIN s : s[i] = "blank"

(* An event stream must have text.                                         *)
NoText == pc = "frames" /\ buffer = <<>> /\ ended /\ sse /\ Blank(text) /\ Fail("shape")

(* The answer is complete.                                                 *)
Answer ==
  /\ pc = "frames" /\ buffer = <<>> /\ ended /\ ~(sse /\ Blank(text))
  /\ armed' = Cleared /\ pc' = "answered"
  /\ UNCHANGED <<call, attempt, activity, aborted, reading, told, outcome, cancelled, calls>>

-----------------------------------------------------------------------------
(* completeModelWithRetry and streamModelWithRetry.                        *)
MayRetry == error \in Retryable /\ attempt < MaxAttempts

\* Mutant: the retry is not recorded.
MutRetry ==
  /\ pc = "failed" /\ MayRetry
  /\ attempt' = attempt + 1 /\ pc' = "route" /\ error' = "none"
  /\ calls' = calls + 1
  /\ UNCHANGED <<call, timers, reading, told, events, last, result, cancelled>>
Retry ==
  /\ pc = "failed" /\ MayRetry
  /\ attempt' = attempt + 1 /\ pc' = "route" /\ error' = "none"
  /\ Emit({}, "model.retry.scheduled") /\ calls' = calls + 1
  /\ UNCHANGED <<call, timers, reading, told, result, cancelled>>

(* run and stream: the catch block.                                        *)
GiveUp ==
  /\ pc = "failed" /\ ~MayRetry
  /\ Emit((IF error \in Retryable THEN {"model.retry.exhausted"} ELSE {})
          \cup (IF error \in ProviderErrors
                THEN {IF fallback THEN "model.fallback.available" ELSE "model.fallback.not_configured"}
                ELSE {}),
          "run.failed")
  /\ result' = "failed" /\ pc' = IF stage = "repair" THEN "repaired" ELSE "done"
  /\ UNCHANGED <<call, attempt, timers, reading, told, error, cancelled, calls>>

(* run and stream: the answer's artifacts or findings and the result.      *)
Artifacts == CASE role = "builder" -> {"artifact.created"}
               [] role = "reviewer" -> {"review.completed"}
               [] OTHER -> {}
Complete ==
  /\ pc = "answered"
  /\ Emit({"model.completed"} \cup Artifacts, "run.completed")
  /\ result' = "completed"
  /\ pc' = IF stage = "repair" THEN "repaired" ELSE IF structured THEN "parse" ELSE "done"
  /\ UNCHANGED <<call, attempt, timers, reading, told, error, cancelled, calls>>

(* generateStaticArtifacts throws after the model has answered.            *)
ArtifactsFail ==
  /\ pc = "answered" /\ role = "builder"
  /\ Emit({"model.completed"}, "run.failed")
  /\ error' = "other" /\ result' = "failed"
  /\ pc' = IF stage = "repair" THEN "repaired" ELSE "done"
  /\ UNCHANGED <<call, attempt, timers, reading, told, cancelled, calls>>

-----------------------------------------------------------------------------
(* finalizeResult of createBriefFromPrompt and generatePageVersion; the    *)
(* event comes before run.completed.                                       *)
Parsed ==
  /\ pc = "parse" /\ pc' = "done" /\ output' = "parsed"
  /\ events' = Plus(events, {"model.output.parsed"})
  /\ UNCHANGED <<role, fallback, api, structured, stage, mode, kept, attempt, timers, reading, told,
                 error, last, result, cancelled, calls>>

(* repairPlannerResult and repairBuilderResult: the adapter is called once *)
(* more, without a stream.                                                 *)
Repair ==
  /\ pc = "parse" /\ pc' = "route" /\ stage' = "repair" /\ mode' = "complete"
  /\ kept' = Plus(Filtered(events, EventTypes \ {"run.completed"}),
                  {"model.output.parse_failed", "model.output.repair_started"})
  /\ events' = Plus(NoEvents, {"run.started"}) /\ last' = "run.started"
  /\ result' = "none" /\ attempt' = 1 /\ calls' = calls + 1
  /\ Fresh /\ buffer' = <<>> /\ ended' = FALSE /\ sse' = FALSE /\ told' = <<>>
  /\ UNCHANGED <<role, fallback, api, structured, output, timers, error, cancelled>>

(* selectModelAttemptEvents.                                               *)
ModelAttemptEvents ==
  {"model.retry.scheduled", "model.retry.exhausted", "model.completed",
   "model.fallback.available", "model.fallback.not_configured"}

RepairEnds(state, out, types, e) ==
  /\ pc = "repaired" /\ pc' = "done" /\ result' = state /\ output' = out
  /\ LET repair == Filtered(events, ModelAttemptEvents)
     IN events' = Plus([x \in EventTypes |-> kept[x] + repair[x]], types \cup {e})
  /\ last' = e
  /\ UNCHANGED <<role, fallback, api, structured, stage, mode, kept, attempt, timers, reading, told,
                 error, cancelled, calls>>

Repaired ==
  result = "completed" /\ RepairEnds("completed", "repaired", {"model.output.repaired"}, "run.completed")

(* A planner's JSON that does not fit the schema is replaced by a brief    *)
(* made from the prompt (createPromptAwareFallbackBrief).                  *)
FallbackBrief ==
  /\ result = "completed" /\ role = "planner"
  /\ RepairEnds("completed", "fallback",
                {"model.output.repair_failed", "model.output.fallback_used"}, "run.completed")

(* No text (the call failed), no JSON, or artifacts against the policy.    *)
RepairFails ==
  RepairEnds("failed", "none", {"model.output.repair_failed"}, "run.failed")

-----------------------------------------------------------------------------
(* The consumer cancels (readAssistantRuntimeStreamEvent): return() waits  *)
(* until the generator stands at a delta, and then runs the finally blocks.*)
Cancel ==
  /\ role = "assistant" /\ mode = "stream" /\ pc # "done" /\ ~cancelled /\ cancelled' = TRUE
  /\ UNCHANGED <<call, pc, attempt, timers, reading, told, outcome, calls>>

Return ==
  /\ pc = "held" /\ cancelled /\ pc' = "done" /\ armed' = Cleared
  /\ UNCHANGED <<call, attempt, activity, aborted, reading, told, outcome, cancelled, calls>>

Provider == RequestFails \/ Respond \/ BodyFails \/ Body \/ Chunk \/ Close \/ ReadFails
Generator ==
  \/ NoRoute \/ NotConfigured \/ MockRoute \/ Request \/ TimesOut
  \/ BadFrame \/ Skip \/ Delta \/ ReadOn \/ NoText \/ Answer
  \/ Retry \/ GiveUp \/ Complete \/ ArtifactsFail \/ Return
  \/ Parsed \/ Repair \/ Repaired \/ FallbackBrief \/ RepairFails
Next == Provider \/ Generator \/ Take \/ Cancel \/ \E t \in Timers : Fire(t)

Spec == Init /\ [][Next]_vars

(* The generator runs, its consumer asks for the next delta or cancels, a  *)
(* timer that nobody reschedules fires.  The provider promises nothing.    *)
Fairness ==
  /\ WF_vars(Generator) /\ WF_vars(Take \/ Cancel)
  /\ WF_vars(Fire("max_duration")) /\ WF_vars(Fire("request"))
FairSpec == Spec /\ Fairness
-----------------------------------------------------------------------------
PCs == {"route", "request", "body", "read", "frames", "held", "failed", "answered",
        "parse", "repaired", "done"}

(* Every variable has its type.                                            *)
TypeOK ==
  /\ role \in Roles /\ fallback \in BOOLEAN /\ api \in Providers /\ structured \in BOOLEAN
  /\ stage \in {"first", "repair"} /\ mode \in Modes /\ kept \in [EventTypes -> Nat]
  /\ output \in {"none", "parsed", "repaired", "fallback"} /\ calls \in 1..(2 * MaxAttempts)
  /\ pc \in PCs /\ attempt \in 1..MaxAttempts
  /\ armed \subseteq Timers /\ activity \in {"none", "first_byte", "idle"}
  /\ aborted \in Timers \cup {"none"}
  /\ chunks \in BOOLEAN /\ buffer \in Seq(Frames) /\ rest \in BOOLEAN
  /\ ended \in BOOLEAN /\ sse \in BOOLEAN /\ text \in Seq(Deltas)
  /\ usage \in [input : 0..MaxAttempts, output : 0..MaxAttempts]
  /\ told \in Seq([attempt : 1..MaxAttempts, delta : Deltas])
  /\ error \in Errors \cup {"none"} /\ events \in [EventTypes -> Nat] /\ last \in EventTypes
  /\ result \in {"none", "completed", "failed"} /\ cancelled \in BOOLEAN

(* A timer runs only while a request is open: none survives an attempt that*)
(* failed or answered, or a consumer that has gone (the finally blocks with*)
(* timeoutController.clear and clearTimeout).  An attempt is cut for its   *)
(* first byte only while the provider is silent, and a stream is never cut *)
(* twice for activity: one activity timer runs at a time (markProgress and *)
(* scheduleActivityTimeout).                                               *)
Open == {"request", "body", "read", "frames", "held"}
TimersInTime ==
  /\ pc \notin Open => armed = {}
  /\ aborted = "first_byte" => ~chunks
  /\ ~({"first_byte", "idle"} \subseteq armed)

(* The events of a run tell what happened: a retry or repair event for each*)
(* attempt after the first, an exhausted event exactly when a temporary    *)
(* failure ends the first call, a fallback event exactly when the provider *)
(* is to blame for it, neither on a run that completes, and one terminal   *)
(* event, the last, that agrees with the result.  A structured run         *)
(* completes exactly when there is a brief or a page to save, and a repair *)
(* that began is reported as ended.                                        *)
EventsTell ==
  pc = "done" /\ result # "none" =>
    /\ last = IF result = "completed" THEN "run.completed" ELSE "run.failed"
    /\ events["run.completed"] + events["run.failed"] = 1
    /\ events["model.retry.scheduled"] + events["model.output.repair_started"] + 1 = calls
    /\ LET exhausted == events["model.retry.exhausted"]
           blamed == events["model.fallback.available"] + events["model.fallback.not_configured"]
       IN /\ exhausted + blamed > 0 => result = "failed"
          /\ stage = "first" => exhausted = (IF error \in Retryable THEN 1 ELSE 0)
          /\ stage = "first" => blamed = (IF error \in ProviderErrors THEN 1 ELSE 0)
    /\ structured => (result = "completed" <=> output # "none")
    /\ events["model.output.repair_started"]
         = events["model.output.repaired"] + events["model.output.repair_failed"]

(* The last deltas told are those of the text, all others are of earlier   *)
(* attempts.                                                               *)
TellsText ==
  \E k \in 0..Len(told) :
    /\ Len(told) = k + Len(text)
    /\ \A i \in 1..k : told[i].attempt < attempt
    /\ \A i \in DOMAIN text : told[k + i] = [attempt |-> attempt, delta |-> text[i]]

(* Whoever stays until a streamed run completes has got every delta of the *)
(* attempt that answered, in order and after all others, although timers   *)
(* fire while the consumer holds a delta; an event stream completes only   *)
(* with text; the tokens it reports are all of that attempt.               *)
AnswerTold ==
  result = "completed" /\ mode = "stream" /\ ~cancelled =>
    /\ TellsText
    /\ sse => ~Blank(text)
    /\ {usage.input, usage.output} \subseteq {0, attempt}

(* Every run ends, however long the provider is silent or talks, and after *)
(* the consumer has gone: the limit on the whole duration cuts it.         *)
EveryRunEnds == <>[](pc = "done")
=============================================================================
