-------------------------- MODULE ModelStreamProofs --------------------------
(***************************************************************************)
(* The timers of a model stream, what its consumer is told and what the    *)
(* events of the run tell, for every number of attempts and every length   *)
(* of the chunks and of the text.                                          *)
(***************************************************************************)
EXTENDS ModelStream, SequenceTheorems, TLAPS

(* What the timers rest on: whatever runs is known to the controller, so   *)
(* that the finally blocks clear it, and the timer of the first byte runs  *)
(* only until a chunk arrives.                                             *)
TimerInv ==
  /\ activity \in {"none", "first_byte", "idle"}
  /\ armed \subseteq {activity, "max_duration", "request"}
  /\ chunks \in BOOLEAN
  /\ "first_byte" \in armed => chunks = FALSE
  /\ aborted = "first_byte" => chunks = FALSE
  /\ pc \notin Open => armed = {}

timerVars == <<armed, activity, aborted, chunks>>

LEMMA ActivityAlone ==
  ASSUME TimerInv PROVE Cleared = {} /\ ~({"first_byte", "idle"} \subseteq armed)
  BY DEF TimerInv, Cleared

LEMMA InitTimers == Init => TimerInv
  BY DEF Init, TimerInv

(* Steps that leave the timers alone and go on with an open request, or    *)
(* away from nothing.                                                      *)
LEMMA OthersKeepTimers ==
  ASSUME TimerInv, UNCHANGED timerVars, pc' \in Open \/ pc \notin Open PROVE TimerInv'
  BY DEF TimerInv, timerVars

(* An attempt that fails has no timer left.                                *)
LEMMA FailKeepsTimers ==
  ASSUME TimerInv, NEW e, Fail(e) PROVE TimerInv'
  BY ActivityAlone DEF TimerInv, Fail, Open, reading

LEMMA ProviderKeepsTimers == TimerInv /\ Provider => TimerInv'
<1> SUFFICES ASSUME TimerInv, Provider PROVE TimerInv'
  OBVIOUS
<1>1. CASE RequestFails \/ BodyFails \/ ReadFails
  BY <1>1, FailKeepsTimers DEF RequestFails, BodyFails, ReadFails
<1>2. CASE Respond \/ Body \/ Close
  <2>1. UNCHANGED timerVars /\ pc' \in {"read", "body", "frames"}
    BY <1>2, Zenon DEF Respond, Body, Close, timers, timerVars
  <2> QED
    BY <2>1, OthersKeepTimers DEF Open
<1>3. CASE Chunk
  <2>1. armed' = (armed \ {activity}) \cup {"idle"} /\ activity' = "idle" /\ aborted' = "none"
    BY <1>3 DEF Chunk, markProgress, Schedule, Quiet
  <2>2. pc = "read" /\ pc' \in {"read", "frames"} /\ chunks' = TRUE
    BY <1>3 DEF Chunk
  <2> QED
    BY <2>1, <2>2 DEF TimerInv, Open
<1> QED
  BY <1>1, <1>2, <1>3 DEF Provider

LEMMA GeneratorKeepsTimers == TimerInv /\ Generator => TimerInv'
<1> SUFFICES ASSUME TimerInv, Generator PROVE TimerInv'
  OBVIOUS
<1>1. CASE NoRoute \/ NotConfigured \/ TimesOut \/ BadFrame \/ NoText
  BY <1>1, FailKeepsTimers DEF NoRoute, NotConfigured, TimesOut, BadFrame, NoText
<1>2. CASE MockRoute
  BY <1>2 DEF MockRoute, Fresh, TimerInv, timers, Open
<1>3. CASE Request
  BY <1>3 DEF Request, Arm, Fresh, TimerInv, Open
<1>4. CASE Skip \/ Delta \/ ReadOn
  BY <1>4 DEF Skip, Delta, ReadOn, TimerInv, timers, reading, Open
<1>5. CASE Answer \/ Return
  BY <1>5, ActivityAlone DEF Answer, Return, TimerInv, reading, Open
<1>6. CASE Retry \/ GiveUp \/ Complete \/ ArtifactsFail
  BY <1>6 DEF Retry, GiveUp, Complete, ArtifactsFail, TimerInv, timers, reading, Open
<1>7. CASE Parsed \/ Repaired \/ FallbackBrief \/ RepairFails
  <2>1. UNCHANGED timerVars /\ pc \in {"parse", "repaired"}
    BY <1>7, Zenon DEF Parsed, Repaired, FallbackBrief, RepairFails, RepairEnds, timers, reading, timerVars
  <2> QED
    BY <2>1, OthersKeepTimers DEF Open
<1>8. CASE Repair
  BY <1>8 DEF Repair, Fresh, TimerInv, timers, Open
<1> QED
  BY <1>1, <1>2, <1>3, <1>4, <1>5, <1>6, <1>7, <1>8 DEF Generator

LEMMA FireKeepsTimers == TimerInv /\ (\E t \in Timers : Fire(t)) => TimerInv'
  BY DEF TimerInv, Fire, Timers, Quiet, reading, Open

LEMMA NextKeepsTimers == TimerInv /\ [Next]_vars => TimerInv'
<1> SUFFICES ASSUME TimerInv, [Next]_vars PROVE TimerInv'
  OBVIOUS
<1>1. CASE Take \/ Cancel
  <2>1. UNCHANGED timerVars /\ pc' \in {"frames", pc}
    BY <1>1, Zenon DEF Take, Cancel, timers, reading, timerVars
  <2> QED
    BY <2>1, OthersKeepTimers DEF Open
<1>2. CASE UNCHANGED vars
  BY <1>2 DEF vars, timers, reading, TimerInv
<1> QED
  BY <1>1, <1>2, ProviderKeepsTimers, GeneratorKeepsTimers, FireKeepsTimers DEF Next

(* No timer outlives the request it watches, one activity timer runs at a  *)
(* time, and none cuts a stream for a first byte that has come: the        *)
(* controller of stream-timeouts.ts and the finally blocks around it.      *)
THEOREM TimersAreInTime == Spec => []TimersInTime
<1>1. TimerInv => TimersInTime
  BY ActivityAlone DEF TimerInv, TimersInTime
<1> QED
  BY <1>1, InitTimers, NextKeepsTimers, PTL DEF Spec
-----------------------------------------------------------------------------
(* What a consumer that stays has been told.  While an attempt is under    *)
(* way its text is the end of it; a failed attempt leaves its deltas       *)
(* behind, and the next one starts with an empty text.                     *)
UnderWay == {"request", "body", "read", "frames", "held", "answered"}
ToldTypes ==
  /\ attempt \in Nat \ {0} /\ text \in Seq(Deltas) /\ buffer \in Seq(Frames)
  /\ told \in Seq([attempt : Nat, delta : Deltas])
  /\ usage \in [input : Nat, output : Nat]
Behind == \A i \in DOMAIN told : told[i].attempt <= attempt
Counted == {usage.input, usage.output} \subseteq {0, attempt}
Streaming == mode = "stream" /\ ~cancelled
ToldInv ==
  /\ ToldTypes
  /\ result = "completed" => pc \in {"parse", "repaired", "done"}
  /\ pc \in UnderWay \/ result = "completed" => Counted /\ (Streaming => TellsText)
  /\ pc = "answered" \/ result = "completed" => (sse => ~Blank(text))
  /\ Streaming /\ pc = "failed" => Behind
  /\ Streaming /\ pc = "route" => \A i \in DOMAIN told : told[i].attempt < attempt

toldVars == <<attempt, text, told, usage, mode, cancelled>>

LEMMA InitTold == Init => ToldInv
  BY ModelStreamAssumption DEF Init, ToldInv, ToldTypes, NoUsage, UnderWay, Streaming

LEMMA ShortSeq ==
  ASSUME NEW S, NEW x \in S PROVE {<<>>, <<x>>, <<x, x>>} \subseteq Seq(S)
  OBVIOUS

LEMMA ToldDomain ==
  ASSUME ToldTypes
  PROVE  /\ DOMAIN told = 1..Len(told) /\ Len(told) \in Nat
         /\ DOMAIN text = 1..Len(text) /\ Len(text) \in Nat
         /\ \A i \in DOMAIN told : told[i].attempt \in Nat
<1>1. told \in Seq([attempt : Nat, delta : Deltas]) /\ text \in Seq(Deltas)
  BY DEF ToldTypes
<1>2. DOMAIN told = 1..Len(told) /\ Len(told) \in Nat
  BY <1>1
<1>3. DOMAIN text = 1..Len(text) /\ Len(text) \in Nat
  BY <1>1
<1>4. ASSUME NEW i \in DOMAIN told PROVE told[i].attempt \in Nat
  <2>1. told[i] \in [attempt : Nat, delta : Deltas]
    BY <1>1, <1>2, <1>4, ElementOfSeq
  <2> QED
    BY <2>1
<1> QED
  BY <1>2, <1>3, <1>4

(* A step within an attempt that tells nothing.                            *)
LEMMA WithinKeepsTold ==
  ASSUME ToldInv, UNCHANGED toldVars, buffer' \in Seq(Frames), result' = result,
         pc \in UnderWay, pc' \in UnderWay \ {"answered"}
  PROVE  ToldInv'
<1>1. result # "completed" /\ Counted /\ (Streaming => TellsText)
  BY DEF ToldInv, UnderWay
<1>2. Counted' /\ (Streaming' => TellsText')
  BY <1>1 DEF toldVars, Counted, Streaming, TellsText
<1> QED
  BY <1>1, <1>2 DEF ToldInv, ToldTypes, toldVars, UnderWay

(* An attempt that begins has told nothing yet.                            *)
LEMMA BeginKeepsTold ==
  ASSUME ToldInv, pc = "route", pc' \in {"request", "frames"}, text' = <<>>, usage' = NoUsage,
         UNCHANGED <<attempt, told, mode, cancelled, result>>, buffer' \in Seq(Frames)
  PROVE  ToldInv'
<1>1. result # "completed"
  BY DEF ToldInv
<1>2. ToldTypes'
  BY DEF ToldInv, ToldTypes, NoUsage
<1>3. Counted'
  BY DEF Counted, NoUsage
<1>4. ASSUME Streaming' PROVE TellsText'
  <2>1. \A i \in 1..Len(told) : told[i].attempt < attempt
    BY <1>4 DEF ToldInv, ToldTypes, Streaming
  <2>2. Len(text') = 0 /\ DOMAIN text' = {} /\ told' = told /\ attempt' = attempt /\ Len(told) \in Nat
    BY ToldDomain DEF ToldInv
  <2>3. Len(told) \in 0..Len(told') /\ Len(told') = Len(told) + Len(text')
    BY <2>2
  <2>4. \A i \in 1..Len(told) : told'[i].attempt < attempt'
    BY <2>1, <2>2
  <2>5. \A i \in DOMAIN text' : told'[Len(told) + i] = [attempt |-> attempt', delta |-> text'[i]]
    BY <2>2
  <2> QED
    BY <2>3, <2>4, <2>5, Zenon DEF TellsText
<1> QED
  BY <1>1, <1>2, <1>3, <1>4 DEF ToldInv, UnderWay

(* An attempt that fails leaves its deltas behind.                         *)
LEMMA LeftBehind == ASSUME ToldTypes, TellsText PROVE Behind
<1>1. PICK k \in 0..Len(told) :
        /\ Len(told) = k + Len(text)
        /\ \A i \in 1..k : told[i].attempt < attempt
        /\ \A i \in DOMAIN text : told[k + i] = [attempt |-> attempt, delta |-> text[i]]
  BY DEF TellsText
<1> SUFFICES ASSUME NEW i \in DOMAIN told PROVE told[i].attempt <= attempt
  BY DEF Behind
<1>2. i \in 1..(k + Len(text)) /\ k \in Nat /\ Len(text) \in Nat /\ attempt \in Nat
  BY <1>1, ToldDomain DEF ToldTypes
<1>3. CASE i <= k
  <2>1. told[i].attempt < attempt /\ told[i].attempt \in Nat
    BY <1>1, <1>2, <1>3, ToldDomain
  <2> QED
    BY <1>2, <2>1
<1>4. CASE i > k
  <2>1. i - k \in 1..Len(text) /\ k + (i - k) = i
    BY <1>2, <1>4
  <2>2. told[i] = [attempt |-> attempt, delta |-> text[i - k]]
    BY <1>1, <2>1, ToldDomain
  <2> QED
    BY <1>2, <2>2
<1> QED
  BY <1>2, <1>3, <1>4

LEMMA FailKeepsTold ==
  ASSUME ToldInv, NEW e, Fail(e), pc \in UnderWay \cup {"route"} PROVE ToldInv'
<1>1. result # "completed" /\ (Streaming => Behind)
  <2>1. CASE pc = "route"
    <3>1. ToldTypes /\ result # "completed"
          /\ (Streaming => \A i \in DOMAIN told : told[i].attempt < attempt)
      BY <2>1, ToldDomain DEF ToldInv
    <3>2. attempt \in Nat /\ \A i \in DOMAIN told : told[i].attempt \in Nat
      BY <3>1, ToldDomain DEF ToldTypes
    <3> QED
      BY <3>1, <3>2 DEF Behind
  <2>2. CASE pc \in UnderWay
    BY <2>2, LeftBehind DEF ToldInv, UnderWay
  <2> QED
    BY <2>1, <2>2
<1>2. pc' = "failed" /\ UNCHANGED toldVars /\ result' = result /\ buffer' = buffer
  BY DEF Fail, call, reading, toldVars
<1> QED
  BY <1>1, <1>2 DEF ToldInv, ToldTypes, toldVars, UnderWay, Streaming, Behind

LEMMA ProviderKeepsTold == ToldInv /\ Provider => ToldInv'
<1> SUFFICES ASSUME ToldInv, Provider PROVE ToldInv'
  OBVIOUS
<1>1. CASE RequestFails \/ BodyFails \/ ReadFails
  BY <1>1, FailKeepsTold DEF RequestFails, BodyFails, ReadFails, UnderWay
<1>2. CASE Respond
  <2>1. UNCHANGED toldVars /\ buffer' = buffer /\ result' = result /\ pc = "request"
        /\ pc' \in {"read", "body"}
    BY <1>2 DEF Respond, call, outcome, toldVars
  <2> QED
    BY <2>1, WithinKeepsTold DEF UnderWay, ToldInv, ToldTypes
<1>3. CASE Chunk
  <2>1. UNCHANGED toldVars /\ result' = result /\ pc = "read" /\ pc' \in {"read", "frames"}
    BY <1>3 DEF Chunk, call, outcome, toldVars
  <2>2. buffer' \in Seq(Frames)
    <3>1. PICK n \in 0..MaxFrames : buffer' \in [1..n -> FramesOf(api)]
      BY <1>3 DEF Chunk, Pieces
    <3>2. FramesOf(api) \subseteq Frames
      BY DEF FramesOf, Frames
    <3> QED
      BY <3>1, <3>2, ModelStreamAssumption
  <2> QED
    BY <2>1, <2>2, WithinKeepsTold DEF UnderWay
<1>4. CASE Close
  <2>1. UNCHANGED toldVars /\ result' = result /\ pc = "read" /\ pc' = "frames"
    BY <1>4 DEF Close, call, outcome, toldVars
  <2>2. buffer' = <<>> \/ \E f \in FramesOf(api) : buffer' = <<f>>
    BY <1>4 DEF Close
  <2>3. buffer' \in Seq(Frames)
    <3>1. FramesOf(api) \subseteq Frames
      BY DEF FramesOf, Frames
    <3>2. ASSUME NEW f \in FramesOf(api), buffer' = <<f>> PROVE buffer' \in Seq(Frames)
      BY <3>1, <3>2, ShortSeq
    <3>3. ASSUME buffer' = <<>> PROVE buffer' \in Seq(Frames)
      BY <3>3, EmptySeq
    <3> QED
      BY <2>2, <3>2, <3>3
  <2> QED
    BY <2>1, <2>3, WithinKeepsTold DEF UnderWay
<1>5. CASE Body
  <2>1. UNCHANGED <<attempt, text, told, mode, cancelled, result>> /\ pc = "body" /\ pc' = "frames"
        /\ usage' = [input |-> attempt, output |-> attempt]
    BY <1>5 DEF Body, call, outcome
  <2>2. buffer' \in Seq(Frames)
    BY <1>5 DEF Body, OpenAITexts, AnthropicTexts, Deltas, Frames, OpenAIFrames
  <2>3. result # "completed" /\ (Streaming => TellsText)
    BY <2>1 DEF ToldInv, UnderWay
  <2>4. Counted' /\ (Streaming' => TellsText')
    BY <2>1, <2>3 DEF Counted, Streaming, TellsText
  <2> QED
    BY <2>1, <2>2, <2>3, <2>4 DEF ToldInv, ToldTypes, UnderWay
<1> QED
  BY <1>1, <1>2, <1>3, <1>4, <1>5 DEF Provider

LEMMA DeltaKeepsTold == ToldInv /\ Delta => ToldInv'
<1> SUFFICES ASSUME ToldInv, Delta PROVE ToldInv'
  OBVIOUS
<1> DEFINE d == Head(buffer)
<1>1. /\ UNCHANGED <<attempt, usage, mode, cancelled, result>> /\ pc = "frames" /\ buffer # <<>>
      /\ d \in Deltas /\ buffer' = Tail(buffer) /\ text' = Append(text, d)
      /\ pc' \in {"held", "frames"}
      /\ told' = told \/ told' = Append(told, [attempt |-> attempt, delta |-> d])
      /\ Streaming => told' = Append(told, [attempt |-> attempt, delta |-> d])
  BY DEF Delta, call, outcome, Streaming
<1>2. result # "completed" /\ Counted /\ (Streaming => TellsText) /\ ToldTypes
  BY <1>1 DEF ToldInv, UnderWay
<1> HIDE DEF d
<1>3. ToldTypes'
  <2>1. text' \in Seq(Deltas) /\ buffer' \in Seq(Frames)
    BY <1>1, <1>2 DEF ToldTypes
  <2>2. [attempt |-> attempt, delta |-> d] \in [attempt : Nat, delta : Deltas]
    BY <1>1, <1>2 DEF ToldTypes
  <2>3. told' \in Seq([attempt : Nat, delta : Deltas])
    <3> DEFINE Entry == [attempt : Nat, delta : Deltas]
               e == [attempt |-> attempt, delta |-> d]
    <3>1. told \in Seq(Entry) /\ e \in Entry /\ (told' = told \/ told' = Append(told, e))
      BY <1>1, <1>2, <2>2 DEF ToldTypes
    <3> HIDE DEF Entry, e
    <3>2. Append(told, e) \in Seq(Entry)
      BY <3>1, AppendProperties
    <3>3. told' \in Seq(Entry)
      BY <3>1, <3>2
    <3> QED
      BY <3>3 DEF Entry
  <2> QED
    BY <1>1, <1>2, <2>1, <2>3 DEF ToldTypes
<1>4. ASSUME Streaming' PROVE TellsText'
  <2>1. Streaming
    BY <1>1, <1>4 DEF Streaming
  <2>2. PICK k \in 0..Len(told) :
          /\ Len(told) = k + Len(text)
          /\ \A i \in 1..k : told[i].attempt < attempt
          /\ \A i \in DOMAIN text : told[k + i] = [attempt |-> attempt, delta |-> text[i]]
    BY <1>2, <2>1 DEF TellsText
  <2>3. told' = Append(told, [attempt |-> attempt, delta |-> d]) /\ text' = Append(text, d)
        /\ attempt' = attempt
    BY <1>1, <2>1
  <2>4. k \in Nat /\ Len(text) \in Nat /\ Len(told) \in Nat
        /\ text \in Seq(Deltas) /\ told \in Seq([attempt : Nat, delta : Deltas])
    BY <1>2 DEF ToldTypes
  <2>5. k \in 0..Len(told') /\ Len(told') = k + Len(text')
    <3>1. Len(told') = Len(told) + 1 /\ Len(text') = Len(text) + 1
      BY <2>3, <2>4
    <3> QED
      BY <2>2, <2>4, <3>1
  <2>6. \A i \in 1..k : told'[i].attempt < attempt'
    BY <2>2, <2>3, <2>4
  <2>7. ASSUME NEW i \in DOMAIN text'
        PROVE  told'[k + i] = [attempt |-> attempt', delta |-> text'[i]]
    <3>1. i \in 1..(Len(text) + 1)
      BY <2>3, <2>4, <2>7
    <3>2. CASE i \in DOMAIN text
      BY <2>2, <2>3, <2>4, <3>2
    <3>3. CASE i = Len(text) + 1
      BY <2>2, <2>3, <2>4, <3>3
    <3> QED
      BY <2>4, <3>1, <3>2, <3>3
  <2> QED
    BY <2>5, <2>6, <2>7 DEF TellsText
<1>5. Counted'
  BY <1>1, <1>2 DEF Counted
<1> QED
  BY <1>1, <1>2, <1>3, <1>4, <1>5 DEF ToldInv, UnderWay

(* What is told stays as it is when a run that has its answer goes on.     *)
LEMMA AfterAnswerKeepsTold ==
  ASSUME ToldInv, UNCHANGED toldVars, sse' = sse, buffer' = buffer,
         result' = "completed" => pc = "answered" \/ result = "completed",
         pc' \in {"parse", "repaired", "done"}
  PROVE  ToldInv'
<1>1. ToldTypes'
  BY DEF ToldInv, ToldTypes, toldVars
<1>2. ASSUME result' = "completed" PROVE Counted' /\ (Streaming' => TellsText') /\ (sse' => ~Blank(text)')
  <2>1. Counted /\ (Streaming => TellsText) /\ (sse => ~Blank(text))
    BY <1>2 DEF ToldInv, UnderWay
  <2> QED
    BY <2>1 DEF Counted, Streaming, TellsText, Blank, toldVars
<1> QED
  BY <1>1, <1>2 DEF ToldInv, UnderWay

LEMMA GeneratorKeepsTold == ToldInv /\ Generator => ToldInv'
<1> SUFFICES ASSUME ToldInv, Generator PROVE ToldInv'
  OBVIOUS
<1>1. CASE NoRoute \/ NotConfigured \/ TimesOut \/ BadFrame \/ NoText
  BY <1>1, FailKeepsTold DEF NoRoute, NotConfigured, TimesOut, BadFrame, NoText, Waiting, UnderWay
<1>2. CASE MockRoute \/ Request
  <2>1. /\ pc = "route" /\ pc' \in {"request", "frames"} /\ text' = <<>> /\ usage' = NoUsage
        /\ UNCHANGED <<attempt, told, mode, cancelled, result>>
        /\ buffer' = <<>> \/ buffer' = <<"text", "text">>
    BY <1>2 DEF MockRoute, Request, Fresh, call, outcome
  <2>2. buffer' \in Seq(Frames)
    <3>1. "text" \in Frames
      BY DEF Frames, OpenAIFrames, Deltas
    <3> QED
      BY <2>1, <3>1, ShortSeq
  <2> QED
    BY <2>1, <2>2, BeginKeepsTold
<1>3. CASE Skip
  <2>1. /\ UNCHANGED <<attempt, text, told, mode, cancelled, result, pc>> /\ pc = "frames"
        /\ buffer # <<>> /\ buffer' = Tail(buffer)
        /\ usage' = [input |-> IF Head(buffer) \in Input THEN attempt ELSE usage.input,
                     output |-> IF Head(buffer) \in Output THEN attempt ELSE usage.output]
    BY <1>3 DEF Skip, call, outcome
  <2>2. result # "completed" /\ Counted /\ (Streaming => TellsText) /\ ToldTypes
    BY <2>1 DEF ToldInv, UnderWay
  <2>3. Counted'
    BY <2>1, <2>2 DEF Counted
  <2>4. ToldTypes'
    BY <2>1, <2>2 DEF ToldTypes
  <2>5. Streaming' => TellsText'
    BY <2>1, <2>2 DEF Streaming, TellsText
  <2> QED
    BY <2>1, <2>2, <2>3, <2>4, <2>5 DEF ToldInv, UnderWay
<1>4. CASE Delta
  BY <1>4, DeltaKeepsTold
<1>5. CASE ReadOn
  BY <1>5, WithinKeepsTold DEF ReadOn, call, reading, outcome, toldVars, UnderWay, ToldInv, ToldTypes
<1>6. CASE Answer
  <2>1. UNCHANGED toldVars /\ buffer' = buffer /\ result' = result /\ sse' = sse
        /\ pc = "frames" /\ pc' = "answered" /\ ~(sse /\ Blank(text))
    BY <1>6, Zenon DEF Answer, call, reading, outcome, toldVars
  <2>2. result # "completed" /\ Counted /\ (Streaming => TellsText)
    BY <2>1 DEF ToldInv, UnderWay
  <2>3. Counted' /\ (Streaming' => TellsText') /\ (sse' => ~Blank(text)')
    BY <2>1, <2>2 DEF Counted, Streaming, TellsText, Blank, toldVars
  <2> QED
    BY <2>1, <2>2, <2>3 DEF ToldInv, ToldTypes, toldVars, UnderWay
<1>7. CASE Retry
  <2>1. /\ pc = "failed" /\ pc' = "route" /\ attempt' = attempt + 1
        /\ UNCHANGED <<text, told, usage, mode, cancelled, buffer, result>>
    BY <1>7 DEF Retry, call, reading
  <2>2. result # "completed" /\ (Streaming => Behind) /\ ToldTypes
    BY <2>1 DEF ToldInv
  <2>3. ToldTypes'
    BY <2>1, <2>2 DEF ToldTypes
  <2>4. Streaming' => \A i \in DOMAIN told' : told'[i].attempt < attempt'
    <3>1. \A i \in DOMAIN told : told[i].attempt \in Nat
      BY <2>2, ToldDomain
    <3> QED
      BY <2>1, <2>2, <3>1 DEF Streaming, Behind, ToldTypes
  <2> QED
    BY <2>1, <2>2, <2>3, <2>4 DEF ToldInv, UnderWay
<1>8. CASE GiveUp \/ Complete \/ ArtifactsFail
  <2>1. /\ UNCHANGED toldVars /\ sse' = sse /\ buffer' = buffer
        /\ result' = "completed" => pc = "answered"
        /\ pc' \in {"parse", "repaired", "done"}
    BY <1>8 DEF GiveUp, Complete, ArtifactsFail, call, reading, toldVars
  <2> QED
    BY <2>1, AfterAnswerKeepsTold
<1>9. CASE Return
  <2>1. UNCHANGED toldVars /\ sse' = sse /\ buffer' = buffer /\ result' = result /\ pc' = "done"
    BY <1>9 DEF Return, call, reading, outcome, toldVars
  <2> QED
    BY <2>1, AfterAnswerKeepsTold
<1>10. CASE Parsed \/ Repaired \/ FallbackBrief \/ RepairFails
  <2>1. /\ UNCHANGED toldVars /\ sse' = sse /\ buffer' = buffer /\ pc' = "done"
        /\ result' = "completed" => result = "completed"
    BY <1>10 DEF Parsed, Repaired, FallbackBrief, RepairFails, RepairEnds, reading, toldVars
  <2> QED
    BY <2>1, AfterAnswerKeepsTold
<1>11. CASE Repair
  BY <1>11 DEF Repair, Fresh, NoUsage, ToldInv, ToldTypes, UnderWay, Streaming
<1> QED
  BY <1>1, <1>2, <1>3, <1>4, <1>5, <1>6, <1>7, <1>8, <1>9, <1>10, <1>11 DEF Generator

LEMMA NextKeepsTold == ToldInv /\ [Next]_vars => ToldInv'
<1> SUFFICES ASSUME ToldInv, [Next]_vars PROVE ToldInv'
  OBVIOUS
<1>1. CASE Take
  BY <1>1, WithinKeepsTold DEF Take, call, reading, outcome, toldVars, UnderWay, ToldInv, ToldTypes
<1>2. CASE Cancel
  <2>1. UNCHANGED <<attempt, text, told, usage, buffer, result, pc, sse>> /\ cancelled'
    BY <1>2 DEF Cancel, reading, outcome
  <2> QED
    BY <2>1 DEF ToldInv, ToldTypes, Counted, Streaming, Blank
<1>3. CASE UNCHANGED vars \/ \E t \in Timers : Fire(t)
  <2>1. UNCHANGED <<toldVars, buffer, result, pc, sse>>
    BY <1>3 DEF vars, Fire, call, reading, outcome, toldVars
  <2> QED
    BY <2>1 DEF ToldInv, ToldTypes, Counted, Streaming, Blank, TellsText, Behind, toldVars
<1> QED
  BY <1>1, <1>2, <1>3, ProviderKeepsTold, GeneratorKeepsTold DEF Next

(* A consumer that stays until a stream completes has got every delta of   *)
(* the attempt that answered, in order and after all others, and the       *)
(* tokens reported are those of that attempt: streamModelWithRetry and the *)
(* generators of both protocols, for every number of attempts.             *)
THEOREM AnswersAreTold == Spec => []AnswerTold
<1>1. ToldInv => AnswerTold
  BY DEF ToldInv, AnswerTold, Streaming, Counted
<1> QED
  BY <1>1, InitTold, NextKeepsTold, PTL DEF Spec
-----------------------------------------------------------------------------
(* What the events of a run tell.  Until a call of the adapter ends it has *)
(* reported its retries and nothing else of interest; an answer that is    *)
(* parsed or repaired has the events of a success; what a repair keeps are *)
(* the events of the first call without its end.                           *)
Counts == [EventTypes -> Nat]
Calling == {"route", "request", "body", "read", "frames", "held", "answered", "failed"}
Ends == {"run.completed", "run.failed"}
Faults == {"model.retry.exhausted", "model.fallback.available", "model.fallback.not_configured"}
Repairs == {"model.output.repair_started", "model.output.repaired", "model.output.repair_failed"}
None(bag, types) == \A e \in types : bag[e] = 0

KeptEvents ==
  /\ structured /\ None(kept, Ends \cup Faults \cup (Repairs \ {"model.output.repair_started"}))
  /\ kept["model.output.repair_started"] = 1

EventsInv ==
  /\ events \in Counts /\ kept \in Counts /\ calls \in Nat /\ structured \in BOOLEAN
  /\ stage \in {"first", "repair"} /\ pc \in PCs
  /\ pc # "done" => output = "none" /\ None(events, Repairs)
  /\ pc # "done" /\ stage = "first" => events["model.retry.scheduled"] + 1 = calls
  /\ pc # "done" /\ stage = "repair" =>
       KeptEvents /\ kept["model.retry.scheduled"] + events["model.retry.scheduled"] + 2 = calls
  /\ pc \in Calling => result = "none" /\ None(events, Ends \cup Faults)
  /\ pc \in Calling \ {"failed"} => error = "none"
  /\ pc = "parse" =>
       /\ structured /\ stage = "first" /\ result = "completed" /\ error = "none"
       /\ None(events, Faults \cup {"run.failed"}) /\ events["run.completed"] = 1 /\ last = "run.completed"
  /\ pc = "repaired" =>
       stage = "repair" /\ result \in {"completed", "failed"} /\ (result = "completed" => None(events, Faults))
  /\ EventsTell

eventVars == <<events, last, kept, calls, structured, stage, output>>

LEMMA Emitted ==
  ASSUME NEW bag \in Counts, NEW types
  PROVE  /\ Plus(bag, types) \in Counts
         /\ \A e \in EventTypes : Plus(bag, types)[e] = bag[e] + (IF e \in types THEN 1 ELSE 0)
BY DEF Counts, Plus

LEMMA AllTypes ==
  /\ Ends \cup Faults \cup Repairs \cup ModelAttemptEvents \subseteq EventTypes
  /\ "model.retry.scheduled" \in EventTypes \ (Ends \cup Faults \cup Repairs)
  /\ "run.started" \in EventTypes \ (Ends \cup Faults \cup Repairs)
BY DEF Ends, Faults, Repairs, ModelAttemptEvents, EventTypes

LEMMA InitEvents == Init => EventsInv
<1> SUFFICES ASSUME Init PROVE EventsInv
  OBVIOUS
<1>1. NoEvents \in Counts /\ \A e \in EventTypes : NoEvents[e] = 0
  BY DEF NoEvents, Counts
<1>2. events = Plus(NoEvents, {"run.started"}) /\ kept = NoEvents /\ calls = 1
      /\ structured \in BOOLEAN /\ stage = "first" /\ pc = "route" /\ output = "none"
      /\ result = "none" /\ error = "none"
  BY DEF Init
<1>3. events \in Counts /\ \A e \in EventTypes : events[e] = IF e = "run.started" THEN 1 ELSE 0
  BY <1>1, <1>2, Emitted
<1>4. None(events, Ends \cup Faults \cup Repairs) /\ events["model.retry.scheduled"] = 0
  BY <1>3, AllTypes DEF None
<1> QED
  BY <1>1, <1>2, <1>3, <1>4 DEF EventsInv, None, PCs, EventsTell

(* Within a call nothing of interest is reported.                          *)
LEMMA CallingKeepsEvents ==
  ASSUME EventsInv, UNCHANGED <<eventVars, result>>, pc \in Calling, pc' \in Calling \cup {"done"},
         pc' = "done" \/ pc' = "failed" \/ error' = error, pc' = "failed" \/ pc # "failed"
  PROVE  EventsInv'
<1>1. UNCHANGED <<events, last, kept, calls, structured, stage, output, result>>
  BY DEF eventVars
<1>2. result = "none"
  BY DEF EventsInv
<1>3. EventsTell'
  BY <1>1, <1>2 DEF EventsTell
<1>4. pc \notin {"done", "parse", "repaired"} /\ pc' \notin {"parse", "repaired"} /\ pc' \in PCs
  BY DEF Calling, PCs
<1> QED
  BY <1>1, <1>3, <1>4 DEF EventsInv, None, KeptEvents, Calling

LEMMA FailKeepsEvents ==
  ASSUME EventsInv, NEW e, Fail(e), pc \in Calling PROVE EventsInv'
BY CallingKeepsEvents DEF Fail, call, eventVars, Calling

LEMMA ProviderKeepsEvents == EventsInv /\ Provider => EventsInv'
<1> SUFFICES ASSUME EventsInv, Provider PROVE EventsInv'
  OBVIOUS
<1>1. CASE RequestFails \/ BodyFails \/ ReadFails
  BY <1>1, FailKeepsEvents DEF RequestFails, BodyFails, ReadFails, Calling
<1>2. CASE Respond \/ Body \/ Close \/ Chunk
  <2>1. UNCHANGED <<eventVars, result, error>> /\ pc \in {"request", "body", "read"}
        /\ pc' \in {"body", "read", "frames"}
    BY <1>2, Zenon DEF Respond, Body, Close, Chunk, call, outcome, eventVars
  <2> QED
    BY <2>1, CallingKeepsEvents DEF Calling
<1> QED
  BY <1>1, <1>2 DEF Provider

LEMMA RetryKeepsEvents == EventsInv /\ Retry => EventsInv'
<1> SUFFICES ASSUME EventsInv, Retry PROVE EventsInv'
  OBVIOUS
<1>1. /\ pc = "failed" /\ pc' = "route" /\ error' = "none" /\ calls' = calls + 1
      /\ events' = Plus(events, {"model.retry.scheduled"})
      /\ UNCHANGED <<kept, structured, stage, output, result>>
  BY DEF Retry, Emit, call
<1>2. /\ events' \in Counts
      /\ \A e \in EventTypes : events'[e] = events[e] + (IF e = "model.retry.scheduled" THEN 1 ELSE 0)
  BY <1>1, Emitted DEF EventsInv
<1>3. events \in Counts /\ kept \in Counts /\ calls \in Nat /\ result = "none" /\ output = "none"
      /\ None(events, Ends \cup Faults \cup Repairs)
      /\ \A e \in EventTypes : events[e] \in Nat /\ kept[e] \in Nat
  BY <1>1 DEF EventsInv, None, Calling, Counts
<1>4. None(events', Ends \cup Faults \cup Repairs)
  BY <1>2, <1>3, AllTypes DEF None
<1>5. events'["model.retry.scheduled"] = events["model.retry.scheduled"] + 1
  BY <1>2, AllTypes
<1>6. stage = "first" => events'["model.retry.scheduled"] + 1 = calls'
  BY <1>1, <1>3, <1>5, AllTypes DEF EventsInv
<1>7. stage = "repair" => KeptEvents'
        /\ kept'["model.retry.scheduled"] + events'["model.retry.scheduled"] + 2 = calls'
  <2>1. stage = "repair" =>
          KeptEvents /\ kept["model.retry.scheduled"] + events["model.retry.scheduled"] + 2 = calls
    BY <1>1 DEF EventsInv
  <2>2. events["model.retry.scheduled"] \in Nat /\ kept["model.retry.scheduled"] \in Nat
    BY <1>3, AllTypes
  <2> QED
    BY <1>1, <1>3, <1>5, <2>1, <2>2 DEF KeptEvents, None
<1>8. EventsTell'
  BY <1>1 DEF EventsTell
<1>9. calls' \in Nat /\ stage' = stage /\ stage \in {"first", "repair"} /\ structured' \in BOOLEAN
      /\ kept' \in Counts
  BY <1>1, <1>3 DEF EventsInv
<1> QED
  BY <1>1, <1>2, <1>3, <1>4, <1>6, <1>7, <1>8, <1>9 DEF EventsInv, None, PCs, Calling
(* The end of a call: what it reports, and what is left to do with it.     *)
LEMMA EndKeepsEvents ==
  ASSUME EventsInv, pc \in {"answered", "failed"},
         UNCHANGED <<kept, calls, structured, stage, output>>,
         NEW types, NEW e \in Ends, events' = Plus(events, types \cup {e}), last' = e,
         types \subseteq EventTypes \ (Ends \cup Repairs \cup {"model.retry.scheduled"}),
         result' = (IF e = "run.completed" THEN "completed" ELSE "failed"),
         result' = "completed" => error' = "none" /\ types \cap Faults = {},
         "model.retry.exhausted" \in types <=> error' \in Retryable,
         error' \in ProviderErrors <=>
           "model.fallback.available" \in types \/ "model.fallback.not_configured" \in types,
         ~("model.fallback.available" \in types /\ "model.fallback.not_configured" \in types),
         \/ stage = "repair" /\ pc' = "repaired"
         \/ stage = "first" /\ pc' = "parse" /\ result' = "completed" /\ structured
         \/ stage = "first" /\ pc' = "done" /\ (structured => result' = "failed")
  PROVE  EventsInv'
<1>1. /\ events \in Counts /\ kept \in Counts /\ calls \in Nat /\ output = "none"
      /\ None(events, Ends \cup Faults \cup Repairs)
      /\ stage = "first" => events["model.retry.scheduled"] + 1 = calls
      /\ stage = "repair" =>
           KeptEvents /\ kept["model.retry.scheduled"] + events["model.retry.scheduled"] + 2 = calls
  BY DEF EventsInv, Calling, None
<1>2. /\ events' \in Counts
      /\ \A x \in EventTypes : events'[x] = events[x] + (IF x \in types \cup {e} THEN 1 ELSE 0)
  BY <1>1, Emitted
<1>3. None(events', Repairs) /\ events'["model.retry.scheduled"] = events["model.retry.scheduled"]
  <2>1. \A x \in EventTypes : x \notin types \cup {e} => events'[x] = events[x]
    BY <1>1, <1>2 DEF Counts
  <2>2. (Repairs \cup {"model.retry.scheduled"}) \cap (types \cup {e}) = {}
    BY DEF Ends, Repairs
  <2> QED
    BY <1>1, <2>1, <2>2, AllTypes DEF None
<1>4. \A x \in Ends \cup Faults : events'[x] = IF x \in types \cup {e} THEN 1 ELSE 0
  BY <1>1, <1>2, AllTypes DEF None
<1>5. events'["run.completed"] = (IF e = "run.completed" THEN 1 ELSE 0)
      /\ events'["run.failed"] = (IF e = "run.failed" THEN 1 ELSE 0)
  <2>1. "run.completed" \in Ends /\ "run.failed" \in Ends /\ types \cap Ends = {}
    BY DEF Ends
  <2> QED
    BY <1>4, <2>1
<1>6. \A x \in Faults : events'[x] = IF x \in types THEN 1 ELSE 0
  <2>1. Faults \cap Ends = {}
    BY DEF Faults, Ends
  <2> QED
    BY <1>4, <2>1
<1>7. "model.retry.exhausted" \in Faults /\ "model.fallback.available" \in Faults
      /\ "model.fallback.not_configured" \in Faults
  BY DEF Faults
<1>8. structured' \in BOOLEAN /\ stage \in {"first", "repair"} /\ (stage = "repair" => structured)
  BY <1>1 DEF EventsInv, KeptEvents
<1>9. e \in {"run.completed", "run.failed"}
  BY DEF Ends
<1>10. result' = "completed" => None(events', Faults \cup {"run.failed"}) /\ events'["run.completed"] = 1
         /\ last' = "run.completed"
  BY <1>5, <1>6, <1>9 DEF None
<1>11. ASSUME stage = "first" PROVE EventsTell'
  <2>1. last' = (IF result' = "completed" THEN "run.completed" ELSE "run.failed")
        /\ events'["run.completed"] + events'["run.failed"] = 1
    BY <1>5, <1>9
  <2>2. /\ events'["model.retry.exhausted"] = (IF error' \in Retryable THEN 1 ELSE 0)
        /\ events'["model.fallback.available"] + events'["model.fallback.not_configured"]
             = (IF error' \in ProviderErrors THEN 1 ELSE 0)
    BY <1>6, <1>7
  <2>3. result' = "completed" =>
          /\ events'["model.retry.exhausted"] = 0
          /\ events'["model.fallback.available"] + events'["model.fallback.not_configured"] = 0
    BY <1>7, <1>10 DEF None
  <2>4. result' \in {"completed", "failed"}
    OBVIOUS
  <2>5. /\ events'["model.output.repair_started"] = 0 /\ events'["model.output.repaired"] = 0
        /\ events'["model.output.repair_failed"] = 0
    BY <1>3 DEF None, Repairs
  <2>6. events["model.retry.scheduled"] \in Nat /\ events'["model.retry.scheduled"] + 0 + 1 = calls'
    BY <1>1, <1>3, <1>11, AllTypes DEF Counts
  <2>7. pc' = "done" /\ structured' => (result' = "completed" <=> output' # "none")
    BY <1>1, <1>11, <2>4
  <2>8. events'["model.retry.exhausted"]
          + (events'["model.fallback.available"] + events'["model.fallback.not_configured"]) > 0
        => result' = "failed"
    BY <2>3, <2>4
  <2> QED
    BY <2>1, <2>2, <2>5, <2>6, <2>7, <2>8 DEF EventsTell
<1>12. EventsTell'
  <2>1. CASE stage = "first"
    BY <1>11, <2>1
  <2>2. CASE stage = "repair"
    BY <2>2 DEF EventsTell
  <2> QED
    BY <1>8, <2>1, <2>2
<1>13. stage = "repair" => KeptEvents'
  BY <1>1 DEF KeptEvents, None
<1>14. pc' = "parse" => stage' = "first" /\ result' = "completed" /\ error' = "none" /\ structured'
  OBVIOUS
<1>15. pc' = "repaired" => stage' = "repair" /\ result' \in {"completed", "failed"}
         /\ (result' = "completed" => None(events', Faults))
  BY <1>10 DEF None
<1>16. pc' \in PCs /\ pc' \notin Calling
  BY DEF PCs, Calling
<1>17. pc' # "done" /\ stage' = "first" => events'["model.retry.scheduled"] + 1 = calls'
  BY <1>1, <1>3
<1>18. pc' # "done" /\ stage' = "repair" =>
         KeptEvents' /\ kept'["model.retry.scheduled"] + events'["model.retry.scheduled"] + 2 = calls'
  BY <1>1, <1>3, <1>13
<1> QED
  BY <1>1, <1>2, <1>3, <1>8, <1>10, <1>12, <1>14, <1>15, <1>16, <1>17, <1>18 DEF EventsInv, None
LEMMA GiveUpKeepsEvents == EventsInv /\ GiveUp => EventsInv'
<1> SUFFICES ASSUME EventsInv, GiveUp PROVE EventsInv'
  OBVIOUS
<1> DEFINE blame == IF fallback THEN "model.fallback.available" ELSE "model.fallback.not_configured"
<1>1. PICK types :
        types = (IF error \in Retryable THEN {"model.retry.exhausted"} ELSE {})
                \cup (IF error \in ProviderErrors THEN {blame} ELSE {})
  OBVIOUS
<1>2. /\ pc = "failed" /\ events' = Plus(events, types \cup {"run.failed"}) /\ last' = "run.failed"
      /\ result' = "failed" /\ pc' = (IF stage = "repair" THEN "repaired" ELSE "done")
      /\ UNCHANGED <<kept, calls, structured, stage, output, error>>
  BY <1>1 DEF GiveUp, Emit, call
<1>3. types \subseteq EventTypes \ (Ends \cup Repairs \cup {"model.retry.scheduled"})
  BY <1>1 DEF EventTypes, Ends, Repairs
<1>4. /\ "model.retry.exhausted" \in types <=> error' \in Retryable
      /\ error' \in ProviderErrors <=>
           "model.fallback.available" \in types \/ "model.fallback.not_configured" \in types
      /\ ~("model.fallback.available" \in types /\ "model.fallback.not_configured" \in types)
  BY <1>1, <1>2
<1>5. stage \in {"first", "repair"}
  BY DEF EventsInv
<1>6. "run.failed" \in Ends
  BY DEF Ends
<1> QED
  BY <1>2, <1>3, <1>4, <1>5, <1>6, EndKeepsEvents

LEMMA CompleteKeepsEvents == EventsInv /\ (Complete \/ ArtifactsFail) => EventsInv'
<1> SUFFICES ASSUME EventsInv, Complete \/ ArtifactsFail PROVE EventsInv'
  OBVIOUS
<1>1. pc = "answered" /\ UNCHANGED <<kept, calls, structured, stage, output>>
      /\ stage \in {"first", "repair"} /\ structured \in BOOLEAN
  BY DEF Complete, ArtifactsFail, call, EventsInv
<1>2. {"run.completed", "run.failed"} \subseteq Ends
  BY DEF Ends
<1>3. CASE Complete
  <2>1. PICK types : types = {"model.completed"} \cup Artifacts
    OBVIOUS
  <2>2. /\ events' = Plus(events, types \cup {"run.completed"}) /\ last' = "run.completed"
        /\ result' = "completed" /\ error' = error
        /\ pc' = IF stage = "repair" THEN "repaired" ELSE IF structured THEN "parse" ELSE "done"
    BY <1>3, <2>1 DEF Complete, Emit
  <2>3. error' = "none" /\ error' \notin Retryable /\ error' \notin ProviderErrors
    BY <1>1, <2>2 DEF EventsInv, Calling, Retryable, ProviderErrors, Errors
  <2>4. types \subseteq {"model.completed", "artifact.created", "review.completed"}
    BY <2>1 DEF Artifacts
  <2>5. types \subseteq EventTypes \ (Ends \cup Repairs \cup {"model.retry.scheduled"})
    BY <2>4 DEF EventTypes, Ends, Repairs
  <2>6. types \cap Faults = {} /\ "model.retry.exhausted" \notin types
        /\ "model.fallback.available" \notin types /\ "model.fallback.not_configured" \notin types
    BY <2>4 DEF Faults
  <2>7. \/ stage = "repair" /\ pc' = "repaired"
        \/ stage = "first" /\ pc' = "parse" /\ result' = "completed" /\ structured
        \/ stage = "first" /\ pc' = "done" /\ (structured => result' = "failed")
    BY <1>1, <2>2
  <2> QED
    BY <1>1, <1>2, <2>2, <2>3, <2>5, <2>6, <2>7, EndKeepsEvents
<1>4. CASE ArtifactsFail
  <2>1. PICK types : types = {"model.completed"}
    OBVIOUS
  <2>2. /\ events' = Plus(events, types \cup {"run.failed"}) /\ last' = "run.failed"
        /\ result' = "failed" /\ error' = "other"
        /\ pc' = (IF stage = "repair" THEN "repaired" ELSE "done")
    BY <1>4, <2>1 DEF ArtifactsFail, Emit
  <2>3. error' \notin Retryable /\ error' \notin ProviderErrors
    BY <2>2 DEF Retryable, ProviderErrors, Errors
  <2>4. types \subseteq EventTypes \ (Ends \cup Repairs \cup {"model.retry.scheduled"})
    BY <2>1 DEF EventTypes, Ends, Repairs
  <2> QED
    BY <1>1, <1>2, <2>1, <2>2, <2>3, <2>4, EndKeepsEvents
<1> QED
  BY <1>3, <1>4

LEMMA ParsedKeepsEvents == EventsInv /\ Parsed => EventsInv'
<1> SUFFICES ASSUME EventsInv, Parsed PROVE EventsInv'
  OBVIOUS
<1>1. /\ pc = "parse" /\ pc' = "done" /\ output' = "parsed"
      /\ events' = Plus(events, {"model.output.parsed"})
      /\ UNCHANGED <<structured, stage, kept, error, last, result, calls>>
  BY DEF Parsed
<1>2. /\ events \in Counts /\ kept \in Counts /\ calls \in Nat
      /\ stage = "first" /\ structured /\ result = "completed" /\ error = "none" /\ last = "run.completed"
      /\ None(events, Faults \cup Repairs \cup {"run.failed"}) /\ events["run.completed"] = 1
      /\ events["model.retry.scheduled"] + 1 = calls
  BY <1>1 DEF EventsInv, None
<1>3. events' \in Counts /\ \A e \in EventTypes : e # "model.output.parsed" => events'[e] = events[e]
  <2>1. /\ events' \in Counts
        /\ \A e \in EventTypes : events'[e] = events[e] + (IF e \in {"model.output.parsed"} THEN 1 ELSE 0)
    BY <1>1, <1>2, Emitted
  <2> QED
    BY <1>2, <2>1 DEF Counts
<1>4. \A e \in Ends \cup Faults \cup Repairs \cup {"model.retry.scheduled"} :
        e \in EventTypes /\ e # "model.output.parsed"
  BY DEF Ends, Faults, Repairs, EventTypes
<1>5. \A e \in Ends \cup Faults \cup Repairs \cup {"model.retry.scheduled"} : events'[e] = events[e]
  BY <1>3, <1>4
<1>6. /\ events'["run.completed"] = 1 /\ events'["run.failed"] = 0
      /\ events'["model.retry.scheduled"] = events["model.retry.scheduled"]
      /\ events'["model.retry.exhausted"] = 0
      /\ events'["model.fallback.available"] = 0 /\ events'["model.fallback.not_configured"] = 0
      /\ events'["model.output.repair_started"] = 0 /\ events'["model.output.repaired"] = 0
      /\ events'["model.output.repair_failed"] = 0
  BY <1>2, <1>5 DEF Ends, Faults, Repairs, None
<1>7. events["model.retry.scheduled"] \in Nat
  BY <1>2, AllTypes DEF Counts
<1>8. error' \notin Retryable /\ error' \notin ProviderErrors
  BY <1>1, <1>2 DEF Retryable, ProviderErrors, Errors
<1>9. EventsTell'
  BY <1>1, <1>2, <1>6, <1>7, <1>8 DEF EventsTell
<1> QED
  BY <1>1, <1>2, <1>3, <1>9 DEF EventsInv, PCs, Calling

LEMMA RepairKeepsEvents == EventsInv /\ Repair => EventsInv'
<1> SUFFICES ASSUME EventsInv, Repair PROVE EventsInv'
  OBVIOUS
<1>1. PICK bag : bag = Filtered(events, EventTypes \ {"run.completed"})
  OBVIOUS
<1>2. /\ pc = "parse" /\ pc' = "route" /\ stage' = "repair" /\ result' = "none" /\ calls' = calls + 1
      /\ kept' = Plus(bag, {"model.output.parse_failed", "model.output.repair_started"})
      /\ events' = Plus(NoEvents, {"run.started"})
      /\ UNCHANGED <<structured, output, error>>
  BY <1>1 DEF Repair
<1>3. /\ events \in Counts /\ calls \in Nat /\ output = "none"
      /\ structured /\ error = "none" /\ structured \in BOOLEAN
      /\ None(events, Faults \cup Repairs \cup {"run.failed"})
      /\ events["model.retry.scheduled"] + 1 = calls
  BY <1>2 DEF EventsInv, None
<1>4. /\ bag \in Counts /\ bag["run.completed"] = 0
      /\ \A e \in EventTypes : e # "run.completed" => bag[e] = events[e]
  BY <1>1, <1>3 DEF Filtered, Counts, EventTypes
<1>5. /\ kept' \in Counts
      /\ \A e \in EventTypes :
           kept'[e] = bag[e] + (IF e \in {"model.output.parse_failed", "model.output.repair_started"}
                                THEN 1 ELSE 0)
  BY <1>2, <1>4, Emitted
<1>6. NoEvents \in Counts /\ \A e \in EventTypes : NoEvents[e] = 0
  BY DEF NoEvents, Counts
<1>7. /\ events' \in Counts
      /\ \A e \in EventTypes : events'[e] = NoEvents[e] + (IF e \in {"run.started"} THEN 1 ELSE 0)
  BY <1>2, <1>6, Emitted
<1>8. None(events', Ends \cup Faults \cup Repairs) /\ events'["model.retry.scheduled"] = 0
  BY <1>6, <1>7, AllTypes DEF None
<1>9. \A e \in Faults \cup (Repairs \ {"model.output.repair_started"}) \cup {"run.failed"} :
        /\ e \in EventTypes /\ e # "run.completed" /\ events[e] = 0
        /\ e \notin {"model.output.parse_failed", "model.output.repair_started"}
  BY <1>3 DEF None, Faults, Repairs, EventTypes
<1>10. \A e \in Faults \cup (Repairs \ {"model.output.repair_started"}) \cup {"run.failed"} : kept'[e] = 0
  BY <1>4, <1>5, <1>9
<1>11. "run.completed" \in EventTypes /\ "model.output.repair_started" \in EventTypes
       /\ "model.output.repair_started" \in Repairs
  BY DEF EventTypes, Repairs
<1>12. kept'["run.completed"] = 0
  BY <1>4, <1>5, <1>11
<1>13. kept'["model.output.repair_started"] = 1
  BY <1>3, <1>4, <1>5, <1>11 DEF None
<1>14. kept'["model.retry.scheduled"] = events["model.retry.scheduled"]
       /\ events["model.retry.scheduled"] \in Nat
  <2>1. "model.retry.scheduled" \in EventTypes
    BY DEF EventTypes
  <2> QED
    BY <1>3, <1>4, <1>5, <2>1 DEF Counts
<1>15. KeptEvents'
  BY <1>2, <1>3, <1>10, <1>12, <1>13 DEF KeptEvents, None, Ends
<1>16. EventsTell'
  BY <1>2 DEF EventsTell
<1>17. kept'["model.retry.scheduled"] + events'["model.retry.scheduled"] + 2 = calls'
  BY <1>2, <1>3, <1>8, <1>14
<1> QED
  BY <1>2, <1>3, <1>5, <1>7, <1>8, <1>15, <1>16, <1>17 DEF EventsInv, PCs, None

LEMMA RepairEndKeepsEvents ==
  ASSUME EventsInv, NEW state \in {"completed", "failed"}, NEW out, NEW types, NEW e,
         RepairEnds(state, out, types, e),
         state = "completed" => result = "completed",
         state = "completed" <=> out # "none",
         e = (IF state = "completed" THEN "run.completed" ELSE "run.failed"),
         types \cap (Ends \cup Faults \cup {"model.retry.scheduled", "model.output.repair_started"}) = {},
         "model.output.repaired" \in types <=> "model.output.repair_failed" \notin types
  PROVE  EventsInv'
<1>1. PICK repair : repair = Filtered(events, ModelAttemptEvents)
  OBVIOUS
<1>2. PICK bag : bag = [x \in EventTypes |-> kept[x] + repair[x]]
  OBVIOUS
<1>3. /\ pc = "repaired" /\ pc' = "done" /\ result' = state /\ output' = out /\ last' = e
      /\ events' = Plus(bag, types \cup {e})
      /\ UNCHANGED <<structured, stage, kept, error, calls>>
  BY <1>1, <1>2 DEF RepairEnds
<1>4. /\ events \in Counts /\ kept \in Counts /\ calls \in Nat /\ stage = "repair" /\ KeptEvents
      /\ kept["model.retry.scheduled"] + events["model.retry.scheduled"] + 2 = calls
      /\ result = "completed" => None(events, Faults)
      /\ structured \in BOOLEAN
  BY <1>3 DEF EventsInv
<1>5. repair \in Counts /\ \A x \in EventTypes : repair[x] = IF x \in ModelAttemptEvents THEN events[x] ELSE 0
  BY <1>1, <1>4 DEF Filtered, Counts
<1>6. bag \in Counts /\ \A x \in EventTypes : bag[x] = kept[x] + repair[x]
  BY <1>2, <1>4, <1>5 DEF Counts
<1>7. /\ events' \in Counts
      /\ \A x \in EventTypes : events'[x] = bag[x] + (IF x \in types \cup {e} THEN 1 ELSE 0)
  BY <1>3, <1>6, Emitted
<1>8. \A x \in EventTypes : kept[x] \in Nat /\ events[x] \in Nat
  BY <1>4 DEF Counts
<1>9. \A x \in EventTypes :
        events'[x] = kept[x] + (IF x \in ModelAttemptEvents THEN events[x] ELSE 0)
                     + (IF x \in types \cup {e} THEN 1 ELSE 0)
  BY <1>5, <1>6, <1>7
<1>10. /\ kept["run.completed"] = 0 /\ kept["run.failed"] = 0 /\ kept["model.retry.exhausted"] = 0
       /\ kept["model.fallback.available"] = 0 /\ kept["model.fallback.not_configured"] = 0
       /\ kept["model.output.repair_started"] = 1 /\ kept["model.output.repaired"] = 0
       /\ kept["model.output.repair_failed"] = 0
  BY <1>4 DEF KeptEvents, None, Ends, Faults, Repairs
<1>11. e \in {"run.completed", "run.failed"}
  OBVIOUS
<1>12. events'["run.completed"] + events'["run.failed"] = 1
  <2>1. /\ "run.completed" \in EventTypes /\ "run.failed" \in EventTypes
        /\ "run.completed" \notin ModelAttemptEvents /\ "run.failed" \notin ModelAttemptEvents
        /\ "run.completed" \notin types /\ "run.failed" \notin types
    BY DEF EventTypes, ModelAttemptEvents, Ends
  <2> QED
    BY <1>9, <1>10, <1>11, <2>1
<1>13. events'["model.output.repair_started"] = 1
       /\ events'["model.output.repaired"] + events'["model.output.repair_failed"] = 1
  <2>1. \A x \in Repairs : x \in EventTypes /\ x \notin ModelAttemptEvents /\ x # e
    BY <1>11 DEF Repairs, EventTypes, ModelAttemptEvents
  <2>2. \A x \in Repairs : events'[x] = kept[x] + (IF x \in types THEN 1 ELSE 0)
    BY <1>8, <1>9, <2>1
  <2>3. {"model.output.repair_started", "model.output.repaired", "model.output.repair_failed"} = Repairs
    BY DEF Repairs
  <2>4. "model.output.repair_started" \notin types
    OBVIOUS
  <2> QED
    BY <1>10, <2>2, <2>3, <2>4
<1>14. events'["model.retry.scheduled"] = kept["model.retry.scheduled"] + events["model.retry.scheduled"]
       /\ kept["model.retry.scheduled"] \in Nat /\ events["model.retry.scheduled"] \in Nat
  <2>1. /\ "model.retry.scheduled" \in EventTypes /\ "model.retry.scheduled" \in ModelAttemptEvents
        /\ "model.retry.scheduled" \notin types /\ "model.retry.scheduled" # e
    BY <1>11 DEF EventTypes, ModelAttemptEvents
  <2> QED
    BY <1>8, <1>9, <2>1
<1>15. ASSUME state = "completed" PROVE \A x \in Faults : events'[x] = 0
  <2>1. \A x \in Faults : x \in EventTypes /\ x \notin types /\ x # e /\ kept[x] = 0 /\ events[x] = 0
    BY <1>4, <1>10, <1>11, <1>15 DEF Faults, EventTypes, None
  <2> QED
    BY <1>9, <2>1
<1>16. EventsTell'
  <2>1. state = "completed" =>
          /\ events'["model.retry.exhausted"] = 0
          /\ events'["model.fallback.available"] + events'["model.fallback.not_configured"] = 0
    BY <1>15 DEF Faults
  <2>2. events'["model.retry.exhausted"]
          + (events'["model.fallback.available"] + events'["model.fallback.not_configured"]) > 0
        => state = "failed"
    BY <2>1
  <2>3. events'["model.retry.scheduled"] + events'["model.output.repair_started"] + 1 = calls'
    BY <1>3, <1>4, <1>13, <1>14
  <2> QED
    BY <1>3, <1>4, <1>12, <1>13, <2>2, <2>3 DEF EventsTell
<1> QED
  BY <1>3, <1>4, <1>7, <1>16 DEF EventsInv, PCs, Calling

LEMMA RepairEndsKeepEvents == EventsInv /\ (Repaired \/ FallbackBrief \/ RepairFails) => EventsInv'
<1> SUFFICES ASSUME EventsInv, Repaired \/ FallbackBrief \/ RepairFails PROVE EventsInv'
  OBVIOUS
<1> USE DEF Ends, Faults
<1>1. CASE Repaired
  BY <1>1, RepairEndKeepsEvents DEF Repaired
<1>2. CASE FallbackBrief
  BY <1>2, RepairEndKeepsEvents DEF FallbackBrief
<1>3. CASE RepairFails
  BY <1>3, RepairEndKeepsEvents DEF RepairFails
<1> QED
  BY <1>1, <1>2, <1>3

LEMMA GeneratorKeepsEvents == EventsInv /\ Generator => EventsInv'
<1> SUFFICES ASSUME EventsInv, Generator PROVE EventsInv'
  OBVIOUS
<1>1. CASE NoRoute \/ NotConfigured \/ TimesOut \/ BadFrame \/ NoText
  BY <1>1, FailKeepsEvents DEF NoRoute, NotConfigured, TimesOut, BadFrame, NoText, Waiting, Calling
<1>2. CASE MockRoute \/ Request \/ Skip \/ Delta \/ ReadOn \/ Answer
  <2>1. UNCHANGED <<eventVars, result, error>> /\ pc \in {"route", "frames"}
        /\ pc' \in {pc, "request", "read", "frames", "held", "answered"}
    BY <1>2, Zenon DEF MockRoute, Request, Skip, Delta, ReadOn, Answer, call, reading, outcome, eventVars
  <2> QED
    BY <2>1, CallingKeepsEvents DEF Calling
<1>3. CASE Return
  <2>1. UNCHANGED <<eventVars, result>> /\ pc = "held" /\ pc' = "done"
    BY <1>3 DEF Return, call, outcome, eventVars
  <2> QED
    BY <2>1, CallingKeepsEvents DEF Calling
<1> QED
  BY <1>1, <1>2, <1>3, RetryKeepsEvents, GiveUpKeepsEvents, CompleteKeepsEvents, ParsedKeepsEvents,
     RepairKeepsEvents, RepairEndsKeepEvents DEF Generator

LEMMA NextKeepsEvents == EventsInv /\ [Next]_vars => EventsInv'
<1> SUFFICES ASSUME EventsInv, [Next]_vars PROVE EventsInv'
  OBVIOUS
<1>1. CASE Take
  <2>1. UNCHANGED <<eventVars, result, error>> /\ pc = "held" /\ pc' = "frames"
    BY <1>1 DEF Take, call, outcome, eventVars
  <2> QED
    BY <2>1, CallingKeepsEvents DEF Calling
<1>2. CASE Cancel \/ UNCHANGED vars \/ \E t \in Timers : Fire(t)
  <2>1. UNCHANGED <<events, last, kept, calls, structured, stage, output, result, error, pc>>
    BY <1>2, Zenon DEF Cancel, vars, Fire, call, outcome
  <2>2. EventsTell' <=> EventsTell
    BY <2>1 DEF EventsTell
  <2> QED
    BY <2>1, <2>2 DEF EventsInv, None, KeptEvents
<1> QED
  BY <1>1, <1>2, ProviderKeepsEvents, GeneratorKeepsEvents DEF Next

(* However often a call is retried and its output repaired, the events of  *)
(* a finished run agree with what happened and with its result             *)
(* (EventsTell): one retry event for each further attempt, one end.        *)
THEOREM EventsAreTelling == Spec => []EventsTell
<1>1. EventsInv => EventsTell
  BY DEF EventsInv
<1> QED
  BY <1>1, InitEvents, NextKeepsEvents, PTL DEF Spec
=============================================================================
