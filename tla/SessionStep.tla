----------------------------- MODULE SessionStep -----------------------------
(***************************************************************************)
(* session/runner/step.ts: one Session's model steps.  The attempt's fiber *)
(* reads the provider's stream and publishes what it says; every local     *)
(* tool call runs in a fiber of its own, which publishes its outcome.  The *)
(* two meet in the records of publish-llm-event.ts, with no lock: a method *)
(* marks a record in the step that checks it, before its publication.      *)
(* runStep of session/runner/llm.ts tries a step again; a drain begins by  *)
(* settling what a dead process left.                                      *)
(***************************************************************************)
EXTENDS Naturals

CONSTANTS
  Call,         \* tool call IDs
  None,
  MaxAttempts,  \* the physical attempts the retry policy allows one step
  MaxStops      \* bound: the number of interrupts and deaths explored

ASSUME StepAssumption ==
  /\ None \notin Call
  /\ MaxAttempts \in Nat \ {0} /\ MaxStops \in Nat

VARIABLES
  main,   \* the attempt's fiber, with the locals of attempt and runStep
  mark,   \* the publisher's record of the step
  tool,   \* [Call -> the publisher's record of the call]
  fiber,  \* [Call -> the fiber that executes it]
  asked,  \* an interrupt is pending on the attempt's fiber
  call,   \* durable: [Call -> what the log says of it]
  step,   \* durable: what the log says of the last assistant message's step
  stops   \* interrupts and deaths so far

memory == <<main, mark, tool, fiber, asked>>
log    == <<call, step>>
vars   == <<memory, log, stops>>

(* dead: the process died; idle: no drain.  stale: settling leftovers.     *)
(* calling: publishing Tool.Called of main.call; forking: about to fork it.*)
(* stopping, halting: interruptTools after the stream, after the join.     *)
(* again: an outcome that makes runStep try once more.                     *)
Places == {"dead", "idle", "stale", "reading", "calling", "forking", "stopping", "joining",
           "halting", "judging", "compacting", "asking", "settling", "again"}

(* How the stream ended: "rebuild" is a transport failure that asks for a  *)
(* full retry, "error" any other failure of the model.                     *)
Failures == {"overflow", "rebuild", "error"}
Streams  == {"open", "ok", "interrupted"} \union Failures
(* skipped: interrupted where attempt restores interruption, past the join.*)
Outcomes == {"none", "Retry", "Continue", "Compacted", "RecoverFull", "skipped"}

MainRecord ==
  [at : Places, call : Call \union {None}, stream : Streams,
   unjoined : BOOLEAN, retry : BOOLEAN, outcome : Outcomes, attempts : 0..MaxAttempts,
   recoverOverflow : BOOLEAN, recoverContinuation : BOOLEAN]

MarkRecord ==
  [stepStarted : BOOLEAN, outputStarted : BOOLEAN, providerFailed : BOOLEAN,
   failure : BOOLEAN, finish : {"none", "stop", "filter", "unknown"}, missing : BOOLEAN]

ToolRecord ==
  [known : BOOLEAN, called : BOOLEAN, settled : BOOLEAN, hosted : BOOLEAN, malformed : BOOLEAN]

Fibers == {"none", "executing", "publishing", "done", "declined", "interrupted", "defect"}

(* ends counts terminal events, closes the Step.Ended and Step.Failed ones.*)
(* A call belongs to its message; past: to an earlier one than the last.   *)
CallRecord == [state : {"none", "streaming", "running", "ended"}, past : BOOLEAN, ends : 0..2]
StepRecord == [state : {"none", "started", "ended", "failed"}, output : BOOLEAN, closes : 0..2]

TypeOK ==
  /\ main \in MainRecord
  /\ mark \in MarkRecord
  /\ tool \in [Call -> ToolRecord]
  /\ fiber \in [Call -> Fibers]
  /\ asked \in BOOLEAN
  /\ call \in [Call -> CallRecord]
  /\ step \in StepRecord
  /\ stops \in 0..MaxStops

NoMark  == [stepStarted |-> FALSE, outputStarted |-> FALSE, providerFailed |-> FALSE,
            failure |-> FALSE, finish |-> "none", missing |-> FALSE]
NoTool  == [known |-> FALSE, called |-> FALSE, settled |-> FALSE, hosted |-> FALSE,
            malformed |-> FALSE]

NoCall  == [state |-> "none", past |-> FALSE, ends |-> 0]
NoStep  == [state |-> "none", output |-> FALSE, closes |-> 0]

Out(at) ==
  [at |-> at, call |-> None, stream |-> "open", unjoined |-> FALSE,
   retry |-> FALSE, outcome |-> "none", attempts |-> 0, recoverOverflow |-> TRUE,
   recoverContinuation |-> TRUE]

Forgotten ==
  /\ mark' = NoMark
  /\ tool' = [c \in Call |-> NoTool]
  /\ fiber' = [c \in Call |-> "none"]

Init ==
  /\ main = Out("idle")
  /\ mark = NoMark
  /\ tool = [c \in Call |-> NoTool]
  /\ fiber = [c \in Call |-> "none"]
  /\ asked = FALSE
  /\ call = [c \in Call |-> NoCall]
  /\ step = NoStep
  /\ stops = 0

-----------------------------------------------------------------------------
(* Publications.                                                           *)

Goto(at) == main' = [main EXCEPT !.at = at]

Capped(n) == IF n < 2 THEN n + 1 ELSE n

(* The log once each call of S has got one more terminal event.            *)
Ended(S) ==
  [c \in Call |->
     IF c \in S THEN [call[c] EXCEPT !.state = "ended", !.ends = Capped(call[c].ends)]
     ELSE call[c]]

(* failTool for each call of S.                                            *)
Fail(S) ==
  /\ tool' = [c \in Call |-> IF c \in S THEN [tool[c] EXCEPT !.settled = TRUE] ELSE tool[c]]
  /\ call' = Ended(S)

(* startAssistant, and visible output when there is any.                   *)
Started(output) ==
  [step EXCEPT !.state = IF @ = "none" THEN "started" ELSE @, !.output = @ \/ output]

(* A new assistant message; an ID is unique within its message, so those of*)
(* finished calls may come again.                                          *)
NewMessage ==
  /\ step' = NoStep
  /\ call' = [c \in Call |-> IF call[c].state \in {"streaming", "running"}
                            THEN [call[c] EXCEPT !.past = TRUE] ELSE NoCall]

Known     == {c \in Call : tool[c].known}
Unsettled == {c \in Known : ~tool[c].settled}
Malformed == {c \in Unsettled : tool[c].malformed}
Uncalled  == {c \in Unsettled : ~tool[c].called}
Hosted    == {c \in Unsettled : tool[c].hosted}

-----------------------------------------------------------------------------
(* A drain begins.                                                         *)

Orphans == {c \in Call : call[c].state \in {"streaming", "running"}}

Drain ==
  /\ main.at \in {"idle", "dead"}
  /\ main' = Out("stale")
  /\ UNCHANGED <<mark, tool, fiber, asked, log, stops>>

(* settleStaleToolCalls: one call of the projected context.                *)
SettleStale(c) ==
  /\ main.at = "stale" /\ ~asked
  /\ c \in Orphans
  /\ call' = Ended({c})
  /\ UNCHANGED <<memory, step, stops>>

(* runStep begins with a new message.                                      *)
RunStep ==
  /\ main.at = "stale" /\ ~asked
  /\ Orphans = {}
  /\ main' = [Out("reading") EXCEPT !.attempts = 1]
  /\ NewMessage
  /\ UNCHANGED <<mark, tool, fiber, asked, stops>>

(* The drain is interrupted before it took a step.                         *)
Leave ==
  /\ main.at = "stale" /\ asked
  /\ main' = [Out("idle") EXCEPT !.outcome = "skipped"]
  /\ asked' = FALSE
  /\ UNCHANGED <<mark, tool, fiber, log, stops>>

-----------------------------------------------------------------------------
(* The provider's stream.  Each publication is uninterruptible; an         *)
(* interrupt lands between two of them.                                    *)

Reads == main.at = "reading" /\ ~asked /\ ~mark.providerFailed

(* text-start and reasoning-start.                                         *)
Text ==
  /\ Reads
  /\ mark' = [mark EXCEPT !.stepStarted = TRUE, !.outputStarted = TRUE]
  /\ step' = Started(TRUE)
  /\ UNCHANGED <<main, tool, fiber, asked, call, stops>>

(* step-start.                                                             *)
Starts ==
  /\ Reads
  /\ mark' = [mark EXCEPT !.stepStarted = TRUE]
  /\ step' = Started(FALSE)
  /\ UNCHANGED <<main, tool, fiber, asked, call, stops>>

(* startToolInput.                                                         *)
InputStarts(c, hosted) ==
  /\ Reads
  /\ call[c].state = "none" /\ c \notin Known
  /\ mark' = [mark EXCEPT !.stepStarted = TRUE, !.outputStarted = TRUE]
  /\ step' = Started(TRUE)
  /\ tool' = [tool EXCEPT ![c] = [@ EXCEPT !.known = TRUE, !.hosted = hosted]]
  /\ call' = [call EXCEPT ![c] = [@ EXCEPT !.state = "streaming"]]
  /\ UNCHANGED <<main, fiber, asked, stops>>

(* tool-input-error.                                                       *)
InputBreaks(c) ==
  /\ Reads
  /\ c \in Uncalled
  /\ tool' = [tool EXCEPT ![c].malformed = TRUE]
  /\ UNCHANGED <<main, mark, fiber, asked, log, stops>>

(* tool-call: the mark, then the publication.                              *)
Calls(c) ==
  /\ Reads
  /\ c \in Uncalled \ Malformed
  /\ tool' = [tool EXCEPT ![c].called = TRUE]
  /\ main' = [main EXCEPT !.at = "calling", !.call = c]
  /\ UNCHANGED <<mark, fiber, asked, log, stops>>

Called ==
  /\ main.at = "calling"
  /\ call' = [call EXCEPT ![main.call].state = "running"]
  /\ main' = IF tool[main.call].hosted THEN [main EXCEPT !.at = "reading", !.call = None]
             ELSE [main EXCEPT !.at = "forking"]
  /\ UNCHANGED <<mark, tool, fiber, asked, step, stops>>

(* An interrupt that came during the publication lands before the fork.    *)
Fork ==
  /\ main.at = "forking"
  /\ fiber' = IF asked THEN fiber ELSE [fiber EXCEPT ![main.call] = "executing"]
  /\ main' = [main EXCEPT !.at = "reading", !.call = None]
  /\ UNCHANGED <<mark, tool, asked, log, stops>>

(* tool-result of a hosted call.                                           *)
HostedResult(c) ==
  /\ Reads
  /\ c \in Hosted /\ tool[c].called
  /\ Fail({c})
  /\ UNCHANGED <<main, mark, fiber, asked, step, stops>>

(* step-finish; a content filter fails the step at once.                   *)
Finishes(reason) ==
  /\ Reads
  /\ mark.finish = "none"
  /\ IF reason = "filter"
     THEN /\ mark' = [mark EXCEPT !.finish = reason, !.providerFailed = TRUE, !.failure = TRUE,
                                  !.stepStarted = TRUE]
          /\ Fail(Uncalled)
          /\ step' = Started(FALSE)
     ELSE /\ mark' = [mark EXCEPT !.finish = reason]
          /\ UNCHANGED <<tool, log>>
  /\ UNCHANGED <<main, fiber, asked, stops>>

(* The stream ends, and flush runs whatever the reason.                    *)
StreamEnds(how) ==
  /\ main.at = "reading"
  /\ asked <=> how = "interrupted"
  /\ main' = [main EXCEPT !.at = IF asked THEN "stopping" ELSE "joining", !.stream = how]
  /\ Fail(Malformed)
  /\ UNCHANGED <<mark, fiber, asked, step, stops>>

-----------------------------------------------------------------------------
(* A local tool's fiber.  Its work can be interrupted, its publication not.*)

(* Mutation: the outcome is published without its mark.                    *)
SettlesUnmarked(c) ==
  /\ fiber[c] = "executing"
  /\ fiber' = [fiber EXCEPT ![c] = "publishing"]
  /\ UNCHANGED <<main, mark, tool, asked, log, stops>>

(* toolExecution, or failTool when the tool failed.                        *)
Settles(c) ==
  /\ fiber[c] = "executing"
  /\ fiber' = [fiber EXCEPT ![c] = "publishing"]
  /\ tool' = [tool EXCEPT ![c].settled = TRUE]
  /\ UNCHANGED <<main, mark, asked, log, stops>>

Publishes(c) ==
  /\ fiber[c] = "publishing"
  /\ fiber' = [fiber EXCEPT ![c] = "done"]
  /\ call' = Ended({c})
  /\ UNCHANGED <<main, mark, tool, asked, step, stops>>

(* The user declines, or the tool has a defect: nothing is published.      *)
Quits(c, how) ==
  /\ fiber[c] = "executing"
  /\ fiber' = [fiber EXCEPT ![c] = how]
  /\ UNCHANGED <<main, mark, tool, asked, log, stops>>

Stopped(c) ==
  /\ main.at \in {"stopping", "halting"}
  /\ fiber[c] = "executing"
  /\ fiber' = [fiber EXCEPT ![c] = "interrupted"]
  /\ UNCHANGED <<main, mark, tool, asked, log, stops>>

Runs(c) ==
  \/ Settles(c) \/ Publishes(c) \/ Stopped(c)
  \/ \E how \in {"declined", "defect"} : Quits(c, how)

Over == \A c \in Call : fiber[c] \notin {"executing", "publishing"}

-----------------------------------------------------------------------------
(* After the stream.                                                       *)

(* Interrupted before the start snapshot existed: nothing is recorded.     *)
Abandon ==
  /\ main.at = "stopping"
  /\ ~mark.stepStarted
  /\ main' = Out("idle")
  /\ asked' = FALSE
  /\ Forgotten
  /\ UNCHANGED <<log, stops>>

(* awaitAll and interruptTools: unjoined says that it was interrupted, at   *)
(* once when the stream already was.                                       *)
Joins ==
  \/ /\ main.at = "joining" /\ asked
     /\ Goto("halting")
     /\ UNCHANGED <<mark, tool, fiber, asked, log, stops>>
  \/ /\ main.at = "joining" /\ Over /\ ~asked
     /\ Goto("judging")
     /\ UNCHANGED <<mark, tool, fiber, asked, log, stops>>
  \/ /\ main.at \in {"stopping", "halting"} /\ Over
     /\ main' = [main EXCEPT !.at = "judging", !.unjoined = TRUE]
     /\ UNCHANGED <<mark, tool, fiber, asked, log, stops>>

(* classifyToolExits: an interrupted join has no exits to classify.        *)
Declines    == IF main.unjoined THEN {} ELSE {c \in Call : fiber[c] = "declined"}
Defects     == IF main.unjoined THEN {} ELSE {c \in Call : fiber[c] = "defect"}
Interrupted == Declines # {} \/ main.stream = "interrupted" \/ main.unjoined

LLMFailure == main.stream \in Failures \/ (main.stream = "ok" /\ mark.finish = "unknown")
LLMError   == LLMFailure /\ ~mark.providerFailed

Recoverable == ~mark.outputStarted /\ main.stream = "overflow"

Again(outcome) == main' = [main EXCEPT !.at = "again", !.outcome = outcome]

(* Mutation: the attempt starts over whatever came before.                 *)
RebuildsAnyway == main.stream = "rebuild" /\ main.recoverContinuation

(* A transport failure that asks for a full retry gets one, immediately.   *)
Rebuilds == main.stream = "rebuild" /\ main.recoverContinuation /\ ~mark.outputStarted

(* What the attempt makes of the stream's failure, before it records it.   *)
Judge ==
  /\ main.at = "judging"
  /\ CASE Recoverable -> Goto("compacting")
       [] Rebuilds -> Again("RecoverFull")
       [] LLMError /\ main.stream # "overflow" /\ ~Rebuilds -> Goto("asking")
       [] OTHER -> Goto("settling")
  /\ UNCHANGED <<mark, tool, fiber, asked, log, stops>>

(* recoverOverflow: once per step.                                         *)
Compact(completed) ==
  /\ main.at = "compacting" /\ ~asked
  /\ completed => main.recoverOverflow
  /\ IF completed THEN Again("Compacted") ELSE Goto("settling")
  /\ UNCHANGED <<mark, tool, fiber, asked, log, stops>>

(* Mutation: the hook overrides the policy.                                *)
DecideAnyway(retry) ==
  /\ main.at = "asking" /\ ~asked
  /\ IF retry /\ ~mark.outputStarted
     THEN /\ Again("Retry")
          /\ mark' = [mark EXCEPT !.stepStarted = TRUE]
          /\ step' = Started(FALSE)
     ELSE /\ main' = [main EXCEPT !.at = "settling", !.retry = retry]
          /\ UNCHANGED <<mark, step>>
  /\ UNCHANGED <<tool, fiber, asked, call, stops>>

(* retry.decide: the policy and a plugin's hook.                           *)
Decide(retry) ==
  /\ main.at = "asking" /\ ~asked
  /\ retry => main.attempts < MaxAttempts
  /\ IF retry /\ ~mark.outputStarted
     THEN /\ Again("Retry")
          /\ mark' = [mark EXCEPT !.stepStarted = TRUE]
          /\ step' = Started(FALSE)
     ELSE /\ main' = [main EXCEPT !.at = "settling", !.retry = retry]
          /\ UNCHANGED <<mark, step>>
  /\ UNCHANGED <<tool, fiber, asked, call, stops>>

(* Both run where interruption is restored, and the stream or the join may *)
(* have been interrupted before: the rest of the attempt is skipped.       *)
Skip ==
  /\ main.at \in {"compacting", "asking"} /\ asked
  /\ main' = [Out("idle") EXCEPT !.outcome = "skipped"]
  /\ asked' = FALSE
  /\ Forgotten
  /\ UNCHANGED <<log, stops>>

-----------------------------------------------------------------------------
(* The settlement, which nothing interrupts.                               *)

(* failUnsettledTools for all of them.                                     *)
FailsAll == Interrupted \/ Defects # {} \/ mark.providerFailed

(* The provider's side is complete, one way or the other.                  *)
Complete == LLMError \/ (main.stream = "ok" /\ ~mark.providerFailed)

(* Mutation: hosted calls are left to their results.                       *)
ToFailLocal ==
  IF FailsAll THEN Unsettled
  ELSE IF Complete THEN Uncalled
  ELSE {}

ToFail ==
  IF FailsAll THEN Unsettled
  ELSE IF Complete THEN Uncalled \union Hosted
  ELSE {}

FailTool(c) ==
  /\ main.at = "settling"
  /\ c \in ToFail
  /\ Fail({c})
  /\ mark' = [mark EXCEPT !.missing = @ \/ (~FailsAll /\ tool[c].hosted)]
  /\ UNCHANGED <<main, fiber, asked, step, stops>>

(* failAssistant was called, now or before.                                *)
Failed ==
  \/ mark.failure
  \/ LLMError
  \/ Interrupted
  \/ mark.missing /\ mark.finish = "none"

(* Step.Failed or Step.Ended; without finish or failure neither.           *)
Closed ==
  LET state == IF Failed THEN "failed" ELSE IF mark.finish # "none" THEN "ended" ELSE "none"
  IN IF state = "none" THEN step
     ELSE [step EXCEPT !.state = state, !.closes = Capped(@)]

Continues ==
  LLMError /\ main.retry /\ mark.outputStarted /\ Declines = {} /\ ~main.unjoined

(* Mutation: the step is closed before its tools are.                      *)
CloseFirst ==
  /\ main.at = "settling"
  /\ step' = Closed
  /\ IF Continues THEN Again("Continue") /\ UNCHANGED <<mark, tool, fiber, asked>>
     ELSE main' = Out("idle") /\ asked' = FALSE /\ Forgotten
  /\ UNCHANGED <<call, stops>>

Close ==
  /\ main.at = "settling"
  /\ ToFail = {}
  /\ step' = Closed
  /\ IF Continues THEN Again("Continue") /\ UNCHANGED <<mark, tool, fiber, asked>>
     ELSE main' = Out("idle") /\ asked' = FALSE /\ Forgotten
  /\ UNCHANGED <<call, stops>>

-----------------------------------------------------------------------------
(* runStep.                                                                *)

Fresh == main.outcome \in {"Continue", "Compacted"}

(* The next attempt, after a delay for Retry and Continue.                 *)
TryAgain ==
  /\ main.at = "again" /\ ~asked
  /\ main' =
       [Out("reading") EXCEPT
          !.attempts = main.attempts + IF main.outcome \in {"Retry", "Continue"} THEN 1 ELSE 0,
          !.recoverOverflow = main.recoverOverflow /\ main.outcome # "Compacted",
          !.recoverContinuation = main.recoverContinuation /\ main.outcome # "RecoverFull"]
  /\ IF Fresh THEN NewMessage ELSE UNCHANGED log
  /\ Forgotten
  /\ UNCHANGED <<asked, stops>>

GiveUp ==
  /\ main.at = "again" /\ asked
  /\ main' = Out("idle")
  /\ asked' = FALSE
  /\ Forgotten
  /\ UNCHANGED <<log, stops>>

-----------------------------------------------------------------------------
(* The user interrupts; the process dies.                                  *)

Interrupt ==
  /\ stops < MaxStops
  /\ main.at \notin {"dead", "idle"} /\ ~asked
  /\ asked' = TRUE
  /\ stops' = stops + 1
  /\ UNCHANGED <<main, mark, tool, fiber, log>>

Die ==
  /\ stops < MaxStops
  /\ main.at \notin {"dead", "idle"}
  /\ stops' = stops + 1
  /\ main' = Out("dead")
  /\ asked' = FALSE
  /\ Forgotten
  /\ UNCHANGED log

-----------------------------------------------------------------------------
Provider ==
  \/ Text \/ Starts
  \/ \E c \in Call, hosted \in BOOLEAN : InputStarts(c, hosted)
  \/ \E c \in Call : InputBreaks(c) \/ Calls(c) \/ HostedResult(c)
  \/ \E reason \in {"stop", "filter", "unknown"} : Finishes(reason)

Attempt ==
  \/ Called \/ Fork
  \/ \E how \in Streams \ {"open"} : StreamEnds(how)
  \/ Abandon \/ Joins \/ Judge
  \/ \E completed \in BOOLEAN : Compact(completed)
  \/ \E retry \in BOOLEAN : Decide(retry)
  \/ Skip
  \/ \E c \in Call : FailTool(c)
  \/ Close

Next ==
  \/ Drain
  \/ \E c \in Call : SettleStale(c) \/ Runs(c)
  \/ RunStep \/ Leave
  \/ Provider
  \/ Attempt
  \/ TryAgain \/ GiveUp
  \/ Interrupt \/ Die

Spec == Init /\ [][Next]_vars

(* Streams end and tools return; a drain that began goes on; the boot after*)
(* a death drains the Session again.                                       *)
Fairness ==
  /\ WF_vars(main.at = "dead" /\ Drain)
  /\ WF_vars((\E c \in Call : SettleStale(c)) \/ RunStep \/ Leave \/ TryAgain \/ GiveUp)
  /\ WF_vars(Attempt)
  /\ \A c \in Call : WF_vars(Runs(c))

FairSpec == Spec /\ Fairness

-----------------------------------------------------------------------------
(* However a tool's outcome, a hosted result, the sweeps of a failing step,*)
(* an interrupt, a death and the settlement at the next drain meet, no tool*)
(* call gets two terminal events.                                          *)
SettledOnce == \A c \in Call : call[c].ends <= 1

(* "Every local and hosted call reaches durable success or failure before  *)
(* the Step publishes its single terminal ended or failed event", and a    *)
(* closed step stays closed.                                               *)
EveryCallSettledFirst ==
  /\ step.closes <= 1
  /\ step.state \in {"ended", "failed"} =>
       /\ step.closes = 1
       /\ \A c \in Call : call[c].past \/ call[c].state \in {"none", "ended"}

(* A step is tried again under its own message, or dropped for a compacted *)
(* one, only while nothing of it is to be seen; after output the partial   *)
(* message has failed, and a new one continues it.                         *)
AgainIsClean ==
  main.at = "again" =>
    IF main.outcome = "Continue" THEN step.state = "failed"
    ELSE ~step.output /\ \A c \in Call : call[c].past \/ call[c].state = "none"

(* A tool call does not stay unanswered: the step, or after a death the    *)
(* next drain, ends it; unless the rest of the attempt was skipped.        *)
CallsGetResults ==
  \A c \in Call :
    c \in Orphans ~> c \notin Orphans \/ (main.at = "idle" /\ main.outcome = "skipped")

=============================================================================
