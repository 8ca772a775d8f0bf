------------------------- MODULE SessionStepProofs -------------------------
(***************************************************************************)
(* Proofs about SessionStep, for any set of tool calls, any retry policy,  *)
(* and any number of interrupts and deaths.                                *)
(***************************************************************************)
EXTENDS SessionStep, TLAPS

Open == {"streaming", "running"}
Live == main.at \notin {"dead", "idle", "stale"}
Late == main.at \in {"judging", "compacting", "asking", "settling", "again"}

(* The records of the attempt, the call's in the log, and its fiber agree. *)
CallInv(c) ==
  /\ call[c].ends = IF call[c].state = "ended" THEN 1 ELSE 0
  /\ tool[c].called \/ tool[c].settled \/ tool[c].hosted \/ tool[c].malformed => tool[c].known
  /\ tool[c].malformed => ~tool[c].called
  /\ tool[c].known /\ ~tool[c].settled => call[c].state \in Open
  /\ tool[c].known /\ tool[c].settled => call[c].state = "ended" \/ fiber[c] = "publishing"
  /\ fiber[c] # "none" => tool[c].called /\ ~tool[c].hosted
  /\ fiber[c] = "executing" => ~tool[c].settled
  /\ fiber[c] = "publishing" => tool[c].settled /\ call[c].state \in Open
  /\ fiber[c] = "done" => tool[c].settled

(* A call the publisher does not know has left nothing open in this        *)
(* message; a called one without a fiber is about to get it, or was cut off*)
(* by an interrupt.                                                        *)
MessageInv(c) ==
  /\ Live /\ ~tool[c].known => call[c].state = "none" \/ call[c].past
  /\ tool[c].known => mark.outputStarted
  /\ tool[c].called /\ ~tool[c].settled /\ ~tool[c].hosted /\ fiber[c] = "none" =>
       \/ asked /\ main.at = "reading"
       \/ main.stream = "interrupted" \/ main.unjoined
       \/ main.at \in {"calling", "forking"} /\ main.call = c
  /\ fiber[c] = "interrupted" => main.at \in {"stopping", "halting"} \/ main.unjoined

Quiet == \A c \in Call : call[c].past \/ call[c].state \in {"none", "ended"}

(* The next attempt is one that the policy allows.                         *)
AttemptsInv ==
  main.at = "again" /\ main.outcome \in {"Retry", "Continue"} => main.attempts < MaxAttempts

(* What the place of the attempt's fiber says of its stream, its tools and *)
(* the call it is busy with.                                               *)
PlaceInv ==
  /\ ~Live => mark = NoMark /\ \A c \in Call : tool[c] = NoTool /\ fiber[c] = "none"
  /\ Late => Over /\ main.stream # "open"
  /\ main.at \in {"reading", "calling", "forking"} => main.stream = "open"
  /\ main.at = "stopping" => main.stream = "interrupted"
  /\ main.at \in {"joining", "halting"} => main.stream # "open"
  /\ main.stream = "interrupted" => main.at = "stopping" \/ main.unjoined
  /\ main.at \in {"calling", "forking"} =>
       /\ main.call \in Call
       /\ tool[main.call].called /\ ~tool[main.call].settled
       /\ fiber[main.call] = "none"
       /\ main.at = "forking" => ~tool[main.call].hosted
  /\ main.at = "compacting" => ~mark.outputStarted
  /\ main.retry => main.attempts < MaxAttempts
  /\ AttemptsInv

(* The step is closed once, behind its calls.                              *)
StepInv ==
  /\ step.closes = IF step.state \in {"ended", "failed"} THEN 1 ELSE 0
  /\ step.closes = 1 => Quiet
  /\ Live /\ ~(main.at = "again" /\ main.outcome = "Continue") =>
       step.closes = 0 /\ (step.output => mark.outputStarted)
  /\ main.at = "again" =>
       IF main.outcome = "Continue" THEN step.state = "failed" ELSE ~mark.outputStarted

Agreement ==
  /\ \A c \in Call : CallInv(c) /\ MessageInv(c)
  /\ PlaceInv
  /\ StepInv

IndInv == TypeOK /\ Agreement

USE StepAssumption DEF memory, log, Open, Live, Late, Over, Known, Unsettled, Malformed,
  Uncalled, Hosted

-----------------------------------------------------------------------------
(* What the pieces of the actions make of the records.                     *)
LEMMA CappedIs ==
  /\ \A n \in 0..2 : Capped(n) \in 0..2
  /\ Capped(0) = 1
  BY DEF Capped

LEMMA OutIs ==
  ASSUME NEW at \in Places
  PROVE  Out(at) \in MainRecord
  BY DEF Out, MainRecord, Streams, Outcomes

LEMMA ForgottenIs ==
  ASSUME Forgotten
  PROVE  mark' \in MarkRecord /\ tool' \in [Call -> ToolRecord] /\ fiber' \in [Call -> Fibers]
  BY DEF Forgotten, NoMark, NoTool, MarkRecord, ToolRecord, Fibers

LEMMA EndedIs ==
  ASSUME TypeOK, NEW S
  PROVE  /\ Ended(S) \in [Call -> CallRecord]
         /\ \A c \in Call :
              IF c \in S
              THEN /\ Ended(S)[c].state = "ended" /\ Ended(S)[c].past = call[c].past
                   /\ Ended(S)[c].ends = Capped(call[c].ends)
              ELSE Ended(S)[c] = call[c]
  BY CappedIs DEF TypeOK, Ended, CallRecord

LEMMA FailIs ==
  ASSUME TypeOK, NEW S, Fail(S)
  PROVE  /\ tool' \in [Call -> ToolRecord]
         /\ call' = Ended(S)
         /\ call' \in [Call -> CallRecord]
         /\ \A c \in Call :
              IF c \in S
              THEN /\ tool'[c].settled /\ tool'[c].known = tool[c].known
                   /\ tool'[c].called = tool[c].called /\ tool'[c].hosted = tool[c].hosted
                   /\ tool'[c].malformed = tool[c].malformed
              ELSE tool'[c] = tool[c]
<1>1. call' = Ended(S) /\ call' \in [Call -> CallRecord]
  BY EndedIs DEF Fail
<1>2. \A c \in Call : tool[c] \in ToolRecord
  BY DEF TypeOK
<1>3. tool' = [c \in Call |-> IF c \in S THEN [tool[c] EXCEPT !.settled = TRUE] ELSE tool[c]]
  BY DEF Fail
<1> QED
  BY <1>1, <1>2, <1>3 DEF ToolRecord

LEMMA GotoIs ==
  ASSUME TypeOK, NEW at \in Places, Goto(at)
  PROVE  /\ main' \in MainRecord
         /\ main'.at = at
         /\ main'.stream = main.stream /\ main'.unjoined = main.unjoined
         /\ main'.retry = main.retry /\ main'.attempts = main.attempts
  BY DEF TypeOK, Goto, MainRecord

LEMMA AgainIs ==
  ASSUME TypeOK, NEW outcome \in Outcomes, Again(outcome)
  PROVE  /\ main' \in MainRecord
         /\ main'.at = "again" /\ main'.outcome = outcome
         /\ main'.stream = main.stream /\ main'.unjoined = main.unjoined
         /\ main'.retry = main.retry /\ main'.attempts = main.attempts
  BY DEF TypeOK, Again, MainRecord, Places

LEMMA StartedIs ==
  ASSUME TypeOK, NEW output \in BOOLEAN
  PROVE  Started(output) \in StepRecord
  BY DEF TypeOK, Started, StepRecord

LEMMA NewMessageIs ==
  ASSUME TypeOK, NewMessage
  PROVE  step' \in StepRecord /\ call' \in [Call -> CallRecord]
<1>1. step' \in StepRecord
  BY DEF NewMessage, NoStep, StepRecord
<1>2. NoCall \in CallRecord
  BY DEF NoCall, CallRecord
<1>3. ASSUME NEW c \in Call PROVE [call[c] EXCEPT !.past = TRUE] \in CallRecord
  BY DEF TypeOK, CallRecord
<1> QED
  BY <1>1, <1>2, <1>3 DEF TypeOK, NewMessage

LEMMA ClosedIs ==
  ASSUME TypeOK
  PROVE  Closed \in StepRecord
  BY CappedIs DEF TypeOK, Closed, StepRecord

-----------------------------------------------------------------------------
(* Every action keeps the types; the next attempt is one the policy allows.*)
LEMMA InitTypes == Init => TypeOK
<1> SUFFICES ASSUME Init PROVE TypeOK
  OBVIOUS
<1>1. main \in MainRecord
  BY OutIs DEF Init, Places
<1>2. mark \in MarkRecord /\ tool \in [Call -> ToolRecord]
  BY DEF Init, NoMark, NoTool, MarkRecord, ToolRecord
<1>3. step \in StepRecord /\ call \in [Call -> CallRecord]
  BY DEF Init, NoStep, NoCall, StepRecord, CallRecord
<1>4. fiber \in [Call -> Fibers]
  BY DEF Init, Fibers
<1>5. stops \in 0..MaxStops
  BY DEF Init
<1> QED
  BY <1>1, <1>2, <1>3, <1>4, <1>5 DEF Init, TypeOK

LEMMA NextTypes ==
  ASSUME TypeOK, AttemptsInv, [Next]_vars
  PROVE  TypeOK'
<1> USE DEF TypeOK
<1>1. CASE Drain
  BY <1>1, OutIs DEF Drain, Places
<1>2. ASSUME NEW d \in Call, SettleStale(d) PROVE TypeOK'
  BY <1>2, EndedIs DEF SettleStale
<1>3. CASE RunStep
  <2>1. main' \in MainRecord
    BY <1>3, OutIs DEF RunStep, MainRecord, Places, Streams, Failures, Outcomes
  <2>2. step' \in StepRecord /\ call' \in [Call -> CallRecord]
    BY <1>3, NewMessageIs DEF RunStep
  <2> QED
    BY <1>3, <2>1, <2>2 DEF RunStep
<1>4. CASE Leave
  <2>1. main' \in MainRecord
    BY <1>4, OutIs DEF Leave, MainRecord, Places, Outcomes
  <2> QED
    BY <1>4, <2>1 DEF Leave
<1>5. CASE Text
  <2>1. mark' \in MarkRecord
    BY <1>5 DEF Text, MarkRecord
  <2>2. step' \in StepRecord
    BY <1>5, StartedIs DEF Text
  <2> QED
    BY <1>5, <2>1, <2>2 DEF Text
<1>6. CASE Starts
  <2>1. mark' \in MarkRecord
    BY <1>6 DEF Starts, MarkRecord
  <2>2. step' \in StepRecord
    BY <1>6, StartedIs DEF Starts
  <2> QED
    BY <1>6, <2>1, <2>2 DEF Starts
<1>7. ASSUME NEW d \in Call, NEW h \in BOOLEAN, InputStarts(d, h) PROVE TypeOK'
  <2>1. mark' \in MarkRecord
    BY <1>7 DEF InputStarts, MarkRecord
  <2>2. step' \in StepRecord
    BY <1>7, StartedIs DEF InputStarts
  <2>3. tool' \in [Call -> ToolRecord]
    BY <1>7 DEF InputStarts, ToolRecord
  <2>4. call' \in [Call -> CallRecord]
    BY <1>7 DEF InputStarts, CallRecord
  <2> QED
    BY <1>7, <2>1, <2>2, <2>3, <2>4 DEF InputStarts
<1>8. ASSUME NEW d \in Call, InputBreaks(d) PROVE TypeOK'
  BY <1>8 DEF InputBreaks, ToolRecord
<1>9. ASSUME NEW d \in Call, Calls(d) PROVE TypeOK'
  <2>1. tool' \in [Call -> ToolRecord]
    BY <1>9 DEF Calls, ToolRecord
  <2>2. main' \in MainRecord
    BY <1>9 DEF Calls, MainRecord, Places, Streams, Failures, Outcomes
  <2> QED
    BY <1>9, <2>1, <2>2 DEF Calls
<1>10. ASSUME NEW d \in Call, HostedResult(d) PROVE TypeOK'
  BY <1>10, FailIs DEF HostedResult
<1>11. ASSUME NEW r \in {"stop", "filter", "unknown"}, Finishes(r) PROVE TypeOK'
  <2>1. mark' \in MarkRecord
    BY <1>11 DEF Finishes, MarkRecord
  <2>2. tool' \in [Call -> ToolRecord] /\ call' \in [Call -> CallRecord]
    BY <1>11, FailIs DEF Finishes
  <2>3. step' \in StepRecord
    BY <1>11, StartedIs DEF Finishes
  <2> QED
    BY <1>11, <2>1, <2>2, <2>3 DEF Finishes
<1>12. CASE Called
  <2>1. call' \in [Call -> CallRecord]
    BY <1>12 DEF Called, CallRecord
  <2>2. main' \in MainRecord
    BY <1>12 DEF Called, MainRecord, Places, Streams, Failures, Outcomes
  <2> QED
    BY <1>12, <2>1, <2>2 DEF Called
<1>13. CASE Fork
  <2>1. fiber' \in [Call -> Fibers]
    BY <1>13 DEF Fork, Fibers
  <2>2. main' \in MainRecord
    BY <1>13 DEF Fork, MainRecord, Places, Streams, Failures, Outcomes
  <2> QED
    BY <1>13, <2>1, <2>2 DEF Fork
<1>14. ASSUME NEW how \in Streams \ {"open"}, StreamEnds(how) PROVE TypeOK'
  <2>1. tool' \in [Call -> ToolRecord] /\ call' \in [Call -> CallRecord]
    BY <1>14, FailIs DEF StreamEnds
  <2>2. main' \in MainRecord
    BY <1>14 DEF StreamEnds, MainRecord, Places, Streams, Failures, Outcomes
  <2> QED
    BY <1>14, <2>1, <2>2 DEF StreamEnds
<1>15. ASSUME NEW d \in Call, Settles(d) PROVE TypeOK'
  <2>1. fiber' \in [Call -> Fibers]
    BY <1>15 DEF Settles, Fibers
  <2>2. tool' \in [Call -> ToolRecord]
    BY <1>15 DEF Settles, ToolRecord
  <2> QED
    BY <1>15, <2>1, <2>2 DEF Settles
<1>16. ASSUME NEW d \in Call, Publishes(d) PROVE TypeOK'
  <2>1. fiber' \in [Call -> Fibers]
    BY <1>16 DEF Publishes, Fibers
  <2>2. call' \in [Call -> CallRecord]
    BY <1>16, EndedIs DEF Publishes
  <2> QED
    BY <1>16, <2>1, <2>2 DEF Publishes
<1>17. ASSUME NEW d \in Call, Stopped(d) PROVE TypeOK'
  BY <1>17 DEF Stopped, Fibers
<1>18. ASSUME NEW d \in Call, NEW how \in {"declined", "defect"}, Quits(d, how) PROVE TypeOK'
  BY <1>18 DEF Quits, Fibers
<1>19. CASE Abandon
  <2>1. main' \in MainRecord
    BY <1>19, OutIs DEF Abandon, Places
  <2>2. mark' \in MarkRecord /\ tool' \in [Call -> ToolRecord] /\ fiber' \in [Call -> Fibers]
    BY <1>19, ForgottenIs DEF Abandon
  <2> QED
    BY <1>19, <2>1, <2>2 DEF Abandon
<1>20. CASE Joins
  BY <1>20 DEF Joins, MainRecord, Places, Streams, Failures, Outcomes, Goto
<1>21. CASE Judge
  BY <1>21, GotoIs, AgainIs DEF Judge, Places, Outcomes
<1>22. ASSUME NEW b \in BOOLEAN, Compact(b) PROVE TypeOK'
  BY <1>22, GotoIs, AgainIs DEF Compact, Places, Outcomes
<1>23. ASSUME NEW b \in BOOLEAN, Decide(b) PROVE TypeOK'
  <2>1. main' \in MainRecord
    BY <1>23, AgainIs DEF Decide, MainRecord, Places, Streams, Failures, Outcomes
  <2>2. mark' \in MarkRecord
    BY <1>23 DEF Decide, MarkRecord
  <2>3. step' \in StepRecord
    BY <1>23, StartedIs DEF Decide
  <2> QED
    BY <1>23, <2>1, <2>2, <2>3 DEF Decide
<1>24. CASE Skip
  <2>1. main' \in MainRecord
    BY <1>24, OutIs DEF Skip, MainRecord, Places, Streams, Failures, Outcomes
  <2>2. mark' \in MarkRecord /\ tool' \in [Call -> ToolRecord] /\ fiber' \in [Call -> Fibers]
    BY <1>24, ForgottenIs DEF Skip
  <2> QED
    BY <1>24, <2>1, <2>2 DEF Skip
<1>25. ASSUME NEW d \in Call, FailTool(d) PROVE TypeOK'
  <2>1. tool' \in [Call -> ToolRecord] /\ call' \in [Call -> CallRecord]
    BY <1>25, FailIs DEF FailTool
  <2>2. mark' \in MarkRecord
    BY <1>25 DEF FailTool, MarkRecord, FailsAll, Interrupted
  <2> QED
    BY <1>25, <2>1, <2>2 DEF FailTool
<1>26. CASE Close
  <2>1. step' \in StepRecord
    BY <1>26, ClosedIs DEF Close
  <2>2. main' \in MainRecord
    BY <1>26, OutIs, AgainIs DEF Close, Places, Outcomes
  <2>3. mark' \in MarkRecord /\ tool' \in [Call -> ToolRecord] /\ fiber' \in [Call -> Fibers]
    BY <1>26, ForgottenIs DEF Close
  <2> QED
    BY <1>26, <2>1, <2>2, <2>3 DEF Close
<1>27. CASE TryAgain
  <2>1. main' \in MainRecord
    <3>1. ASSUME NEW n \in 0..MaxAttempts, NEW o \in BOOLEAN, NEW r \in BOOLEAN
          PROVE  [Out("reading") EXCEPT !.attempts = n, !.recoverOverflow = o,
                                        !.recoverContinuation = r] \in MainRecord
      BY OutIs DEF MainRecord, Places
    <3>2. main.attempts + (IF main.outcome \in {"Retry", "Continue"} THEN 1 ELSE 0)
             \in 0..MaxAttempts
      BY <1>27 DEF TryAgain, MainRecord, AttemptsInv
    <3>3. /\ (main.recoverOverflow /\ main.outcome # "Compacted") \in BOOLEAN
          /\ (main.recoverContinuation /\ main.outcome # "RecoverFull") \in BOOLEAN
      OBVIOUS
    <3> QED
      BY <1>27, <3>1, <3>2, <3>3 DEF TryAgain
  <2>2. step' \in StepRecord /\ call' \in [Call -> CallRecord]
    BY <1>27, NewMessageIs DEF TryAgain
  <2>3. mark' \in MarkRecord /\ tool' \in [Call -> ToolRecord] /\ fiber' \in [Call -> Fibers]
    BY <1>27, ForgottenIs DEF TryAgain
  <2> QED
    BY <1>27, <2>1, <2>2, <2>3 DEF TryAgain
<1>28. CASE GiveUp
  <2>1. main' \in MainRecord
    BY <1>28, OutIs DEF GiveUp, Places
  <2>2. mark' \in MarkRecord /\ tool' \in [Call -> ToolRecord] /\ fiber' \in [Call -> Fibers]
    BY <1>28, ForgottenIs DEF GiveUp
  <2> QED
    BY <1>28, <2>1, <2>2 DEF GiveUp
<1>29. CASE Interrupt
  BY <1>29 DEF Interrupt
<1>30. CASE Die
  <2>1. main' \in MainRecord
    BY <1>30, OutIs DEF Die, Places
  <2>2. mark' \in MarkRecord /\ tool' \in [Call -> ToolRecord] /\ fiber' \in [Call -> Fibers]
    BY <1>30, ForgottenIs DEF Die
  <2>3. stops' \in 0..MaxStops
    BY <1>30 DEF Die
  <2> QED
    BY <1>30, <2>1, <2>2, <2>3 DEF Die
<1>31. CASE UNCHANGED vars
  BY <1>31 DEF vars
<1> QED
  BY <1>1, <1>2, <1>3, <1>4, <1>5, <1>6, <1>7, <1>8, <1>9, <1>10, <1>11, <1>12,
     <1>13, <1>14, <1>15, <1>16, <1>17, <1>18, <1>19, <1>20, <1>21, <1>22, <1>23, <1>24,
     <1>25, <1>26, <1>27, <1>28, <1>29, <1>30, <1>31
     DEF Next, Provider, Attempt, Runs

-----------------------------------------------------------------------------
(* The invariant is inductive.  Each lemma is about one action.  First     *)
(* those of the attempt behind its stream, where only the place changes.   *)
Behind == {"stopping", "joining", "halting", "judging", "compacting", "asking", "settling", "again"}

LEMMA BehindStep ==
  ASSUME Agreement, UNCHANGED <<tool, fiber, asked, call>>,
         mark'.outputStarted = mark.outputStarted,
         main.at \in Behind, main'.at \in Behind \ {"stopping"},
         main'.stream = main.stream, main.unjoined => main'.unjoined,
         main.at \in {"stopping", "halting"} => main'.unjoined,
         Late' => Over,
         main'.at = "compacting" => ~mark.outputStarted,
         main'.retry => main'.attempts < MaxAttempts,
         AttemptsInv'
  PROVE  PlaceInv' /\ \A c \in Call : CallInv(c)' /\ MessageInv(c)'
<1> USE DEF Agreement, Behind
<1>1. ASSUME NEW c \in Call PROVE CallInv(c)'
  BY DEF CallInv
<1>2. ASSUME NEW c \in Call PROVE MessageInv(c)'
  BY DEF MessageInv, PlaceInv
<1>3. PlaceInv'
  BY DEF PlaceInv
<1> QED
  BY <1>1, <1>2, <1>3

LEMMA JoinsStep ==
  ASSUME TypeOK, Agreement, Joins
  PROVE  Agreement'
<1>1. /\ UNCHANGED <<mark, tool, fiber, asked, call, step>>
      /\ main.at \in {"stopping", "joining", "halting"}
      /\ main'.at \in {"halting", "judging"} /\ (main'.at = "judging" => Over)
      /\ main.unjoined => main'.unjoined
      /\ main.at \in {"stopping", "halting"} => main'.unjoined
  BY GotoIs DEF TypeOK, Joins, MainRecord, Places
<1>2. main'.stream = main.stream /\ main'.retry = main.retry /\ main'.attempts = main.attempts
  BY GotoIs DEF TypeOK, Joins, MainRecord, Places
<1>3. PlaceInv' /\ \A c \in Call : CallInv(c)' /\ MessageInv(c)'
  BY <1>1, <1>2, BehindStep DEF Agreement, PlaceInv, AttemptsInv, Behind
<1>4. StepInv'
  BY <1>1 DEF Agreement, StepInv, Quiet
<1> QED
  BY <1>3, <1>4 DEF Agreement

LEMMA JudgeStep ==
  ASSUME TypeOK, Agreement, Judge
  PROVE  Agreement'
<1>1. UNCHANGED <<mark, tool, fiber, asked, call, step>> /\ main.at = "judging"
  BY DEF Judge
<1>2. \/ main'.at = "compacting" /\ ~mark.outputStarted
      \/ main'.at = "again" /\ main'.outcome = "RecoverFull" /\ ~mark.outputStarted
      \/ main'.at \in {"asking", "settling"}
  <2>1. CASE Goto("compacting") /\ Recoverable
    BY <2>1, GotoIs DEF Recoverable, Places
  <2>2. CASE Again("RecoverFull") /\ Rebuilds
    BY <2>2, AgainIs DEF Rebuilds, Outcomes
  <2>3. CASE Goto("asking") \/ Goto("settling")
    BY <2>3, GotoIs DEF Places
  <2> QED
    BY <2>1, <2>2, <2>3 DEF Judge
<1>3. /\ main'.stream = main.stream /\ main'.unjoined = main.unjoined
      /\ main'.retry = main.retry /\ main'.attempts = main.attempts
  BY GotoIs, AgainIs DEF Judge, Places, Outcomes
<1>4. PlaceInv' /\ \A c \in Call : CallInv(c)' /\ MessageInv(c)'
  BY <1>1, <1>2, <1>3, BehindStep DEF Agreement, PlaceInv, AttemptsInv, Behind
<1>5. StepInv'
  BY <1>1, <1>2 DEF Agreement, StepInv, Quiet
<1> QED
  BY <1>4, <1>5 DEF Agreement

LEMMA CompactStep ==
  ASSUME TypeOK, Agreement, NEW b \in BOOLEAN, Compact(b)
  PROVE  Agreement'
<1>1. UNCHANGED <<mark, tool, fiber, asked, call, step>> /\ main.at = "compacting"
  BY DEF Compact
<1>2. \/ main'.at = "again" /\ main'.outcome = "Compacted"
      \/ main'.at = "settling"
  BY GotoIs, AgainIs DEF Compact, Places, Outcomes
<1>3. /\ main'.stream = main.stream /\ main'.unjoined = main.unjoined
      /\ main'.retry = main.retry /\ main'.attempts = main.attempts
  BY GotoIs, AgainIs DEF Compact, Places, Outcomes
<1>4. PlaceInv' /\ \A c \in Call : CallInv(c)' /\ MessageInv(c)'
  BY <1>1, <1>2, <1>3, BehindStep DEF Agreement, PlaceInv, AttemptsInv, Behind
<1>5. StepInv'
  BY <1>1, <1>2 DEF Agreement, StepInv, Quiet, PlaceInv
<1> QED
  BY <1>4, <1>5 DEF Agreement

LEMMA DecideStep ==
  ASSUME TypeOK, Agreement, NEW b \in BOOLEAN, Decide(b)
  PROVE  Agreement'
<1>1. UNCHANGED <<tool, fiber, asked, call>> /\ main.at = "asking"
  BY DEF Decide
<1>2. b => main.attempts < MaxAttempts
  BY DEF Decide
<1>3. CASE b /\ ~mark.outputStarted
  <2>1. /\ main'.at = "again" /\ main'.outcome = "Retry"
        /\ main'.stream = main.stream /\ main'.unjoined = main.unjoined
        /\ main'.retry = main.retry /\ main'.attempts = main.attempts
    BY <1>3, AgainIs DEF Decide, Outcomes
  <2>2. mark'.outputStarted = mark.outputStarted
    BY <1>3 DEF Decide, TypeOK, MarkRecord
  <2>3. PlaceInv' /\ \A c \in Call : CallInv(c)' /\ MessageInv(c)'
    BY <1>1, <1>2, <1>3, <2>1, <2>2, BehindStep DEF Agreement, PlaceInv, AttemptsInv, Behind
  <2>4. step' = Started(FALSE)
    BY <1>3 DEF Decide
  <2>5. step'.closes = step.closes /\ step'.output = step.output
        /\ (step'.state \in {"ended", "failed"} <=> step.state \in {"ended", "failed"})
    BY <2>4 DEF Started, TypeOK, StepRecord
  <2>6. StepInv'
    BY <1>1, <1>3, <2>1, <2>2, <2>5 DEF Agreement, StepInv, Quiet
  <2> QED
    BY <2>3, <2>6 DEF Agreement
<1>4. CASE ~(b /\ ~mark.outputStarted)
  <2>1. main' = [main EXCEPT !.at = "settling", !.retry = b] /\ UNCHANGED <<mark, step>>
    BY <1>4 DEF Decide
  <2>2. /\ main'.at = "settling" /\ main'.retry = b
        /\ main'.stream = main.stream /\ main'.unjoined = main.unjoined
        /\ main'.attempts = main.attempts
    BY <2>1 DEF TypeOK, MainRecord
  <2>3. PlaceInv' /\ \A c \in Call : CallInv(c)' /\ MessageInv(c)'
    BY <1>1, <1>2, <2>1, <2>2, BehindStep DEF Agreement, PlaceInv, AttemptsInv, Behind
  <2>4. StepInv'
    BY <1>1, <2>1, <2>2 DEF Agreement, StepInv, Quiet
  <2> QED
    BY <2>3, <2>4 DEF Agreement
<1> QED
  BY <1>3, <1>4

LEMMA FailToolStep ==
  ASSUME TypeOK, Agreement, NEW d \in Call, FailTool(d)
  PROVE  Agreement'
<1>1. /\ UNCHANGED <<main, fiber, asked, step>> /\ main.at = "settling"
      /\ d \in Unsettled /\ Fail({d})
  BY DEF FailTool, ToFail
<1>2. mark'.outputStarted = mark.outputStarted
  BY DEF FailTool, TypeOK, MarkRecord
<1>3. Over /\ step.closes = 0
  BY <1>1 DEF Agreement, PlaceInv, StepInv
<1>4. call[d].ends = 0
  BY <1>1 DEF Agreement, CallInv
<1>5. ASSUME NEW c \in Call PROVE CallInv(c)'
  <2>1. CASE c = d
    <3>1. /\ tool'[c].settled /\ tool'[c].known /\ call'[c].state = "ended" /\ call'[c].ends = 1
          /\ tool'[c].called = tool[c].called /\ tool'[c].hosted = tool[c].hosted
          /\ tool'[c].malformed = tool[c].malformed
      BY <1>1, <1>4, <2>1, FailIs, EndedIs, CappedIs
    <3> QED
      BY <1>1, <1>3, <2>1, <3>1 DEF Agreement, CallInv
  <2>2. CASE c # d
    BY <1>1, <2>2, FailIs, EndedIs DEF Agreement, CallInv
  <2> QED
    BY <2>1, <2>2
<1>6. ASSUME NEW c \in Call PROVE MessageInv(c)'
  <2>1. /\ tool'[c].known = tool[c].known /\ tool'[c].called = tool[c].called
        /\ tool'[c].hosted = tool[c].hosted /\ (tool[c].settled => tool'[c].settled)
        /\ tool[c].known \/ call'[c] = call[c]
    BY <1>1, FailIs, EndedIs
  <2> QED
    BY <1>1, <1>2, <2>1 DEF Agreement, MessageInv
<1>7. PlaceInv'
  BY <1>1, <1>2 DEF Agreement, PlaceInv, AttemptsInv
<1>8. StepInv'
  BY <1>1, <1>2, <1>3 DEF Agreement, StepInv
<1> QED
  BY <1>5, <1>6, <1>7, <1>8 DEF Agreement

(* Where nothing is left to fail, every call has been answered: a local one*)
(* without an outcome would have been declined, have a defect, or have been*)
(* cut off, and each makes the settlement fail all of them.                *)
LEMMA NothingLeft ==
  ASSUME TypeOK, Agreement, main.at = "settling", ToFail = {}
  PROVE  Quiet
<1> SUFFICES ASSUME NEW c \in Call, tool[c].known, ~tool[c].settled PROVE FALSE
  BY DEF Agreement, CallInv, MessageInv, PlaceInv, Quiet
<1>1. ~FailsAll /\ (Complete => tool[c].called /\ ~tool[c].hosted)
  BY DEF ToFail
<1>2. main.stream # "interrupted" /\ ~main.unjoined /\ fiber[c] \notin {"declined", "defect"}
  BY <1>1 DEF FailsAll, Interrupted, Declines, Defects
<1>3. main.stream # "open"
  BY DEF Agreement, PlaceInv
<1>4. main.stream = "ok" \/ main.stream \in Failures
  BY <1>2, <1>3 DEF TypeOK, MainRecord, Streams
<1>5. Complete
  BY <1>1, <1>4 DEF Complete, FailsAll, LLMError, LLMFailure
<1>6. fiber[c] = "none"
  <2>1. fiber[c] \notin {"executing", "publishing"}
    BY DEF Agreement, PlaceInv
  <2>2. fiber[c] # "done"
    BY DEF Agreement, CallInv
  <2>3. fiber[c] # "interrupted"
    BY <1>2 DEF Agreement, MessageInv
  <2> QED
    BY <1>2, <2>1, <2>2, <2>3 DEF TypeOK, Fibers
<1> QED
  BY <1>1, <1>2, <1>5, <1>6 DEF Agreement, MessageInv

LEMMA CloseStep ==
  ASSUME TypeOK, Agreement, Close
  PROVE  Agreement'
<1>1. main.at = "settling" /\ UNCHANGED call /\ step' = Closed /\ Quiet
  BY NothingLeft DEF Close
<1>2. step.closes = 0 /\ step.state \notin {"ended", "failed"}
  BY <1>1 DEF Agreement, StepInv
<1>3. \/ step'.closes = 0 /\ step'.state \notin {"ended", "failed"}
      \/ step'.closes = 1 /\ step'.state \in {"ended", "failed"}
  BY <1>1, <1>2, CappedIs DEF Closed, TypeOK, StepRecord
<1>4. Failed => step'.state = "failed"
  BY <1>1, CappedIs DEF Closed, TypeOK, StepRecord
<1>5. CASE Continues
  <2>1. /\ main'.at = "again" /\ main'.outcome = "Continue"
        /\ main'.stream = main.stream /\ main'.unjoined = main.unjoined
        /\ main'.retry = main.retry /\ main'.attempts = main.attempts
    BY <1>5, AgainIs DEF Close, Outcomes
  <2>2. UNCHANGED <<mark, tool, fiber, asked>>
    BY <1>5 DEF Close
  <2>3. main.retry /\ Failed
    BY <1>5 DEF Continues, Failed
  <2>4. PlaceInv' /\ \A c \in Call : CallInv(c)' /\ MessageInv(c)'
    BY <1>1, <2>1, <2>2, <2>3, BehindStep DEF Agreement, PlaceInv, AttemptsInv, Behind
  <2>5. StepInv'
    BY <1>1, <1>3, <1>4, <2>1, <2>3 DEF StepInv, Quiet
  <2> QED
    BY <2>4, <2>5 DEF Agreement
<1>6. CASE ~Continues
  <2>1. main' = Out("idle") /\ asked' = FALSE /\ Forgotten
    BY <1>6 DEF Close
  <2>2. ASSUME NEW c \in Call PROVE CallInv(c)' /\ MessageInv(c)'
    BY <1>1, <2>1 DEF Agreement, CallInv, MessageInv, Forgotten, NoTool, Out
  <2>3. PlaceInv'
    BY <2>1 DEF PlaceInv, AttemptsInv, Forgotten, Out
  <2>4. StepInv'
    BY <1>1, <1>3, <2>1 DEF StepInv, Quiet, Out
  <2> QED
    BY <2>2, <2>3, <2>4 DEF Agreement
<1> QED
  BY <1>5, <1>6

(* Then the one that sweeps in the middle of the stream.                   *)
LEMMA FinishesStep ==
  ASSUME TypeOK, Agreement, NEW r \in {"stop", "filter", "unknown"}, Finishes(r)
  PROVE  Agreement'
<1>1. UNCHANGED <<main, fiber, asked>> /\ main.at = "reading" /\ ~asked
  BY DEF Finishes, Reads
<1>2. mark'.outputStarted = mark.outputStarted
  BY DEF Finishes, TypeOK, MarkRecord
<1>3. step.closes = 0 /\ (step.output => mark.outputStarted)
  BY <1>1 DEF Agreement, StepInv
<1>4. CASE r # "filter"
  <2>1. UNCHANGED <<tool, call, step>>
    BY <1>4 DEF Finishes
  <2>2. ASSUME NEW c \in Call PROVE CallInv(c)' /\ MessageInv(c)'
    BY <1>1, <1>2, <2>1 DEF Agreement, CallInv, MessageInv
  <2>3. PlaceInv'
    BY <1>1, <1>2, <2>1 DEF Agreement, PlaceInv, AttemptsInv
  <2>4. StepInv'
    BY <1>1, <1>2, <2>1 DEF Agreement, StepInv, Quiet
  <2> QED
    BY <2>2, <2>3, <2>4 DEF Agreement
<1>5. CASE r = "filter"
  <2>1. Fail(Uncalled) /\ step' = Started(FALSE)
    BY <1>5 DEF Finishes
  <2>2. step'.closes = 0 /\ step'.output = step.output /\ step'.state \notin {"ended", "failed"}
    BY <1>3, <2>1 DEF Agreement, StepInv, Started, TypeOK, StepRecord
  <2>3. ASSUME NEW c \in Call PROVE CallInv(c)' /\ MessageInv(c)'
    <3>1. /\ tool'[c].known = tool[c].known /\ tool'[c].called = tool[c].called
          /\ tool'[c].hosted = tool[c].hosted /\ tool'[c].malformed = tool[c].malformed
      BY <2>1, FailIs
    <3>2. CASE c \in Uncalled
      <4>1. tool'[c].settled /\ call'[c].state = "ended" /\ call'[c].ends = 1
        BY <2>1, <3>2, FailIs, EndedIs, CappedIs DEF Agreement, CallInv
      <4> QED
        BY <1>1, <1>2, <3>1, <3>2, <4>1 DEF Agreement, CallInv, MessageInv
    <3>3. CASE c \notin Uncalled
      <4>1. tool'[c] = tool[c] /\ call'[c] = call[c]
        BY <2>1, <3>3, FailIs, EndedIs
      <4> QED
        BY <1>1, <1>2, <4>1 DEF Agreement, CallInv, MessageInv
    <3> QED
      BY <3>2, <3>3
  <2>4. PlaceInv'
    BY <1>1, <1>2 DEF Agreement, PlaceInv, AttemptsInv
  <2>5. StepInv'
    BY <1>1, <1>2, <1>3, <2>2 DEF StepInv
  <2> QED
    BY <2>3, <2>4, <2>5 DEF Agreement
<1> QED
  BY <1>4, <1>5

(* Then the others, with one step for each part of the invariant.          *)
USE DEF Places, Streams, Failures, Outcomes, MainRecord, MarkRecord, ToolRecord, Fibers,
  CallRecord, StepRecord, NoMark, NoTool, NoCall, NoStep, Out

LEMMA InitAgreement == Init => Agreement
<1> SUFFICES ASSUME Init PROVE Agreement
  OBVIOUS
<1>1. ASSUME NEW c \in Call PROVE CallInv(c) /\ MessageInv(c)
  BY DEF Init, CallInv, MessageInv
<1>2. PlaceInv
  BY DEF Init, PlaceInv, AttemptsInv
<1>3. StepInv
  BY DEF Init, StepInv, Quiet
<1> QED
  BY <1>1, <1>2, <1>3 DEF Agreement

LEMMA DrainStep ==
  ASSUME TypeOK, Agreement, TypeOK', Drain
  PROVE  Agreement'
<1> USE DEF TypeOK, Agreement, Drain
<1>1. ASSUME NEW c \in Call PROVE CallInv(c)'
  BY DEF CallInv
<1>2. ASSUME NEW c \in Call PROVE MessageInv(c)'
  BY DEF CallInv, MessageInv, PlaceInv
<1>3. PlaceInv'
  BY DEF CallInv, PlaceInv, AttemptsInv
<1>4. StepInv'
  BY DEF StepInv, Quiet
<1> QED
  BY <1>1, <1>2, <1>3, <1>4

LEMMA SettleStaleStep ==
  ASSUME TypeOK, Agreement, TypeOK', NEW d \in Call, SettleStale(d)
  PROVE  Agreement'
<1> USE DEF TypeOK, Agreement, SettleStale, Orphans
<1>1. ASSUME NEW c \in Call PROVE CallInv(c)'
  BY EndedIs, CappedIs DEF CallInv, PlaceInv
<1>2. ASSUME NEW c \in Call PROVE MessageInv(c)'
  BY EndedIs, CappedIs DEF CallInv, MessageInv, PlaceInv
<1>3. PlaceInv'
  BY EndedIs, CappedIs DEF CallInv, PlaceInv, AttemptsInv
<1>4. StepInv'
  BY EndedIs, CappedIs DEF StepInv, Quiet
<1> QED
  BY <1>1, <1>2, <1>3, <1>4

LEMMA RunStepStep ==
  ASSUME TypeOK, Agreement, TypeOK', RunStep
  PROVE  Agreement'
<1> USE DEF TypeOK, Agreement, RunStep, NewMessage, Orphans
<1>1. ASSUME NEW c \in Call PROVE CallInv(c)'
  BY DEF CallInv, PlaceInv
<1>2. ASSUME NEW c \in Call PROVE MessageInv(c)'
  BY DEF CallInv, MessageInv, PlaceInv
<1>3. PlaceInv'
  BY DEF CallInv, PlaceInv, AttemptsInv
<1>4. StepInv'
  BY DEF StepInv, Quiet
<1> QED
  BY <1>1, <1>2, <1>3, <1>4

LEMMA LeaveStep ==
  ASSUME TypeOK, Agreement, TypeOK', Leave
  PROVE  Agreement'
<1> USE DEF TypeOK, Agreement, Leave
<1>1. ASSUME NEW c \in Call PROVE CallInv(c)'
  BY DEF CallInv
<1>2. ASSUME NEW c \in Call PROVE MessageInv(c)'
  BY DEF CallInv, MessageInv, PlaceInv
<1>3. PlaceInv'
  BY DEF CallInv, PlaceInv, AttemptsInv
<1>4. StepInv'
  BY DEF StepInv, Quiet
<1> QED
  BY <1>1, <1>2, <1>3, <1>4

LEMMA TextStep ==
  ASSUME TypeOK, Agreement, TypeOK', Text
  PROVE  Agreement'
<1> USE DEF TypeOK, Agreement, Text, Reads, Started
<1>1. ASSUME NEW c \in Call PROVE CallInv(c)'
  BY DEF CallInv
<1>2. ASSUME NEW c \in Call PROVE MessageInv(c)'
  BY DEF CallInv, MessageInv, PlaceInv
<1>3. PlaceInv'
  BY DEF CallInv, PlaceInv, AttemptsInv
<1>4. StepInv'
  BY DEF StepInv, Quiet
<1> QED
  BY <1>1, <1>2, <1>3, <1>4

LEMMA StartsStep ==
  ASSUME TypeOK, Agreement, TypeOK', Starts
  PROVE  Agreement'
<1> USE DEF TypeOK, Agreement, Starts, Reads, Started
<1>1. ASSUME NEW c \in Call PROVE CallInv(c)'
  BY DEF CallInv
<1>2. ASSUME NEW c \in Call PROVE MessageInv(c)'
  BY DEF CallInv, MessageInv, PlaceInv
<1>3. PlaceInv'
  BY DEF CallInv, PlaceInv, AttemptsInv
<1>4. StepInv'
  BY DEF StepInv, Quiet
<1> QED
  BY <1>1, <1>2, <1>3, <1>4

LEMMA InputStartsStep ==
  ASSUME TypeOK, Agreement, TypeOK', NEW d \in Call, NEW h \in BOOLEAN, InputStarts(d, h)
  PROVE  Agreement'
<1> USE DEF TypeOK, Agreement, InputStarts, Reads, Started
<1>1. ASSUME NEW c \in Call PROVE CallInv(c)'
  BY DEF CallInv
<1>2. ASSUME NEW c \in Call PROVE MessageInv(c)'
  BY DEF CallInv, MessageInv, PlaceInv
<1>3. PlaceInv'
  BY DEF CallInv, PlaceInv, AttemptsInv
<1>4. StepInv'
  BY DEF StepInv, Quiet
<1> QED
  BY <1>1, <1>2, <1>3, <1>4

LEMMA InputBreaksStep ==
  ASSUME TypeOK, Agreement, TypeOK', NEW d \in Call, InputBreaks(d)
  PROVE  Agreement'
<1> USE DEF TypeOK, Agreement, InputBreaks, Reads
<1>1. ASSUME NEW c \in Call PROVE CallInv(c)'
  BY DEF CallInv
<1>2. ASSUME NEW c \in Call PROVE MessageInv(c)'
  BY DEF CallInv, MessageInv, PlaceInv
<1>3. PlaceInv'
  BY DEF CallInv, PlaceInv, AttemptsInv
<1>4. StepInv'
  BY DEF StepInv, Quiet
<1> QED
  BY <1>1, <1>2, <1>3, <1>4

LEMMA CallsStep ==
  ASSUME TypeOK, Agreement, TypeOK', NEW d \in Call, Calls(d)
  PROVE  Agreement'
<1> USE DEF TypeOK, Agreement, Calls, Reads
<1>1. ASSUME NEW c \in Call PROVE CallInv(c)'
  BY DEF CallInv
<1>2. ASSUME NEW c \in Call PROVE MessageInv(c)'
  BY DEF CallInv, MessageInv, PlaceInv
<1>3. PlaceInv'
  BY DEF CallInv, PlaceInv, AttemptsInv
<1>4. StepInv'
  BY DEF StepInv, Quiet
<1> QED
  BY <1>1, <1>2, <1>3, <1>4

LEMMA HostedResultStep ==
  ASSUME TypeOK, Agreement, TypeOK', NEW d \in Call, HostedResult(d)
  PROVE  Agreement'
<1> USE DEF TypeOK, Agreement, HostedResult, Reads
<1>1. ASSUME NEW c \in Call PROVE CallInv(c)'
  BY FailIs, EndedIs, CappedIs DEF CallInv
<1>2. ASSUME NEW c \in Call PROVE MessageInv(c)'
  BY FailIs, EndedIs, CappedIs DEF CallInv, MessageInv, PlaceInv
<1>3. PlaceInv'
  BY FailIs, EndedIs, CappedIs DEF CallInv, PlaceInv, AttemptsInv
<1>4. StepInv'
  BY FailIs, EndedIs, CappedIs DEF StepInv, Quiet
<1> QED
  BY <1>1, <1>2, <1>3, <1>4

LEMMA CalledStep ==
  ASSUME TypeOK, Agreement, TypeOK', Called
  PROVE  Agreement'
<1> USE DEF TypeOK, Agreement, Called
<1>1. ASSUME NEW c \in Call PROVE CallInv(c)'
  <2>1. CASE c = main.call
    BY <2>1 DEF CallInv, PlaceInv
  <2>2. CASE c # main.call
    BY <2>2 DEF CallInv
  <2> QED
    BY <2>1, <2>2
<1>2. ASSUME NEW c \in Call PROVE MessageInv(c)'
  BY DEF CallInv, MessageInv, PlaceInv
<1>3. PlaceInv'
  BY DEF CallInv, PlaceInv, AttemptsInv
<1>4. StepInv'
  BY DEF StepInv, Quiet
<1> QED
  BY <1>1, <1>2, <1>3, <1>4

LEMMA ForkStep ==
  ASSUME TypeOK, Agreement, TypeOK', Fork
  PROVE  Agreement'
<1> USE DEF TypeOK, Agreement, Fork
<1>1. ASSUME NEW c \in Call PROVE CallInv(c)'
  BY DEF CallInv, PlaceInv
<1>2. ASSUME NEW c \in Call PROVE MessageInv(c)'
  BY DEF CallInv, MessageInv, PlaceInv
<1>3. PlaceInv'
  BY DEF CallInv, PlaceInv, AttemptsInv
<1>4. StepInv'
  BY DEF StepInv, Quiet
<1> QED
  BY <1>1, <1>2, <1>3, <1>4

LEMMA StreamEndsStep ==
  ASSUME TypeOK, Agreement, TypeOK', NEW how \in Streams \ {"open"}, StreamEnds(how)
  PROVE  Agreement'
<1> USE DEF TypeOK, Agreement, StreamEnds
<1>1. ASSUME NEW c \in Call PROVE CallInv(c)'
  BY FailIs, EndedIs, CappedIs DEF CallInv
<1>2. ASSUME NEW c \in Call PROVE MessageInv(c)'
  BY FailIs, EndedIs, CappedIs DEF CallInv, MessageInv, PlaceInv
<1>3. PlaceInv'
  BY FailIs, EndedIs, CappedIs DEF CallInv, PlaceInv, AttemptsInv
<1>4. StepInv'
  BY FailIs, EndedIs, CappedIs DEF StepInv, Quiet
<1> QED
  BY <1>1, <1>2, <1>3, <1>4

LEMMA SettlesStep ==
  ASSUME TypeOK, Agreement, TypeOK', NEW d \in Call, Settles(d)
  PROVE  Agreement'
<1> USE DEF TypeOK, Agreement, Settles
<1>1. ASSUME NEW c \in Call PROVE CallInv(c)'
  BY DEF CallInv
<1>2. ASSUME NEW c \in Call PROVE MessageInv(c)'
  BY DEF CallInv, MessageInv, PlaceInv
<1>3. PlaceInv'
  BY DEF CallInv, PlaceInv, AttemptsInv
<1>4. StepInv'
  BY DEF StepInv, Quiet
<1> QED
  BY <1>1, <1>2, <1>3, <1>4

LEMMA PublishesStep ==
  ASSUME TypeOK, Agreement, TypeOK', NEW d \in Call, Publishes(d)
  PROVE  Agreement'
<1> USE DEF TypeOK, Agreement, Publishes
<1>1. ASSUME NEW c \in Call PROVE CallInv(c)'
  BY EndedIs, CappedIs DEF CallInv
<1>2. ASSUME NEW c \in Call PROVE MessageInv(c)'
  BY EndedIs, CappedIs DEF CallInv, MessageInv, PlaceInv
<1>3. PlaceInv'
  BY EndedIs, CappedIs DEF CallInv, PlaceInv, AttemptsInv
<1>4. StepInv'
  BY EndedIs, CappedIs DEF StepInv, Quiet
<1> QED
  BY <1>1, <1>2, <1>3, <1>4

LEMMA StoppedStep ==
  ASSUME TypeOK, Agreement, TypeOK', NEW d \in Call, Stopped(d)
  PROVE  Agreement'
<1> USE DEF TypeOK, Agreement, Stopped
<1>1. ASSUME NEW c \in Call PROVE CallInv(c)'
  BY DEF CallInv
<1>2. ASSUME NEW c \in Call PROVE MessageInv(c)'
  BY DEF CallInv, MessageInv, PlaceInv
<1>3. PlaceInv'
  BY DEF CallInv, PlaceInv, AttemptsInv
<1>4. StepInv'
  BY DEF StepInv, Quiet
<1> QED
  BY <1>1, <1>2, <1>3, <1>4

LEMMA QuitsStep ==
  ASSUME TypeOK, Agreement, TypeOK', NEW d \in Call, NEW how \in {"declined", "defect"},
         Quits(d, how)
  PROVE  Agreement'
<1> USE DEF TypeOK, Agreement, Quits
<1>1. ASSUME NEW c \in Call PROVE CallInv(c)'
  BY DEF CallInv
<1>2. ASSUME NEW c \in Call PROVE MessageInv(c)'
  BY DEF CallInv, MessageInv, PlaceInv
<1>3. PlaceInv'
  BY DEF CallInv, PlaceInv, AttemptsInv
<1>4. StepInv'
  BY DEF StepInv, Quiet
<1> QED
  BY <1>1, <1>2, <1>3, <1>4

LEMMA AbandonStep ==
  ASSUME TypeOK, Agreement, TypeOK', Abandon
  PROVE  Agreement'
<1> USE DEF TypeOK, Agreement, Abandon, Forgotten
<1>1. ASSUME NEW c \in Call PROVE CallInv(c)'
  BY DEF CallInv
<1>2. ASSUME NEW c \in Call PROVE MessageInv(c)'
  BY DEF CallInv, MessageInv, PlaceInv
<1>3. PlaceInv'
  BY DEF CallInv, PlaceInv, AttemptsInv
<1>4. StepInv'
  BY DEF StepInv, Quiet
<1> QED
  BY <1>1, <1>2, <1>3, <1>4

LEMMA SkipStep ==
  ASSUME TypeOK, Agreement, TypeOK', Skip
  PROVE  Agreement'
<1> USE DEF TypeOK, Agreement, Skip, Forgotten
<1>1. ASSUME NEW c \in Call PROVE CallInv(c)'
  BY DEF CallInv
<1>2. ASSUME NEW c \in Call PROVE MessageInv(c)'
  BY DEF CallInv, MessageInv, PlaceInv
<1>3. PlaceInv'
  BY DEF CallInv, PlaceInv, AttemptsInv
<1>4. StepInv'
  BY DEF StepInv, Quiet
<1> QED
  BY <1>1, <1>2, <1>3, <1>4

LEMMA TryAgainStep ==
  ASSUME TypeOK, Agreement, TypeOK', TryAgain
  PROVE  Agreement'
<1> USE DEF TypeOK, Agreement, TryAgain, Fresh, NewMessage, Forgotten
<1>1. ASSUME NEW c \in Call PROVE CallInv(c)'
  BY DEF CallInv
<1>2. ASSUME NEW c \in Call PROVE MessageInv(c)'
  <2>1. CASE Fresh
    BY <2>1 DEF MessageInv
  <2>2. CASE ~Fresh
    BY <2>2 DEF MessageInv, StepInv
  <2> QED
    BY <2>1, <2>2
<1>3. PlaceInv'
  BY DEF CallInv, PlaceInv, AttemptsInv
<1>4. StepInv'
  BY DEF StepInv, Quiet
<1> QED
  BY <1>1, <1>2, <1>3, <1>4

LEMMA GiveUpStep ==
  ASSUME TypeOK, Agreement, TypeOK', GiveUp
  PROVE  Agreement'
<1> USE DEF TypeOK, Agreement, GiveUp, Forgotten
<1>1. ASSUME NEW c \in Call PROVE CallInv(c)'
  BY DEF CallInv
<1>2. ASSUME NEW c \in Call PROVE MessageInv(c)'
  BY DEF CallInv, MessageInv, PlaceInv
<1>3. PlaceInv'
  BY DEF CallInv, PlaceInv, AttemptsInv
<1>4. StepInv'
  BY DEF StepInv, Quiet
<1> QED
  BY <1>1, <1>2, <1>3, <1>4

LEMMA InterruptStep ==
  ASSUME TypeOK, Agreement, TypeOK', Interrupt
  PROVE  Agreement'
<1> USE DEF TypeOK, Agreement, Interrupt
<1>1. ASSUME NEW c \in Call PROVE CallInv(c)'
  BY DEF CallInv
<1>2. ASSUME NEW c \in Call PROVE MessageInv(c)'
  BY DEF CallInv, MessageInv, PlaceInv
<1>3. PlaceInv'
  BY DEF CallInv, PlaceInv, AttemptsInv
<1>4. StepInv'
  BY DEF StepInv, Quiet
<1> QED
  BY <1>1, <1>2, <1>3, <1>4

LEMMA DieStep ==
  ASSUME TypeOK, Agreement, TypeOK', Die
  PROVE  Agreement'
<1> USE DEF TypeOK, Agreement, Die, Forgotten
<1>1. ASSUME NEW c \in Call PROVE CallInv(c)'
  BY DEF CallInv
<1>2. ASSUME NEW c \in Call PROVE MessageInv(c)'
  BY DEF CallInv, MessageInv, PlaceInv
<1>3. PlaceInv'
  BY DEF CallInv, PlaceInv, AttemptsInv
<1>4. StepInv'
  BY DEF StepInv, Quiet
<1> QED
  BY <1>1, <1>2, <1>3, <1>4

-----------------------------------------------------------------------------
LEMMA NextAgreement ==
  ASSUME IndInv, [Next]_vars
  PROVE  IndInv'
<1> USE DEF IndInv
<1>1. TypeOK'
  BY NextTypes DEF Agreement, PlaceInv
<1>2. CASE Drain
  BY <1>1, <1>2, DrainStep
<1>3. ASSUME NEW d \in Call, SettleStale(d) \/ Runs(d) PROVE IndInv'
  BY <1>1, <1>3, SettleStaleStep, SettlesStep, PublishesStep, StoppedStep, QuitsStep DEF Runs
<1>4. CASE RunStep \/ Leave
  BY <1>1, <1>4, RunStepStep, LeaveStep
<1>5. CASE Provider
  BY <1>1, <1>5, TextStep, StartsStep, InputStartsStep, InputBreaksStep, CallsStep,
     HostedResultStep, FinishesStep DEF Provider
<1>6. CASE Attempt
  BY <1>1, <1>6, CalledStep, ForkStep, StreamEndsStep, AbandonStep, JoinsStep, JudgeStep,
     CompactStep, DecideStep, SkipStep, FailToolStep, CloseStep DEF Attempt
<1>7. CASE TryAgain \/ GiveUp
  BY <1>1, <1>7, TryAgainStep, GiveUpStep
<1>8. CASE Interrupt \/ Die
  BY <1>1, <1>8, InterruptStep, DieStep
<1>9. CASE UNCHANGED vars
  <2>1. ASSUME NEW c \in Call PROVE CallInv(c)' /\ MessageInv(c)'
    BY <1>9 DEF vars, Agreement, CallInv, MessageInv
  <2>2. PlaceInv' /\ StepInv'
    BY <1>9 DEF vars, Agreement, PlaceInv, AttemptsInv, StepInv, Quiet
  <2> QED
    BY <1>1, <2>1, <2>2 DEF Agreement
<1> QED
  BY <1>2, <1>3, <1>4, <1>5, <1>6, <1>7, <1>8, <1>9 DEF Next

THEOREM Inductive == Spec => []IndInv
<1>1. Init => IndInv
  BY InitTypes, InitAgreement DEF IndInv
<1>2. IndInv /\ [Next]_vars => IndInv'
  BY NextAgreement
<1> QED
  BY <1>1, <1>2, PTL DEF Spec

-----------------------------------------------------------------------------
(* The state of the attempt, of its records and of the log stays in the    *)
(* sets TypeOK names: no attempt is made beyond the policy's.              *)
THEOREM TypeCorrect == Spec => []TypeOK
<1>1. IndInv => TypeOK
  BY DEF IndInv
<1> QED
  BY <1>1, Inductive, PTL

(* The log gets at most one terminal event for a tool call, whichever of   *)
(* its fiber, the provider, the sweeps and the next drain gets there first.*)
THEOREM CallsSettleOnce == Spec => []SettledOnce
<1>1. ASSUME IndInv, NEW c \in Call PROVE call[c].ends <= 1
  <2>1. call[c].ends = IF call[c].state = "ended" THEN 1 ELSE 0
    BY <1>1 DEF IndInv, Agreement, CallInv
  <2> QED
    BY <2>1
<1>2. IndInv => SettledOnce
  BY <1>1 DEF SettledOnce
<1> QED
  BY <1>2, Inductive, PTL

(* A step is closed once, and behind the last of its calls.                *)
THEOREM StepsCloseLast == Spec => []EveryCallSettledFirst
<1>1. IndInv => EveryCallSettledFirst
  BY DEF IndInv, Agreement, StepInv, Quiet, EveryCallSettledFirst
<1> QED
  BY <1>1, Inductive, PTL

(* A step that is tried again has left nothing to be seen in its message;  *)
(* one that is continued in another has failed.                            *)
THEOREM RetriesAreClean == Spec => []AgainIsClean
<1>1. IndInv => AgainIsClean
  BY DEF IndInv, Agreement, StepInv, MessageInv, AgainIsClean
<1> QED
  BY <1>1, Inductive, PTL

=============================================================================
