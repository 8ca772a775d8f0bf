----------------------- MODULE SessionExecutionProofs -----------------------
(***************************************************************************)
(* Proofs about SessionExecution, for any execution objects and callers,   *)
(* any budget of resumptions, any number of restarts, and with requests    *)
(* served during the sweep or not.  What holds of the coordinator alone    *)
(* (RunCoordinatorProofs) is used of the one inside it.                    *)
(***************************************************************************)
EXTENDS SessionExecution, TLAPS

RCP == INSTANCE RunCoordinatorProofs

(* An open turn is claimed and a finished one is not, whatever executes.   *)
ClaimFollowsTurn ==
  /\ turn = "open" => claimed
  /\ turn = "finished" => ~claimed

(* Each boot counts once and resumes once.                                 *)
Counted == IF sweep \in {"exhausted", "noticing", "resuming", "over"} THEN 1 ELSE 0
Resumed == IF sweep = "over" THEN 1 ELSE 0

CountsAreBounded ==
  /\ attempts <= restarts + Counted
  /\ resumes <= restarts + Resumed

(* A resumption has been counted before it happens; a release in between,  *)
(* which takes a request of this boot, lets one go uncounted.              *)
Slack == IF Serving THEN 1 ELSE 0

ResumesAreCounted ==
  /\ resumes <= attempts + Slack
  /\ sweep \in {"noticing", "resuming"} =>
       attempts <= MaxAttempts /\ resumes + 1 <= attempts + Slack

(* Nothing runs the Session before the sweep does, when no request may.    *)
Quiet ==
  ~Serving /\ sweep # "over" =>
    current = None /\ \A c \in Caller : Away(c)

IndInv ==
  /\ RCP!IndInv
  /\ TypeOK
  /\ ClaimFollowsTurn
  /\ CountsAreBounded
  /\ ResumesAreCounted
  /\ Quiet
  /\ RecoveryIsBounded

-----------------------------------------------------------------------------
(* The coordinator inside is the coordinator proved about.                 *)
LEMMA NoneIsNoObject == RCP!NoneAssumption
BY ExecutionAssumption DEF RCP!NoneAssumption, RCP!Scopes, RCP!Exits, RC!Scopes, RC!Exits

LEMMA SameInit == RC!Init => RCP!Init
BY DEF RC!Init, RCP!Init, RC!NoExecutions, RCP!NoExecutions, RC!NoCallers, RCP!NoCallers,
       RC!Blank, RCP!Blank

LEMMA SameType == RCP!TypeOK <=> RC!TypeOK
BY DEF RC!TypeOK, RCP!TypeOK, RC!ExecutionRecord, RCP!ExecutionRecord,
       RC!CallerRecord, RCP!CallerRecord, RC!Alive, RCP!Alive, RC!Owned, RCP!Owned,
       RC!Scopes, RCP!Scopes, RC!Exits, RCP!Exits

LEMMA SameFiber ==
  ASSUME NEW e \in Execution, Fiber(e)
  PROVE  RCP!Fiber(e)
<1> USE DEF RC!Step, RCP!Step, RC!Exit, RCP!Exit
<1>1. RC!StartHookReturns(e) => RCP!StartHookReturns(e)
  BY DEF RC!StartHookReturns, RCP!StartHookReturns
<1>2. RC!SettledHookReturns(e) => RCP!SettledHookReturns(e)
  BY DEF RC!SettledHookReturns, RCP!SettledHookReturns
<1>3. RC!SettledHookDies(e) => RCP!SettledHookDies(e)
  BY DEF RC!SettledHookDies, RCP!SettledHookDies
<1>4. RC!StartHook(e) => RCP!StartHook(e)
  BY DEF RC!StartHook, RCP!StartHook
<1>5. RC!StartHookDies(e) => RCP!StartHookDies(e)
  BY DEF RC!StartHookDies, RCP!StartHookDies
<1>6. RC!BeginDrain(e) => RCP!BeginDrain(e)
  BY DEF RC!BeginDrain, RCP!BeginDrain
<1>7. RC!DrainReturns(e) => RCP!DrainReturns(e)
  BY DEF RC!DrainReturns, RCP!DrainReturns
<1>8. RC!DrainFails(e) => RCP!DrainFails(e)
  BY DEF RC!DrainFails, RCP!DrainFails
<1>9. RC!DrainDeclines(e) => RCP!DrainDeclines(e)
  BY DEF RC!DrainDeclines, RCP!DrainDeclines
<1>10. RC!LoopEnds(e) => RCP!LoopEnds(e)
  BY DEF RC!LoopEnds, RCP!LoopEnds
<1>11. RC!LoopAgain(e) => RCP!LoopAgain(e)
  BY DEF RC!LoopAgain, RCP!LoopAgain
<1>12. RC!InterruptLands(e) => RCP!InterruptLands(e)
  BY DEF RC!InterruptLands, RCP!InterruptLands, RC!Interruptible, RCP!Interruptible
<1>13. RC!Unwound(e) => RCP!Unwound(e)
  BY DEF RC!Unwound, RCP!Unwound
<1>14. RC!Leave(e) => RCP!Leave(e)
  BY DEF RC!Leave, RCP!Leave
<1>15. RC!Settle(e) => RCP!Settle(e)
  BY DEF RC!Settle, RCP!Settle, RC!Started, RCP!Started, RC!Blank, RCP!Blank,
         RC!Free, RCP!Free, RC!Resolved, RCP!Resolved
<1> QED
  BY <1>1, <1>2, <1>3, <1>4, <1>5, <1>6, <1>7, <1>8, <1>9, <1>10, <1>11, <1>12, <1>13,
     <1>14, <1>15
  DEF Fiber, StartHookReturns, SettledHookReturns, SettledHookDies, RCP!Fiber

LEMMA SameCaller ==
  ASSUME NEW c \in Caller
  PROVE  /\ RC!Run(c) => RCP!Run(c)
         /\ RC!Return(c) => RCP!Return(c)
         /\ RC!AwaitIdle(c) => RCP!AwaitIdle(c)
<1> USE DEF RC!Goto, RCP!Goto, RC!Joining, RCP!Joining
<1>1. RC!RunStarts(c) => RCP!RunStarts(c)
  BY DEF RC!RunStarts, RCP!RunStarts, RC!Started, RCP!Started, RC!Blank, RCP!Blank,
         RC!Free, RCP!Free
<1>2. RC!RunJoins(c) => RCP!RunJoins(c)
  BY DEF RC!RunJoins, RCP!RunJoins
<1>3. RC!RunRefused(c) => RCP!RunRefused(c)
  BY DEF RC!RunRefused, RCP!RunRefused
<1>4. RC!Return(c) => RCP!Return(c)
  BY DEF RC!Return, RCP!Return
<1>5. RC!AwaitIdle(c) => RCP!AwaitIdle(c)
  BY DEF RC!AwaitIdle, RCP!AwaitIdle
<1> QED
  BY <1>1, <1>2, <1>3, <1>4, <1>5 DEF RC!Run, RCP!Run

LEMMA SameRequests ==
  /\ \A s \in RC!Scopes : RC!WakeRings(s) => RCP!WakeRings(s)
  /\ \A s \in RC!Scopes : RC!WakeStarts(s) => RCP!WakeStarts(s)
  /\ RC!InterruptAccepted => RCP!InterruptAccepted
  /\ RC!InterruptTooLate => RCP!InterruptTooLate
  /\ RC!CloseScope => RCP!CloseScope
<1>1. ASSUME NEW s \in RC!Scopes
      PROVE  RC!WakeRings(s) => RCP!WakeRings(s)
  BY DEF RC!WakeRings, RCP!WakeRings, RC!Coalesce, RCP!Coalesce
<1>2. ASSUME NEW s \in RC!Scopes
      PROVE  RC!WakeStarts(s) => RCP!WakeStarts(s)
  BY DEF RC!WakeStarts, RCP!WakeStarts, RC!Started, RCP!Started, RC!Blank, RCP!Blank,
         RC!Free, RCP!Free
<1>3. RC!InterruptAccepted => RCP!InterruptAccepted
  BY DEF RC!InterruptAccepted, RCP!InterruptAccepted, RC!Owned, RCP!Owned
<1>4. RC!InterruptTooLate => RCP!InterruptTooLate
  BY DEF RC!InterruptTooLate, RCP!InterruptTooLate, RC!Owned, RCP!Owned
<1>5. RC!CloseScope => RCP!CloseScope
  BY DEF RC!CloseScope, RCP!CloseScope
<1> QED
  BY <1>1, <1>2, <1>3, <1>4, <1>5

-----------------------------------------------------------------------------
(* Every step is a step of the coordinator, or leaves it alone, or is a    *)
(* restart, which leaves a fresh one.                                      *)
LEMMA StepOfTheCoordinator ==
  ASSUME Next
  PROVE  [RCP!Next]_(RCP!vars) \/ (Restart /\ (RCP!Init)')
<1> USE DEF RCP!Next
<1>1. ASSUME NEW e \in Execution, Fiber(e)
      PROVE  RCP!Next
  BY <1>1, SameFiber
<1>2. ASSUME NEW s \in RC!Scopes, Wake(s)
      PROVE  RCP!Next
  BY <1>2, SameRequests DEF Wake, RC!Scopes, RCP!Scopes
<1>3. ASSUME NEW c \in Caller, Resume(c) \/ AwaitIdle(c) \/ GoesOn(c)
      PROVE  RCP!Next
  BY <1>3, SameCaller DEF Resume, AwaitIdle, GoesOn
<1>4. ASSUME Interrupt \/ Shutdown
      PROVE  RCP!Next
  BY <1>4, SameRequests DEF Interrupt, Shutdown
<1>5. ASSUME Sweep
      PROVE  RCP!Next \/ UNCHANGED coordinator
  <2>1. CASE SweepResumes
    BY <2>1, SameCaller DEF SweepResumes
  <2>2. CASE ~SweepResumes
    BY <1>5, <2>2
    DEF Sweep, SweepLooks, SweepLists, SweepCounts, SweepTerminalizes, SweepNotices
  <2> QED
    BY <2>1, <2>2
<1>6. ASSUME Restart
      PROVE  (RCP!Init)'
  BY <1>6 DEF Restart, RCP!Init, RC!NoExecutions, RCP!NoExecutions, RC!NoCallers,
              RCP!NoCallers, RC!Blank, RCP!Blank
<1> QED
  <2> HIDE DEF RCP!Next
  <2> QED
    BY <1>1, <1>2, <1>3, <1>4, <1>5, <1>6 DEF Next, coordinator, RCP!vars

LEMMA FreshCoordinator == RCP!Init => RCP!IndInv
BY NoneIsNoObject, RCP!InitIndInv

LEMMA CoordinatorKept ==
  ASSUME RCP!IndInv, Next
  PROVE  (RCP!IndInv)'
<1>1. (RCP!Init => RCP!IndInv)'
  BY FreshCoordinator, PTL
<1>2. [RCP!Next]_(RCP!vars) => (RCP!IndInv)'
  BY NoneIsNoObject, RCP!StepIndInv
<1> QED
  BY <1>1, <1>2, StepOfTheCoordinator

-----------------------------------------------------------------------------
(* What is left: the database, the sweep and the history.                  *)
Recorder ==
  /\ claimed \in BOOLEAN
  /\ attempts \in Nat
  /\ sweep \in Sweeps
  /\ turn \in Turns
  /\ resumes \in Nat
  /\ restarts \in 0..MaxRestarts
  /\ ClaimFollowsTurn
  /\ CountsAreBounded
  /\ ResumesAreCounted
  /\ RecoveryIsBounded

LEMMA RecorderIs ==
  ASSUME RCP!IndInv
  PROVE  IndInv <=> Recorder /\ Quiet
<1>1. RC!TypeOK
  BY SameType DEF RCP!IndInv
<1>2. Recorder => attempts \in 0..(MaxRestarts + 1) /\ resumes \in 0..(MaxRestarts + 1)
  BY ExecutionAssumption DEF Recorder, CountsAreBounded, Counted, Resumed
<1> QED
  BY <1>1, <1>2, ExecutionAssumption DEF IndInv, TypeOK, Recorder

LEMMA NothingRecorded ==
  ASSUME Recorder, Elsewhere
  PROVE  Recorder'
BY DEF Recorder, Elsewhere, database, history, ClaimFollowsTurn, CountsAreBounded, Counted,
       Resumed, ResumesAreCounted, Slack, RecoveryIsBounded

(* A release, with the terminal it belongs to, while nothing rests on the  *)
(* counts: the sweep is done, or requests are served.                      *)
LEMMA Releases ==
  ASSUME Recorder, Release, turn' \in Turns \ {"open"}, UNCHANGED restarts,
         sweep' = "over" \/ (sweep' = sweep /\ Serving)
  PROVE  Recorder'
<1> USE ExecutionAssumption
        DEF Recorder, Release, Turns, Sweeps, Counted, Resumed, Slack
<1>1. ClaimFollowsTurn'
  BY DEF ClaimFollowsTurn
<1>2. CountsAreBounded'
  BY DEF CountsAreBounded
<1>3. ResumesAreCounted'
  BY DEF ResumesAreCounted
<1>4. RecoveryIsBounded'
  BY DEF RecoveryIsBounded
<1> QED
  BY <1>1, <1>2, <1>3, <1>4

LEMMA HooksRecord ==
  ASSUME IndInv, NEW e \in Execution, Fiber(e)
  PROVE  Recorder'
<1>1. Recorder /\ Quiet
  BY RecorderIs DEF IndInv
<1>2. executions[e].exit \in RC!Exits \union {None} /\ executions[e].stopping \in BOOLEAN
  BY SameType DEF IndInv, RCP!IndInv, RC!TypeOK, RC!ExecutionRecord
<1>3. CASE StartHookReturns(e)
  <2> USE <1>1, <1>3 DEF StartHookReturns, Claim
  <2>1. ClaimFollowsTurn'
    BY DEF ClaimFollowsTurn
  <2>2. UNCHANGED <<attempts, resumes, sweep, restarts>>
    OBVIOUS
  <2> QED
    BY <2>1, <2>2
    DEF Recorder, Turns, CountsAreBounded, Counted, Resumed, ResumesAreCounted, Slack,
        RecoveryIsBounded
<1>4. CASE SettledHookReturns(e)
  <2>1. Serving \/ sweep = "over"
    <3> SUFFICES ASSUME ~Serving, sweep # "over"
                 PROVE  FALSE
      BY ExecutionAssumption
    <3>1. current = None
      BY <1>1 DEF Quiet
    <3>2. executions[e].phase = "free"
      BY <3>1, ExecutionAssumption DEF IndInv, RCP!IndInv, RCP!Serialized
    <3> QED
      BY <3>2, <1>4 DEF SettledHookReturns, RC!SettledHookReturns, RC!Step
  <2>2. UNCHANGED <<sweep, restarts>> /\ turn' = Ended(executions[e])
    BY <1>4 DEF SettledHookReturns
  <2>3. CASE Outcome(executions[e]) = "shutdown"
    <3>1. UNCHANGED <<claimed, attempts, resumes>>
      BY <1>4, <2>3 DEF SettledHookReturns
    <3>2. turn' \in {turn, "declined"}
      BY <1>2, <2>2, <2>3 DEF Outcome, Ended
    <3>3. ClaimFollowsTurn' /\ turn' \in Turns
      BY <1>1, <3>1, <3>2 DEF Recorder, ClaimFollowsTurn, Turns
    <3> QED
      BY <1>1, <2>2, <3>1, <3>3
      DEF Recorder, CountsAreBounded, Counted, Resumed, ResumesAreCounted, Slack,
          RecoveryIsBounded
  <2>4. CASE Outcome(executions[e]) # "shutdown"
    <3>1. Release
      BY <1>4, <2>4 DEF SettledHookReturns
    <3>2. turn' = "finished"
      BY <1>2, <2>2, <2>4, ExecutionAssumption DEF Outcome, Ended
    <3> QED
      BY <1>1, <2>1, <2>2, <3>1, <3>2, Releases DEF Turns
  <2> QED
    BY <2>3, <2>4
<1>5. CASE SettledHookDies(e)
  <2>1. UNCHANGED <<claimed, attempts, sweep, resumes, restarts>> /\ turn' = "unrecorded"
    BY <1>5 DEF SettledHookDies, database
  <2>2. ClaimFollowsTurn'
    BY <2>1 DEF ClaimFollowsTurn
  <2> QED
    BY <1>1, <2>1, <2>2
    DEF Recorder, Turns, CountsAreBounded, Counted, Resumed, ResumesAreCounted, Slack,
        RecoveryIsBounded
<1>6. CASE Elsewhere
  BY <1>1, <1>6, NothingRecorded
<1> QED
  BY <1>3, <1>4, <1>5, <1>6 DEF Fiber

LEMMA SweepRecords ==
  ASSUME Recorder, Sweep
  PROVE  Recorder'
<1> USE ExecutionAssumption DEF Sweeps, Turns, SweepStep
<1> DEFINE Marks == /\ UNCHANGED <<claimed, attempts, turn, resumes, restarts>>
                    /\ \/ (sweep = "boot" /\ sweep' \in {"listing", "over"})
                       \/ (sweep = "listing" /\ sweep' \in {"counting", "over"})
                       \/ (sweep = "noticing" /\ sweep' = "resuming")
<1>1. ASSUME SweepLooks \/ SweepLists \/ SweepNotices
      PROVE  Marks
  BY <1>1 DEF SweepLooks, SweepLists, SweepNotices, database, history
<1>2. ASSUME Marks
      PROVE  Recorder'
  <2>1. ClaimFollowsTurn' /\ RecoveryIsBounded'
    BY <1>2 DEF Recorder, ClaimFollowsTurn, RecoveryIsBounded
  <2>2. CountsAreBounded'
    BY <1>2 DEF Recorder, CountsAreBounded, Counted, Resumed
  <2>3. ResumesAreCounted'
    BY <1>2 DEF Recorder, ResumesAreCounted, Slack
  <2> QED
    BY <1>2, <2>1, <2>2, <2>3 DEF Recorder
<1>3. CASE SweepCounts
  <2>1. /\ attempts' = attempts + 1
        /\ sweep = "counting"
        /\ sweep' = IF attempts + 1 > MaxAttempts THEN "exhausted" ELSE "noticing"
        /\ UNCHANGED <<claimed, turn, resumes, restarts>>
    BY <1>3 DEF SweepCounts, history
  <2>2. ClaimFollowsTurn' /\ RecoveryIsBounded'
    BY <2>1 DEF Recorder, ClaimFollowsTurn, RecoveryIsBounded
  <2>3. CountsAreBounded'
    BY <2>1 DEF Recorder, CountsAreBounded, Counted, Resumed
  <2>4. ResumesAreCounted'
    BY <2>1 DEF Recorder, ResumesAreCounted, Slack
  <2> QED
    BY <2>1, <2>2, <2>3, <2>4 DEF Recorder
<1>4. CASE SweepTerminalizes
  BY <1>4, Releases DEF SweepTerminalizes
<1>5. CASE SweepResumes
  <2>1. /\ resumes' = resumes + 1
        /\ sweep = "resuming"
        /\ sweep' = "over"
        /\ UNCHANGED <<claimed, attempts, turn, restarts>>
    BY <1>5 DEF SweepResumes, database
  <2>2. ClaimFollowsTurn'
    BY <2>1 DEF Recorder, ClaimFollowsTurn
  <2>3. CountsAreBounded'
    BY <2>1 DEF Recorder, CountsAreBounded, Counted, Resumed
  <2>4. ResumesAreCounted'
    BY <2>1 DEF Recorder, ResumesAreCounted, Slack
  <2>5. RecoveryIsBounded'
    BY <2>1 DEF Recorder, RecoveryIsBounded, ResumesAreCounted, Slack
  <2> QED
    BY <2>1, <2>2, <2>3, <2>4, <2>5 DEF Recorder
<1> QED
  <2> HIDE DEF Marks
  <2> QED
    BY <1>1, <1>2, <1>3, <1>4, <1>5 DEF Sweep

LEMMA RestartRecords ==
  ASSUME Recorder, Restart
  PROVE  Recorder'
<1>1. /\ restarts < MaxRestarts
      /\ restarts' = restarts + 1
      /\ sweep' = "boot"
      /\ UNCHANGED <<claimed, attempts, turn, resumes>>
  BY DEF Restart, database, history
<1> USE <1>1, ExecutionAssumption DEF Recorder
<1>2. ClaimFollowsTurn' /\ RecoveryIsBounded'
  BY DEF ClaimFollowsTurn, RecoveryIsBounded
<1>3. CountsAreBounded'
  BY DEF CountsAreBounded, Counted, Resumed
<1>4. ResumesAreCounted'
  BY DEF ResumesAreCounted, Slack
<1> QED
  BY <1>2, <1>3, <1>4 DEF Sweeps

LEMMA RecorderKept ==
  ASSUME IndInv, Next
  PROVE  Recorder'
<1>1. Recorder
  BY RecorderIs DEF IndInv
<1>2. \/ \E e \in Execution : Fiber(e)
      \/ Sweep
      \/ Restart
      \/ Elsewhere
  BY DEF Next, Wake, Resume, AwaitIdle, GoesOn, Interrupt, Shutdown
<1> QED
  BY <1>1, <1>2, HooksRecord, SweepRecords, RestartRecords, NothingRecorded

(* When no request is served nothing moves before the sweep resumes the    *)
(* Session.                                                                *)
LEMMA QuietKept ==
  ASSUME IndInv, Next
  PROVE  Quiet'
<1> SUFFICES ASSUME ~Serving, sweep' # "over"
             PROVE  (current = None /\ \A c \in Caller : Away(c))'
  BY DEF Quiet
<1>1. CASE Restart
  BY <1>1 DEF Restart, RC!NoCallers, Away
<1>2. CASE ~Restart
  <2>1. sweep # "over"
    BY <1>2
    DEF Next, Sweep, SweepLooks, SweepLists, SweepCounts, SweepTerminalizes, SweepNotices,
        SweepResumes, SweepStep, Fiber, StartHookReturns, SettledHookReturns,
        SettledHookDies, Wake, Resume, AwaitIdle, GoesOn, Interrupt, Shutdown, Elsewhere
  <2>2. current = None /\ \A c \in Caller : Away(c)
    BY <2>1 DEF IndInv, Quiet
  <2>3. ~\E e \in Execution : Fiber(e)
    <3>1. ASSUME NEW e \in Execution
          PROVE  executions[e].phase = "free"
      BY <2>2, ExecutionAssumption DEF IndInv, RCP!IndInv, RCP!Serialized
    <3> QED
      BY <3>1
      DEF Fiber, StartHookReturns, SettledHookReturns, SettledHookDies, RC!StartHookReturns,
          RC!SettledHookReturns, RC!SettledHookDies, RC!StartHook, RC!StartHookDies,
          RC!BeginDrain, RC!DrainReturns, RC!DrainFails, RC!DrainDeclines, RC!LoopEnds,
          RC!LoopAgain, RC!InterruptLands, RC!Interruptible, RC!Unwound, RC!Leave, RC!Settle,
          RC!Step
  <2>4. Shutdown \/ (Sweep /\ ~SweepResumes)
    BY <1>2, <2>1, <2>2, <2>3
    DEF Next, Wake, Resume, AwaitIdle, GoesOn, Interrupt, Serves, SweepResumes, SweepStep
  <2>5. UNCHANGED <<current, caller>>
    BY <2>4
    DEF Shutdown, RC!CloseScope, Sweep, SweepLooks, SweepLists, SweepCounts,
        SweepTerminalizes, SweepNotices, coordinator
  <2> QED
    BY <2>2, <2>5 DEF Away
<1> QED
  BY <1>1, <1>2

-----------------------------------------------------------------------------
LEMMA InitIndInv == Init => IndInv
<1> SUFFICES ASSUME Init PROVE IndInv
  OBVIOUS
<1>1. RCP!IndInv
  BY SameInit, FreshCoordinator DEF Init
<1>2. Recorder
  <2>1. /\ ~claimed /\ attempts = 0 /\ resumes = 0 /\ restarts = 0
        /\ sweep = "boot" /\ turn = "finished" /\ claimed \in BOOLEAN
    BY DEF Init
  <2>2. ClaimFollowsTurn
    BY <2>1 DEF ClaimFollowsTurn
  <2>3. CountsAreBounded /\ ResumesAreCounted /\ RecoveryIsBounded
    BY <2>1, ExecutionAssumption
    DEF CountsAreBounded, Counted, Resumed, ResumesAreCounted, Slack, RecoveryIsBounded
  <2>4. restarts \in 0..MaxRestarts
    BY <2>1, ExecutionAssumption
  <2> QED
    BY <2>1, <2>2, <2>3, <2>4 DEF Recorder, Sweeps, Turns
<1>3. Quiet
  BY DEF Init, RC!Init, RC!NoCallers, Quiet, Away
<1> QED
  BY <1>1, <1>2, <1>3, RecorderIs

LEMMA StepIndInv == IndInv /\ [Next]_vars => IndInv'
<1> SUFFICES ASSUME IndInv, [Next]_vars PROVE IndInv'
  OBVIOUS
<1>1. CASE Next
  <2>1. (RCP!IndInv)'
    BY <1>1, CoordinatorKept DEF IndInv
  <2>2. Recorder' /\ Quiet'
    BY <1>1, RecorderKept, QuietKept
  <2>3. (RCP!IndInv => (IndInv <=> Recorder /\ Quiet))'
    BY RecorderIs, PTL
  <2> QED
    BY <2>1, <2>2, <2>3
<1>2. CASE UNCHANGED vars
  <2>1. (RCP!IndInv)'
    BY <1>2, NoneIsNoObject, RCP!StepIndInv DEF IndInv, vars, coordinator, RCP!vars
  <2>2. UNCHANGED coordinator /\ Elsewhere
    BY <1>2 DEF vars, Elsewhere
  <2>3. Recorder'
    BY <2>2, RecorderIs, NothingRecorded DEF IndInv
  <2>4. Quiet'
    BY <2>2 DEF IndInv, Quiet, Away, coordinator, Elsewhere
  <2>5. (RCP!IndInv => (IndInv <=> Recorder /\ Quiet))'
    BY RecorderIs, PTL
  <2> QED
    BY <2>1, <2>3, <2>4, <2>5
<1> QED
  BY <1>1, <1>2

-----------------------------------------------------------------------------
(* The coordinator's invariant survives the hooks, the sweep and restarts, *)
(* and the rest says how the claim and the two counts follow the turn.     *)
THEOREM Inductive == Spec => []IndInv
BY InitIndInv, StepIndInv, PTL DEF Spec

(* Every variable keeps its type; the counts stay within the restarts.     *)
THEOREM TypeCorrect == Spec => []TypeOK
<1>1. IndInv => TypeOK
  BY DEF IndInv
<1> QED
  BY <1>1, Inductive, PTL

(* An unfinished turn keeps its claim until a terminal of its own.         *)
THEOREM TurnsKeepTheirClaim == Spec => []UnfinishedTurnKeepsClaim
<1>1. IndInv => UnfinishedTurnKeepsClaim
  BY DEF IndInv, ClaimFollowsTurn, UnfinishedTurnKeepsClaim
<1> QED
  BY <1>1, Inductive, PTL

(* A finished turn leaves no claim behind, whatever executes the Session.  *)
THEOREM TurnsReleaseTheirClaim == Spec => []FinishedTurnIsReleased
<1>1. IndInv => FinishedTurnIsReleased
  BY DEF IndInv, ClaimFollowsTurn, FinishedTurnIsReleased
<1> QED
  BY <1>1, Inductive, PTL

(* A turn that keeps dying is resumed maxAttempts times, or once more when *)
(* requests are served during the sweep.                                   *)
THEOREM ResumesAreBounded == Spec => []RecoveryIsBounded
<1>1. IndInv => RecoveryIsBounded
  BY DEF IndInv
<1> QED
  BY <1>1, Inductive, PTL

-----------------------------------------------------------------------------
(* Between restarts the coordinator inside is the Doorbell it implements   *)
(* alone.                                                                  *)
LEMMA SameDoorbell ==
  /\ RCP!Mode = RC!Mode
  /\ RCP!DrainUnderWay = RC!DrainUnderWay
  /\ RCP!Owed = RC!Owed
<1>1. RCP!Mode = RC!Mode
  BY DEF RCP!Mode, RC!Mode
<1>2. RCP!DrainUnderWay = RC!DrainUnderWay
  BY DEF RCP!DrainUnderWay, RC!DrainUnderWay, RCP!Draining, RC!Draining
<1>3. RCP!Owed = RC!Owed
  BY DEF RCP!Owed, RC!Owed, RCP!OnTheBell, RC!OnTheBell, RCP!AboutToDrain, RC!AboutToDrain,
         RCP!Scopes, RC!Scopes, RCP!Covered, RC!Covered, RCP!Unstarted, RC!Unstarted
<1> QED
  BY <1>1, <1>2, <1>3

LEMMA SameDoorbellStep == [RCP!D!Next]_(RCP!D!vars) <=> [RC!D!Next]_(RC!D!vars)
<1>1. (/\ RCP!Mode = RC!Mode
       /\ RCP!DrainUnderWay = RC!DrainUnderWay
       /\ RCP!Owed = RC!Owed)'
  BY SameDoorbell, PTL
<1> QED
  BY <1>1, SameDoorbell
  DEF RCP!D!Next, RC!D!Next, RCP!D!vars, RC!D!vars, RCP!D!Ring, RC!D!Ring,
      RCP!D!BeginDrain, RC!D!BeginDrain, RCP!D!EndDrain, RC!D!EndDrain, RCP!D!Close, RC!D!Close,
      RCP!D!Settle, RC!D!Settle, RCP!D!Claim, RC!D!Claim, RCP!D!Abort, RC!D!Abort,
      RCP!D!Scopes, RC!D!Scopes, RCP!D!Covered, RC!D!Covered

RingsOrRestarts == Restart \/ [RC!D!Next]_(RC!D!vars)

LEMMA StepOfADoorbell == IndInv /\ IndInv' /\ [Next]_vars => RingsOrRestarts
<1> SUFFICES ASSUME IndInv, IndInv', [Next]_vars PROVE RingsOrRestarts
  OBVIOUS
<1> USE DEF RingsOrRestarts
<1>1. (RCP!IndInv)'
  BY DEF IndInv
<1>2. CASE [RCP!Next]_(RCP!vars)
  BY <1>1, <1>2, NoneIsNoObject, RCP!StepRefines, SameDoorbellStep DEF IndInv
<1>3. CASE UNCHANGED vars
  BY <1>2, <1>3 DEF vars, coordinator, RCP!vars
<1> QED
  BY <1>2, <1>3, StepOfTheCoordinator

(* What the coordinator promises it promises inside the composition, the   *)
(* sweep's resumption, the hooks that fail and the restarts included: one  *)
(* execution at a time, no waiter left behind, no interrupt handed to a    *)
(* caller who joined after it.                                             *)
THEOREM CoordinatorKeepsItsPromises ==
  Spec => [](RC!Serialized /\ RC!NobodyForgotten /\ RC!NoBorrowedInterrupt)
<1>1. IndInv => RC!Serialized /\ RC!NobodyForgotten /\ RC!NoBorrowedInterrupt
  BY DEF IndInv, RCP!IndInv, RC!Serialized, RCP!Serialized, RC!NobodyForgotten,
         RCP!NobodyForgotten, RC!NoBorrowedInterrupt, RCP!NoBorrowedInterrupt
<1> QED
  BY <1>1, Inductive, PTL

(* Nor does the composition lose a wake: as long as the process lives, a   *)
(* ring leaves the debt only when a drain that covers it begins, when an   *)
(* interrupt claims it, or when the execution it started dies; the sweep's *)
(* resumptions and the hooks' failures included.  Only a restart forgets   *)
(* rings: the turns that ran keep their claims (TurnsKeepTheirClaim).      *)
THEOREM WakesSurviveTheComposition ==
  Spec => [][RingsOrRestarts]_vars
BY Inductive, StepOfADoorbell, PTL DEF Spec
=============================================================================
