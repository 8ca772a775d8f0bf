-------------------------- MODULE SessionExecution --------------------------
(***************************************************************************)
(* session/execution.ts and the boot sweep of session/execution/restart.ts *)
(* for one top-level Session, over the coordinator of that Session's key.  *)
(* The hooks the coordinator runs write the database: the started hook     *)
(* commits the Session's claim, the settled hook releases it, or keeps it. *)
(* A restart replaces the process and leaves the database.                 *)
(***************************************************************************)
EXTENDS Naturals

CONSTANTS
  Execution, None,  \* as in RunCoordinator
  Caller,           \* fibers that call resume and awaitIdle, the sweep's fork among them
  Serving,          \* requests are served while the sweep is under way
  MaxAttempts,      \* Options.maxAttempts
  MaxRestarts       \* bound: the number of restarts explored

VARIABLES
  executions, current, caller, closed,  \* the coordinator of this process
  claimed,   \* time_suspended is set
  attempts,  \* resume_attempts
  sweep,     \* where this boot's sweep is with the Session
  turn,      \* history: what became of the last recorded busy period
  resumes,   \* history: resumptions since the last release
  restarts   \* how many restarts so far

coordinator == <<executions, current, caller, closed>>
database    == <<claimed, attempts>>
history     == <<turn, resumes>>
vars        == <<coordinator, database, sweep, history, restarts>>

RC == INSTANCE RunCoordinator

ASSUME ExecutionAssumption ==
  /\ None \notin Execution \union RC!Scopes \union RC!Exits
  /\ Serving \in BOOLEAN
  /\ MaxAttempts \in Nat
  /\ MaxRestarts \in Nat

(* open: recorded as started, with no terminal recorded since.             *)
(* finished: a terminal was recorded.  declined: it stopped itself because *)
(* the user declined a tool call.  unrecorded: its settled hook died.      *)
(* overruled: the sweep recorded a terminal while it ran.                  *)
Turns  == {"open", "finished", "declined", "unrecorded", "overruled"}
Sweeps == {"boot", "listing", "counting", "exhausted", "noticing", "resuming", "over"}

TypeOK ==
  /\ RC!TypeOK
  /\ claimed \in BOOLEAN
  /\ attempts \in 0..(MaxRestarts + 1)
  /\ sweep \in Sweeps
  /\ turn \in Turns
  /\ resumes \in 0..(MaxRestarts + 1)
  /\ restarts \in 0..MaxRestarts

Init ==
  /\ RC!Init
  /\ claimed = FALSE
  /\ attempts = 0
  /\ sweep = "boot"
  /\ turn = "finished"
  /\ resumes = 0
  /\ restarts = 0

-----------------------------------------------------------------------------
(* store.claim, store.release: each in the transaction of the event it is  *)
(* the commit hook of.                                                     *)

(* Mutation: claiming starts the count of resumptions over.                *)
ClaimResets ==
  /\ claimed' = TRUE
  /\ attempts' = 0
  /\ UNCHANGED resumes

Claim ==
  /\ claimed' = TRUE
  /\ UNCHANGED <<attempts, resumes>>

(* Mutation: the count is cleared to null like the claim.                  *)
ReleaseNull ==
  /\ claimed' = FALSE
  /\ attempts' = None
  /\ resumes' = 0

Release ==
  /\ claimed' = FALSE
  /\ attempts' = 0
  /\ resumes' = 0

-----------------------------------------------------------------------------
(* The hooks.                                                              *)

StartHookReturns(e) ==
  /\ RC!StartHookReturns(e)
  /\ Claim
  /\ turn' = "open"
  /\ UNCHANGED <<sweep, restarts>>

(* Mutation: a failed turn is left for the next start to try again.        *)
OutcomeRetried(record) ==
  CASE record.exit = "success" -> "succeeded"
    [] record.exit \in {"interrupted", "declined"} /\ record.stopping -> "user"
    [] OTHER -> "shutdown"

(* terminal: an interruption without a reason is taken for a shutdown.     *)
Outcome(record) ==
  CASE record.exit = "success" -> "succeeded"
    [] record.exit \in {"interrupted", "declined"} ->
         (IF record.stopping THEN "user" ELSE "shutdown")
    [] OTHER -> "failed"

Ended(record) ==
  CASE record.stopping \/ record.exit \notin {"interrupted", "declined"} -> "finished"
    [] record.exit = "declined" /\ ~record.stopping -> "declined"
    [] OTHER -> turn

SettledHookReturns(e) ==
  /\ RC!SettledHookReturns(e)
  /\ IF Outcome(executions[e]) = "shutdown"
     THEN UNCHANGED <<claimed, attempts, resumes>>
     ELSE Release
  /\ turn' = Ended(executions[e])
  /\ UNCHANGED <<sweep, restarts>>

(* The publication, or the cancellation of the Session's jobs before it,   *)
(* dies: nothing was committed.                                            *)
SettledHookDies(e) ==
  /\ RC!SettledHookDies(e)
  /\ turn' = "unrecorded"
  /\ UNCHANGED <<database, sweep, resumes, restarts>>

(* Every other step of an execution's fiber leaves the database alone.     *)
Elsewhere == UNCHANGED <<database, sweep, history, restarts>>

Fiber(e) ==
  \/ StartHookReturns(e)
  \/ SettledHookReturns(e)
  \/ SettledHookDies(e)
  \/ /\ \/ RC!StartHook(e)
        \/ RC!StartHookDies(e)
        \/ RC!BeginDrain(e)
        \/ RC!DrainReturns(e)
        \/ RC!DrainFails(e)
        \/ RC!DrainDeclines(e)
        \/ RC!LoopEnds(e)
        \/ RC!LoopAgain(e)
        \/ RC!InterruptLands(e)
        \/ RC!Unwound(e)
        \/ RC!Leave(e)
        \/ RC!Settle(e)
     /\ Elsewhere

-----------------------------------------------------------------------------
(* What the rest of the process asks of the Session.                       *)

Serves == Serving \/ sweep = "over"

Wake(scope) ==
  /\ Serves
  /\ RC!WakeRings(scope) \/ RC!WakeStarts(scope)
  /\ Elsewhere

Interrupt ==
  /\ Serves
  /\ RC!InterruptAccepted \/ RC!InterruptTooLate
  /\ Elsewhere

Away(c) == caller[c].at = "away"

Resume(c) == Serves /\ Away(c) /\ RC!Run(c) /\ Elsewhere

AwaitIdle(c) == Serves /\ Away(c) /\ RC!AwaitIdle(c) /\ Elsewhere

(* A caller waits out a stopping execution, looks again, or returns.       *)
GoesOn(c) ==
  /\ ~Away(c)
  /\ RC!Run(c) \/ RC!AwaitIdle(c) \/ RC!Return(c)
  /\ Elsewhere

Shutdown == RC!CloseScope /\ Elsewhere

(* Death without teardown, at any point, or the end of a shutdown, and the *)
(* next boot.                                                              *)
Restart ==
  /\ restarts < MaxRestarts
  /\ restarts' = restarts + 1
  /\ executions' = RC!NoExecutions
  /\ current' = None
  /\ caller' = RC!NoCallers
  /\ closed' = FALSE
  /\ sweep' = "boot"
  /\ UNCHANGED <<database, history>>

-----------------------------------------------------------------------------
(* resumeSuspendedSessions and prepareResume.                              *)

SweepStep(from, to) ==
  /\ sweep = from
  /\ sweep' = to
  /\ UNCHANGED restarts

(* A Session this process is executing already is not the sweep's.         *)
SweepLooks ==
  /\ SweepStep("boot", IF current = None THEN "listing" ELSE "over")
  /\ UNCHANGED <<coordinator, database, history>>

(* Mutation: a Session that was resumed before is left alone.              *)
SweepListsOnce ==
  /\ SweepStep("listing", IF claimed /\ attempts = 0 THEN "counting" ELSE "over")
  /\ UNCHANGED <<coordinator, database, history>>

SweepLists ==
  /\ SweepStep("listing", IF claimed THEN "counting" ELSE "over")
  /\ UNCHANGED <<coordinator, database, history>>

(* countResume; its result decides.                                        *)
SweepCounts ==
  /\ attempts' = attempts + 1
  /\ SweepStep("counting", IF attempts + 1 > MaxAttempts THEN "exhausted" ELSE "noticing")
  /\ UNCHANGED <<coordinator, claimed, history>>

(* The execution under way, if any, has been recorded as started.          *)
Recorded ==
  /\ current # None
  /\ executions[current].phase \in {"entering", "drain", "unwinding", "decide"}

SweepTerminalizes ==
  /\ SweepStep("exhausted", "over")
  /\ Release
  /\ turn' = IF Recorded THEN "overruled" ELSE "finished"
  /\ UNCHANGED coordinator

(* Mutation: the claim is cleared when the Session is about to be resumed. *)
SweepNoticesAndClears ==
  /\ SweepStep("noticing", "resuming")
  /\ claimed' = FALSE
  /\ UNCHANGED <<coordinator, attempts, history>>

(* The continuation instruction.                                           *)
SweepNotices ==
  /\ SweepStep("noticing", "resuming")
  /\ UNCHANGED <<coordinator, database, history>>

(* The forked fiber is any that is not waiting.                            *)
SweepResumes ==
  /\ SweepStep("resuming", "over")
  /\ \E c \in Caller : Away(c) /\ RC!Run(c)
  /\ resumes' = resumes + 1
  /\ UNCHANGED <<database, turn>>

Sweep ==
  \/ SweepLooks
  \/ SweepLists
  \/ SweepCounts
  \/ SweepTerminalizes
  \/ SweepNotices
  \/ SweepResumes

-----------------------------------------------------------------------------
Next ==
  \/ \E e \in Execution : Fiber(e)
  \/ \E s \in RC!Scopes : Wake(s)
  \/ \E c \in Caller : Resume(c) \/ AwaitIdle(c) \/ GoesOn(c)
  \/ Interrupt
  \/ Shutdown
  \/ Sweep
  \/ Restart

Spec == Init /\ [][Next]_vars

(* The scheduler runs every fiber, the sweep's included.                   *)
Fairness ==
  /\ \A e \in Execution : WF_vars(Fiber(e))
  /\ \A c \in Caller : WF_vars(GoesOn(c))
  /\ WF_vars(Sweep)

FairSpec == Spec /\ Fairness

-----------------------------------------------------------------------------
(* An unfinished turn keeps its claim: from its started event until a      *)
(* terminal of its own, whatever the sweep, a restart, a shutdown or a     *)
(* successor execution do meanwhile, the next boot finds it.               *)
UnfinishedTurnKeepsClaim == turn = "open" => claimed

(* A turn that is being executed is claimed: its death at any moment leaves*)
(* the signature the next sweep looks for.                                 *)
RunningTurnKeepsClaim == Recorded => claimed

(* A finished turn leaves no claim behind: an idle Session whose last busy *)
(* period ended by success, failure or the user's interrupt is not resumed *)
(* by the next boot.                                                       *)
FinishedTurnIsReleased == turn = "finished" /\ current = None => ~claimed

(* A deliberate stop releases the claim, one that comes from the user's    *)
(* declining a tool call included.                                         *)
DeliberateStopReleases == turn = "declined" /\ current = None => ~claimed

(* A turn that keeps dying is resumed at most maxAttempts times before it  *)
(* is terminalized, wherever in the resume path each death falls; once more*)
(* when a request's turn ended between the sweep's count and its resume.   *)
RecoveryIsBounded == resumes <= MaxAttempts + (IF Serving THEN 1 ELSE 0)

(* A turn orphaned by a restart is picked up again: something runs the     *)
(* Session, or the sweep terminalizes it.                                  *)
OrphanRecovered ==
  (turn = "open" /\ current = None) ~> (current # None \/ ~claimed \/ closed)
=============================================================================
