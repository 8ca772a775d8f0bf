--------------------------- MODULE RunCoordinator ---------------------------
(***************************************************************************)
(* session/run-coordinator.ts for one key.  The map's entries never touch  *)
(* each other (every operation reads and writes executions.get(key) only), *)
(* so the entry of one key is the whole behaviour.                         *)
(*                                                                         *)
(* An execution is an object with a fiber of its own; `current' is the     *)
(* entry of the map.  The two are separate here as they are in the code:   *)
(* that at most one fiber is ever alive is a theorem, not a data type.     *)
(* An element of Execution is reused once its fiber is over and its done   *)
(* has been delivered: it stands for a fresh object.                       *)
(*                                                                         *)
(* A step is what runs between two points where the fiber scheduler may    *)
(* run somebody else.                                                      *)
(***************************************************************************)
EXTENDS FiniteSets, Naturals

CONSTANTS
  Execution,   \* identities of execution objects
  Caller,      \* fibers that call run and awaitIdle
  None         \* `undefined'

Scopes == {"input", "steer"}
Exits  == {"success", "failed", "interrupted", "declined"}

ASSUME NoneAssumption == None \notin Execution \union Scopes \union Exits

VARIABLES
  executions,  \* [Execution -> record]: the objects and where each fiber is
  current,     \* executions.get(key)
  caller,      \* [Caller -> record]: where each caller is, and what it got
  closed       \* the FiberSet's scope has been closed (process shutdown)

vars == <<executions, current, caller, closed>>

-----------------------------------------------------------------------------
(* Where a fiber is.  "forked" is the leading yield, "starting" the started*)
(* hook, "entering" the point from which the next thing is a drain,        *)
(* "unwinding" the finalizers of an interrupted drain, "decide" the gap    *)
(* between a drain's last look at the work and the doorbell's, "leaving"   *)
(* the way to the first onExit, "settling" the settled hook, "settled" the *)
(* second onExit.  "stillborn" is a fork on a closed FiberSet: it never    *)
(* runs.                                                                   *)
Owned     == {"forked", "starting", "entering", "drain", "unwinding", "decide",
              "leaving", "stillborn"}
Alive     == Owned \union {"settling", "settled"}
Draining  == {"drain", "unwinding"}
Unstarted == {"forked", "starting", "entering", "stillborn"}

ExecutionRecord ==
  [phase : Alive \union {"free"}, scope : Scopes, bell : Scopes \union {None},
   force : BOOLEAN, stopping : BOOLEAN, exit : Exits \union {None}]

(* joined: awaits done of the current execution.  refused: found it        *)
(* stopping, awaits done to run again.  watching: awaitIdle.  returned:    *)
(* has got an exit.  struck: an interrupt was accepted since it joined.    *)
CallerRecord ==
  [at : {"away", "joined", "refused", "rerun", "watching", "recheck", "returned"},
   got : Exits \union {None}, struck : BOOLEAN]

TypeOK ==
  /\ executions \in [Execution -> ExecutionRecord]
  /\ current \in Execution \union {None}
  /\ caller \in [Caller -> CallerRecord]
  /\ closed \in BOOLEAN

-----------------------------------------------------------------------------
Blank(phase, scope, force) ==
  [phase |-> phase, scope |-> scope, bell |-> None, force |-> force,
   stopping |-> FALSE, exit |-> None]

Free(e) == executions[e].phase = "free"

NoExecutions == [e \in Execution |-> Blank("free", "input", FALSE)]
NoCallers    == [c \in Caller |-> [at |-> "away", got |-> None, struck |-> FALSE]]

Init ==
  /\ executions = NoExecutions
  /\ current = None
  /\ caller = NoCallers
  /\ closed = FALSE

(* What start leaves in `objects': a fresh execution e, whose fiber has    *)
(* reached its leading yield, or which a closed FiberSet refused to run.   *)
Started(objects, e, force, scope) ==
  [objects EXCEPT ![e] = Blank(IF closed THEN "stillborn" ELSE "forked", scope, force)]

Goto(c, at) == [caller EXCEPT ![c].at = at]
Joining(c)  == [caller EXCEPT ![c] = [at |-> "joined", got |-> None, struck |-> FALSE]]

-----------------------------------------------------------------------------
(* The operations.                                                         *)

RunStarts(c) ==
  /\ caller[c].at \in {"away", "rerun"}
  /\ current = None
  /\ \E e \in Execution :
       /\ Free(e)
       /\ executions' = Started(executions, e, TRUE, "input")
       /\ current' = e
  /\ caller' = Joining(c)
  /\ UNCHANGED closed

(* Mutation: joins whatever it finds, stopping or not.                     *)
RunJoinsStopping(c) ==
  /\ caller[c].at \in {"away", "rerun"}
  /\ current # None
  /\ caller' = Joining(c)
  /\ UNCHANGED <<executions, current, closed>>

RunJoins(c) ==
  /\ caller[c].at \in {"away", "rerun"}
  /\ current # None
  /\ ~executions[current].stopping
  /\ caller' = Joining(c)
  /\ UNCHANGED <<executions, current, closed>>

(* A stopping execution refuses joiners: its exit is not theirs.           *)
RunRefused(c) ==
  /\ caller[c].at \in {"away", "rerun"}
  /\ current # None
  /\ executions[current].stopping
  /\ caller' = Goto(c, "refused")
  /\ UNCHANGED <<executions, current, closed>>

Return(c) ==
  /\ caller[c].at = "returned"
  /\ caller' = [caller EXCEPT ![c] = [at |-> "away", got |-> None, struck |-> FALSE]]
  /\ UNCHANGED <<executions, current, closed>>

(* Mutation: the last wake wins.                                           *)
CoalesceLast(bell, scope) == scope

(* Coalesced wakes keep the widest scope.                                  *)
Coalesce(bell, scope) == IF bell = "input" THEN "input" ELSE scope

WakeRings(scope) ==
  /\ current # None
  /\ executions' = [executions EXCEPT ![current].bell = Coalesce(@, scope)]
  /\ UNCHANGED <<current, caller, closed>>

(* Mutation: a stopping execution is taken for gone.                       *)
WakeStartsOverStopping(scope) ==
  /\ IF current = None THEN TRUE ELSE executions[current].stopping
  /\ \E e \in Execution :
       /\ Free(e)
       /\ executions' = Started(executions, e, FALSE, scope)
       /\ current' = e
  /\ UNCHANGED <<caller, closed>>

WakeStarts(scope) ==
  /\ current = None
  /\ \E e \in Execution :
       /\ Free(e)
       /\ executions' = Started(executions, e, FALSE, scope)
       /\ current' = e
  /\ UNCHANGED <<caller, closed>>

(* interrupt, accepted: marks the execution and claims its doorbell.  The  *)
(* reason is assigned with `stopping', which therefore stands for both.    *)
InterruptAccepted ==
  /\ current # None
  /\ ~executions[current].stopping
  /\ executions[current].phase \in Owned
  /\ executions' = [executions EXCEPT ![current].stopping = TRUE, ![current].bell = None]
  /\ caller' = [c \in Caller |-> IF caller[c].at = "joined"
                                 THEN [caller[c] EXCEPT !.struck = TRUE] ELSE caller[c]]
  /\ UNCHANGED <<current, closed>>

(* interrupt in the settlement window: the outcome is decided, the doorbell*)
(* is claimed all the same, and the caller is told nothing was interrupted.*)
InterruptTooLate ==
  /\ current # None
  /\ ~executions[current].stopping
  /\ executions[current].phase \notin Owned
  /\ executions' = [executions EXCEPT ![current].bell = None]
  /\ UNCHANGED <<current, caller, closed>>

AwaitIdle(c) ==
  /\ caller[c].at \in {"away", "recheck"}
  /\ caller' = Goto(c, IF current = None THEN "away" ELSE "watching")
  /\ UNCHANGED <<executions, current, closed>>

(* The coordinator's scope closes (external: FiberSet interrupts its       *)
(* fibers, without a reason, and runs no fiber handed to it later).        *)
CloseScope ==
  /\ ~closed
  /\ closed' = TRUE
  /\ UNCHANGED <<executions, current, caller>>

-----------------------------------------------------------------------------
(* The fiber of execution e.                                               *)

Step(e, from, to) ==
  /\ executions[e].phase = from
  /\ executions' = [executions EXCEPT ![e].phase = to]
  /\ UNCHANGED <<current, caller, closed>>

Exit(e, to, exit) ==
  /\ executions' = [executions EXCEPT ![e] = [@ EXCEPT !.phase = to, !.exit = exit]]
  /\ UNCHANGED <<current, caller, closed>>

StartHook(e) == Step(e, "forked", "starting")

(* The hook publishes; a defect of the publication fails the execution.    *)
StartHookReturns(e) == Step(e, "starting", "entering")
StartHookDies(e)    == executions[e].phase = "starting" /\ Exit(e, "leaving", "failed")

BeginDrain(e) == Step(e, "entering", "drain")

DrainReturns(e) == Step(e, "drain", "decide")
DrainFails(e)   == executions[e].phase = "drain" /\ Exit(e, "leaving", "failed")

(* The drain interrupts itself, as the runner does when the user declines a*)
(* tool call: an interruption that nobody asked the coordinator for.       *)
DrainDeclines(e) == executions[e].phase = "drain" /\ Exit(e, "leaving", "declined")

(* The end of one turn of `loop': drain again, or end.                     *)
LoopEnds(e) ==
  /\ executions[e].phase = "decide"
  /\ executions[e].stopping \/ executions[e].bell = None
  /\ Exit(e, "leaving", "success")

(* Mutation: the bell is cleared before its scope is taken.                *)
LoopAgainClearsFirst(e) ==
  /\ executions[e].phase = "decide"
  /\ ~executions[e].stopping
  /\ executions[e].bell # None
  /\ executions' = [executions EXCEPT ![e].phase = "entering", ![e].scope = None,
                                      ![e].bell = None, ![e].force = FALSE]
  /\ UNCHANGED <<current, caller, closed>>

(* Mutation: a stopping execution goes on draining while it is rung.       *)
LoopAgainStopping(e) ==
  /\ executions[e].phase = "decide"
  /\ executions[e].bell # None
  /\ executions' = [executions EXCEPT ![e].phase = "entering", ![e].scope = executions[e].bell,
                                      ![e].bell = None, ![e].force = FALSE]
  /\ UNCHANGED <<current, caller, closed>>

LoopAgain(e) ==
  /\ executions[e].phase = "decide"
  /\ ~executions[e].stopping
  /\ executions[e].bell # None
  /\ executions' = [executions EXCEPT ![e].phase = "entering", ![e].scope = executions[e].bell,
                                      ![e].bell = None, ![e].force = FALSE]
  /\ UNCHANGED <<current, caller, closed>>

(* Fiber.interrupt arrives.  It waits out the started hook and the two     *)
(* onExit regions, and lets an interrupted drain run its finalizers.       *)
Interruptible == {"forked", "entering", "drain", "decide", "leaving"}

InterruptLands(e) ==
  /\ executions[e].stopping \/ closed
  /\ executions[e].phase \in Interruptible
  /\ executions[e].exit # "interrupted"
  /\ Exit(e, IF executions[e].phase = "drain" THEN "unwinding" ELSE "leaving", "interrupted")

Unwound(e) == Step(e, "unwinding", "leaving")

(* The first onExit: owner becomes undefined and the settled hook runs.    *)
Leave(e) == Step(e, "leaving", "settling")

SettledHookReturns(e) == Step(e, "settling", "settled")
SettledHookDies(e)    == executions[e].phase = "settling" /\ Exit(e, "settled", "failed")

(* Mutation: done resolves joiners only.                                   *)
ResolvedJoiners(record, exit) ==
  IF record.at = "joined" THEN [record EXCEPT !.at = "returned", !.got = exit] ELSE record

(* Deferred.done: joiners get the exit, the others look at the map again.  *)
Resolved(record, exit) ==
  CASE record.at = "joined"   -> [record EXCEPT !.at = "returned", !.got = exit]
    [] record.at = "refused"  -> [record EXCEPT !.at = "rerun"]
    [] record.at = "watching" -> [record EXCEPT !.at = "recheck"]
    [] OTHER                  -> record

(* Mutation: the map's entry is deleted, rung or not.                      *)
SettleDeletes(e) ==
  /\ executions[e].phase = "settled"
  /\ executions' = [executions EXCEPT ![e] = Blank("free", "input", FALSE)]
  /\ current' = None
  /\ caller' = [c \in Caller |-> Resolved(caller[c], executions[e].exit)]
  /\ UNCHANGED closed

(* settle: a doorbell still rung starts the successor, then done resolves. *)
Settle(e) ==
  /\ executions[e].phase = "settled"
  /\ LET bell  == executions[e].bell
         freed == [executions EXCEPT ![e] = Blank("free", "input", FALSE)]
     IN IF bell = None
        THEN executions' = freed /\ current' = None
        ELSE \E f \in Execution \ {e} :
               /\ Free(f)
               /\ executions' = Started(freed, f, FALSE, bell)
               /\ current' = f
  /\ caller' = [c \in Caller |-> Resolved(caller[c], executions[e].exit)]
  /\ UNCHANGED closed

-----------------------------------------------------------------------------
Fiber(e) ==
  \/ StartHook(e)
  \/ StartHookReturns(e)
  \/ StartHookDies(e)
  \/ BeginDrain(e)
  \/ DrainReturns(e)
  \/ DrainFails(e)
  \/ DrainDeclines(e)
  \/ LoopEnds(e)
  \/ LoopAgain(e)
  \/ InterruptLands(e)
  \/ Unwound(e)
  \/ Leave(e)
  \/ SettledHookReturns(e)
  \/ SettledHookDies(e)
  \/ Settle(e)

Run(c) == RunStarts(c) \/ RunJoins(c) \/ RunRefused(c)

Next ==
  \/ \E e \in Execution : Fiber(e)
  \/ \E c \in Caller : Run(c) \/ Return(c) \/ AwaitIdle(c)
  \/ \E s \in Scopes : WakeRings(s) \/ WakeStarts(s)
  \/ InterruptAccepted
  \/ InterruptTooLate
  \/ CloseScope

Spec == Init /\ [][Next]_vars

(* Fibers are scheduled fairly, a drain and a hook come to an end (the     *)
(* runner's and the bus's own promise), a delivered interrupt lands, and a *)
(* caller whose done resolved runs on.  Nobody has to ring or to interrupt.*)
Fairness ==
  /\ \A e \in Execution : WF_vars(Fiber(e))
  /\ \A c \in Caller : WF_vars(caller[c].at = "rerun" /\ Run(c))
  /\ \A c \in Caller : WF_vars(caller[c].at = "recheck" /\ AwaitIdle(c))

FairSpec == Spec /\ Fairness

-----------------------------------------------------------------------------
(* One busy period at a time: the map's entry is the one execution whose   *)
(* fiber is alive, so no two drains of a session ever overlap, however     *)
(* wakes, joins and interrupts fall during cleanup and settlement.         *)
Serialized ==
  \A e \in Execution : executions[e].phase # "free" <=> e = current

(* A caller of run is handed an interrupted exit only when an interrupt was*)
(* accepted after it joined: one that finds the execution already stopping *)
(* waits the cleanup out and runs afresh.  Shutdown interrupts everybody,  *)
(* and a drain that interrupts itself exits "declined".                    *)
NoBorrowedInterrupt ==
  \A c \in Caller :
    caller[c].at = "returned" /\ caller[c].got = "interrupted"
      => caller[c].struck \/ closed

(* Whoever awaits a done awaits the done of an execution still in the map: *)
(* no run and no awaitIdle is left waiting on an execution that has settled*)
(* without it.                                                             *)
NobodyForgotten ==
  \A c \in Caller :
    caller[c].at \in {"joined", "refused", "watching"} => current # None

-----------------------------------------------------------------------------
(* The rings a state still owes an answer: those the execution was started *)
(* or continued for, until its drain begins or an interrupt claims them,   *)
(* and the one on its doorbell.                                            *)
Covered(s) == {t \in Scopes : s = t \/ s = "input"}

OnTheBell == IF current = None THEN {} ELSE Covered(executions[current].bell)

AboutToDrain ==
  IF current = None THEN {}
  ELSE LET x == executions[current]
       IN IF x.phase \in Unstarted /\ ~x.stopping THEN Covered(x.scope) ELSE {}

Owed == OnTheBell \union AboutToDrain

Mode ==
  CASE current = None -> "idle"
    [] current # None /\ executions[current].phase \in {"leaving", "settling", "settled"} -> "closing"
    [] OTHER -> "busy"

DrainUnderWay == current # None /\ executions[current].phase \in Draining

D == INSTANCE Doorbell WITH mode <- Mode, draining <- DrainUnderWay, owed <- Owed

(* The coordinator implements Doorbell: a ring leaves the debt only when a *)
(* drain that covers it begins, when an interrupt claims it, or when the   *)
(* execution dies before the drain it was started for; and a key with a    *)
(* debt is never left idle.                                                *)
ImplementsDoorbell == D!Spec

(* A ring is heard: the doorbell leads to an execution about to drain for  *)
(* it, unless an interrupt claims it; and an execution about to drain does,*)
(* unless it is interrupted or its started hook dies.  So a wake that falls*)
(* between a drain's last look and the idle transition, or into the cleanup*)
(* of an interrupted execution, is not forgotten.                          *)
WakeAnswered ==
  /\ \A s \in Scopes :
       s \in OnTheBell
         ~> (s \in AboutToDrain \/ (current # None /\ s \notin OnTheBell) \/ closed)
  /\ AboutToDrain # {} ~> (DrainUnderWay \/ Mode = "closing" \/ closed)

(* An accepted interrupt ends the execution, whatever it was doing.        *)
InterruptSettles ==
  \A e \in Execution : executions[e].stopping ~> (~executions[e].stopping \/ closed)

(* A joiner gets its exit once nobody rings any more, and a caller refused *)
(* by a stopping execution gets to join once nobody interrupts any more.   *)
JoinersReturn ==
  /\ <>[](current = None \/ executions[current].bell = None)
       => \A c \in Caller : caller[c].at = "joined" ~> (caller[c].at # "joined" \/ closed)
  /\ <>[](\A e \in Execution : ~executions[e].stopping)
       => \A c \in Caller : caller[c].at = "refused" ~> (caller[c].at = "joined" \/ closed)
=============================================================================
