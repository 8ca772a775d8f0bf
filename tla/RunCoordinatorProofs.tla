------------------------ MODULE RunCoordinatorProofs ------------------------
(***************************************************************************)
(* Proofs about RunCoordinator, for any set of execution objects and any   *)
(* set of callers.                                                         *)
(***************************************************************************)
EXTENDS RunCoordinator, TLAPS

(* A joiner of an execution that is being stopped was there when it was    *)
(* struck; an interrupted exit has an interrupt or a shutdown behind it.   *)
JoinedBeforeStruck ==
  \A c \in Caller :
    caller[c].at = "joined" /\ current # None /\ executions[current].stopping
      => caller[c].struck

InterruptedHasCause ==
  \A e \in Execution :
    executions[e].exit = "interrupted" => executions[e].stopping \/ closed

(* Serialized and NobodyForgotten say where the settling execution is: it  *)
(* is `current', so the joiners it resolves are the ones the two parts     *)
(* above speak about.  The conjunction is inductive.                       *)
IndInv ==
  /\ TypeOK
  /\ Serialized
  /\ NobodyForgotten
  /\ JoinedBeforeStruck
  /\ InterruptedHasCause
  /\ NoBorrowedInterrupt

-----------------------------------------------------------------------------
LEMMA InitIndInv == Init => IndInv
<1> SUFFICES ASSUME Init PROVE IndInv
  OBVIOUS
<1> USE DEF Init, NoExecutions, NoCallers
<1>1. TypeOK
  <2>1. Blank("free", "input", FALSE) \in ExecutionRecord
    BY DEF Blank, ExecutionRecord, Scopes
  <2>2. [at |-> "away", got |-> None, struck |-> FALSE] \in CallerRecord
    BY DEF CallerRecord
  <2> QED
    BY <2>1, <2>2 DEF TypeOK
<1>2. Serialized
  BY NoneAssumption DEF Serialized, Blank
<1>3. NobodyForgotten /\ JoinedBeforeStruck /\ NoBorrowedInterrupt
  BY DEF NobodyForgotten, JoinedBeforeStruck, NoBorrowedInterrupt
<1>4. InterruptedHasCause
  BY NoneAssumption DEF InterruptedHasCause, Blank, Exits
<1> QED
  BY <1>1, <1>2, <1>3, <1>4 DEF IndInv

(* Only callers move: what the invariant says of executions stays.         *)
LEMMA CallerSteps ==
  ASSUME IndInv, NEW c \in Caller,
         RunJoins(c) \/ RunRefused(c) \/ Return(c) \/ AwaitIdle(c)
  PROVE  IndInv'
<1> USE DEF IndInv
<1>1. UNCHANGED <<executions, current, closed>>
  BY DEF RunJoins, RunRefused, Return, AwaitIdle
<1>2. /\ caller' = [caller EXCEPT ![c] = caller'[c]]
      /\ caller'[c] \in CallerRecord
      /\ caller'[c].at \in {"refused", "watching"} => current # None
      /\ caller'[c].at = "joined" => current # None /\ ~executions[current].stopping
      /\ caller'[c].at # "returned"
  <2> USE DEF TypeOK, CallerRecord
  <2>1. CASE RunJoins(c)
    BY <2>1 DEF RunJoins, Joining
  <2>2. CASE RunRefused(c)
    BY <2>2 DEF RunRefused, Goto
  <2>3. CASE Return(c)
    BY <2>3 DEF Return
  <2>4. CASE AwaitIdle(c)
    BY <2>4 DEF AwaitIdle, Goto
  <2> QED
    BY <2>1, <2>2, <2>3, <2>4
<1>3. TypeOK'
  BY <1>1, <1>2 DEF TypeOK
<1>4. Serialized' /\ InterruptedHasCause'
  BY <1>1 DEF Serialized, InterruptedHasCause
<1>5. NobodyForgotten' /\ JoinedBeforeStruck' /\ NoBorrowedInterrupt'
  BY <1>1, <1>2 DEF NobodyForgotten, JoinedBeforeStruck, NoBorrowedInterrupt, TypeOK
<1> QED
  BY <1>3, <1>4, <1>5

(* A start: the fresh execution becomes the one alive, its joiner unstruck.*)
LEMMA StartSteps ==
  ASSUME IndInv,
         \/ \E c \in Caller : RunStarts(c)
         \/ \E s \in Scopes : WakeStarts(s)
  PROVE  IndInv'
<1> USE DEF IndInv
<1>1. PICK e \in Execution, force \in BOOLEAN, s \in Scopes :
        /\ Free(e)
        /\ executions' = Started(executions, e, force, s)
        /\ current' = e
        /\ closed' = closed
  BY DEF RunStarts, WakeStarts, Scopes
<1>2. /\ current = None
      /\ \/ UNCHANGED caller
         \/ \E c \in Caller : caller' = Joining(c)
  BY DEF RunStarts, WakeStarts
<1>3. /\ executions' = [executions EXCEPT ![e] = executions'[e]]
      /\ executions'[e] \in ExecutionRecord
      /\ executions'[e].phase # "free"
      /\ ~executions'[e].stopping
      /\ executions'[e].exit # "interrupted"
  BY <1>1, NoneAssumption
  DEF Started, Blank, ExecutionRecord, Owned, Alive, Scopes, Exits, TypeOK
<1>4. TypeOK'
  <2>1. caller' \in [Caller -> CallerRecord]
    <3>1. [at |-> "joined", got |-> None, struck |-> FALSE] \in CallerRecord
      BY DEF CallerRecord
    <3> QED
      BY <1>2, <3>1 DEF TypeOK, Joining
  <2> QED
    BY <2>1, <1>1, <1>3 DEF TypeOK
<1>5. Serialized'
  BY <1>1, <1>2, <1>3, NoneAssumption DEF Serialized, Free, TypeOK
<1>6. InterruptedHasCause'
  BY <1>1, <1>3 DEF InterruptedHasCause, TypeOK
<1>7. NobodyForgotten' /\ JoinedBeforeStruck'
  BY <1>1, <1>3, NoneAssumption DEF NobodyForgotten, JoinedBeforeStruck, TypeOK
<1>8. NoBorrowedInterrupt'
  BY <1>1, <1>2 DEF NoBorrowedInterrupt, Joining, TypeOK
<1> QED
  BY <1>4, <1>5, <1>6, <1>7, <1>8

(* The doorbell, the interrupt and the scope: nobody starts or ends.       *)
LEMMA BellSteps ==
  ASSUME IndInv,
         \/ \E s \in Scopes : WakeRings(s)
         \/ InterruptAccepted
         \/ InterruptTooLate
         \/ CloseScope
  PROVE  IndInv'
<1> USE DEF IndInv
<1>1. CASE CloseScope
  BY <1>1 DEF CloseScope, TypeOK, Serialized, NobodyForgotten, JoinedBeforeStruck,
              InterruptedHasCause, NoBorrowedInterrupt
<1>2. CASE InterruptAccepted
  <2> USE <1>2 DEF InterruptAccepted, TypeOK
  <2>1. executions' \in [Execution -> ExecutionRecord]
    BY DEF ExecutionRecord
  <2>2. caller' \in [Caller -> CallerRecord]
    BY DEF CallerRecord
  <2>3. \A f \in Execution : /\ executions'[f].phase = executions[f].phase
                             /\ executions'[f].exit = executions[f].exit
                             /\ executions[f].stopping => executions'[f].stopping
    BY DEF ExecutionRecord
  <2>4. \A d \in Caller : /\ caller'[d].at = caller[d].at
                          /\ caller'[d].got = caller[d].got
                          /\ caller'[d].struck = (caller[d].struck \/ caller[d].at = "joined")
    BY DEF CallerRecord
  <2>5. Serialized' /\ InterruptedHasCause'
    BY <2>3 DEF Serialized, InterruptedHasCause
  <2>6. NobodyForgotten' /\ JoinedBeforeStruck' /\ NoBorrowedInterrupt'
    BY <2>4 DEF NobodyForgotten, JoinedBeforeStruck, NoBorrowedInterrupt
  <2> QED
    BY <2>1, <2>2, <2>5, <2>6
<1>3. CASE InterruptTooLate \/ \E s \in Scopes : WakeRings(s)
  <2>1. PICK bell \in Scopes \union {None} :
          /\ current # None
          /\ executions' = [executions EXCEPT ![current].bell = bell]
          /\ UNCHANGED <<current, caller, closed>>
    BY <1>3 DEF InterruptTooLate, WakeRings, Coalesce, Scopes
  <2>2. executions' \in [Execution -> ExecutionRecord]
    BY <2>1 DEF TypeOK, ExecutionRecord
  <2>3. \A f \in Execution : /\ executions'[f].phase = executions[f].phase
                             /\ executions'[f].exit = executions[f].exit
                             /\ executions'[f].stopping = executions[f].stopping
    BY <2>1 DEF TypeOK, ExecutionRecord
  <2> QED
    BY <2>1, <2>2, <2>3 DEF TypeOK, Serialized, NobodyForgotten, JoinedBeforeStruck,
                            InterruptedHasCause, NoBorrowedInterrupt
<1> QED
  BY <1>1, <1>2, <1>3

(* A fiber that goes on without settling stays the one alive.              *)
LEMMA FiberSteps ==
  ASSUME IndInv, NEW e \in Execution, Fiber(e), ~Settle(e)
  PROVE  IndInv'
<1> USE DEF IndInv
<1>1. /\ executions' = [executions EXCEPT ![e] = executions'[e]]
      /\ executions'[e] \in ExecutionRecord
      /\ executions[e].phase # "free" /\ executions'[e].phase # "free"
      /\ executions'[e].stopping = executions[e].stopping
      /\ executions'[e].exit = "interrupted" => executions[e].stopping \/ closed
      /\ UNCHANGED <<current, caller, closed>>
  <2> USE DEF TypeOK, ExecutionRecord, Alive, Owned, Scopes, Exits
  <2>1. CASE \E to \in Alive : \E from \in Alive : Step(e, from, to)
    BY <2>1 DEF Step, InterruptedHasCause
  <2>2. CASE \E to \in Alive, exit \in {"failed", "declined"} :
               executions[e].phase \in Alive /\ Exit(e, to, exit)
    <3>1. PICK to \in Alive, exit \in {"failed", "declined"} :
            /\ executions' = [executions EXCEPT ![e] = [@ EXCEPT !.phase = to, !.exit = exit]]
            /\ executions[e].phase \in Alive
            /\ UNCHANGED <<current, caller, closed>>
      BY <2>2 DEF Exit
    <3>2. executions'[e] = [executions[e] EXCEPT !.phase = to, !.exit = exit]
      BY <3>1
    <3> QED
      BY <3>1, <3>2
  <2>3. CASE LoopEnds(e)
    BY <2>3 DEF LoopEnds, Exit, InterruptedHasCause
  <2>4. CASE LoopAgain(e)
    BY <2>4 DEF LoopAgain, InterruptedHasCause
  <2>5. CASE InterruptLands(e)
    BY <2>5 DEF InterruptLands, Interruptible, Exit
  <2> QED
    BY <2>1, <2>2, <2>3, <2>4, <2>5
    DEF Fiber, StartHook, StartHookReturns, StartHookDies, BeginDrain, DrainReturns,
        DrainFails, DrainDeclines, Unwound, Leave, SettledHookReturns, SettledHookDies
<1>2. TypeOK'
  BY <1>1 DEF TypeOK
<1>3. Serialized' /\ InterruptedHasCause'
  BY <1>1 DEF TypeOK, Serialized, InterruptedHasCause
<1>4. NobodyForgotten' /\ JoinedBeforeStruck' /\ NoBorrowedInterrupt'
  BY <1>1 DEF TypeOK, NobodyForgotten, JoinedBeforeStruck, NoBorrowedInterrupt
<1> QED
  BY <1>2, <1>3, <1>4

(* settle: the execution that ends is the one in the map, so the joiners it*)
(* resolves were struck if its exit is an interruption, and nobody is left *)
(* waiting.                                                                *)
LEMMA SettleStep ==
  ASSUME IndInv, NEW e \in Execution, Settle(e)
  PROVE  IndInv'
<1> USE DEF IndInv
<1>1. e = current /\ executions[e].phase = "settled"
  BY DEF Serialized, Settle
<1>2. \A c \in Caller :
        /\ caller'[c] \in CallerRecord
        /\ caller'[c].at \notin {"joined", "refused", "watching"}
        /\ caller'[c].struck = caller[c].struck
        /\ caller'[c].at = "returned"
             => \/ caller[c].at = "returned" /\ caller'[c].got = caller[c].got
                \/ caller[c].at = "joined" /\ caller'[c].got = executions[e].exit
  BY DEF Settle, Resolved, TypeOK, CallerRecord, ExecutionRecord
<1>3. caller' \in [Caller -> CallerRecord]
  BY <1>2 DEF Settle
<1>4. PICK f \in (Execution \union {None}) \ {e} :
        /\ current' = f
        /\ f # None => Free(f)
        /\ executions' \in [Execution -> ExecutionRecord]
        /\ executions'[e].phase = "free"
        /\ f # None => executions'[f].phase # "free"
        /\ \A g \in Execution \ {e, f} : executions'[g] = executions[g]
        /\ \A g \in {e, f} \ {None} : executions'[g].exit # "interrupted"
  <2> DEFINE blank == Blank("free", "input", FALSE)
             freed == [executions EXCEPT ![e] = blank]
  <2>1. blank \in ExecutionRecord /\ blank.phase = "free" /\ blank.exit # "interrupted"
    BY NoneAssumption DEF Blank, ExecutionRecord, Scopes, Exits
  <2>2. /\ freed \in [Execution -> ExecutionRecord]
        /\ freed[e] = blank
        /\ \A g \in Execution \ {e} : freed[g] = executions[g]
    BY <2>1 DEF TypeOK
  <2>3. CASE executions[e].bell = None
    <3>1. executions' = freed /\ current' = None
      BY <2>3 DEF Settle
    <3> HIDE DEF blank, freed
    <3> None \in (Execution \union {None}) \ {e}
      BY NoneAssumption
    <3> WITNESS None \in (Execution \union {None}) \ {e}
    <3> QED
      BY <2>1, <2>2, <3>1, NoneAssumption
  <2>4. CASE executions[e].bell # None
    <3>1. PICK f \in Execution \ {e} :
            /\ Free(f)
            /\ executions' = Started(freed, f, FALSE, executions[e].bell)
            /\ current' = f
      BY <2>4 DEF Settle
    <3>2. executions[e].bell \in Scopes
      BY <2>4 DEF TypeOK, ExecutionRecord
    <3> DEFINE fresh == Blank(IF closed THEN "stillborn" ELSE "forked", executions[e].bell, FALSE)
    <3>3. fresh \in ExecutionRecord /\ fresh.phase # "free" /\ fresh.exit # "interrupted"
      BY <3>2, NoneAssumption DEF Blank, ExecutionRecord, Alive, Owned, Exits
    <3>4. executions' = [freed EXCEPT ![f] = fresh]
      BY <3>1 DEF Started
    <3> HIDE DEF blank, freed, fresh
    <3> WITNESS f \in (Execution \union {None}) \ {e}
    <3> QED
      BY <2>1, <2>2, <3>1, <3>3, <3>4, NoneAssumption
  <2> QED
    BY <2>3, <2>4
<1>5. TypeOK'
  BY <1>3, <1>4 DEF TypeOK, Settle
<1>6. Serialized'
  BY <1>1, <1>4, NoneAssumption DEF Serialized, Free
<1>7. InterruptedHasCause'
  BY <1>4, NoneAssumption DEF InterruptedHasCause, Settle
<1>8. NobodyForgotten' /\ JoinedBeforeStruck'
  BY <1>2 DEF NobodyForgotten, JoinedBeforeStruck
<1>9. NoBorrowedInterrupt'
  BY <1>1, <1>2, NoneAssumption
  DEF NoBorrowedInterrupt, JoinedBeforeStruck, InterruptedHasCause, Settle, TypeOK
<1> QED
  BY <1>5, <1>6, <1>7, <1>8, <1>9

LEMMA StepIndInv == IndInv /\ [Next]_vars => IndInv'
<1> SUFFICES ASSUME IndInv, [Next]_vars PROVE IndInv'
  OBVIOUS
<1>1. CASE \E e \in Execution : Fiber(e)
  BY <1>1, FiberSteps, SettleStep
<1>2. CASE \E c \in Caller : Run(c) \/ Return(c) \/ AwaitIdle(c)
  BY <1>2, CallerSteps, StartSteps DEF Run
<1>3. CASE \E s \in Scopes : WakeRings(s) \/ WakeStarts(s)
  BY <1>3, BellSteps, StartSteps
<1>4. CASE InterruptAccepted \/ InterruptTooLate \/ CloseScope
  BY <1>4, BellSteps
<1>5. CASE UNCHANGED vars
  BY <1>5 DEF vars, IndInv, TypeOK, Serialized, NobodyForgotten, JoinedBeforeStruck,
              InterruptedHasCause, NoBorrowedInterrupt
<1> QED
  BY <1>1, <1>2, <1>3, <1>4, <1>5 DEF Next

-----------------------------------------------------------------------------
(* The invariant holds of every behaviour of the coordinator.              *)
THEOREM Invariance == Spec => []IndInv
  BY InitIndInv, StepIndInv, PTL DEF Spec

(* Every execution object, map entry and caller stays well formed.         *)
THEOREM TypeCorrect == Spec => []TypeOK
  BY Invariance, PTL DEF IndInv

(* At most one fiber of the key is alive, and it is the map's entry: drains*)
(* of one session never overlap (run-coordinator.ts:6).                    *)
THEOREM OneExecution == Spec => []Serialized
  BY Invariance, PTL DEF IndInv

(* No caller of run is handed an interruption accepted before it joined    *)
(* (run-coordinator.ts:123-126).                                           *)
THEOREM JoinersOwnTheirExit == Spec => []NoBorrowedInterrupt
  BY Invariance, PTL DEF IndInv

(* No caller waits on an execution that has left the map without resolving.*)
THEOREM NoOrphanedWaiter == Spec => []NobodyForgotten
  BY Invariance, PTL DEF IndInv

-----------------------------------------------------------------------------
(* The refinement.  What Doorbell sees of a state, when the map has entry e*)
(* and when it has none.                                                   *)
LEMMA SeenIdle ==
  current = None => Mode = "idle" /\ DrainUnderWay = FALSE /\ Owed = {}
  BY DEF Mode, DrainUnderWay, Owed, OnTheBell, AboutToDrain

ModeOf(x)     == IF x.phase \in {"leaving", "settling", "settled"} THEN "closing" ELSE "busy"
DrainOf(x)    == IF x.phase \in Draining THEN TRUE ELSE FALSE
AboutOf(x)    == IF x.phase \in Unstarted /\ ~x.stopping THEN Covered(x.scope) ELSE {}
OwedOf(x)     == Covered(x.bell) \union AboutOf(x)

LEMMA SeenBusy ==
  ASSUME current # None
  PROVE  /\ Mode = ModeOf(executions[current])
         /\ DrainUnderWay = DrainOf(executions[current])
         /\ Owed = OwedOf(executions[current])
  BY DEF Mode, DrainUnderWay, Owed, OnTheBell, AboutToDrain, ModeOf, DrainOf, AboutOf, OwedOf

LEMMA CoveredFacts ==
  /\ Covered(None) = {}
  /\ Covered("input") = Scopes
  /\ \A s \in Scopes : Covered(s) \subseteq Scopes /\ D!Covered(s) = Covered(s)
  BY NoneAssumption DEF Covered, D!Covered, D!Scopes, Scopes

(* A start is a ring that finds the key idle.                              *)
LEMMA StartRings ==
  ASSUME IndInv, IndInv', NEW e \in Execution, NEW force \in BOOLEAN, NEW s \in Scopes,
         current = None, current' = e, executions' = Started(executions, e, force, s)
  PROVE  D!Ring(s)
<1>1. current' # None
  BY NoneAssumption
<1>2. /\ executions'[e].phase \in {"forked", "stillborn"}
      /\ executions'[e].scope = s
      /\ executions'[e].bell = None
      /\ ~executions'[e].stopping
  BY DEF Started, Blank, IndInv, TypeOK
<1>3. /\ ModeOf(executions'[e]) = "busy"
      /\ DrainOf(executions'[e]) = FALSE
      /\ OwedOf(executions'[e]) = Covered(s)
  BY <1>2, CoveredFacts DEF ModeOf, DrainOf, OwedOf, AboutOf, Unstarted, Draining
<1>4. Mode' = "busy" /\ DrainUnderWay' = FALSE /\ Owed' = Covered(s)
  <2>1. /\ Mode' = ModeOf(executions'[current'])
        /\ DrainUnderWay' = DrainOf(executions'[current'])
        /\ Owed' = OwedOf(executions'[current'])
    BY <1>1 DEF Mode, DrainUnderWay, Owed, OnTheBell, AboutToDrain, ModeOf, DrainOf, AboutOf, OwedOf
  <2> QED
    BY <2>1, <1>3
<1> QED
  BY <1>4, SeenIdle, CoveredFacts DEF D!Ring

LEMMA WakeRefines ==
  ASSUME IndInv, NEW s \in Scopes, WakeRings(s)
  PROVE  D!Ring(s)
<1> DEFINE x == executions[current]
           y == executions'[current]
<1>1. /\ current # None /\ current' = current
      /\ x \in ExecutionRecord
      /\ y = [x EXCEPT !.bell = Coalesce(x.bell, s)]
  BY DEF WakeRings, IndInv, TypeOK
<1>2. /\ ModeOf(y) = ModeOf(x)
      /\ DrainOf(y) = DrainOf(x)
      /\ AboutOf(y) = AboutOf(x)
  BY <1>1 DEF ModeOf, DrainOf, AboutOf, ExecutionRecord
<1>3. Covered(y.bell) = Covered(x.bell) \union Covered(s)
  <2>1. y.bell = Coalesce(x.bell, s) /\ x.bell \in Scopes \union {None}
    BY <1>1 DEF ExecutionRecord
  <2> QED
    BY <2>1, CoveredFacts DEF Coalesce, Covered, Scopes
<1>4. OwedOf(y) = OwedOf(x) \union Covered(s)
  BY <1>2, <1>3 DEF OwedOf
<1>5. /\ Mode' = ModeOf(y)
      /\ DrainUnderWay' = DrainOf(y)
      /\ Owed' = OwedOf(y)
  BY <1>1 DEF Mode, DrainUnderWay, Owed, OnTheBell, AboutToDrain, ModeOf, DrainOf, AboutOf, OwedOf
<1>6. Mode # "idle"
  BY <1>1, SeenBusy DEF ModeOf
<1> QED
  BY <1>1, <1>2, <1>4, <1>5, <1>6, SeenBusy, CoveredFacts DEF D!Ring

LEMMA InterruptRefines ==
  ASSUME IndInv, InterruptAccepted \/ InterruptTooLate
  PROVE  D!Claim
<1> DEFINE x == executions[current]
           y == executions'[current]
<1>1. /\ current # None /\ current' = current
      /\ x \in ExecutionRecord
      /\ y.phase = x.phase
      /\ y.bell = None
      /\ y.stopping \/ y.phase \notin Owned
  BY DEF InterruptAccepted, InterruptTooLate, IndInv, TypeOK, ExecutionRecord
<1>2. ModeOf(y) = ModeOf(x) /\ DrainOf(y) = DrainOf(x)
  BY <1>1 DEF ModeOf, DrainOf
<1>3. OwedOf(y) = {}
  BY <1>1, CoveredFacts DEF OwedOf, AboutOf, Unstarted, Owned
<1>4. /\ Mode' = ModeOf(y)
      /\ DrainUnderWay' = DrainOf(y)
      /\ Owed' = OwedOf(y)
  BY <1>1 DEF Mode, DrainUnderWay, Owed, OnTheBell, AboutToDrain, ModeOf, DrainOf, AboutOf, OwedOf
<1>5. Mode # "idle"
  BY <1>1, SeenBusy DEF ModeOf
<1> QED
  BY <1>1, <1>2, <1>3, <1>4, <1>5, SeenBusy DEF D!Claim

LEMMA ExitFacts ==
  ASSUME IndInv, NEW e \in Execution, NEW to, NEW exit, Exit(e, to, exit)
  PROVE  /\ executions'[e].phase = to
         /\ executions'[e].exit = exit
         /\ executions'[e].bell = executions[e].bell
         /\ executions'[e].scope = executions[e].scope
         /\ executions'[e].stopping = executions[e].stopping
<1>1. executions'[e] = [executions[e] EXCEPT !.phase = to, !.exit = exit]
  BY DEF Exit, IndInv, TypeOK
<1>2. executions[e] \in ExecutionRecord
  BY DEF IndInv, TypeOK
<1> QED
  BY <1>1, <1>2 DEF ExecutionRecord

(* A fiber step short of settling, by where the fiber is before and after. *)
LEMMA FiberRefines ==
  ASSUME IndInv, NEW e \in Execution, Fiber(e), ~Settle(e)
  PROVE  D!Next \/ UNCHANGED D!vars
<1> DEFINE x == executions[e]
           y == executions'[e]
<1>1. /\ e = current /\ current' = current /\ current # None
      /\ x \in ExecutionRecord
  <2>1. x.phase # "free"
    BY DEF Fiber, Settle, Step, StartHook, StartHookReturns, StartHookDies, BeginDrain,
           DrainReturns, DrainFails, DrainDeclines, LoopEnds, LoopAgain, Interruptible, InterruptLands,
           Unwound, Leave, SettledHookReturns, SettledHookDies
  <2> QED
    BY <2>1, NoneAssumption
    DEF IndInv, TypeOK, Serialized, Fiber, Settle, Step, Exit, StartHook, StartHookReturns,
        StartHookDies, BeginDrain, DrainReturns, DrainFails, DrainDeclines, LoopEnds, LoopAgain,
        InterruptLands, Unwound, Leave, SettledHookReturns, SettledHookDies
<1>2. /\ Mode' = ModeOf(y)
      /\ DrainUnderWay' = DrainOf(y)
      /\ Owed' = OwedOf(y)
  BY <1>1 DEF Mode, DrainUnderWay, Owed, OnTheBell, AboutToDrain, ModeOf, DrainOf, AboutOf, OwedOf
<1>3. /\ Mode = ModeOf(x)
      /\ DrainUnderWay = DrainOf(x)
      /\ Owed = OwedOf(x)
  BY <1>1, SeenBusy
<1>4. y.scope \in Scopes /\ x.scope \in Scopes /\ x.bell \in Scopes \union {None}
  <2>1. IndInv'
    BY FiberSteps
  <2> QED
    BY <1>1, <2>1 DEF IndInv, TypeOK, ExecutionRecord
<1> USE DEF ModeOf, DrainOf, OwedOf, AboutOf, Unstarted, Draining
<1>5. CASE BeginDrain(e)
  <2>1. x.phase = "entering" /\ y = [x EXCEPT !.phase = "drain"]
    BY <1>5 DEF BeginDrain, Step, IndInv, TypeOK
  <2>2. D!BeginDrain(x.scope)
    BY <2>1, <1>1, <1>2, <1>3, <1>4, CoveredFacts DEF D!BeginDrain, ExecutionRecord
  <2> QED
    BY <2>2, <1>4 DEF D!Next, D!Scopes, Scopes
<1>6. CASE LoopAgain(e)
  <2>1. /\ x.phase = "decide" /\ y.phase = "entering" /\ ~y.stopping
        /\ y.scope = x.bell /\ y.bell = None
    BY <1>6, <1>1 DEF LoopAgain, IndInv, TypeOK, ExecutionRecord
  <2> QED
    BY <2>1, <1>2, <1>3, CoveredFacts DEF D!vars
<1>7. CASE DrainReturns(e) \/ DrainFails(e) \/ DrainDeclines(e) \/ Unwound(e)
  <2>1. /\ x.phase \in Draining
        /\ y.phase \in {"decide", "leaving"}
        /\ y.bell = x.bell
    BY <1>7, <1>1, ExitFacts DEF DrainReturns, DrainFails, DrainDeclines, Unwound, Step, IndInv, TypeOK, ExecutionRecord
  <2>2. D!EndDrain
    BY <2>1, <1>2, <1>3 DEF D!EndDrain
  <2> QED
    BY <2>2 DEF D!Next
<1>8. CASE StartHookDies(e) \/ LoopEnds(e)
  <2>1. /\ x.phase \in {"starting", "decide"}
        /\ y.phase = "leaving"
        /\ y.bell = x.bell
    BY <1>8, <1>1, ExitFacts DEF StartHookDies, LoopEnds, IndInv, TypeOK, ExecutionRecord
  <2>2. D!Abort
    BY <2>1, <1>2, <1>3 DEF D!Abort
  <2> QED
    BY <2>2 DEF D!Next
<1>9. CASE InterruptLands(e)
  <2>1. /\ x.phase \in Interruptible
        /\ y.phase = IF x.phase = "drain" THEN "unwinding" ELSE "leaving"
        /\ y.bell = x.bell
    BY <1>9, <1>1, ExitFacts DEF InterruptLands, IndInv, TypeOK, ExecutionRecord
  <2>2. CASE x.phase \in {"drain", "leaving"}
    BY <2>1, <2>2, <1>2, <1>3 DEF D!vars
  <2>3. CASE x.phase \notin {"drain", "leaving"}
    <3>1. D!Abort
      BY <2>1, <2>3, <1>2, <1>3 DEF D!Abort, Interruptible
    <3> QED
      BY <3>1 DEF D!Next
  <2> QED
    BY <2>2, <2>3
<1>10. CASE \/ StartHook(e) \/ StartHookReturns(e)
            \/ Leave(e) \/ SettledHookReturns(e) \/ SettledHookDies(e)
  <2>1. /\ y.bell = x.bell /\ y.scope = x.scope /\ y.stopping = x.stopping
        /\ \/ x.phase \in {"forked", "starting"} /\ y.phase \in {"starting", "entering"}
           \/ /\ x.phase \in {"leaving", "settling"}
              /\ y.phase \in {"settling", "settled"}
    BY <1>10, <1>1, ExitFacts DEF StartHook, StartHookReturns, Leave, SettledHookReturns,
                       SettledHookDies, Step, IndInv, TypeOK, ExecutionRecord
  <2> QED
    BY <2>1, <1>2, <1>3 DEF D!vars
<1> QED
  BY <1>5, <1>6, <1>7, <1>8, <1>9, <1>10 DEF Fiber

(* settle is Doorbell's Settle: the bell is what is still owed.            *)
LEMMA SettleRefines ==
  ASSUME IndInv, IndInv', NEW e \in Execution, Settle(e)
  PROVE  D!Settle
<1> DEFINE x == executions[e]
<1>1. e = current /\ current # None /\ x.phase = "settled" /\ x \in ExecutionRecord
  BY NoneAssumption DEF IndInv, TypeOK, Serialized, Settle
<1>2. /\ Mode = "closing" /\ DrainUnderWay = FALSE /\ Owed = Covered(x.bell)
  BY <1>1, SeenBusy DEF ModeOf, DrainOf, OwedOf, AboutOf, Unstarted, Draining
<1>3. CASE x.bell = None
  <2>1. current' = None
    BY <1>3 DEF Settle
  <2>2. Mode' = "idle" /\ DrainUnderWay' = FALSE /\ Owed' = {}
    BY <2>1 DEF Mode, DrainUnderWay, Owed, OnTheBell, AboutToDrain
  <2> QED
    BY <1>2, <1>3, <2>2, CoveredFacts DEF D!Settle
<1>4. CASE x.bell # None
  <2>1. x.bell \in Scopes
    BY <1>1, <1>4 DEF ExecutionRecord
  <2>2. PICK f \in Execution \ {e} :
          /\ Free(f) /\ current' = f
          /\ executions' = Started([executions EXCEPT ![e] = Blank("free", "input", FALSE)],
                                   f, FALSE, x.bell)
    BY <1>4 DEF Settle
  <2> DEFINE y == executions'[f]
  <2>3. /\ y.phase \in {"forked", "stillborn"}
        /\ y.scope = x.bell
        /\ y.bell = None
        /\ ~y.stopping
    BY <2>2 DEF Started, Blank, IndInv, TypeOK
  <2>4. current' # None
    BY <2>2, NoneAssumption
  <2>5. /\ Mode' = ModeOf(executions'[current'])
        /\ DrainUnderWay' = DrainOf(executions'[current'])
        /\ Owed' = OwedOf(executions'[current'])
    BY <2>4 DEF Mode, DrainUnderWay, Owed, OnTheBell, AboutToDrain, ModeOf, DrainOf, AboutOf, OwedOf
  <2>6. Mode' = "busy" /\ DrainUnderWay' = FALSE /\ Owed' = Covered(x.bell)
    BY <2>2, <2>3, <2>5, CoveredFacts DEF ModeOf, DrainOf, OwedOf, AboutOf, Unstarted, Draining
  <2>7. Covered(x.bell) # {}
    BY <2>1 DEF Covered
  <2> QED
    BY <1>2, <2>6, <2>7 DEF D!Settle
<1> QED
  BY <1>3, <1>4

LEMMA StepRefines == IndInv /\ IndInv' /\ [Next]_vars => [D!Next]_(D!vars)
<1> SUFFICES ASSUME IndInv, IndInv', [Next]_vars PROVE D!Next \/ UNCHANGED D!vars
  OBVIOUS
<1>1. CASE \E e \in Execution : Fiber(e)
  <2>1. CASE \E e \in Execution : Settle(e)
    BY <2>1, SettleRefines DEF D!Next
  <2> QED
    BY <1>1, <2>1, FiberRefines
<1>2. CASE \E c \in Caller : RunStarts(c)
  <2>1. "input" \in Scopes
    BY DEF Scopes
  <2>2. D!Ring("input")
    BY <1>2, <2>1, StartRings DEF RunStarts
  <2> QED
    BY <2>1, <2>2 DEF D!Next, D!Scopes, Scopes
<1>3. CASE \E s \in Scopes : WakeStarts(s)
  <2>1. \E s \in Scopes : D!Ring(s)
    BY <1>3, StartRings DEF WakeStarts
  <2> QED
    BY <2>1 DEF D!Next, D!Scopes, Scopes
<1>4. CASE \E s \in Scopes : WakeRings(s)
  BY <1>4, WakeRefines DEF D!Next, D!Scopes, Scopes
<1>5. CASE InterruptAccepted \/ InterruptTooLate
  BY <1>5, InterruptRefines DEF D!Next
<1>6. CASE executions' = executions /\ current' = current
  BY <1>6 DEF D!vars, Mode, DrainUnderWay, Owed, OnTheBell, AboutToDrain
<1>7. CASE \E c \in Caller : RunJoins(c) \/ RunRefused(c) \/ Return(c) \/ AwaitIdle(c)
  BY <1>6, <1>7 DEF RunJoins, RunRefused, Return, AwaitIdle
<1>8. CASE CloseScope \/ UNCHANGED vars
  BY <1>6, <1>8 DEF CloseScope, vars
<1> QED
  BY <1>1, <1>2, <1>3, <1>4, <1>5, <1>7, <1>8 DEF Next, Run

(* The coordinator implements Doorbell: no ring is lost but to an interrupt*)
(* or to the death of the execution it started, and a key that owes a drain*)
(* is never idle (run-coordinator.ts:14-15,109-110).                       *)
THEOREM Implementation == Spec => ImplementsDoorbell
<1>1. Init => D!Init
  BY SeenIdle DEF Init, D!Init
<1> QED
  BY <1>1, Invariance, StepRefines, PTL DEF Spec, ImplementsDoorbell, D!Spec
=============================================================================
