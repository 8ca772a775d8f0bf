------------------------ MODULE BackgroundJobProofs ------------------------
(***************************************************************************)
(* Proofs about BackgroundJob, for any set of jobs, any budget, and any    *)
(* number of interruptions and of processes that die.                      *)
(***************************************************************************)
EXTENDS BackgroundJob, TLAPS

(* The last run of j that settled was settled by an interruption alone.    *)
OnlyInterrupted(j) == outcome[j] = "cancelled" /\ j \in declined

(* What the table says of a job agrees with how it ended, but for a child  *)
(* that an interruption settled; and a job that runs, or whose row says so,*)
(* has been told of only if it was given up or so settled.                 *)
RowIsTrue(j) ==
  /\ row[j] = "running" => outcome[j] = None \/ OnlyInterrupted(j)
  /\ row[j] \in Finished => outcome[j] = row[j]
  /\ Running(j) => outcome[j] = None \/ OnlyInterrupted(j)
  /\ Present(j) /\ ~Running(j) => outcome[j] = job[j].status
  /\ Present(j) /\ row[j] # None =>
       /\ Background(j)
       /\ row[j] = job[j].status \/ (row[j] = "running" /\ OnlyInterrupted(j))
  /\ Running(j) \/ (row[j] = "running" /\ j \in Subagent) =>
       notice[j] = None \/ ToldGivenUp(j) \/ ToldDeclined(j)

(* What a tool call has to do with its job, wherever it is.                *)
CallInv(j) ==
  /\ tool[j] = "idle" =>
       ~Present(j) /\ row[j] = None /\ notice[j] = None /\ outcome[j] = None
  /\ tool[j] \in Calls \ Returned =>
       observer[j] = "none" /\ (tool[j] # "idle" => Present(j))
  /\ tool[j] \in {"backgrounding", "blocking", "blocked", "done", "finished"} =>
       row[j] = None /\ notice[j] = None /\ ~Background(j) /\ observer[j] = "none"
  /\ tool[j] \in {"released", "handing"} => Background(j)
  /\ tool[j] = "left" \/ Background(j) => notice[j] # None \/ row[j] # None
  /\ observer[j] = "waiting" => Background(j)
  /\ observer[j] = "acknowledging" => notice[j] # None

(* A job the sweep has listed, or is busy with, belongs to nobody else.    *)
Abandoned(j) ==
  ~Present(j) /\ observer[j] = "none" /\ tool[j] \in {"left", "stopped"} /\ row[j] # None

SweepInv(j) ==
  /\ sweep.at = "listing" =>
       ~Present(j) /\ observer[j] = "none" /\ tool[j] \in Returned \union {"idle"}
  /\ sweep.todo[j] # None =>
       Abandoned(j) /\ row[j] = sweep.todo[j] /\ sweep.item # j
  /\ sweep.item = j =>
       /\ sweep.at \in {"telling", "acknowledging"}
       /\ Abandoned(j)
       /\ sweep.state \in Finished
       /\ sweep.state = row[j]
          \/ /\ row[j] = "running"
             /\ IF j \in Subagent THEN sweep.state = "error" /\ j \in givenUp
                                  ELSE sweep.state = "cancelled"
       /\ sweep.at = "acknowledging" => notice[j] # None

SweepBusy == sweep.at \in {"telling", "acknowledging"} => sweep.item \in Job

IndInv ==
  /\ TypeOK
  /\ SweepBusy
  /\ \A j \in Job : RowIsTrue(j) /\ CallInv(j) /\ SweepInv(j)
  /\ NoticeIsTrue

USE JobAssumption DEF JobRecord, Statuses, Finished, Calls, Waiting, Returned,
  Observers, SweepRecord, Present, Running, Background, ToldGivenUp, ToldDeclined,
  OnlyInterrupted, history, settled

-----------------------------------------------------------------------------
(* The invariant is inductive.  Each lemma is about one action, and has    *)
(* one step for each part of the invariant.                                *)
LEMMA InitIndInv == Init => IndInv
  BY DEF Init, Booting, IndInv, TypeOK, SweepBusy, RowIsTrue, CallInv, SweepInv,
         Abandoned, NoticeIsTrue

(* What markBackground makes of the record of a job.                       *)
LEMMA Backgrounded ==
  ASSUME NEW r \in JobRecord
  PROVE  /\ [r EXCEPT !.background = TRUE] \in JobRecord
         /\ [r EXCEPT !.background = TRUE].status = r.status
         /\ [r EXCEPT !.background = TRUE].background
  OBVIOUS

LEMMA SettleStep ==
  ASSUME IndInv, NEW j \in Job, NEW status \in {"completed", "error"}, Settle(j, status)
  PROVE  IndInv'
<1> USE DEF IndInv, TypeOK, Settle, Persist, Wake
<1>1. TypeOK'
  OBVIOUS
<1>2. SweepBusy'
  BY DEF SweepBusy
<1>3. ASSUME NEW k \in Job PROVE RowIsTrue(k)'
  BY DEF RowIsTrue
<1>4. ASSUME NEW k \in Job PROVE CallInv(k)'
  BY DEF CallInv
<1>5. ASSUME NEW k \in Job PROVE SweepInv(k)'
  BY DEF SweepInv, Abandoned
<1>6. NoticeIsTrue'
  BY DEF NoticeIsTrue, RowIsTrue
<1> QED
  BY <1>1, <1>2, <1>3, <1>4, <1>5, <1>6

LEMMA SettleInterruptedStep ==
  ASSUME IndInv, NEW j \in Job, SettleInterrupted(j)
  PROVE  IndInv'
<1> USE DEF IndInv, TypeOK, SettleInterrupted, Wake, durable
<1>1. TypeOK'
  OBVIOUS
<1>2. SweepBusy'
  BY DEF SweepBusy
<1>3. ASSUME NEW k \in Job PROVE RowIsTrue(k)'
  BY DEF RowIsTrue
<1>4. ASSUME NEW k \in Job PROVE CallInv(k)'
  BY DEF CallInv
<1>5. ASSUME NEW k \in Job PROVE SweepInv(k)'
  BY DEF SweepInv, Abandoned
<1>6. NoticeIsTrue'
  BY DEF NoticeIsTrue, RowIsTrue
<1> QED
  BY <1>1, <1>2, <1>3, <1>4, <1>5, <1>6

LEMMA CancelStep ==
  ASSUME IndInv, NEW j \in Job, Cancel(j)
  PROVE  IndInv'
<1> USE DEF IndInv, TypeOK, Cancel, CancelRunning, Persist, Wake
<1>1. TypeOK'
  OBVIOUS
<1>2. SweepBusy'
  BY DEF SweepBusy
<1>3. ASSUME NEW k \in Job PROVE RowIsTrue(k)'
  BY DEF RowIsTrue
<1>4. ASSUME NEW k \in Job PROVE CallInv(k)'
  BY DEF CallInv
<1>5. ASSUME NEW k \in Job PROVE SweepInv(k)'
  BY DEF SweepInv, Abandoned
<1>6. NoticeIsTrue'
  BY DEF NoticeIsTrue, RowIsTrue
<1> QED
  BY <1>1, <1>2, <1>3, <1>4, <1>5, <1>6

LEMMA StartStep ==
  ASSUME IndInv, NEW j \in Job, NEW background \in BOOLEAN, Start(j, background)
  PROVE  IndInv'
<1> USE DEF IndInv, TypeOK, Start, durable
<1>0. [status |-> "running", background |-> FALSE] \in JobRecord
  OBVIOUS
<1>1. TypeOK'
  BY <1>0
<1>2. SweepBusy'
  BY DEF SweepBusy
<1>3. ASSUME NEW k \in Job PROVE RowIsTrue(k)'
  BY DEF RowIsTrue, CallInv
<1>4. ASSUME NEW k \in Job PROVE CallInv(k)'
  <2>1. CASE k = j
    BY <2>1, <1>0 DEF CallInv
  <2>2. CASE k # j
    BY <2>2 DEF CallInv
  <2> QED
    BY <2>1, <2>2
<1>5. ASSUME NEW k \in Job PROVE SweepInv(k)'
  BY DEF SweepInv, Abandoned
<1>6. NoticeIsTrue'
  BY DEF NoticeIsTrue
<1> QED
  BY <1>1, <1>2, <1>3, <1>4, <1>5, <1>6

LEMMA LeaveStep ==
  ASSUME IndInv, NEW j \in Job, LeaveInBackground(j)
  PROVE  IndInv'
<1> USE DEF IndInv, TypeOK, LeaveInBackground, MarkBackground
<1>0. job[j] \in JobRecord
  BY DEF CallInv
<1>1. TypeOK'
  BY <1>0, Backgrounded
<1>2. SweepBusy'
  BY DEF SweepBusy
<1>3. ASSUME NEW k \in Job PROVE RowIsTrue(k)'
  BY DEF RowIsTrue, CallInv
<1>4. ASSUME NEW k \in Job PROVE CallInv(k)'
  <2>1. CASE k = j
    BY <2>1, <1>0, Backgrounded DEF CallInv
  <2>2. CASE k # j
    BY <2>2 DEF CallInv
  <2> QED
    BY <2>1, <2>2
<1>5. ASSUME NEW k \in Job PROVE SweepInv(k)'
  BY DEF SweepInv, Abandoned
<1>6. NoticeIsTrue'
  BY DEF NoticeIsTrue
<1> QED
  BY <1>1, <1>2, <1>3, <1>4, <1>5, <1>6

LEMMA BlockStep ==
  ASSUME IndInv, NEW j \in Job, Block(j)
  PROVE  IndInv'
<1> USE DEF IndInv, TypeOK, Block, durable
<1>1. TypeOK'
  OBVIOUS
<1>2. SweepBusy'
  BY DEF SweepBusy
<1>3. ASSUME NEW k \in Job PROVE RowIsTrue(k)'
  BY DEF RowIsTrue
<1>4. ASSUME NEW k \in Job PROVE CallInv(k)'
  BY DEF CallInv
<1>5. ASSUME NEW k \in Job PROVE SweepInv(k)'
  BY DEF SweepInv, Abandoned
<1>6. NoticeIsTrue'
  BY DEF NoticeIsTrue
<1> QED
  BY <1>1, <1>2, <1>3, <1>4, <1>5, <1>6

LEMMA UnblockStep ==
  ASSUME IndInv, NEW j \in Job, Unblock(j)
  PROVE  IndInv'
<1> USE DEF IndInv, TypeOK, Unblock, durable
<1>1. TypeOK'
  OBVIOUS
<1>2. SweepBusy'
  BY DEF SweepBusy
<1>3. ASSUME NEW k \in Job PROVE RowIsTrue(k)'
  BY DEF RowIsTrue
<1>4. ASSUME NEW k \in Job PROVE CallInv(k)'
  BY DEF CallInv
<1>5. ASSUME NEW k \in Job PROVE SweepInv(k)'
  BY DEF SweepInv, Abandoned
<1>6. NoticeIsTrue'
  BY DEF NoticeIsTrue
<1> QED
  BY <1>1, <1>2, <1>3, <1>4, <1>5, <1>6

LEMMA HandOverStep ==
  ASSUME IndInv, NEW j \in Job, HandOver(j)
  PROVE  IndInv'
<1> USE DEF IndInv, TypeOK, HandOver, durable
<1>1. TypeOK'
  OBVIOUS
<1>2. SweepBusy'
  BY DEF SweepBusy
<1>3. ASSUME NEW k \in Job PROVE RowIsTrue(k)'
  BY DEF RowIsTrue
<1>4. ASSUME NEW k \in Job PROVE CallInv(k)'
  BY DEF CallInv
<1>5. ASSUME NEW k \in Job PROVE SweepInv(k)'
  BY DEF SweepInv, Abandoned
<1>6. NoticeIsTrue'
  BY DEF NoticeIsTrue
<1> QED
  BY <1>1, <1>2, <1>3, <1>4, <1>5, <1>6

LEMMA InterruptStep ==
  ASSUME IndInv, NEW j \in Job, Interrupt(j)
  PROVE  IndInv'
<1> USE DEF IndInv, TypeOK, Interrupt, CancelRunning, Persist
<1>1. TypeOK'
  OBVIOUS
<1>2. SweepBusy'
  BY DEF SweepBusy
<1>3. ASSUME NEW k \in Job PROVE RowIsTrue(k)'
  BY DEF RowIsTrue
<1>4. ASSUME NEW k \in Job PROVE CallInv(k)'
  BY DEF CallInv
<1>5. ASSUME NEW k \in Job PROVE SweepInv(k)'
  BY DEF SweepInv, Abandoned
<1>6. NoticeIsTrue'
  BY DEF NoticeIsTrue, RowIsTrue
<1> QED
  BY <1>1, <1>2, <1>3, <1>4, <1>5, <1>6

LEMMA BackgroundAllStep ==
  ASSUME IndInv, BackgroundAll
  PROVE  IndInv'
<1> USE DEF IndInv, TypeOK, BackgroundAll, Blocking, MarkBackground, Wake
<1>0. Blocking \subseteq {k \in Job : job[k] \in JobRecord}
  BY DEF Blocking
<1>1. TypeOK'
  <2>1. job' \in [Job -> JobRecord \union {None}]
    BY <1>0, Backgrounded
  <2> QED
    BY <1>0, <2>1
<1>2. SweepBusy'
  BY DEF SweepBusy
<1>3. ASSUME NEW k \in Job PROVE RowIsTrue(k)'
  BY DEF RowIsTrue
<1>4. ASSUME NEW k \in Job PROVE CallInv(k)'
  BY <1>0, Backgrounded DEF CallInv
<1>5. ASSUME NEW k \in Job PROVE SweepInv(k)'
  BY DEF SweepInv, Abandoned
<1>6. NoticeIsTrue'
  BY DEF NoticeIsTrue
<1> QED
  BY <1>1, <1>2, <1>3, <1>4, <1>5, <1>6

LEMMA DeliverStep ==
  ASSUME IndInv, NEW j \in Job, Deliver(j)
  PROVE  IndInv'
<1> USE DEF IndInv, TypeOK, Deliver, Admit
<1>0. job[j] \in JobRecord /\ job[j].status \in Finished
  BY DEF CallInv
<1>1. TypeOK'
  BY <1>0
<1>2. SweepBusy'
  BY DEF SweepBusy
<1>3. ASSUME NEW k \in Job PROVE RowIsTrue(k)'
  BY DEF RowIsTrue, CallInv
<1>4. ASSUME NEW k \in Job PROVE CallInv(k)'
  BY DEF CallInv
<1>5. ASSUME NEW k \in Job PROVE SweepInv(k)'
  BY DEF SweepInv, Abandoned
<1>6. NoticeIsTrue'
  BY DEF NoticeIsTrue, RowIsTrue, CallInv
<1> QED
  BY <1>1, <1>2, <1>3, <1>4, <1>5, <1>6

LEMMA AcknowledgeStep ==
  ASSUME IndInv, NEW j \in Job, Acknowledge(j)
  PROVE  IndInv'
<1> USE DEF IndInv, TypeOK, Acknowledge
<1>1. TypeOK'
  OBVIOUS
<1>2. SweepBusy'
  BY DEF SweepBusy
<1>3. ASSUME NEW k \in Job PROVE RowIsTrue(k)'
  BY DEF RowIsTrue
<1>4. ASSUME NEW k \in Job PROVE CallInv(k)'
  BY DEF CallInv
<1>5. ASSUME NEW k \in Job PROVE SweepInv(k)'
  BY DEF SweepInv, Abandoned
<1>6. NoticeIsTrue'
  BY DEF NoticeIsTrue
<1> QED
  BY <1>1, <1>2, <1>3, <1>4, <1>5, <1>6

LEMMA CrashStep ==
  ASSUME IndInv, Crash
  PROVE  IndInv'
<1> USE DEF IndInv, TypeOK, Crash, durable, Booting
<1>1. TypeOK'
  OBVIOUS
<1>2. SweepBusy'
  BY DEF SweepBusy
<1>3. ASSUME NEW k \in Job PROVE RowIsTrue(k)'
  BY DEF RowIsTrue
<1>4. ASSUME NEW k \in Job PROVE CallInv(k)'
  BY DEF CallInv
<1>5. ASSUME NEW k \in Job PROVE SweepInv(k)'
  BY DEF SweepInv
<1>6. NoticeIsTrue'
  BY DEF NoticeIsTrue
<1> QED
  BY <1>1, <1>2, <1>3, <1>4, <1>5, <1>6

LEMMA SweepListsStep ==
  ASSUME IndInv, SweepLists
  PROVE  IndInv'
<1> USE DEF IndInv, TypeOK, SweepLists, durable, Booting
<1>1. TypeOK'
  OBVIOUS
<1>2. SweepBusy'
  BY DEF SweepBusy
<1>3. ASSUME NEW k \in Job PROVE RowIsTrue(k)'
  BY DEF RowIsTrue
<1>4. ASSUME NEW k \in Job PROVE CallInv(k)'
  BY DEF CallInv
<1>5. ASSUME NEW k \in Job PROVE SweepInv(k)'
  BY DEF SweepInv, CallInv, Abandoned
<1>6. NoticeIsTrue'
  BY DEF NoticeIsTrue
<1> QED
  BY <1>1, <1>2, <1>3, <1>4, <1>5, <1>6

LEMMA SweepTellsStep ==
  ASSUME IndInv, NEW j \in Job, SweepTells(j)
  PROVE  IndInv'
<1> USE DEF IndInv, TypeOK, SweepTells, Turn, Listed, Telling, Walked, durable
<1>1. TypeOK'
  OBVIOUS
<1>2. SweepBusy'
  BY DEF SweepBusy
<1>3. ASSUME NEW k \in Job PROVE RowIsTrue(k)'
  BY DEF RowIsTrue
<1>4. ASSUME NEW k \in Job PROVE CallInv(k)'
  BY DEF CallInv
<1>5. ASSUME NEW k \in Job PROVE SweepInv(k)'
  BY DEF SweepInv, Abandoned
<1>6. NoticeIsTrue'
  BY DEF NoticeIsTrue
<1> QED
  BY <1>1, <1>2, <1>3, <1>4, <1>5, <1>6

LEMMA SweepLeavesStep ==
  ASSUME IndInv, NEW j \in Job, SweepLeavesBusyChild(j)
  PROVE  IndInv'
<1> USE DEF IndInv, TypeOK, SweepLeavesBusyChild, Orphan, Turn, Listed, Walked, durable
<1>1. TypeOK'
  OBVIOUS
<1>2. SweepBusy'
  BY DEF SweepBusy
<1>3. ASSUME NEW k \in Job PROVE RowIsTrue(k)'
  BY DEF RowIsTrue
<1>4. ASSUME NEW k \in Job PROVE CallInv(k)'
  BY DEF CallInv
<1>5. ASSUME NEW k \in Job PROVE SweepInv(k)'
  BY DEF SweepInv, Abandoned
<1>6. NoticeIsTrue'
  BY DEF NoticeIsTrue
<1> QED
  BY <1>1, <1>2, <1>3, <1>4, <1>5, <1>6

LEMMA SweepGivesUpStep ==
  ASSUME IndInv, NEW j \in Job, SweepGivesUp(j)
  PROVE  IndInv'
<1> USE DEF IndInv, TypeOK, SweepGivesUp, Orphan, Turn, Listed, Telling, Walked
<1>0. sweep' \in SweepRecord
  OBVIOUS
<1>1. TypeOK'
  BY <1>0
<1>2. SweepBusy'
  BY DEF SweepBusy
<1>3. ASSUME NEW k \in Job PROVE RowIsTrue(k)'
  BY DEF RowIsTrue
<1>4. ASSUME NEW k \in Job PROVE CallInv(k)'
  BY DEF CallInv
<1>5. ASSUME NEW k \in Job PROVE SweepInv(k)'
  BY DEF SweepInv, Abandoned
<1>6. NoticeIsTrue'
  BY DEF NoticeIsTrue
<1> QED
  BY <1>1, <1>2, <1>3, <1>4, <1>5, <1>6

LEMMA SweepRestartsStep ==
  ASSUME IndInv, NEW j \in Job, SweepRestarts(j)
  PROVE  IndInv'
<1> USE DEF IndInv, TypeOK, SweepRestarts, Orphan, Turn, Listed, Walked
<1>0. [status |-> "running", background |-> TRUE] \in JobRecord
  OBVIOUS
<1>1. TypeOK'
  BY <1>0
<1>2. SweepBusy'
  BY DEF SweepBusy
<1>3. ASSUME NEW k \in Job PROVE RowIsTrue(k)'
  BY DEF RowIsTrue, SweepInv
<1>4. ASSUME NEW k \in Job PROVE CallInv(k)'
  <2>1. CASE k = j
    <3>1. tool[j] \in {"left", "stopped"}
      BY DEF SweepInv, Abandoned
    <3>2. Background(j)' /\ row'[j] # None
      BY <1>0
    <3> QED
      BY <2>1, <3>1, <3>2 DEF CallInv
  <2>2. CASE k # j
    BY <2>2 DEF CallInv
  <2> QED
    BY <2>1, <2>2
<1>5. ASSUME NEW k \in Job PROVE SweepInv(k)'
  BY DEF SweepInv, Abandoned
<1>6. NoticeIsTrue'
  BY DEF NoticeIsTrue
<1> QED
  BY <1>1, <1>2, <1>3, <1>4, <1>5, <1>6

LEMMA SweepAdmitsStep ==
  ASSUME IndInv, SweepAdmits
  PROVE  IndInv'
<1> USE DEF IndInv, TypeOK, SweepAdmits, Admit
<1>1. TypeOK'
  OBVIOUS
<1>2. SweepBusy'
  BY DEF SweepBusy
<1>3. ASSUME NEW k \in Job PROVE RowIsTrue(k)'
  BY DEF RowIsTrue, SweepInv, Abandoned
<1>4. ASSUME NEW k \in Job PROVE CallInv(k)'
  BY DEF CallInv, SweepInv
<1>5. ASSUME NEW k \in Job PROVE SweepInv(k)'
  BY DEF SweepInv, Abandoned
<1>6. NoticeIsTrue'
  BY DEF NoticeIsTrue, RowIsTrue, SweepInv
<1> QED
  BY <1>1, <1>2, <1>3, <1>4, <1>5, <1>6

LEMMA SweepAcknowledgesStep ==
  ASSUME IndInv, SweepAcknowledges
  PROVE  IndInv'
<1> USE DEF IndInv, TypeOK, SweepAcknowledges
<1>1. TypeOK'
  OBVIOUS
<1>2. SweepBusy'
  BY DEF SweepBusy
<1>3. ASSUME NEW k \in Job PROVE RowIsTrue(k)'
  BY DEF RowIsTrue
<1>4. ASSUME NEW k \in Job PROVE CallInv(k)'
  BY DEF CallInv, SweepInv
<1>5. ASSUME NEW k \in Job PROVE SweepInv(k)'
  BY DEF SweepInv, Abandoned
<1>6. NoticeIsTrue'
  BY DEF NoticeIsTrue
<1> QED
  BY <1>1, <1>2, <1>3, <1>4, <1>5, <1>6

LEMMA StutterStep == IndInv /\ UNCHANGED vars => IndInv'
  BY DEF vars, durable, process, IndInv, TypeOK, SweepBusy, RowIsTrue, CallInv,
         SweepInv, Abandoned, NoticeIsTrue

LEMMA StepIndInv == IndInv /\ [Next]_vars => IndInv'
<1> SUFFICES ASSUME IndInv, [Next]_vars PROVE IndInv'
  OBVIOUS
<1>1. ASSUME NEW j \in Job, NEW status \in {"completed", "error"}, Settle(j, status)
      PROVE  IndInv'
  BY <1>1, SettleStep
<1>2. ASSUME NEW j \in Job, Cancel(j) \/ SettleInterrupted(j) PROVE IndInv'
  BY <1>2, CancelStep, SettleInterruptedStep
<1>3. ASSUME NEW j \in Job, Call(j) PROVE IndInv'
  BY <1>3, StartStep, LeaveStep, BlockStep, UnblockStep, HandOverStep, InterruptStep
     DEF Call
<1>4. ASSUME NEW j \in Job, Deliver(j) \/ Acknowledge(j) PROVE IndInv'
  BY <1>4, DeliverStep, AcknowledgeStep
<1>5. ASSUME NEW j \in Job, Walk(j) PROVE IndInv'
  BY <1>5, SweepTellsStep, SweepLeavesStep, SweepGivesUpStep, SweepRestartsStep DEF Walk
<1>6. ASSUME BackgroundAll \/ Crash PROVE IndInv'
  BY <1>6, BackgroundAllStep, CrashStep
<1>7. ASSUME SweepLists \/ SweepAdmits \/ SweepAcknowledges PROVE IndInv'
  BY <1>7, SweepListsStep, SweepAdmitsStep, SweepAcknowledgesStep
<1> QED
  BY <1>1, <1>2, <1>3, <1>4, <1>5, <1>6, <1>7, StutterStep DEF Next

-----------------------------------------------------------------------------
(* In every state the program reaches, the table, the job map, the tool    *)
(* calls, the observers and the boot sweep agree on every job.             *)
THEOREM Invariance == Spec => []IndInv
  BY InitIndInv, StepIndInv, PTL DEF Spec

(* Every variable stays in its type; a child is never recovered more often *)
(* than maxAttempts allows (prepareResume in restart.ts).                  *)
THEOREM TypeCorrect == Spec => []TypeOK
<1>1. IndInv => TypeOK
  BY DEF IndInv
<1> QED
  BY <1>1, Invariance, PTL

(* Whenever the process dies, work that runs in the background, or that a  *)
(* tool call said it would be notified of, has a row or has its notice     *)
(* (markBackground and completeBackground in job.ts).                      *)
THEOREM NothingUnreported == Spec => []ReportSurvives
<1>1. IndInv => ReportSurvives
  BY DEF IndInv, CallInv, ReportSurvives
<1> QED
  BY <1>1, Invariance, PTL

(* A result that a tool call returned gets no notice as well, whatever the *)
(* user moves to the background and however often the process dies.        *)
THEOREM ReportedAtMostOnce == Spec => []ReportedOnce
<1>1. IndInv => ReportedOnce
  BY DEF IndInv, CallInv, ReportedOnce
<1> QED
  BY <1>1, Invariance, PTL

(* A notice, from the observer or from a boot sweep, tells how the work    *)
(* ended.  The exceptions are what was told of a child while its row still *)
(* said that it runs: that a boot sweep gives it up (restart.ts), and that *)
(* it was cancelled when only an interruption had settled it (job.ts).     *)
THEOREM TrueNotices == Spec => []NoticeIsTrue
<1>1. IndInv => NoticeIsTrue
  BY DEF IndInv
<1> QED
  BY <1>1, Invariance, PTL
=============================================================================
