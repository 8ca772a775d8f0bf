--------------------------- MODULE BackgroundJob ---------------------------
(***************************************************************************)
(* Work a Session waits for or leaves in the background: job.ts, the shell *)
(* and subagent tools that hand a job over to an observer, the observer    *)
(* that admits its completion notice, and the boot sweep that recovers     *)
(* what a dead process left in the job table.  Every update of the job map *)
(* runs under one SynchronizedRef with its write to the table: one step.   *)
(***************************************************************************)
EXTENDS FiniteSets, Naturals

CONSTANTS
  Job,           \* job IDs, each started by one tool call
  Subagent,      \* the jobs that run a child Session; the others are shells
  None,
  MaxAttempts,   \* maxAttempts: recoveries of a child before it is given up
  ChildrenBusy,  \* BOOLEAN: may somebody else be driving a child at boot
  MaxInterrupts, \* bound: the number of tool calls interrupted
  MaxCrashes     \* bound: the number of processes that die

Finished == {"completed", "error", "cancelled"}
Statuses == {"running"} \union Finished

JobRecord == [status : Statuses, background : BOOLEAN]

ASSUME JobAssumption ==
  /\ Subagent \subseteq Job
  /\ None \notin Statuses \union Job \union JobRecord
  /\ ChildrenBusy \in BOOLEAN
  /\ {MaxAttempts, MaxInterrupts, MaxCrashes} \subseteq Nat

VARIABLES
  job,        \* [Job -> record or None]: the process-local map
  row,        \* [Job -> status or None]: the durable job table
  notice,     \* [Job -> the state its completion notice tells, or None]: durable
  attempts,   \* [Job -> Nat]: recoveries of its child, durable
  tool,       \* [Job -> where the tool call that started it is]
  observer,   \* [Job -> where the fiber is that is to deliver its notice]
  sweep,      \* where the boot sweep is
  interrupts, \* how many tool calls were interrupted so far
  crashes,    \* how many processes died so far
  outcome,    \* history: [Job -> how its last run that settled did, or None]
  declined,   \* history: the jobs with a run that an interruption alone settled
  givenUp     \* history: the jobs a boot sweep decided to give up

durable == <<row, notice, attempts>>
process == <<job, tool, observer, sweep>>
settled == <<outcome, declined>>
history == <<settled, givenUp>>
vars    == <<durable, process, interrupts, crashes, history>>

(* backgrounding, blocking: started, and about to be left in the           *)
(* background, to be waited for.  done, released: which Deferred won the   *)
(* race blocked waits in.  handing: in the background, not observed yet.   *)
(* finished, left, stopped: the call returned the result, returned that    *)
(* the job runs on, was interrupted.                                       *)
Waiting   == {"blocked", "done", "released"}
Returned  == {"finished", "left", "stopped"}
Calls     == {"idle", "backgrounding", "blocking", "handing"} \union Waiting \union Returned
Observers == {"none", "waiting", "acknowledging"}

(* listing: about to read the table.  todo: the rows it read.  telling,    *)
(* acknowledging: busy with the one job item, whose notice says state.     *)
SweepRecord ==
  [at : {"listing", "walking", "telling", "acknowledging"},
   todo : [Job -> Statuses \union {None}],
   item : Job \union {None}, state : Finished \union {None}]

TypeOK ==
  /\ job \in [Job -> JobRecord \union {None}]
  /\ row \in [Job -> Statuses \union {None}]
  /\ notice \in [Job -> Finished \union {None}]
  /\ attempts \in [Job -> 0..MaxAttempts]
  /\ tool \in [Job -> Calls]
  /\ observer \in [Job -> Observers]
  /\ sweep \in SweepRecord
  /\ interrupts \in 0..MaxInterrupts
  /\ crashes \in 0..MaxCrashes
  /\ outcome \in [Job -> Finished \union {None}]
  /\ declined \subseteq Subagent
  /\ givenUp \subseteq Subagent

Booting == [at |-> "listing", todo |-> [j \in Job |-> None], item |-> None, state |-> None]

Init ==
  /\ job = [j \in Job |-> None]
  /\ row = [j \in Job |-> None]
  /\ notice = [j \in Job |-> None]
  /\ attempts = [j \in Job |-> 0]
  /\ tool = [j \in Job |-> "idle"]
  /\ observer = [j \in Job |-> "none"]
  /\ sweep = Booting
  /\ interrupts = 0
  /\ crashes = 0
  /\ outcome = [j \in Job |-> None]
  /\ declined = {}
  /\ givenUp = {}

(***************************************************************************)
(* job.ts                                                                  *)
(***************************************************************************)
Present(j)    == job[j] # None
Running(j)    == Present(j) /\ job[j].status = "running"
Background(j) == Present(j) /\ job[j].background

\* Mutant of Persist: the row of what is left in the background is not updated.
PersistNothing(j, status) == row' = row

(* persistBackground writes the row of a job that has a notification.      *)
Persist(j, status) == row' = [row EXCEPT ![j] = IF Background(j) THEN status ELSE @]

Wake(jobs, place) ==
  tool' = [j \in Job |-> IF j \in jobs /\ tool[j] = "blocked" THEN place ELSE tool[j]]

(* The run returned: settle.  A child that ended has its budget back.      *)
Settle(j, status) ==
  /\ Running(j)
  /\ job' = [job EXCEPT ![j].status = status]
  /\ Persist(j, status)
  /\ attempts' = [attempts EXCEPT ![j] = 0]
  /\ outcome' = [outcome EXCEPT ![j] = status]
  /\ Wake({j}, "done")
  /\ UNCHANGED <<notice, observer, sweep, interrupts, crashes, declined, givenUp>>

(* The run ended by interruption alone, and nobody called cancel: a child  *)
(* whose user declines a tool call interrupts its own drain.  Only the map *)
(* hears of it: the row is as it was, and so is what the child's claim has *)
(* counted.                                                                *)
SettleInterrupted(j) ==
  /\ j \in Subagent
  /\ Running(j)
  /\ job' = [job EXCEPT ![j].status = "cancelled"]
  /\ outcome' = [outcome EXCEPT ![j] = "cancelled"]
  /\ declined' = declined \union {j}
  /\ Wake({j}, "done")
  /\ UNCHANGED <<durable, observer, sweep, interrupts, crashes, givenUp>>

(* cancel: kill_process, the child's own interruption, an interrupted wait.*)
CancelRunning(j) ==
  IF Running(j)
    THEN /\ job' = [job EXCEPT ![j].status = "cancelled"]
         /\ Persist(j, "cancelled")
         /\ outcome' = [outcome EXCEPT ![j] = "cancelled"]
    ELSE UNCHANGED <<job, row, outcome>>

Cancel(j) ==
  /\ Running(j)
  /\ CancelRunning(j)
  /\ Wake({j}, "done")
  /\ UNCHANGED <<notice, attempts, observer, sweep, interrupts, crashes, declined, givenUp>>

(* markBackground: the row is there before anybody is told.                *)
MarkBackground(jobs) ==
  /\ job' = [j \in Job |-> IF j \in jobs THEN [job[j] EXCEPT !.background = TRUE] ELSE job[j]]
  /\ row' = [j \in Job |-> IF j \in jobs THEN job[j].status ELSE row[j]]

(***************************************************************************)
(* The tool call                                                           *)
(***************************************************************************)
Start(j, background) ==
  /\ tool[j] = "idle"
  /\ sweep.at # "listing"
  /\ job' = [job EXCEPT ![j] = [status |-> "running", background |-> FALSE]]
  /\ tool' = [tool EXCEPT ![j] = IF background THEN "backgrounding" ELSE "blocking"]
  /\ UNCHANGED <<durable, observer, sweep, interrupts, crashes, history>>

(* background: work that can be recovered may have finished before.        *)
LeaveInBackground(j) ==
  /\ tool[j] = "backgrounding"
  /\ MarkBackground({j})
  /\ tool' = [tool EXCEPT ![j] = "handing"]
  /\ UNCHANGED <<notice, attempts, observer, sweep, interrupts, crashes, history>>

Block(j) ==
  /\ tool[j] = "blocking"
  /\ tool' = [tool EXCEPT ![j] = IF Running(j) THEN "blocked" ELSE "finished"]
  /\ UNCHANGED <<durable, job, observer, sweep, interrupts, crashes, history>>

\* Mutant of Blocking: what has finished but not been collected is moved too.
BlockingFinished == {j \in Job : tool[j] \in {"blocked", "done"} /\ ~Background(j)}

(* backgroundAll: the user moves what blocks the Session to the background.*)
Blocking == {j \in Job : tool[j] = "blocked" /\ Running(j) /\ ~Background(j)}

BackgroundAll ==
  /\ Blocking # {}
  /\ MarkBackground(Blocking)
  /\ Wake(Blocking, "released")
  /\ UNCHANGED <<notice, attempts, observer, sweep, interrupts, crashes, history>>

Unblock(j) ==
  /\ tool[j] \in {"done", "released"}
  /\ tool' = [tool EXCEPT ![j] = IF @ = "done" THEN "finished" ELSE "handing"]
  /\ UNCHANGED <<durable, job, observer, sweep, interrupts, crashes, history>>

HandOver(j) ==
  /\ tool[j] = "handing"
  /\ observer' = [observer EXCEPT ![j] = "waiting"]
  /\ tool' = [tool EXCEPT ![j] = "left"]
  /\ UNCHANGED <<durable, job, sweep, interrupts, crashes, history>>

(* The Session is interrupted: a wait that is interrupted cancels its job. *)
Interrupt(j) ==
  /\ interrupts < MaxInterrupts
  /\ tool[j] \notin Returned \union {"idle"}
  /\ interrupts' = interrupts + 1
  /\ tool' = [tool EXCEPT ![j] = "stopped"]
  /\ IF tool[j] \in Waiting THEN CancelRunning(j) ELSE UNCHANGED <<job, row, outcome>>
  /\ UNCHANGED <<notice, attempts, observer, sweep, crashes, declined, givenUp>>

(***************************************************************************)
(* The completion notice                                                   *)
(***************************************************************************)
\* Mutant of Deliver: completeBackground before the notice is admitted.
DeliverLater(j) ==
  /\ observer[j] = "waiting"
  /\ ~Running(j)
  /\ row[j] # None
  /\ row' = [row EXCEPT ![j] = None]
  /\ UNCHANGED <<notice, attempts, job, tool, observer, sweep, interrupts, crashes, history>>

(* Its ID is the notification's: a second admission is the first one.      *)
Admit(j, state) == notice' = [notice EXCEPT ![j] = IF @ = None THEN state ELSE @]

Deliver(j) ==
  /\ observer[j] = "waiting"
  /\ ~Running(j)
  /\ Admit(j, job[j].status)
  /\ observer' = [observer EXCEPT ![j] = "acknowledging"]
  /\ UNCHANGED <<row, attempts, job, tool, sweep, interrupts, crashes, history>>

(* completeBackground                                                      *)
Acknowledge(j) ==
  /\ observer[j] = "acknowledging"
  /\ row' = [row EXCEPT ![j] = None]
  /\ observer' = [observer EXCEPT ![j] = "none"]
  /\ UNCHANGED <<notice, attempts, job, tool, sweep, interrupts, crashes, history>>

(***************************************************************************)
(* A process that dies, and the sweep of the next one                      *)
(***************************************************************************)
(* Work that its process's end interrupts does not settle its row.         *)
Crash ==
  /\ crashes < MaxCrashes
  /\ crashes' = crashes + 1
  /\ job' = [j \in Job |-> None]
  /\ tool' = [j \in Job |-> IF tool[j] \in Returned \union {"idle"} THEN tool[j] ELSE "stopped"]
  /\ observer' = [j \in Job |-> "none"]
  /\ sweep' = Booting
  /\ UNCHANGED <<durable, interrupts, history>>

SweepLists ==
  /\ sweep.at = "listing"
  /\ sweep' = [Booting EXCEPT !.at = "walking", !.todo = row]
  /\ UNCHANGED <<durable, job, tool, observer, interrupts, crashes, history>>

Listed == {j \in Job : sweep.todo[j] # None}

(* Shells go first, so that a child finds their notices.  A listed job that*)
(* runs is passed over: none does, calls start after the table was read.   *)
Turn(j) ==
  /\ sweep.at = "walking"
  /\ j \in Listed
  /\ ~Running(j)
  /\ j \in Subagent => Listed \subseteq Subagent

Walked(j) == [sweep EXCEPT !.todo[j] = None]

Telling(j, state) ==
  sweep' = [Walked(j) EXCEPT !.at = "telling", !.item = j, !.state = state]

(* A shell that was running is gone with its process.                      *)
SweepTells(j) ==
  /\ Turn(j)
  /\ j \in Subagent => sweep.todo[j] # "running"
  /\ Telling(j, IF sweep.todo[j] = "running" THEN "cancelled" ELSE sweep.todo[j])
  /\ UNCHANGED <<durable, job, tool, observer, interrupts, crashes, history>>

Orphan(j) == Turn(j) /\ j \in Subagent /\ sweep.todo[j] = "running"

SweepLeavesBusyChild(j) ==
  /\ ChildrenBusy
  /\ Orphan(j)
  /\ sweep' = Walked(j)
  /\ UNCHANGED <<durable, job, tool, observer, interrupts, crashes, history>>

(* prepareResume counts before it says whether the budget allows.          *)
SweepGivesUp(j) ==
  /\ Orphan(j)
  /\ attempts[j] >= MaxAttempts
  /\ attempts' = [attempts EXCEPT ![j] = 0]
  /\ Telling(j, "error")
  /\ givenUp' = givenUp \union {j}
  /\ UNCHANGED <<row, notice, job, tool, observer, interrupts, crashes, settled>>

\* Mutant of SweepRestarts: a restarted child is not observed.
SweepRestartsUnobserved(j) ==
  /\ Orphan(j)
  /\ attempts[j] < MaxAttempts
  /\ attempts' = [attempts EXCEPT ![j] = @ + 1]
  /\ job' = [job EXCEPT ![j] = [status |-> "running", background |-> TRUE]]
  /\ row' = [row EXCEPT ![j] = "running"]
  /\ sweep' = Walked(j)
  /\ UNCHANGED <<notice, observer, tool, interrupts, crashes, history>>

\* Mutant of SweepRestarts: the budget is not looked at.
SweepRestartsForever(j) ==
  /\ Orphan(j)
  /\ attempts' = [attempts EXCEPT ![j] = @ + 1]
  /\ job' = [job EXCEPT ![j] = [status |-> "running", background |-> TRUE]]
  /\ row' = [row EXCEPT ![j] = "running"]
  /\ observer' = [observer EXCEPT ![j] = "waiting"]
  /\ sweep' = Walked(j)
  /\ UNCHANGED <<notice, tool, interrupts, crashes, history>>

(* The child goes on under the notification it had.                        *)
SweepRestarts(j) ==
  /\ Orphan(j)
  /\ attempts[j] < MaxAttempts
  /\ attempts' = [attempts EXCEPT ![j] = @ + 1]
  /\ job' = [job EXCEPT ![j] = [status |-> "running", background |-> TRUE]]
  /\ row' = [row EXCEPT ![j] = "running"]
  /\ observer' = [observer EXCEPT ![j] = "waiting"]
  /\ sweep' = Walked(j)
  /\ UNCHANGED <<notice, tool, interrupts, crashes, history>>

SweepAdmits ==
  /\ sweep.at = "telling"
  /\ Admit(sweep.item, sweep.state)
  /\ sweep' = [sweep EXCEPT !.at = "acknowledging"]
  /\ UNCHANGED <<row, attempts, job, tool, observer, interrupts, crashes, history>>

SweepAcknowledges ==
  /\ sweep.at = "acknowledging"
  /\ row' = [row EXCEPT ![sweep.item] = None]
  /\ sweep' = [sweep EXCEPT !.at = "walking", !.item = None, !.state = None]
  /\ UNCHANGED <<notice, attempts, job, tool, observer, interrupts, crashes, history>>

-----------------------------------------------------------------------------
Call(j) ==
  \/ \E background \in BOOLEAN : Start(j, background)
  \/ LeaveInBackground(j) \/ Block(j) \/ Unblock(j) \/ HandOver(j)
  \/ Interrupt(j)

Walk(j) ==
  SweepTells(j) \/ SweepLeavesBusyChild(j) \/ SweepGivesUp(j) \/ SweepRestarts(j)

Next ==
  \/ \E j \in Job :
       \/ \E status \in {"completed", "error"} : Settle(j, status)
       \/ SettleInterrupted(j)
       \/ Cancel(j) \/ Call(j) \/ Deliver(j) \/ Acknowledge(j) \/ Walk(j)
  \/ BackgroundAll
  \/ SweepLists \/ SweepAdmits \/ SweepAcknowledges
  \/ Crash

Spec == Init /\ [][Next]_vars

(* Work ends, and the fibers that nothing interrupts go on.                *)
Fairness ==
  /\ \A j \in Job :
       /\ WF_vars(\E status \in {"completed", "error"} : Settle(j, status))
       /\ WF_vars(LeaveInBackground(j) \/ Block(j) \/ Unblock(j) \/ HandOver(j))
       /\ WF_vars(Deliver(j))
       /\ WF_vars(Acknowledge(j))
       /\ WF_vars(Walk(j))
  /\ WF_vars(SweepLists)
  /\ WF_vars(SweepAdmits)
  /\ WF_vars(SweepAcknowledges)

FairSpec == Spec /\ Fairness

-----------------------------------------------------------------------------
(* Until its notice is admitted, what runs in the background has a row:    *)
(* whenever the process dies, the next one knows that it has to report.    *)
ReportSurvives ==
  \A j \in Job :
    (tool[j] = "left" \/ Background(j)) /\ notice[j] = None => row[j] # None

(* A result the tool call returned is not reported again by a notice, now  *)
(* or after a restart, although the user may move the job to the           *)
(* background while it finishes.                                           *)
ReportedOnce ==
  \A j \in Job : tool[j] = "finished" => row[j] = None /\ notice[j] = None

(* A notice tells how the work ended: no restart calls cancelled what had  *)
(* completed, and no second delivery overwrites the first.  The exceptions *)
(* are two notices after which the row still says that the child runs, so  *)
(* that the next process, if this one dies before the row is removed,      *)
(* restarts the child and cannot take the notice back: that the child was  *)
(* given up, its budget renewed, and that a run was cancelled which only   *)
(* an interruption had settled.                                            *)
ToldGivenUp(j)  == j \in givenUp /\ notice[j] = "error"
ToldDeclined(j) == j \in declined /\ notice[j] = "cancelled"

NoticeIsTrue ==
  \A j \in Job :
    notice[j] # None /\ outcome[j] # None =>
      notice[j] = outcome[j] \/ ToldGivenUp(j) \/ ToldDeclined(j)

(* The sweep went by a child that somebody else was driving at boot.       *)
LeftToItsDriver(j) ==
  /\ row[j] = "running"
  /\ ~Present(j)
  /\ sweep.at # "listing"
  /\ j \in Subagent \ Listed

(* A tool call that returned that it will be notified is, also when the    *)
(* process dies in between and the child has to be restarted or given up.  *)
(* Only a child that somebody else drives may wait for the next boot.      *)
NotifiedInTheEnd ==
  \A j \in Job : tool[j] = "left" ~> notice[j] # None \/ LeftToItsDriver(j)

(* "Do not wait, sleep, poll, or report the backgrounded work as complete  *)
(* until a later completion notification is added to the conversation":    *)
(* what the user moved to the background, and nobody cancels, has its      *)
(* notification.                                                           *)
BackgroundedIsNotified ==
  \A j \in Job :
    tool[j] = "released" ~>
      notice[j] # None \/ (Present(j) /\ job[j].status = "cancelled")
=============================================================================
