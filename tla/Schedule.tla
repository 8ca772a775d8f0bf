------------------------------ MODULE Schedule -------------------------------
(***************************************************************************)
(* schedule.ts: one schedule and the processes that share its database.    *)
(* Every process runs the loop; a lease row elects the one that fires.  The*)
(* row, the lease, the inbox and the messages are durable, a process's     *)
(* locals and the Sessions it has woken die with it.  Users pause, resume  *)
(* and remove the schedule at any time.                                    *)
(*                                                                         *)
(* Time is counted in slots: the schedule's times are 1, 2, ..., and clock *)
(* is the last that has come.  A live leader renews its lease three times  *)
(* before it runs out: that only happens to a suspended or dead process.   *)
(***************************************************************************)
EXTENDS Naturals

CONSTANTS
  Process,
  None,
  MaxFailures,  \* MAX_CHECK_FAILURES
  Slots,        \* bound: the slots explored, and with MaxTrouble the runs admitted
  MaxTrouble    \* bound: deaths, shutdowns and suspensions of processes, failures of
                \* checks, Sessions and settings, and what users do, taken together

VARIABLES
  plan,     \* what create was given: repeats, the check's mode, ends
  row,      \* durable: the schedule's row, None when removed
  lease,    \* durable: its owner, None without a lease, and whether it is fresh
  inbox,    \* durable: the runs whose prompts are pending
  message,  \* durable: [Run -> what the prompt admitted for that run says]
  proc,     \* [Process -> its place in the loop and its locals]
  awake,    \* the processes in which the Session was woken and not yet asked
  clock,
  trouble,  \* how much of it there was
  reused,   \* history: what firings said that found their message ID taken by another
            \* firing's message
  cut       \* history: how firings were cut off: "stop", "lease"

durable == <<row, lease, inbox, message>>
history == <<reused, cut>>
vars    == <<plan, durable, proc, awake, clock, trouble, history>>

(* The owner of a lease whose process died: every start has an ID of its   *)
(* own.                                                                    *)
Dead == "dead"

Slot  == 1..Slots
Never == Slots + 2
(* A bound: a firing uses up a slot, or pauses the schedule that a user    *)
(* then resumes.                                                           *)
Run   == 1..(Slots + MaxTrouble + 1)

Places == {"down", "idle", "rewaking", "picking", "claiming", "judging",
           "admitting", "waking", "recording", "ending"}

(* next and run: next_due_at and run_count, 0 when null or before the first*)
(* run; last: the run of last_message_id; retry: retry_at has not come.    *)
RowRecord ==
  [status : {"active", "paused", "done"}, next : 0..(Slots + 1), run : {0} \union Run,
   last : {0} \union Run, remaining : {Never} \union 0..Slots, failures : 0..MaxFailures,
   retry : BOOLEAN]

Texts == {"prompt", "paused", "expired"}

ASSUME ScheduleAssumption ==
  /\ None \notin Process \union RowRecord \union Texts
  /\ Dead \notin Process
  /\ MaxFailures \in Nat \ {0} /\ Slots \in Nat \ {0}
  /\ MaxTrouble \in Nat

PlanRecord ==
  [repeats : BOOLEAN, check : {"none", "if", "until"}, ends : {1, Never}, times : {1, Never}]

(* leading, booted: the service's leading and bootChecked; active: what the*)
(* loop read at its start; now: its captured time; row: the tick's copy.   *)
ProcRecord ==
  [at : Places, leading : BOOLEAN, booted : BOOLEAN, active : BOOLEAN, now : 0..Slots,
   row : RowRecord \union {None}, text : Texts, strikes : 0..MaxFailures]

TypeOK ==
  /\ plan \in PlanRecord
  /\ row \in RowRecord \union {None}
  /\ lease \in [owner : Process \union {None, Dead}, fresh : BOOLEAN]
  /\ inbox \subseteq Run
  /\ message \in [Run -> [text : Texts \union {None}, slot : 0..Slots]]
  /\ proc \in [Process -> ProcRecord]
  /\ awake \subseteq Process
  /\ clock \in 0..Slots
  /\ trouble \in 0..MaxTrouble
  /\ reused \subseteq Texts
  /\ cut \subseteq {"stop", "lease"}

NoLease == [owner |-> None, fresh |-> FALSE]

Down ==
  [at |-> "down", leading |-> FALSE, booted |-> FALSE, active |-> FALSE, now |-> 0,
   row |-> None, text |-> "prompt", strikes |-> 0]

(* create has inserted the row.  An until schedule fires once; a one-shot  *)
(* needs neither a count nor an end.                                       *)
Init ==
  /\ plan \in PlanRecord
  /\ ~plan.repeats => plan.ends = Never
  /\ plan.check = "until" => plan.times = 1
  /\ ~plan.repeats /\ plan.check # "until" => plan.times = Never
  /\ row = [status |-> "active", next |-> 1, run |-> 0, last |-> 0, remaining |-> plan.times,
            failures |-> 0, retry |-> FALSE]
  /\ lease = NoLease
  /\ inbox = {}
  /\ message = [r \in Run |-> [text |-> None, slot |-> 0]]
  /\ proc = [p \in Process |-> Down]
  /\ awake = {}
  /\ clock = 0
  /\ trouble = 0
  /\ reused = {}
  /\ cut = {}

-----------------------------------------------------------------------------
(* The row and the lease.                                                  *)

Active == row # None /\ row.status = "active"

(* Mutation: the last slot that has come is counted twice.                 *)
FollowingLate(now) == IF plan.repeats THEN now + 2 ELSE 0

(* following: missed slots are not made up for.                            *)
Following(now) == IF plan.repeats THEN now + 1 ELSE 0

Beyond(next) == next = 0 \/ next > plan.ends

Finished(next, remaining) == Beyond(next) \/ remaining = 0

(* The row once it is due next, or done.                                   *)
Advance(r, next, done) ==
  [r EXCEPT !.status = IF done THEN "done" ELSE @, !.next = IF done THEN 0 ELSE next,
            !.retry = FALSE]

(* update: only while the row is active.                                   *)
Update(values) == row' = IF Active THEN values ELSE row

(* Mutation: the lease of a dead leader is never taken over.               *)
ClaimableUnowned(p) == lease.owner \in {None, p}

Claimable(p) == lease.owner = p \/ ~lease.fresh

Claimed(p) == lease' = [owner |-> p, fresh |-> TRUE]

Released(p) == IF lease.owner = p THEN NoLease ELSE lease

Goto(p, at) == proc' = [proc EXCEPT ![p].at = at]

Due == Active /\ row.next \in 1..clock /\ ~row.retry

-----------------------------------------------------------------------------
(* The loop.  Between two turns it waits for the doorbell, at most         *)
(* MAX_SLEEP.                                                              *)

Start(p) ==
  /\ proc[p].at = "down"
  /\ Goto(p, "idle")
  /\ UNCHANGED <<plan, durable, awake, clock, trouble, history>>

Rest(p) ==
  /\ proc[p].at = "idle" /\ proc[p].booted /\ ~Active
  /\ proc[p].leading
  /\ proc' = [proc EXCEPT ![p].leading = FALSE]
  /\ lease' = Released(p)
  /\ UNCHANGED <<plan, row, inbox, message, awake, clock, trouble, history>>

Follow(p) ==
  /\ proc[p].at = "idle" /\ (Active \/ ~proc[p].booted)
  /\ ~Claimable(p)
  /\ proc' = [proc EXCEPT ![p].leading = FALSE, ![p].booted = TRUE]
  /\ UNCHANGED <<plan, durable, awake, clock, trouble, history>>

Lead(p) ==
  /\ proc[p].at = "idle" /\ (Active \/ ~proc[p].booted)
  /\ Claimable(p)
  /\ Claimed(p)
  /\ proc' = [proc EXCEPT ![p] =
                [@ EXCEPT !.at = IF proc[p].leading THEN "picking" ELSE "rewaking",
                          !.leading = TRUE, !.booted = TRUE, !.active = Active, !.now = clock]]
  /\ UNCHANGED <<plan, row, inbox, message, awake, clock, trouble, history>>

(* A new leader wakes the Session if its last scheduled prompt is pending. *)
Rewake(p) ==
  /\ proc[p].at = "rewaking"
  /\ awake' = IF row # None /\ row.last \in inbox THEN awake \union {p} ELSE awake
  /\ Goto(p, IF proc[p].active THEN "picking" ELSE "ending")
  /\ UNCHANGED <<plan, durable, clock, trouble, history>>

(* After the tick, or at once when there was nothing to do.                *)
TickEnds(p) ==
  /\ proc[p].at = "ending"
  /\ IF Active /\ proc[p].active
     THEN Goto(p, "idle") /\ UNCHANGED lease
     ELSE proc' = [proc EXCEPT ![p].at = "idle", ![p].leading = FALSE] /\ lease' = Released(p)
  /\ UNCHANGED <<plan, row, inbox, message, awake, clock, trouble, history>>

-----------------------------------------------------------------------------
(* The tick: what is due, one step per row.                                *)

Pick(p) ==
  /\ proc[p].at = "picking"
  /\ IF Due /\ row.next <= proc[p].now
     THEN proc' = [proc EXCEPT ![p].at = "claiming", ![p].row = row]
     ELSE Goto(p, "ending")
  /\ UNCHANGED <<plan, durable, awake, clock, trouble, history>>

StepEnds(p) == proc' = [proc EXCEPT ![p].at = "ending", ![p].row = None, ![p].text = "prompt",
                                    ![p].strikes = 0]

ClaimAgain(p) ==
  /\ proc[p].at = "claiming"
  /\ IF Claimable(p)
     THEN Claimed(p) /\ Goto(p, "judging")
     ELSE StepEnds(p) /\ UNCHANGED lease
  /\ UNCHANGED <<plan, row, inbox, message, awake, clock, trouble, history>>

Trouble == trouble < MaxTrouble /\ trouble' = trouble + 1

(* Schedules are off where the Session lives, or the Session or its prompt *)
(* cannot be had: the row waits.                                           *)
Backs(p) ==
  /\ proc[p].at \in {"judging", "admitting"}
  /\ Trouble
  /\ Update([row EXCEPT !.retry = TRUE])
  /\ StepEnds(p)
  /\ UNCHANGED <<plan, lease, inbox, message, awake, clock, history>>

(* The Session's folder is gone.                                           *)
Gone(p) ==
  /\ proc[p].at = "judging"
  /\ Trouble
  /\ Update([row EXCEPT !.status = "paused", !.retry = FALSE])
  /\ StepEnds(p)
  /\ UNCHANGED <<plan, lease, inbox, message, awake, clock, history>>

(* The last prompt is still pending: wake its Session, and miss this slot. *)
Skip(p) ==
  /\ proc[p].at = "judging"
  /\ proc[p].row.last \in inbox
  /\ awake' = awake \union {p}
  /\ LET next == Following(proc[p].now)
     IN Update(Advance(row, next, Finished(next, proc[p].row.remaining)))
  /\ StepEnds(p)
  /\ UNCHANGED <<plan, lease, inbox, message, clock, trouble, history>>

(* Otherwise the check is evaluated, if there is one.                      *)
Evaluated(p) == proc[p].at = "judging" /\ proc[p].row.last \notin inbox

Wakes(p) ==
  /\ Evaluated(p)
  /\ Goto(p, "admitting")
  /\ UNCHANGED <<plan, durable, awake, clock, trouble, history>>

(* Nothing to report yet; an until schedule that ends says so.             *)
Quiet(p) ==
  /\ Evaluated(p) /\ plan.check # "none"
  /\ LET next  == Following(proc[p].now)
         ended == Beyond(next)
     IN IF plan.check = "until" /\ ended
        THEN /\ proc' = [proc EXCEPT ![p].at = "admitting", ![p].text = "expired"]
             /\ UNCHANGED row
        ELSE /\ Update(Advance([row EXCEPT !.failures = 0], next, ended))
             /\ StepEnds(p)
  /\ UNCHANGED <<plan, lease, inbox, message, awake, clock, trouble, history>>

(* An invalid check, or one failure too many, pauses the schedule.         *)
CheckFails(p, invalid) ==
  /\ Evaluated(p) /\ plan.check # "none"
  /\ Trouble
  /\ LET strikes == proc[p].row.failures + 1
     IN IF ~invalid /\ strikes < MaxFailures
        THEN /\ Update([row EXCEPT !.failures = strikes, !.retry = TRUE])
             /\ StepEnds(p)
        ELSE /\ proc' = [proc EXCEPT ![p].at = "admitting", ![p].text = "paused",
                                     ![p].strikes = strikes]
             /\ UNCHANGED row
  /\ UNCHANGED <<plan, lease, inbox, message, awake, clock, history>>

NextRun(p) == proc[p].row.run + 1

(* Mutation: the prompt's ID is a new one each time.                       *)
AdmitNew(p) ==
  /\ proc[p].at = "admitting"
  /\ \E r \in Run :
       /\ message[r].text = None
       /\ message' = [message EXCEPT ![r] = [text |-> proc[p].text, slot |-> proc[p].row.next]]
       /\ inbox' = inbox \union {r}
  /\ Goto(p, "waking")
  /\ UNCHANGED <<plan, row, lease, awake, clock, trouble, history>>

(* admitWake: the ID is the run's, and the first admission of an ID wins.  *)
Admit(p) ==
  /\ proc[p].at = "admitting"
  /\ NextRun(p) \in Run
  /\ LET run  == NextRun(p)
         mine == [text |-> proc[p].text, slot |-> proc[p].row.next]
     IN IF message[run].text = None
        THEN /\ message' = [message EXCEPT ![run] = mine]
             /\ inbox' = inbox \union {run}
             /\ UNCHANGED reused
        ELSE /\ reused' = IF message[run] = mine THEN reused ELSE reused \union {mine.text}
             /\ UNCHANGED <<inbox, message>>
  /\ Goto(p, "waking")
  /\ UNCHANGED <<plan, row, lease, awake, clock, trouble, cut>>

Wake(p) ==
  /\ proc[p].at = "waking"
  /\ awake' = awake \union {p}
  /\ Goto(p, "recording")
  /\ UNCHANGED <<plan, durable, clock, trouble, history>>

(* What a firing writes to the row, by what its prompt says.               *)
Fired(p) ==
  LET r         == proc[p].row
      next      == Following(proc[p].now)
      remaining == IF plan.check = "until" THEN 0
                   ELSE IF r.remaining = Never THEN Never ELSE r.remaining - 1
      run       == NextRun(p)
  IN CASE proc[p].text = "paused" ->
            [row EXCEPT !.status = "paused", !.failures = proc[p].strikes, !.run = run,
                        !.last = run, !.retry = FALSE]
       [] proc[p].text = "expired" ->
            [Advance(row, 0, TRUE) EXCEPT !.failures = 0, !.run = run, !.last = run,
                                          !.remaining = 0]
       [] OTHER ->
            [Advance(row, next, plan.check = "until" \/ Finished(next, remaining)) EXCEPT
               !.failures = IF plan.check = "none" THEN @ ELSE 0, !.run = run, !.last = run,
               !.remaining = remaining]

(* Mutation: a firing is recorded only while the row is active.            *)
RecordIfActive(p) ==
  /\ proc[p].at = "recording"
  /\ Update(Fired(p))
  /\ StepEnds(p)
  /\ UNCHANGED <<plan, lease, inbox, message, awake, clock, trouble, history>>

(* "Record the run even if a pause landed during the prompt".              *)
Record(p) ==
  /\ proc[p].at = "recording"
  /\ row' = IF row = None THEN None ELSE Fired(p)
  /\ StepEnds(p)
  /\ UNCHANGED <<plan, lease, inbox, message, awake, clock, trouble, history>>

Firing(p) == proc[p].row # None

(* heartbeat, beside the tick.                                             *)
Heartbeat(p) ==
  /\ Firing(p) \/ proc[p].at = "picking"
  /\ ~lease.fresh
  /\ Claimed(p)
  /\ UNCHANGED <<plan, row, inbox, message, proc, awake, clock, trouble, history>>

-----------------------------------------------------------------------------
(* Users.                                                                  *)

Pause ==
  /\ Active
  /\ Trouble
  /\ row' = [row EXCEPT !.status = "paused"]
  /\ UNCHANGED <<plan, lease, inbox, message, proc, awake, clock, history>>

(* A one-shot that fell due meanwhile is due at once, others at their next *)
(* slot.                                                                   *)
Resume ==
  /\ row # None /\ row.status = "paused"
  /\ Trouble
  /\ LET next == IF plan.repeats /\ row.next <= clock THEN clock + 1 ELSE row.next
     IN row' = Advance([row EXCEPT !.status = "active", !.failures = 0], next,
                       row.next = 0 \/ Finished(next, row.remaining))
  /\ UNCHANGED <<plan, lease, inbox, message, proc, awake, clock, history>>

Remove ==
  /\ row # None
  /\ Trouble
  /\ row' = None
  /\ UNCHANGED <<plan, lease, inbox, message, proc, awake, clock, history>>

-----------------------------------------------------------------------------
(* The environment.                                                        *)

(* The woken Session takes what is pending.                                *)
Deliver(p) ==
  /\ p \in awake
  /\ awake' = awake \ {p}
  /\ inbox' = {}
  /\ UNCHANGED <<plan, row, lease, message, proc, clock, trouble, history>>

Tick ==
  /\ clock < Slots
  /\ clock' = clock + 1
  /\ UNCHANGED <<plan, durable, proc, awake, trouble, history>>

(* retry_at comes.                                                         *)
RetryComes ==
  /\ row # None /\ row.retry
  /\ row' = [row EXCEPT !.retry = FALSE]
  /\ UNCHANGED <<plan, lease, inbox, message, proc, awake, clock, trouble, history>>

(* The process dies, or run is interrupted and releases the lease.  A      *)
(* prompt is uninterruptible until it has woken its Session.               *)
Die(p, released) ==
  /\ proc[p].at # "down"
  /\ released => proc[p].at # "waking"
  /\ Trouble
  /\ proc' = [proc EXCEPT ![p] = Down]
  /\ awake' = awake \ {p}
  /\ lease' = IF released THEN Released(p)
              ELSE IF lease.owner = p THEN [lease EXCEPT !.owner = Dead] ELSE lease
  /\ cut' = IF proc[p].at \in {"waking", "recording"} THEN cut \union {"stop"} ELSE cut
  /\ UNCHANGED <<plan, row, inbox, message, clock, reused>>

(* A process is suspended until its lease has run out.                     *)
Suspend(p) ==
  /\ lease = [owner |-> p, fresh |-> TRUE]
  /\ Trouble
  /\ lease' = [lease EXCEPT !.fresh = FALSE]
  /\ cut' = IF proc[p].at # "idle" THEN cut \union {"lease"} ELSE cut
  /\ UNCHANGED <<plan, row, inbox, message, proc, awake, clock, reused>>

Expire ==
  /\ lease = [owner |-> Dead, fresh |-> TRUE]
  /\ lease' = [lease EXCEPT !.fresh = FALSE]
  /\ UNCHANGED <<plan, row, inbox, message, proc, awake, clock, trouble, history>>

-----------------------------------------------------------------------------
Loop(p) ==
  \/ Rest(p) \/ Follow(p) \/ Lead(p) \/ Rewake(p) \/ TickEnds(p)
  \/ Pick(p) \/ ClaimAgain(p) \/ Backs(p) \/ Gone(p) \/ Skip(p)
  \/ Wakes(p) \/ Quiet(p) \/ CheckFails(p, TRUE) \/ CheckFails(p, FALSE)
  \/ Admit(p) \/ Wake(p) \/ Record(p)

Next ==
  \/ \E p \in Process :
       Start(p) \/ Loop(p) \/ Heartbeat(p) \/ Deliver(p) \/ Suspend(p)
  \/ \E p \in Process, released \in BOOLEAN : Die(p, released)
  \/ Pause \/ Resume \/ Remove
  \/ Tick \/ RetryComes \/ Expire

Spec == Init /\ [][Next]_vars

(* The loop never stops, checks and prompts end, a woken Session runs; time*)
(* passes; a process is started again.                                     *)
Fairness ==
  /\ \A p \in Process : WF_vars(Start(p)) /\ WF_vars(Loop(p)) /\ WF_vars(Deliver(p))
  /\ WF_vars(Tick) /\ WF_vars(RetryComes) /\ WF_vars(Expire)

FairSpec == Spec /\ Fairness

-----------------------------------------------------------------------------
Prompted(r) == message[r].text \in {"prompt", "expired"}

(* Processes that share the database never fire twice for one slot, nor    *)
(* more often than the schedule allows, whatever dies, stops or is edited. *)
(* Two exceptions: a process was suspended in the middle of a turn of its  *)
(* loop, or the notice that pauses the schedule found its ID taken by a    *)
(* prompt that was cut off before it was recorded; then the user, resuming *)
(* the schedule, has the slot fired again.                                 *)
OneFiringPerSlot ==
  "lease" \in cut \/ "paused" \in reused \/
    \A r, s \in Run :
      /\ Prompted(r) /\ Prompted(s)
      /\ message[r].slot = message[s].slot \/ plan.times = 1
      => r = s

(* A firing whose message ID is taken by another firing's message, one for *)
(* another slot or one that says something else, is lost.  Pauses and      *)
(* resumptions in the middle of a prompt do not cause that: only a firing  *)
(* that was cut off before it was recorded does.                           *)
NewMessageEachTime == reused # {} => cut # {}

(* A slot that has come is not left waiting, whichever leader dies and     *)
(* whatever fails: it fires, is skipped, or the schedule is not active.    *)
DueIsServed ==
  \A s \in Slot : Active /\ row.next = s /\ s <= clock ~> ~(Active /\ row.next = s)

(* "Wake every Session whose last scheduled prompt is still pending."      *)
PromptIsDelivered == inbox # {} ~> inbox = {}

=============================================================================
