# Bolt session core: specifications, checks and proofs

Bolt runs coding agents as *Sessions*. A Session is a durable conversation; a
server process executes it by draining its inbox through a model, and many
clients (terminal, desktop, web, other tools) act on it at the same time. What
is hard to get right is not the model call. It is what happens around it: wakes
that arrive while a drain ends, interrupts that race with completions, retried
requests, people who answer prompts while the location shuts down, processes
that die with work in the background.

This directory holds TLA+ modules for that core, the configurations that check
them with TLC, and proofs checked by TLAPS. Paths below are relative to
`src/packages/core/src/` unless they begin with `src/`.

## 1. The system

| Component | State it keeps | Operations | Hard because | Correct when |
|---|---|---|---|---|
| Run coordinator (`session/run-coordinator.ts`) | a Map from key to one execution object: owner fiber, scope, pending wake, stopping flag, `done` | `run`, `wake`, `interrupt`, `awaitIdle`, `isActive`; the execution loop; the settled hook | wakes, joins and interrupts in every gap of an execution's life | one execution per key; no wake lost; no caller handed somebody else's interruption or left behind |
| Execution and boot recovery (`session/execution.ts`, `session/execution/restart.ts`, `session/store.ts`) | `time_suspended` (the claim), `resume_attempts` | started and settled hooks, `claim`, `release`, `countResume`, the boot sweep | a process may die anywhere; requests are served during the sweep | an unfinished turn keeps its claim, a finished one leaves none, recovery is bounded and happens |
| Inbox (`session/inbox.ts`, `session/move.ts`) | rows of admitted items, messages once delivered, one lock per Session | prompt, synthetic, compaction, move, cancel, steer, queue, promotion | prompts skip the lock; retries race with delivery | exactly-once delivery, in order, never past a control |
| Permissions (`permission.ts`, `permission/saved.ts`) | a Map of pending requests, the saved rules, `closed` | `ask`, `assert`, `reply`, `close` | publications between a look and the act it justifies; two loops over a Map others change | nobody waits for ever, nobody goes on unless a reply or a rule let it, every answer is announced |
| Background jobs (`job.ts`, `tool/plugin/shell.ts`, `tool/plugin/subagent.ts`) | a map of jobs, a durable row for what runs in the background, the completion notice | start, block, background, settle, cancel; observer; boot recovery | completion races with backgrounding, interruption and death | what is owed a notice gets exactly one, and it is true |
| Session services, revert (`session.ts`, `session/session.ts`, `session/revert.ts`) | Session rows, the staged revert | create, fork, prompt, remove, stage and commit a revert | check, then act, across a wake | not modelled |
| Runner (`session/runner/step.ts`, `publish-llm-event.ts`, `llm.ts`, `retry.ts`) | the step under way, the publisher's records of it and of its tool calls | attempt, publish, tool fibers, settlement, retry, settlement of stale calls | the stream, the tools, an interrupt and the retries end in any order, and meet in records without a lock | every call gets one end, before the one event that closes the step; what is tried again left nothing behind |
| Schedules (`schedule.ts`) | schedule rows, a lease row, per process the loop's locals | create, pause, resume, remove; election, tick, check, firing | several processes share the database; a tick works on copies; processes die between a prompt and its record | a slot fires once, none is swallowed, none is left waiting |
| Forms (`form.ts`) | pending questions | ask, reply, cancel, close | as permissions | not modelled |
| Event bus (`bus.ts`) | durable log, subscribers | publish, listen, follow, replay | commit and notification are apart | a transaction is one step here |
| Location lifecycle (`location-lifecycle.ts`, `location-activity.ts`) | loaded Locations and their last activity | load, shutdown, idle sweep | eviction against a starting Session | only its `close` is modelled, in Permission |
| Everything else | | | | see section 7 |

How they interact. A client's request admits an item to the *inbox* and wakes
the *execution*, which asks the *coordinator* of that Session's key for a drain.
The coordinator runs the started hook (commits the claim), drains, and runs the
settled hook (releases the claim, or keeps it for a restart). The drain takes
controls and promotes prompts from the inbox at its boundaries. Tools called in
a step ask the *permission* service, and hand long work to *jobs*, whose
completion notice is again an inbox item that wakes a Session. At boot the
*sweep* first recovers the job table, then resumes Sessions that hold a claim.
*Schedules* admit a prompt with an ID of their own choosing and wake its Session.

## 2. Modules

| Module | Models | Composed of |
|---|---|---|
| `Doorbell` | what the coordinator promises about one key | |
| `RunCoordinator` | `session/run-coordinator.ts` for one key | implements `Doorbell` (`INSTANCE ... WITH`) |
| `RunCoordinatorProofs` | theorems about `RunCoordinator` | extends it |
| `SessionExecution` | hooks, claim, budget, boot sweep, restarts of one Session | instantiates `RunCoordinator`; the sweep's fiber is one of its callers |
| `SessionExecutionProofs` | theorems about `SessionExecution` | extends it; instantiates `RunCoordinatorProofs` |
| `SessionInbox` | the inbox of one Session, its clients and its runner | |
| `SessionInboxProofs` | theorems about `SessionInbox` | extends it |
| `Permission`, `MCPermission` | the permission service of one Location | |
| `PermissionProofs` | theorems about `Permission` | extends it |
| `BackgroundJob` | jobs, their tool calls, observers, and the sweep of the job table | |
| `BackgroundJobProofs` | theorems about `BackgroundJob` | extends it |
| `SessionStep` | the steps of one Session's drain: attempts, tool fibers, settlement, retries | |
| `SessionStepProofs` | theorems about `SessionStep` | extends it |
| `Schedule` | one schedule and the processes that share its database | |
| `ScheduleProofs` | theorems about `Schedule` | extends it |

`MCPermission` holds what TLC needs and the specification does not: the functions
that give requests a Session and their possible actions.
Definitions marked *Mutation* or *Mutant* are plausible wrong versions of the
definition that follows them; `PROJECT.json` says which property each of them
breaks. They are part of no specification.

### RunCoordinator

JavaScript runs one fiber at a time, and a fiber gives way only at an
asynchronous point. The steps of the model are the stretches of code between
such points. `executions[e].phase` says where the fiber of the execution object
`e` is: `forked` (its leading yield), `starting` (the started hook), `entering`,
`drain`, `decide` (the gap between the end of a drain and the look at the
doorbell), `unwinding` (finalizers of an interrupted drain), `leaving`, then
`settling` and `settled` (the settled hook, and after it). A fork after the
scope is closed never runs: `stillborn`. `current` is the entry of the Map,
`bell` is `pendingWake`. Callers are the fibers inside `run` and `awaitIdle`.
`struck` is a history variable: an interrupt was accepted after this caller
joined.

`Doorbell` forgets fibers and joiners. A key is idle, busy or closing, and owes
answers to the scopes that rang. The refinement maps the debt to the doorbell
and to the scope the execution is about to drain for. That the coordinator
implements it says that no wake disappears, except to an interrupt, which claims
it, or to an execution that dies before the drain it was started for.

### SessionExecution

Adds the database. `claimed` and `attempts` survive `Restart`, the coordinator
does not. The started hook claims in the transaction of its event; the settled
hook releases, unless the outcome is a shutdown. The sweep is a sequence of
steps: look who is active, list, count, then terminalize or admit the
continuation notice and resume. It forks the resumption in the background, so
any caller that is away may be the fiber that runs it. `turn` and `resumes` are history: what became of
the last recorded busy period, and how often the turn was resumed.

### SessionInbox

A publication commits with its projections and is one step; a read is another.
A prompt is admitted in three: look for a row, look for a message, publish, and
a fourth when the projection refuses. Compactions, moves, cancellations, changes
of delivery and promotions run under the Session's lock. The runner takes
controls at its boundaries and promotes prompts row by row; an interruption or a
restart may fall between two rows. Requests carry a reserved ID, so a retry is
another request with the same ID.

### Permission

Listeners run inside a publication, so a publication is a step and what was read
before it may be stale after it. `assert` looks at `closed`, evaluates, enters
the Map, announces, waits. A reply announces, settles, and then loops: over the
requests of the Session after a rejection, over all requests after an "always".
The loops iterate the live Map; the model lets them pick in any order, a
superset of insertion order. `Effect` is `evaluateInput` for one action: `ruling`
is what the agent's and the Session's configured rules say of it (ask, allow,
deny), and what a plugin's hook makes of that, which may overrule all but a
configured deny; `saved` comes after the configured rules. All three may be edited
while requests are pending (`Configure`, `Forget`). `told`, `approved` and `covered`
are history: the replies announced for a request, the requests a reply said yes to,
and those that an allow, saved or configured or a plugin's, stood behind at some
moment since they were asked.

### BackgroundJob

Updates of the job map run under a `SynchronizedRef` together with their write
to the table: one step each. A tool call starts a job and waits for it, or
leaves it in the background; then it forks an observer, which admits the
completion notice and only then removes the row. `Crash` drops the map, the
calls and the observers and keeps `row`, `notice` and `attempts`. The sweep
walks the rows it has read: it tells what finished, calls a lost shell cancelled,
restarts a child or gives it up. A run settles in three ways: it returns or fails
(`Settle`), it is cancelled (`Cancel`), both with the row, or it ends by
interruption alone (`SettleInterrupted`), which writes no row; a child does so when
its user declines a tool call. `outcome`, `declined` and `givenUp` are history.

### SessionStep

`main` is the attempt's fiber with the locals of `attempt` and `runStep`; `mark`
and `tool` are the publisher's records of the step and of its calls; `call` and
`step` are what the log says of them. A publication is uninterruptible and one
step. A record is marked in the step that checks it, before the publication, which
is what lets a tool's fiber, the sweep of a failing step and the settlement meet
without a lock. The provider's stream may end in every way the code tells apart
and at any point; tools may succeed, fail, be declined, be interrupted or have a
defect. An interrupt is pending (`asked`) until a point where it can land. Call
IDs are unique within a message only, so they are reused by the next.

Where the attempt restores interruption (waiting for the tools, compacting after
an overflow, asking the retry policy), an interrupt skips the rest of it, the
settlement included: `Skip`.

### Schedule

Time is counted in the schedule's slots. A process's loop is one action per
variant of its body; within a tick, the row is read (`Pick`), the lease claimed
again, and what is written afterwards is computed from the copy, as in the code,
so everything that happens in between meets a stale copy. `update` writes only to
an active row, the record of a firing always. The lease is fresh or has run out;
a live leader renews it in time, so it runs out under a dead process, or under a
suspended one (`Suspend`). The prompt's ID is the run's number, and the first
admission of an ID wins, as `SessionInbox` has it. The Session is external: once
woken it takes what is pending, and a wake dies with its process. `reused` and
`cut` are history: what was to be said under an ID that another message had taken,
and how a firing was cut off before its record. Numbers of runs are bounded by
`Run`, a bound of the model: with up to three disturbances it is never reached.

## 3. Runs

| Run | Checks | Bounds | States | Minutes |
|---|---|---|---|---|
| `coordinator` | `TypeOK`, `Serialized`, `NoBorrowedInterrupt`, `NobodyForgotten`, `ImplementsDoorbell`, `WakeAnswered`, `InterruptSettles`, `JoinersReturn` | two callers, two execution objects | 143,033 | 1 |
| `execution` | `TypeOK`, `UnfinishedTurnKeepsClaim`, `FinishedTurnIsReleased`, `RecoveryIsBounded`, `OrphanRecovered` | one caller, two restarts, budget one, requests served during the sweep | 1,418,863 | 2.5 |
| `execution_declined` | finds a violation of `DeliberateStopReleases` | no restart | | |
| `execution_exhausted` | finds a violation of `RunningTurnKeepsClaim` | two restarts, budget one, requests served during the sweep | | |
| `inbox` | `TypeOK`, `DeliveredOnce`, `OneCompaction`, `AdmittedIsKept`, `RunnerNeverDies`, `SteersRespectControls`, `QueueInOrder`, `SteersLeave` | three items, two requesters, three admissions, one stop | 1,490,415 | 2.5 |
| `inbox_retry` | finds a violation of `RetryIsIdempotent` | as `inbox` | | |
| `permission` | `TypeOK`, `NobodyStranded`, `GrantIsBacked`, `AnswersAreAnnounced`, `RefusalEndsWaits` | two requests about one or two actions, two repliers, one disturbance: a failing listener, an edit of the rules, or an ask that does not wait | 1,270,040 | 3 |
| `jobs` | `TypeOK`, `ReportSurvives`, `ReportedOnce`, `NoticeIsTrue`, `NotifiedInTheEnd` | a shell and a child, one interruption, three deaths, one recovery | 95,165 | 0.5 |
| `jobs_stopped` | finds a violation of `BackgroundedIsNotified` | one interruption, no death | | |
| `step` | `TypeOK`, `SettledOnce`, `EveryCallSettledFirst`, `AgainIsClean`, `CallsGetResults` | two calls, two attempts, two interrupts or deaths | 551,359 | 1 |
| `schedule` | `TypeOK`, `OneFiringPerSlot`, `NewMessageEachTime`, `DueIsServed` | two processes, two slots, every kind of schedule, two disturbances: deaths, shutdowns, suspensions, failures, edits by users | 956,760 | 2 |
| `schedule_asleep` | finds a violation of `PromptIsDelivered` | one process, one slot, one death | | |

Every property is stated in a comment above it, with the behaviour of the code it
is about. For each property of a passing run `PROJECT.json` names a mutant that
breaks it in that run.

Why the bounds are enough. A key has one live execution; the only second object
that matters is the successor started by the settlement of the first, and an
object is reused once it is free. Two callers let one join while the other is
refused. The races of the inbox involve one item and one other item that
competes with it (a control, an earlier queued item); the third leaves room for a
retry besides. Two permission requests and two replies cover every pair of
overlapping loops, because a loop treats the others' requests one at a time; both
are of one Session, so that other Sessions are left alone by a rejection is not
exercised there. The edits explored (`Edits`) are those that differ: a deny and an
insistence on the action that can be saved, an allow on the one that cannot. Three
deaths let a recovery die, a budget of one run out, and a process die between
the notice that a child is given up, or was cancelled, and the removal of its row. Two tool calls let
one be settled by its fiber while the other is swept, and two attempts are one
retry with its predecessor and its successor. Two slots let a firing be followed
by the one it could swallow, skip or repeat; two disturbances are a pause and a
resumption, a death and a failure, or the death of a leader and of its successor.
Admissions, interruptions, restarts, edits and deaths are bounded by guards
(`MaxSeq`, `MaxStops`, `MaxRestarts`, `MaxTrouble`, `MaxInterrupts`,
`MaxCrashes`), time by `Slots`; `MaxAttempts` and `MaxFailures` are parameters of
the code. To keep a run within its bounds without leaving a case out, a client of
the inbox tries at most one fresh ID at a time (`Tried`, `Seen`), and fibers that
do the same are taken in order (`Accepts`).

Deadlock is checked where the system never stops. The configurations of the
inbox, of permissions, of jobs, of steps and of schedules turn it off: their
admissions, requests, jobs, calls and slots are used up, and then nothing is left
to do.

No run uses symmetry: all the larger ones check liveness.

## 4. Fairness

* Fibers. The runtime schedules every runnable fiber, so each fiber that has a
  step takes it in the end: weak fairness of `Fiber(e)`, `Admitting(r)`,
  `GoesOn`, the observers, the sweep, the attempt, the tools and the schedule's
  loop. Started and settled hooks return or
  die; a drain ends. The last is an assumption on the runner: model calls have
  timeouts and retries are bounded.
* The inbox lock is a first come, first served semaphore, so the runner's
  boundary gets it although it is not free all the time: strong fairness of
  `Boundary`.
* A Location that is closing goes on closing: `close` runs in a finalizer.
* A process that died is started again, where a property speaks of what the next
  one does (`Drain` after a death, `Start`); the clock advances, leases and
  retries' delays run out.
* Jobs end: weak fairness of `Settle`. A shell has a timeout or is killed; a
  child Session's execution ends like any other.
* Nothing else is fair: nobody has to prompt, reply, interrupt, cancel, move
  work to the background, close, restart or die.

## 5. Proofs

`RunCoordinatorProofs` proves, for every set of callers and every set of
execution objects, from the one assumption `NoneAssumption` (the value that
stands for `undefined` is none of the others):

| Theorem | Says |
|---|---|
| `TypeCorrect` | `Spec => []TypeOK` |
| `OneExecution` | `Spec => []Serialized` |
| `JoinersOwnTheirExit` | `Spec => []NoBorrowedInterrupt` |
| `NoOrphanedWaiter` | `Spec => []NobodyForgotten` |
| `Implementation` | `Spec => ImplementsDoorbell` |

The argument. `NoBorrowedInterrupt` speaks of callers that have an exit and so
is not inductive: whether the exit they get is theirs was decided when they
joined. `IndInv` adds what holds before: whoever is joined to an execution that
is being stopped was there when it was struck (`JoinedBeforeStruck`), and an
interrupted exit has an interrupt or a shutdown behind it
(`InterruptedHasCause`). `Serialized` says that the execution that settles is
the entry of the Map, so the joiners it resolves are the ones the first part
speaks of. There is one lemma per group of actions (callers, starts, bell,
fiber, settlement); the refinement has one per group too, over the same
invariant.

`BackgroundJobProofs` proves, for every set of jobs, every budget and any number
of interruptions and deaths, from `JobAssumption` (child Sessions are jobs, the
value that stands for `undefined` is none of the others, bounds are natural
numbers):

| Theorem | Says |
|---|---|
| `TypeCorrect` | `Spec => []TypeOK`, the bound on recoveries included |
| `NothingUnreported` | `Spec => []ReportSurvives` |
| `ReportedAtMostOnce` | `Spec => []ReportedOnce` |
| `TrueNotices` | `Spec => []NoticeIsTrue` |

The argument. A property of the notice is decided long before the notice is
written, so `IndInv` says, for each job, what the four places that know of it
agree on: `RowIsTrue` (the row says "running" only of work that has not settled,
or that an interruption alone settled, and else how it settled; and whose row says
so has had no notice but the two exceptions of `NoticeIsTrue`), `CallInv` (what the row, the notice and the observer
are at each stage of the tool call; in particular nothing is durable before the
job is in the background), and `SweepInv` (a job the sweep has listed or is busy
with has no process-local record, no observer and no live tool call, and its row
is still the one that was listed). The last is what makes it safe that the sweep
works from a list it read once. There is one lemma per action.

`SessionStepProofs` proves, for every set of tool calls, every number of attempts
the policy allows and any number of interrupts and deaths, from `StepAssumption`
(the value that stands for `undefined` is no call, the policy allows a first
attempt, the bound on interrupts and deaths is a natural number):

| Theorem | Says |
|---|---|
| `TypeCorrect` | `Spec => []TypeOK`, the bound on attempts included |
| `CallsSettleOnce` | `Spec => []SettledOnce` |
| `StepsCloseLast` | `Spec => []EveryCallSettledFirst` |
| `RetriesAreClean` | `Spec => []AgainIsClean` |

The argument. A call is known to three parties with no lock between them: the
publisher's record, the fiber that executes it, and the log. `CallInv` says what
they agree on: a call is open in the log until its record is settled, and a
settled one has ended there or has a fiber in the middle of its publication, so
whoever finds it unsettled is the first to end it. That gives `SettledOnce`. For
`EveryCallSettledFirst` it has to be shown that the settlement's three ways of
choosing what to fail leave nothing behind (`NothingLeft`): a local call without
an outcome at that point was declined, had a defect, or was cut off by an
interrupt, and each of these makes the settlement fail every call. `MessageInv`
and `PlaceInv` carry what that needs from the stream to the settlement: a called
tool without a fiber has an interrupt behind it, and an interrupted stream an
interrupted join. `StepInv` says that a step is closed once and quiet from then
on, and what an attempt that starts over may have left. There is one lemma per
action; the types are shown first, as the rest needs them on both sides of a step.

`SessionInboxProofs` proves, for every set of items, every finite set of requests
in flight and any number of admissions and interruptions, from `InboxAssumption`
(the value that stands for `undefined` is none of the others, no request is called
"runner", bounds are natural numbers):

| Theorem | Says |
|---|---|
| `TypeCorrect` | `Spec => []TypeOK` |
| `NothingIsDeliveredTwice` | `Spec => []DeliveredOnce` |
| `CompactionsAreShared` | `Spec => []OneCompaction` |
| `AdmissionsAreKept` | `Spec => []AdmittedIsKept` |
| `RunnerLives` | `Spec => []RunnerNeverDies` |
| `ControlsGoFirst` | `Spec => SteersRespectControls` |
| `QueueKeepsItsOrder` | `Spec => QueueInOrder` |

The argument. What a fiber has read stays true while the fiber holds the lock, and
the proof says what exactly that is. `ServedInv`: a request for a control holds the
lock until it is answered, and if it is to be admitted as a compaction none is
pending. `BatchInv`: the rows a promotion has read are there, with the numbers,
types and deliveries it read; a queued batch is ahead of all that is queued now,
although prompts are admitted without the lock, and a steering batch is ahead of
every control that should go before. That gives the two action properties, and
that the promotion never misses a row. `RowsApart` says that rows have numbers of
their own and no message; whoever publishes an item whose message exists is
refused, so nothing is delivered twice. `Room` counts the requests in flight
(`FiniteSetTheorems`), for the bound on numbers only.

`PermissionProofs` proves, for every finite set of requests and any Sessions,
actions, repliers and disturbances, from `PermissionAssumption` (the functions have
their types, the value that stands for `undefined` is none of the others):

| Theorem | Says |
|---|---|
| `TypeCorrect` | `Spec => []TypeOK` |
| `WaitsAreListed` | `Spec => []NobodyStranded` |
| `GrantsAreBacked` | `Spec => []GrantIsBacked` |
| `AnswersAreTold` | `Spec => []AnswersAreAnnounced` |

The argument. Requests are related only through the loops of replies, so `IndInv`
is a conjunction over requests and over replies. `RequestInv` and `AnswerInv` say
what must be behind each outcome, and that a request some rule allows is among those
`covered`, which is what `Evaluate` and the loop after an "always" rely on; `ReplyInv` says what each stage of a reply has
already announced and saved, so that the settlement which follows has it behind it
whatever happened during the publication. `WaitInv` is about shutting down: a call
that waits is in the Map, and after the close began it is in the snapshot the close
works through, unless a failing listener has ended that close.

`SessionExecutionProofs` proves, for every set of execution objects and callers,
every budget and any number of restarts, with requests served during the sweep or
not, from `ExecutionAssumption` (the value that stands for `undefined` is none of
the others, bounds are natural numbers):

| Theorem | Says |
|---|---|
| `TypeCorrect` | `Spec => []TypeOK` |
| `TurnsKeepTheirClaim` | `Spec => []UnfinishedTurnKeepsClaim` |
| `TurnsReleaseTheirClaim` | `Spec => []FinishedTurnIsReleased` |
| `ResumesAreBounded` | `Spec => []RecoveryIsBounded` |
| `CoordinatorKeepsItsPromises` | the coordinator inside satisfies `Serialized`, `NobodyForgotten` and `NoBorrowedInterrupt` |
| `WakesSurviveTheComposition` | `Spec => [][RingsOrRestarts]_vars`: every step but a restart is a step or a stutter of `Doorbell` |

The argument. Every step of the composition is a step of the coordinator, a stutter
of it, or a restart, which puts it back in its initial state. So the coordinator's
inductive invariant holds inside (`RCP!IndInv`, used through the instance and not
proved again), and with it its safety theorems, for callers that now include the
sweep. The refinement of `Doorbell` carries over in the same way, step by step, up
to restarts, which forget what was rung. `ClaimFollowsTurn` drops from the two claims what executes at the moment:
an open turn is claimed, a finished one is not, in every state. For the bound,
`CountsAreBounded` and `ResumesAreCounted` relate resumptions to what the database
has counted at each place of the sweep; `Slack` is the one resumption that may go
uncounted because a request, served during the sweep, released the count in between;
`Quiet` says that there is no such request when none is served.

`ScheduleProofs` proves, for every set of processes, every kind of schedule, any
number of slots, strikes and disturbances, from `ScheduleAssumption` (the values
that stand for `undefined` and for a dead owner are none of the others, a schedule
has a slot and is allowed a failure):

| Theorem | Says |
|---|---|
| `TypeCorrect` | `Spec => []TypeOK` |
| `SlotsFireOnce` | `Spec => []OneFiringPerSlot` |
| `MessagesAreNew` | `Spec => []NewMessageEachTime` |

The argument. A firing is computed from a copy of the row, so the proof relates four
things: the row, each process's copy, the messages, and the lease. `Exclusive` says
that whoever is in a turn of its loop holds the lease, so there is one copy that
matters; `Shares` that users and clocks only move the row forward while that copy
is fired; `Past` that the messages of the runs a row or a copy has counted are for
earlier slots than the one it is due for, and that at most one message is ahead of
it, for no later slot. That is why the leader that fires again after a crash uses
the same ID and the prompt is not repeated. `Ordered`, that later runs prompt for
later slots, is then inductive and gives `OneFiringPerSlot`. All this holds until
one of its two exceptions is met (`Clean`); `RowInv` and `CopyInv` hold always, and
`CutInv` until a firing is cut off. The attempt
found the second of them (section 6), and a copy that lingered when a claim failed.

Every inductive invariant was checked by TLC, as an invariant of the component's
run, before it was proved.

Model-checked only: the liveness properties (`WakeAnswered`, `InterruptSettles`,
`JoinersReturn`, `OrphanRecovered`, `SteersLeave`, `RefusalEndsWaits`,
`NotifiedInTheEnd`, `CallsGetResults`, `DueIsServed`), which need fairness and so
`ENABLED`. Every other property of a passing run is stated by a theorem.

## 6. What the code does that its documentation does not say

* `execution_declined`. When the user declines a tool call the runner interrupts
  its own drain. Nobody called `interrupt`, so `session/execution.ts:49` takes
  the exit for a shutdown and keeps the claim, although the comment at
  `session/execution.ts:127` says that deliberate stops release it. The next boot
  resumes the turn the user stopped.
* `execution_exhausted`. The sweep lists suspended Sessions once
  (`session/execution/restart.ts:248`). A Session that a request starts
  afterwards, with its budget used up, is recorded as failed and loses its claim
  while it runs (`restart.ts:86`).
* `inbox_retry`. A retry that finds neither row nor message, and whose
  publication is refused because the first admission won, looks for the row only
  (`session/inbox.ts:215`). If the item was delivered meanwhile the client is
  told of a conflict, against `src/specs/v2/session.md:9`.
* `jobs_stopped`. Work moved to the background gets its observer from the tool
  call that was waiting for it (`tool/plugin/shell.ts:257`). If the Session is
  interrupted in between, nobody delivers the notice before the next boot,
  although the model was told to wait for it (`session.ts:519`).
* `schedule_asleep`. A process started again within a minute of a crash finds the
  dead one's lease still fresh and sets `bootChecked` (`schedule.ts:582`). When no
  schedule is active, as after a one-shot has fired, it never tries for the lease
  again (`schedule.ts:575`), so `rewake` does not run and the prompt admitted
  before the crash waits for somebody else to wake its Session, against the
  comment at `schedule.ts:507`.

Observations without a run of their own:

* A child whose budget is used up is given up in three steps: its count is reset
  with the terminal event (`restart.ts:85`), the notice is admitted, the row is
  removed. A process that dies before the third leaves a row that says "running"
  and a fresh budget, so the next boot restarts a child whose parent may already
  have been told that it failed. `NoticeIsTrue` makes the exception (`ToldGivenUp`);
  without it TLC shows the execution.
* A child whose user declines one of its tool calls interrupts its own drain. Its
  job settles as cancelled in the map, but not in its row (`job.ts:285`), and its
  claim stays (`execution_declined`). The observer tells the parent that the child
  was cancelled; when the process dies before the row is removed, the next boot
  restarts the child from the row, it may complete, and the parent keeps the first
  notice. `NoticeIsTrue` makes the exception (`ToldDeclined`); without it TLC shows
  the execution.
* An interrupt that lands while a failed attempt waits for its tools, compacts or
  asks the retry policy skips the settlement (`session/runner/step.ts:160`, `:202`):
  its calls are left to the next drain, and the step never gets a closing event.
  `CallsGetResults` makes the exception.
* The election of a schedule's leader has no fence. A leader that was suspended
  for longer than its lease goes on with the copy of the row it read, and its late
  write can move the schedule back to a slot that has fired under another number:
  that slot then fires twice, although `schedule.ts:78` promises otherwise.
  `OneFiringPerSlot` makes the exception; without it TLC shows the execution.
* A firing cut off by a death between its prompt and its record, and followed by a
  pause and a resumption, or by a check that now has nothing to report, leaves a
  message ID that the next firing reuses: that firing is swallowed.
  `NewMessageEachTime` makes the exception.
* The other way round, the notice that pauses a schedule can be the one that is
  swallowed. A leader dies between a prompt and its record; for the next leader
  the check of the same run fails once too often, so it pauses the schedule under
  that run's ID, which the prompt has; the row keeps its due time, and when the
  user resumes the schedule the slot is prompted again. This takes one disturbance
  more than the run of TLC allows and was found when the proof of
  `OneFiringPerSlot` did not go through; TLC shows it with three.
  `OneFiringPerSlot` makes the exception (`"paused" \in reused`).
* `src/specs/v2/session.md:84` speaks of at most four retries of a step; the
  policy in `src/packages/core/src` allows ten (`model-retry.ts`). `SessionStep`
  takes the number as a parameter.

## 7. Not modelled

Inside the modelled components: the coordinator keeps nothing that relates two
keys, so one key is modelled. Permission: the defect raised by a duplicate
request ID; a Session removed while its request is evaluated; requests about several
resources, of which each is an action here; that an evaluation reads the
configuration, the saved rules and the plugin one after the other (here in one step,
which is why `GrantIsBacked` asks for a rule that stood at some moment and not for
the ruling as a whole); and the calls made under an Unattended ruleset
(`schedule/check.ts`), which never ask: that ruleset settles them, they enter
neither the Map nor a reply, and no call modelled here is one of them.
Jobs: `cancelSession`, the eviction of completed history, the reuse of an ID by a
later generation, and the other kinds of background work (images), which follow
the shell. Tool calls are assumed to start after the sweep has read the job
table: the sweep is forked while requests are served
(`src/packages/server/src/process.ts:249`) and reads the table in its first
steps, while a tool call needs a model's answer first. Moves: the copying of
files.

Steps: deltas and their timers, tool progress, the finish reason "length", titles,
automatic compaction after a step, the step limit, defects of the stream, and the
steps of a drain after the first. Schedules: `create` is the initial state, with
its validation and seeding left out; parsing of times, calendars and zones; the
evaluation of a check, which is its outcome here; several schedules due at once,
which share nothing but the lease; `last_outcome` and the other columns shown to
users only.

Other components: the event bus, forms, reverts and the removal of a Session, and
the eviction of idle Locations have state worth modelling and are the first
candidates for an extension. For the rest, which `PROJECT.json` lists with the
reason, they are I/O around external programs (version control, language servers, terminals, MCP, OAuth),
data without concurrency (configuration, model catalogues, prompts, history
projection, compaction's choice of content), user interfaces, generated clients,
hosted services and packaging.

`PROJECT.json` also lists the hazards of the code at their lines, those no
property covers yet with the reason.

## 8. Plan

The modules above are complete for what section 7 leaves in, and every safety
property of the passing runs is a theorem. What could be proved next:

1. That a Session's execution, restarts included, implements what a client relies
   on: an abstract specification of a turn (asked for, open, ended) which a crash
   may only prolong, refined by `SessionExecution` under `ClaimFollowsTurn`.
2. The safety halves of the liveness properties that have one, such as that a debt
   of `NotifiedInTheEnd` is never dropped.

Then, should the project grow: `SessionRevert` (stage, clear and commit against
prompts that read the Session before they prepare, and against wakes), the event
bus (commit, notification and replay to a subscriber that follows), forms, the
removal of a Session, and the idle sweep of Locations.
