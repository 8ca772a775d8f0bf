---------------------------- MODULE SessionInbox ----------------------------
(***************************************************************************)
(* session/inbox.ts for one Session: clients admit items and change their  *)
(* delivery, the Session's runner promotes them into visible messages.     *)
(* A publication is one transaction with its projections, hence one step;  *)
(* a read is a step of its own.  Prompts are admitted without the inbox    *)
(* lock, everything else runs under it.                                    *)
(***************************************************************************)
EXTENDS FiniteSets, Naturals

CONSTANTS
  Item,       \* inbox item IDs, which are message IDs once delivered
  Requester,  \* fibers that serve the clients' requests
  None,
  MaxSeq,     \* bound: the number of admissions explored
  MaxStops    \* bound: the number of interruptions and restarts explored

Prompts    == {"user", "synthetic"}
Controls   == {"compaction", "move"}
Types      == Prompts \union Controls
Deliveries == {"steer", "queue"}

(* seq is never used up by a change of delivery: an item keeps its place.  *)
Row == [type : Types, delivery : Deliveries, seq : 1..MaxSeq]

ASSUME InboxAssumption ==
  /\ None \notin Types \union Deliveries \union Requester \union Row
  /\ "runner" \notin Requester \union {None}
  /\ "conflict" \notin Types
  /\ IsFiniteSet(Requester)
  /\ MaxSeq \in Nat
  /\ MaxStops \in Nat

VARIABLES
  pending,  \* [Item -> row or None]: the inbox table
  message,  \* [Item -> the type of the delivered message, or None]
  next,     \* the sequence number of the next admission
  lock,     \* who holds the Session's inbox lock
  request,  \* [Requester -> record]: where each admission is
  runner,   \* where the runner is in a promotion
  removed,  \* history: items cancelled, and controls handed to the runner
  stops     \* how many interruptions and restarts so far

tables == <<pending, message, next>>
vars   == <<tables, lock, request, runner, removed, stops>>

(* finding and checking: reconcile is about to look for the row, for the   *)
(* message.  admitting: nothing was there, about to publish.  conflicted:  *)
(* the projection refused it.                                              *)
RequestRecord ==
  [at : {"away", "finding", "checking", "admitting", "conflicted", "answered"},
   id : Item \union {None}, type : Types \union {None},
   delivery : Deliveries \union {None}, answer : Types \union {"conflict", None}]

(* batch: the rows read and not yet published; queued: the batch is the one*)
(* queued item, and the steers that arrived with it are to follow.         *)
RunnerRecord ==
  [at : {"idle", "promoting", "following", "died"},
   batch : SUBSET [id : Item, seq : 1..MaxSeq], queued : BOOLEAN]

TypeOK ==
  /\ pending \in [Item -> Row \union {None}]
  /\ message \in [Item -> Prompts \union {None}]
  /\ next \in 1..(MaxSeq + 1)
  /\ lock \in Requester \union {"runner", None}
  /\ request \in [Requester -> RequestRecord]
  /\ runner \in RunnerRecord
  /\ removed \subseteq Item
  /\ stops \in 0..MaxStops

Away == [at |-> "away", id |-> None, type |-> None, delivery |-> None, answer |-> None]
Idle == [at |-> "idle", batch |-> {}, queued |-> FALSE]

Init ==
  /\ pending = [i \in Item |-> None]
  /\ message = [i \in Item |-> None]
  /\ next = 1
  /\ lock = None
  /\ request = [r \in Requester |-> Away]
  /\ runner = Idle
  /\ removed = {}
  /\ stops = 0

-----------------------------------------------------------------------------
(* What the inbox holds.                                                   *)

Rows     == {i \in Item : pending[i] # None}
Steers   == {i \in Rows : pending[i].delivery = "steer"}
Queued   == {i \in Rows : pending[i].delivery = "queue"}
ControlsIn(S) == {i \in S : pending[i].type \in Controls}

Earliest(S) == CHOOSE i \in S : \A j \in S : pending[i].seq <= pending[j].seq

(* The first of pendingSteers: a compaction goes before earlier prompts,   *)
(* unless a move comes before it.                                          *)
NextSteer ==
  LET controls == ControlsIn(Steers)
  IN IF controls # {} /\ pending[Earliest(controls)].type = "compaction"
     THEN Earliest(controls)
     ELSE Earliest(Steers)

SteerIsControl == pending[NextSteer].type \in Controls

Unpublished(S) == {[id |-> i, seq |-> pending[i].seq] : i \in S}

(* Mutation: the control ahead of the steers is not looked for.            *)
AllSteers == Unpublished(Steers)

(* beforeControl of pendingSteers.                                         *)
BeforeControl ==
  IF Steers = {} \/ (Steers # {} /\ SteerIsControl) THEN {}
  ELSE Unpublished({i \in Steers :
         \A c \in ControlsIn(Steers) : pending[i].seq < pending[c].seq})

-----------------------------------------------------------------------------
(* Admission.                                                              *)

Asked(r, id, type, delivery) ==
  request' = [request EXCEPT ![r] = [at |-> "finding", id |-> id, type |-> type,
                                     delivery |-> delivery, answer |-> None]]

Goto(r, at) == request' = [request EXCEPT ![r].at = at]

Answer(r, answer) ==
  /\ request' = [request EXCEPT ![r] = [@ EXCEPT !.at = "answered", !.answer = answer]]
  /\ lock' = IF lock = r THEN None ELSE lock

InFlight == {r \in Requester : request[r].at \notin {"away", "answered"}}
RoomLeft == next + Cardinality(InFlight) <= MaxSeq

(* Requests are served by fibers that are all alike.                       *)
Accepts(r) ==
  /\ RoomLeft
  /\ InFlight # Requester /\ r = CHOOSE q \in Requester : q \notin InFlight

(* A move's ID is made by the server: no client knows it before admission. *)
Moving == {request[r].id : r \in {q \in InFlight : request[q].type = "move"}}

(* Bound: of the IDs never seen, which are all alike, one is tried.        *)
Seen ==
  {i \in Item : pending[i] # None \/ message[i] # None \/ i \in removed
                \/ \E r \in Requester : request[r].id = i}

Tried == Seen \union (IF Seen = Item THEN {} ELSE {CHOOSE i \in Item : i \notin Seen})

(* prompt and synthetic; a retry is a request with the same ID.            *)
Ask(r) ==
  /\ Accepts(r)
  /\ \E id \in Tried \ Moving, type \in Prompts, delivery \in Deliveries :
       Asked(r, id, type, delivery)
  /\ UNCHANGED <<tables, lock, runner, removed, stops>>

(* Mutation: looks for a pending compaction before it takes the lock.      *)
AskCompactionUnlocked(r) ==
  /\ Accepts(r)
  /\ \E id \in Tried \ Moving, delivery \in Deliveries :
       /\ pending[id] = None /\ message[id] = None /\ ControlsIn(Rows) = {}
       /\ Asked(r, id, "compaction", delivery)
  /\ UNCHANGED <<tables, lock, runner, removed, stops>>

(* admitCompaction: one pending compaction answers for every request.      *)
AskCompaction(r) ==
  /\ Accepts(r)
  /\ lock = None
  /\ \E id \in Tried \ Moving, delivery \in Deliveries :
       LET answered(answer) ==
             /\ request' = [request EXCEPT ![r] =
                  [at |-> "answered", id |-> id, type |-> "compaction",
                   delivery |-> delivery, answer |-> answer]]
             /\ UNCHANGED lock
       IN CASE pending[id] # None ->
                 answered(IF pending[id].type = "compaction" THEN "compaction" ELSE "conflict")
            [] pending[id] = None /\ message[id] # None ->
                 answered("conflict")
            [] pending[id] = None /\ message[id] = None
               /\ (\E i \in Rows : pending[i].type = "compaction") ->
                 answered("compaction")
            [] OTHER ->
                 Asked(r, id, "compaction", delivery) /\ lock' = r
  /\ UNCHANGED <<tables, runner, removed, stops>>

(* SessionMove.move: admits a control of a fresh ID under the lock...      *)
AskMove(r) ==
  /\ Accepts(r)
  /\ lock = None
  /\ \E id \in Tried, delivery \in Deliveries :
       /\ pending[id] = None
       /\ message[id] = None
       /\ \A q \in InFlight : request[q].id # id
       /\ Asked(r, id, "move", delivery)
  /\ lock' = r
  /\ UNCHANGED <<tables, runner, removed, stops>>

(* ... or, when nobody runs the Session where it is, moves it at once and  *)
(* cancels the moves still pending.                                        *)
MoveAtOnce ==
  /\ lock = None
  /\ runner.at = "idle"
  /\ LET moves == {i \in Rows : pending[i].type = "move"}
     IN /\ moves # {}
        /\ pending' = [i \in Item |-> IF i \in moves THEN None ELSE pending[i]]
        /\ removed' = removed \union moves
  /\ UNCHANGED <<message, next, lock, request, runner, stops>>

(* What reconcile makes of what it found.                                  *)
Reconciled(r, found) ==
  Answer(r, IF found # "compaction" /\ found = request[r].type THEN found ELSE "conflict")

Find(r) ==
  /\ request[r].at = "finding"
  /\ IF pending[request[r].id] = None
     THEN Goto(r, "checking") /\ UNCHANGED lock
     ELSE Reconciled(r, pending[request[r].id].type)
  /\ UNCHANGED <<tables, runner, removed, stops>>

(* promotedFromMessage.                                                    *)
Check(r) ==
  /\ request[r].at = "checking"
  /\ IF message[request[r].id] = None
     THEN Goto(r, "admitting") /\ UNCHANGED lock
     ELSE Reconciled(r, message[request[r].id])
  /\ UNCHANGED <<tables, runner, removed, stops>>

(* Mutation: the projection looks at the inbox only.                       *)
RefusedByRow(id) == pending[id] # None

(* projectAdmitted.                                                        *)
Refused(id) == message[id] # None \/ pending[id] # None

Enqueue(r) ==
  /\ request[r].at = "admitting"
  /\ IF Refused(request[r].id)
     THEN Goto(r, "conflicted") /\ UNCHANGED <<tables, lock>>
     ELSE /\ pending' = [pending EXCEPT ![request[r].id] =
                           [type |-> request[r].type, delivery |-> request[r].delivery,
                            seq |-> next]]
          /\ next' = next + 1
          /\ Answer(r, request[r].type)
          /\ UNCHANGED message
  /\ UNCHANGED <<runner, removed, stops>>

(* The refused publication looks for the row that won.                     *)
Reread(r) ==
  /\ request[r].at = "conflicted"
  /\ Answer(r, IF pending[request[r].id] = None THEN "conflict"
               ELSE IF pending[request[r].id].type = request[r].type
                    THEN request[r].type ELSE "conflict")
  /\ UNCHANGED <<tables, runner, removed, stops>>

-----------------------------------------------------------------------------
(* cancel, steer and queue: one publication each, under the lock.          *)

(* Mutation: cancelling does not take the lock.                            *)
CancelUnlocked(i) ==
  /\ pending[i] # None
  /\ pending' = [pending EXCEPT ![i] = None]
  /\ removed' = removed \union {i}
  /\ UNCHANGED <<message, next, lock, request, runner, stops>>

Cancel(i) ==
  /\ lock = None
  /\ pending[i] # None
  /\ pending' = [pending EXCEPT ![i] = None]
  /\ removed' = removed \union {i}
  /\ UNCHANGED <<message, next, lock, request, runner, stops>>

(* Mutation: a change of delivery does not take the lock.                  *)
ChangeDeliveryUnlocked(i) ==
  /\ pending[i] # None
  /\ pending' = [pending EXCEPT ![i].delivery = IF @ = "steer" THEN "queue" ELSE "steer"]
  /\ UNCHANGED <<message, next, lock, request, runner, removed, stops>>

ChangeDelivery(i) ==
  /\ lock = None
  /\ pending[i] # None
  /\ pending' = [pending EXCEPT ![i].delivery = IF @ = "steer" THEN "queue" ELSE "steer"]
  /\ UNCHANGED <<message, next, lock, request, runner, removed, stops>>

-----------------------------------------------------------------------------
(* The runner, between two steps: it takes a control itself (the boundary  *)
(* of llm.ts), or promotes prompts.  At an entry or an idle boundary it    *)
(* looks at queued items, otherwise at steers only.                        *)

TakeControl(input) ==
  /\ runner.at = "idle"
  /\ lock = None
  /\ Steers # {} \/ (input /\ Queued # {})
  /\ LET first == IF Steers # {} THEN NextSteer ELSE Earliest(Queued)
     IN /\ pending[first].type \in Controls
        /\ pending' = [pending EXCEPT ![first] = None]
        /\ removed' = removed \union {first}
  /\ UNCHANGED <<message, next, lock, request, runner, stops>>

(* Mutation: what a promotion takes leaves the inbox at once.              *)
PromoteSteersTakes ==
  /\ runner.at = "idle"
  /\ lock = None
  /\ BeforeControl # {}
  /\ runner' = [at |-> "promoting", batch |-> BeforeControl, queued |-> FALSE]
  /\ lock' = "runner"
  /\ pending' = [i \in Item |-> IF \E b \in BeforeControl : b.id = i THEN None ELSE pending[i]]
  /\ UNCHANGED <<message, next, request, removed, stops>>

PromoteSteers ==
  /\ runner.at = "idle"
  /\ lock = None
  /\ BeforeControl # {}
  /\ runner' = [at |-> "promoting", batch |-> BeforeControl, queued |-> FALSE]
  /\ lock' = "runner"
  /\ UNCHANGED <<tables, request, removed, stops>>

(* Mutation: any queued item will do.                                      *)
PromoteAnyQueued ==
  /\ runner.at = "idle"
  /\ lock = None
  /\ Steers = {}
  /\ \E i \in Queued \ ControlsIn(Queued) :
       runner' = [at |-> "promoting", batch |-> Unpublished({i}), queued |-> TRUE]
  /\ lock' = "runner"
  /\ UNCHANGED <<tables, request, removed, stops>>

PromoteQueued ==
  /\ runner.at = "idle"
  /\ lock = None
  /\ Steers = {}
  /\ Queued # {}
  /\ pending[Earliest(Queued)].type \notin Controls
  /\ runner' = [at |-> "promoting", batch |-> Unpublished({Earliest(Queued)}), queued |-> TRUE]
  /\ lock' = "runner"
  /\ UNCHANGED <<tables, request, removed, stops>>

(* InboxDelivered for the next row of the batch: the row goes, the message *)
(* appears.  A row that is gone must have been delivered.                  *)
Deliver ==
  /\ runner.at = "promoting"
  /\ \E b \in runner.batch :
       /\ \A c \in runner.batch : b.seq <= c.seq
       /\ LET left == runner.batch \ {b}
              rest == IF left # {} THEN [runner EXCEPT !.batch = left]
                      ELSE IF runner.queued THEN [Idle EXCEPT !.at = "following"]
                      ELSE Idle
          IN CASE pending[b.id] # None ->
                    /\ message' = [message EXCEPT ![b.id] = pending[b.id].type]
                    /\ pending' = [pending EXCEPT ![b.id] = None]
                    /\ runner' = rest
                    /\ lock' = IF rest = Idle THEN None ELSE lock
               [] pending[b.id] = None /\ message[b.id] # None ->
                    /\ runner' = rest
                    /\ lock' = IF rest = Idle THEN None ELSE lock
                    /\ UNCHANGED <<pending, message>>
               [] OTHER ->
                    /\ runner' = [Idle EXCEPT !.at = "died"]
                    /\ lock' = None
                    /\ UNCHANGED <<pending, message>>
  /\ UNCHANGED <<next, request, removed, stops>>

Follow ==
  /\ runner.at = "following"
  /\ IF BeforeControl = {}
     THEN runner' = Idle /\ lock' = None
     ELSE /\ runner' = [at |-> "promoting", batch |-> BeforeControl, queued |-> FALSE]
          /\ UNCHANGED lock
  /\ UNCHANGED <<tables, request, removed, stops>>

(* Mutation: an interrupted promotion leaves the lock behind.              *)
InterruptedLocked ==
  /\ stops < MaxStops
  /\ stops' = stops + 1
  /\ runner.at \in {"promoting", "following"}
  /\ runner' = Idle
  /\ UNCHANGED <<tables, lock, request, removed>>

(* The drain is interrupted between two publications.                      *)
Interrupted ==
  /\ stops < MaxStops
  /\ stops' = stops + 1
  /\ runner.at \in {"promoting", "following"}
  /\ runner' = Idle
  /\ lock' = None
  /\ UNCHANGED <<tables, request, removed>>

(* The process dies and comes back; clients retry what was not answered.   *)
Restart ==
  /\ stops < MaxStops
  /\ stops' = stops + 1
  /\ lock' = None
  /\ request' = [r \in Requester |-> Away]
  /\ runner' = Idle
  /\ UNCHANGED <<tables, removed>>

-----------------------------------------------------------------------------
Admitting(r) == Find(r) \/ Check(r) \/ Enqueue(r) \/ Reread(r)
Promoting    == Deliver \/ Follow
Boundary     == (\E input \in BOOLEAN : TakeControl(input)) \/ PromoteSteers \/ PromoteQueued

Next ==
  \/ \E r \in Requester :
       Ask(r) \/ AskCompaction(r) \/ AskMove(r) \/ Admitting(r)
  \/ \E i \in Item : Cancel(i) \/ ChangeDelivery(i)
  \/ MoveAtOnce
  \/ Boundary
  \/ Promoting
  \/ Interrupted
  \/ Restart

Spec == Init /\ [][Next]_vars

(* A request that was made is served; the runner comes back to its         *)
(* boundary, and the lock, a first come first served semaphore, lets it in.*)
Fairness ==
  /\ \A r \in Requester : WF_vars(Admitting(r))
  /\ WF_vars(Promoting)
  /\ SF_vars(Boundary)

FairSpec == Spec /\ Fairness

-----------------------------------------------------------------------------
(* An item is pending or delivered, never both: however retries race with  *)
(* delivery, no ID is admitted, hence delivered, a second time.            *)
DeliveredOnce == \A i \in Item : message[i] # None => pending[i] = None

(* Concurrent requests for a compaction end up sharing one.                *)
OneCompaction ==
  \A i, j \in Rows :
    pending[i].type = "compaction" /\ pending[j].type = "compaction" => i = j

(* An item whose client was told it is admitted is pending, or has become a*)
(* message, or was cancelled or handed to the runner as a control: no      *)
(* interruption or restart in the middle of a promotion loses it.          *)
AdmittedIsKept ==
  \A r \in Requester :
    request[r].at = "answered" /\ request[r].answer \in Prompts
      => LET i == request[r].id
         IN pending[i] # None \/ message[i] # None \/ i \in removed

(* A promotion never finds that a row it has read was taken away meanwhile,*)
(* which would kill the drain.                                             *)
RunnerNeverDies == runner.at # "died"

Delivers(i) == message[i] = None /\ message'[i] # None

(* A steer becomes a message only when no control should have gone first:  *)
(* not across an earlier move, and not before a compaction that no move    *)
(* holds back, whatever arrives or changes delivery during the promotion.  *)
SteersRespectControls ==
  [][\A i \in Item :
       Delivers(i) /\ pending[i].delivery = "steer" =>
         LET controls == ControlsIn(Steers)
         IN controls # {} =>
              /\ pending[Earliest(controls)].type = "move"
              /\ pending[i].seq < pending[Earliest(controls)].seq]_vars

(* Queued items become messages in the order they were admitted.           *)
QueueInOrder ==
  [][\A i \in Item :
       Delivers(i) /\ pending[i].delivery = "queue" =>
         \A j \in Queued : pending[i].seq <= pending[j].seq]_vars

(* A steer does not stay: it is delivered, cancelled, queued or handed over*)
(* in the end, as long as the runner goes on and admissions do not go on   *)
(* for ever.                                                               *)
SteersLeave == []<>(Steers = {})

(* Reusing a user or synthetic ID is idempotent when the type matches: a   *)
(* retry of what has been delivered is not a conflict.                     *)
RetryIsIdempotent ==
  \A r \in Requester :
    request[r].at = "answered" /\ request[r].type \in Prompts
    /\ request[r].answer = "conflict"
      => message[request[r].id] # request[r].type
=============================================================================
