------------------------- MODULE SessionInboxProofs -------------------------
(***************************************************************************)
(* Proofs about SessionInbox, for any set of items, any finite set of      *)
(* requests at a time, and any number of admissions and interruptions.     *)
(***************************************************************************)
EXTENDS SessionInbox, FiniteSetTheorems, WellFoundedInduction, TLAPS

(* The admissions to come have their numbers.                              *)
Room == next + Cardinality(InFlight) <= MaxSeq + 1

(* The rows have numbers of their own, all of them used up, and no message.*)
RowsApart ==
  \A i \in Rows :
    /\ message[i] = None
    /\ pending[i].seq < next
    /\ \A j \in Rows : pending[j].seq = pending[i].seq => j = i

(* A request for a control holds the lock until it is answered, and its    *)
(* reading that no compaction is pending stays true.                       *)
ServedInv ==
  \A r \in InFlight :
    /\ request[r].id \in Item
    /\ request[r].type \in Types
    /\ request[r].delivery \in Deliveries
    /\ request[r].type \in Controls => lock = r
    /\ request[r].type = "compaction" => \A i \in Rows : pending[i].type # "compaction"

AskedIsItem ==
  \A r \in Requester : request[r].at # "away" => request[r].id \in Item

(* What the runner read when it took the lock is still so for the rows of  *)
(* its batch, and for the controls that may hold them back.                *)
BatchInv ==
  /\ \A b \in runner.batch :
       /\ b.id \in Rows
       /\ pending[b.id].seq = b.seq
       /\ pending[b.id].type \in Prompts
       /\ pending[b.id].delivery = IF runner.queued THEN "queue" ELSE "steer"
  /\ IF runner.queued
     THEN \A b \in runner.batch, i \in Queued : b.seq <= pending[i].seq
     ELSE \A c \in ControlsIn(Steers) :
            /\ \A b \in runner.batch : b.seq < pending[c].seq
            /\ (\A d \in ControlsIn(Steers) : pending[c].seq <= pending[d].seq)
                 => pending[c].type = "move"

RunnerInv ==
  /\ runner.at # "died"
  /\ runner.at \in {"promoting", "following"} => lock = "runner"
  /\ runner.at = "promoting" => BatchInv

IndInv ==
  /\ TypeOK
  /\ Room
  /\ RowsApart
  /\ OneCompaction
  /\ ServedInv
  /\ AskedIsItem
  /\ AdmittedIsKept
  /\ RunnerInv

-----------------------------------------------------------------------------
(* What the operators return.                                              *)

LEMMA RowIs ==
  ASSUME TypeOK, NEW i \in Rows
  PROVE  /\ i \in Item /\ pending[i] \in Row /\ pending[i] # None
         /\ pending[i].type \in Types
         /\ pending[i].delivery \in Deliveries
         /\ pending[i].seq \in Nat /\ pending[i].seq \in 1..MaxSeq
BY InboxAssumption DEF TypeOK, Rows, Row

(* Of some rows one is the earliest.                                       *)
LEMMA EarliestIs ==
  ASSUME TypeOK, NEW S, S \subseteq Rows, S # {}
  PROVE  /\ Earliest(S) \in S
         /\ \A j \in S : pending[Earliest(S)].seq <= pending[j].seq
<1> DEFINE seqs == {pending[i].seq : i \in S}
           less == OpToRel(<, Nat)
<1>1. seqs \subseteq Nat /\ seqs # {}
  BY RowIs
<1>2. IsWellFoundedOn(less, Nat)
  BY NatLessThanWellFounded
<1>3. PICK least \in seqs : \A n \in seqs : ~ (<<n, least>> \in less)
  <2> HIDE DEF seqs, less
  <2> QED
    BY <1>1, <1>2, WFMin
<1>4. ASSUME NEW n \in seqs PROVE least <= n
  <2>1. n \in Nat /\ least \in Nat
    BY <1>1
  <2>2. n < least => <<n, least>> \in less
    BY <2>1 DEF OpToRel
  <2> HIDE DEF less
  <2> QED
    BY <1>3, <2>1, <2>2
<1>5. PICK i \in S : pending[i].seq = least
  OBVIOUS
<1>6. \E e \in S : \A j \in S : pending[e].seq <= pending[j].seq
  BY <1>4, <1>5
<1> QED
  BY <1>6 DEF Earliest

(* What a promotion of steers takes: prompts, and none that a control      *)
(* should go before.                                                       *)
LEMMA BeforeControlIs ==
  ASSUME TypeOK, RowsApart, BeforeControl # {}
  PROVE  /\ BeforeControl \in SUBSET [id : Item, seq : 1..MaxSeq]
         /\ \A b \in BeforeControl :
              /\ b.id \in Rows
              /\ pending[b.id].seq = b.seq
              /\ pending[b.id].type \in Prompts
              /\ pending[b.id].delivery = "steer"
         /\ \A c \in ControlsIn(Steers) :
              /\ \A b \in BeforeControl : b.seq < pending[c].seq
              /\ (\A d \in ControlsIn(Steers) : pending[c].seq <= pending[d].seq)
                   => pending[c].type = "move"
<1> DEFINE controls == ControlsIn(Steers)
<1>1. controls \subseteq Steers /\ Steers \subseteq Rows
  BY DEF ControlsIn, Steers
<1>2. /\ Steers # {} /\ ~SteerIsControl
      /\ BeforeControl = Unpublished({i \in Steers :
            \A c \in controls : pending[i].seq < pending[c].seq})
  BY DEF BeforeControl
<1>3. \A b \in BeforeControl :
        /\ b.id \in Steers /\ b.seq = pending[b.id].seq
        /\ b = [id |-> b.id, seq |-> pending[b.id].seq]
        /\ \A c \in controls : pending[b.id].seq < pending[c].seq
  BY <1>2 DEF Unpublished
<1>4. ASSUME NEW b \in BeforeControl
      PROVE  /\ b \in [id : Item, seq : 1..MaxSeq]
             /\ b.id \in Rows
             /\ pending[b.id].seq = b.seq
             /\ pending[b.id].type \in Prompts
             /\ pending[b.id].delivery = "steer"
  <2>1. b.id \in Rows /\ pending[b.id].delivery = "steer"
    BY <1>1, <1>3 DEF Steers
  <2>2. b.id \notin controls
    BY <1>3, <2>1, RowIs
  <2>3. pending[b.id].type \in Prompts
    BY <1>3, <2>1, <2>2, RowIs DEF ControlsIn, Types
  <2> QED
    BY <1>3, <2>1, <2>3, RowIs
<1>5. ASSUME NEW c \in controls, \A d \in controls : pending[c].seq <= pending[d].seq
      PROVE  pending[c].type = "move"
  <2>1. /\ Earliest(controls) \in controls
        /\ \A j \in controls : pending[Earliest(controls)].seq <= pending[j].seq
    BY <1>1, EarliestIs
  <2>2. pending[c].seq = pending[Earliest(controls)].seq
    BY <1>1, <1>5, <2>1, RowIs
  <2>3. c = Earliest(controls)
    BY <1>1, <2>1, <2>2 DEF RowsApart
  <2>4. pending[c].type # "compaction"
    BY <1>2, <2>1, <2>3 DEF SteerIsControl, NextSteer, Controls, ControlsIn
  <2> QED
    BY <2>4 DEF ControlsIn, Controls
<1> QED
  BY <1>3, <1>4, <1>5

LEMMA InFlightIsFinite ==
  ASSUME TypeOK
  PROVE  /\ IsFiniteSet(InFlight)
         /\ Cardinality(InFlight) \in Nat
         /\ MaxSeq \in Nat /\ next \in Nat
<1>1. InFlight \in SUBSET Requester
  BY DEF InFlight
<1>2. IsFiniteSet(InFlight)
  BY <1>1, FS_Subset, InboxAssumption
<1> QED
  BY <1>2, FS_CardinalityType, InboxAssumption DEF TypeOK

LEMMA AcceptsIs ==
  ASSUME NEW r \in Requester, Accepts(r)
  PROVE  r \notin InFlight
<1>1. InFlight # Requester /\ InFlight \subseteq Requester
  BY DEF Accepts, InFlight
<1>2. \E q \in Requester : q \notin InFlight
  BY <1>1
<1> QED
  BY <1>2 DEF Accepts

LEMMA AskedIs ==
  ASSUME TypeOK, NEW r \in Requester, NEW id \in Item, NEW type \in Types,
         NEW delivery \in Deliveries, Asked(r, id, type, delivery)
  PROVE  /\ request' \in [Requester -> RequestRecord]
         /\ InFlight' = InFlight \union {r}
         /\ \A q \in Requester \ {r} : request'[q] = request[q]
         /\ request'[r].at = "finding"
         /\ request'[r].id = id /\ request'[r].type = type /\ request'[r].delivery = delivery
<1> DEFINE new == [at |-> "finding", id |-> id, type |-> type,
                   delivery |-> delivery, answer |-> None]
<1>1. new \in RequestRecord /\ new.at = "finding"
  BY DEF RequestRecord
<1>2. request' = [request EXCEPT ![r] = new]
  BY DEF Asked
<1>3. request \in [Requester -> RequestRecord]
  BY DEF TypeOK
<1>4. /\ request' \in [Requester -> RequestRecord]
      /\ request'[r] = new
      /\ \A q \in Requester \ {r} : request'[q] = request[q]
  BY <1>1, <1>2, <1>3
<1>5. InFlight' = InFlight \union {r}
  BY <1>1, <1>4 DEF InFlight
<1> QED
  BY <1>4, <1>5

LEMMA GotoIs ==
  ASSUME TypeOK, NEW r \in InFlight, NEW at \in {"checking", "admitting", "conflicted"},
         Goto(r, at)
  PROVE  /\ request' \in [Requester -> RequestRecord]
         /\ InFlight' = InFlight
         /\ \A q \in Requester : /\ request'[q].id = request[q].id
                                 /\ request'[q].type = request[q].type
                                 /\ request'[q].delivery = request[q].delivery
         /\ \A q \in Requester \ {r} : request'[q] = request[q]
         /\ request'[r].at # "answered"
<1>1. request \in [Requester -> RequestRecord] /\ r \in Requester
  BY DEF TypeOK, InFlight
<1>2. request' = [request EXCEPT ![r] = [request[r] EXCEPT !.at = at]]
  BY DEF Goto
<1>3. /\ [request[r] EXCEPT !.at = at] \in RequestRecord
      /\ [request[r] EXCEPT !.at = at].at = at
      /\ [request[r] EXCEPT !.at = at].id = request[r].id
      /\ [request[r] EXCEPT !.at = at].type = request[r].type
      /\ [request[r] EXCEPT !.at = at].delivery = request[r].delivery
  BY <1>1 DEF RequestRecord
<1>4. /\ request' \in [Requester -> RequestRecord]
      /\ request'[r] = [request[r] EXCEPT !.at = at]
      /\ \A q \in Requester \ {r} : request'[q] = request[q]
  BY <1>1, <1>2, <1>3
<1>5. InFlight' = InFlight
  BY <1>1, <1>3, <1>4 DEF InFlight
<1> QED
  BY <1>3, <1>4, <1>5

LEMMA AnswerIs ==
  ASSUME TypeOK, NEW r \in InFlight, NEW answer \in Types \union {"conflict"},
         Answer(r, answer)
  PROVE  /\ request' \in [Requester -> RequestRecord]
         /\ InFlight' = InFlight \ {r}
         /\ \A q \in Requester \ {r} : request'[q] = request[q]
         /\ request'[r].answer = answer /\ request'[r].id = request[r].id
         /\ lock' \in Requester \union {"runner", None}
         /\ lock # r => lock' = lock
<1>1. request \in [Requester -> RequestRecord] /\ r \in Requester
  BY DEF TypeOK, InFlight
<1> DEFINE new == [request[r] EXCEPT !.at = "answered", !.answer = answer]
<1>2. request' = [request EXCEPT ![r] = new]
  BY DEF Answer
<1>3. new \in RequestRecord /\ new.at = "answered" /\ new.answer = answer /\ new.id = request[r].id
  BY <1>1 DEF RequestRecord
<1>4. /\ request' \in [Requester -> RequestRecord]
      /\ request'[r] = new
      /\ \A q \in Requester \ {r} : request'[q] = request[q]
  BY <1>1, <1>2, <1>3
<1>5. InFlight' = InFlight \ {r}
  BY <1>1, <1>3, <1>4 DEF InFlight
<1>6. /\ lock' \in Requester \union {"runner", None}
      /\ lock # r => lock' = lock
  BY DEF Answer, TypeOK
<1> QED
  BY <1>3, <1>4, <1>5, <1>6

LEMMA RoomIs ==
  ASSUME TypeOK, Room,
         \/ InFlight' = InFlight /\ next' = next
         \/ \E r \in Requester : /\ Accepts(r)
                                 /\ InFlight' = InFlight \union {r}
                                 /\ next' = next
         \/ \E r \in InFlight : InFlight' = InFlight \ {r} /\ next' \in {next, next + 1}
         \/ InFlight' = {} /\ next' = next
  PROVE  Room'
<1>1. CASE InFlight' = InFlight /\ next' = next
  BY <1>1 DEF Room
<1>2. ASSUME NEW r \in Requester, Accepts(r),
             InFlight' = InFlight \union {r}, next' = next
      PROVE  Room'
  <2>1. Cardinality(InFlight \union {r}) = Cardinality(InFlight) + 1
    BY <1>2, AcceptsIs, InFlightIsFinite, FS_AddElement
  <2> QED
    BY <1>2, <2>1, InFlightIsFinite DEF Room, Accepts, RoomLeft
<1>3. ASSUME NEW r \in InFlight, InFlight' = InFlight \ {r}, next' \in {next, next + 1}
      PROVE  Room'
  <2>1. Cardinality(InFlight \ {r}) = Cardinality(InFlight) - 1
    BY InFlightIsFinite, FS_RemoveElement
  <2> QED
    BY <1>3, <2>1, InFlightIsFinite DEF Room
<1>4. CASE InFlight' = {} /\ next' = next
  <2>1. Cardinality({}) = 0
    BY FS_EmptySet
  <2> QED
    BY <1>4, <2>1, InFlightIsFinite DEF Room
<1> QED
  BY <1>1, <1>2, <1>3, <1>4

(* A request in flight has its number.                                     *)
LEMMA InFlightHasRoom ==
  ASSUME TypeOK, Room, NEW r \in InFlight
  PROVE  next \in 1..MaxSeq
<1>1. Cardinality(InFlight) # 0
  BY InFlightIsFinite, FS_EmptySet
<1> QED
  BY <1>1, InFlightIsFinite DEF Room, TypeOK

LEMMA InitIndInv == Init => IndInv
<1> SUFFICES ASSUME Init PROVE IndInv
  OBVIOUS
<1>1. TypeOK
  <2>1. Away \in RequestRecord
    BY DEF Away, RequestRecord
  <2>2. Idle \in RunnerRecord
    BY DEF Idle, RunnerRecord
  <2>3. next \in 1..(MaxSeq + 1) /\ stops \in 0..MaxStops
    BY InboxAssumption DEF Init
  <2> QED
    BY <2>1, <2>2, <2>3 DEF Init, TypeOK
<1>2. Rows = {} /\ InFlight = {}
  BY DEF Init, Rows, InFlight, Away
<1>3. Room
  BY <1>2, FS_EmptySet, InboxAssumption DEF Init, Room
<1>4. RowsApart /\ OneCompaction /\ ServedInv
  BY <1>2 DEF RowsApart, OneCompaction, ServedInv
<1>5. AdmittedIsKept /\ RunnerInv
  BY DEF Init, Away, Idle, AdmittedIsKept, RunnerInv
<1>6. AskedIsItem
  BY DEF Init, Away, AskedIsItem
<1> QED
  BY <1>1, <1>3, <1>4, <1>5, <1>6 DEF IndInv

-----------------------------------------------------------------------------
(* Requests.                                                               *)

(* A step that touches neither the tables nor the runner.                  *)
LEMMA TablesStay ==
  ASSUME IndInv, UNCHANGED <<tables, runner>>, lock = "runner" => lock' = "runner"
  PROVE  /\ Rows' = Rows
         /\ RowsApart' /\ OneCompaction' /\ RunnerInv'
<1>1. UNCHANGED <<pending, message, next>>
  BY DEF tables
<1>2. /\ Rows' = Rows /\ Steers' = Steers /\ Queued' = Queued
      /\ ControlsIn(Steers)' = ControlsIn(Steers)
  BY <1>1 DEF Rows, Steers, Queued, ControlsIn
<1>3. RowsApart' /\ OneCompaction'
  BY <1>1, <1>2 DEF IndInv, RowsApart, OneCompaction
<1>4. BatchInv => BatchInv'
  BY <1>1, <1>2 DEF BatchInv
<1>5. RunnerInv'
  BY <1>4 DEF IndInv, RunnerInv
<1> QED
  BY <1>2, <1>3, <1>5

(* A request becomes a new one in flight.                                  *)
LEMMA NewRequest ==
  ASSUME IndInv, NEW r \in Requester, Accepts(r),
         NEW id \in Item, NEW type \in Types, NEW delivery \in Deliveries,
         Asked(r, id, type, delivery),
         UNCHANGED <<tables, runner, removed, stops>>,
         \/ lock' = lock /\ type \in Prompts
         \/ lock = None /\ lock' = r,
         type = "compaction" => \A i \in Rows : pending[i].type # "compaction"
  PROVE  IndInv'
<1>1. /\ request' \in [Requester -> RequestRecord]
      /\ InFlight' = InFlight \union {r}
      /\ \A q \in Requester \ {r} : request'[q] = request[q]
      /\ request'[r].at = "finding"
      /\ request'[r].id = id /\ request'[r].type = type /\ request'[r].delivery = delivery
  BY AskedIs DEF IndInv
<1>2. UNCHANGED <<pending, message, next>>
  BY DEF tables
<1>3. lock = "runner" => lock' = "runner"
  BY InboxAssumption
<1>4. Rows' = Rows /\ RowsApart' /\ OneCompaction' /\ RunnerInv'
  BY <1>3, TablesStay
<1>5. TypeOK'
  BY <1>1, <1>2 DEF IndInv, TypeOK
<1>6. Room'
  BY <1>1, <1>2, RoomIs DEF IndInv
<1>7. ServedInv'
  <2>1. r \notin InFlight
    BY AcceptsIs
  <2>2. \A q \in InFlight : request[q].type \in Controls => lock' = lock
    BY InboxAssumption DEF IndInv, ServedInv, InFlight
  <2>3. ASSUME NEW q \in InFlight
        PROVE  /\ request'[q].id \in Item /\ request'[q].type \in Types
               /\ request'[q].delivery \in Deliveries
               /\ request'[q].type \in Controls => lock' = q
               /\ request'[q].type = "compaction" =>
                    \A i \in Rows' : pending'[i].type # "compaction"
    <3>1. request'[q] = request[q]
      BY <1>1, <2>1 DEF InFlight
    <3> QED
      BY <1>2, <1>4, <2>2, <3>1 DEF IndInv, ServedInv
  <2>4. type \in Controls => lock' = r
    BY DEF Prompts, Controls
  <2> QED
    BY <1>1, <1>2, <1>4, <2>3, <2>4 DEF ServedInv
<1>8. AdmittedIsKept' /\ AskedIsItem'
  BY <1>1, <1>2 DEF IndInv, AdmittedIsKept, AskedIsItem
<1> QED
  BY <1>4, <1>5, <1>6, <1>7, <1>8 DEF IndInv

(* A request moves on, or is answered, and the tables stay as they are.    *)
LEMMA RequestMovesOn ==
  ASSUME IndInv, NEW r \in InFlight, UNCHANGED <<tables, runner, removed, stops>>,
         \/ \E at \in {"checking", "admitting", "conflicted"} :
              Goto(r, at) /\ UNCHANGED lock
         \/ \E answer \in Types \union {"conflict"} :
              /\ Answer(r, answer)
              /\ answer \in Prompts =>
                   LET i == request[r].id
                   IN pending[i] # None \/ message[i] # None \/ i \in removed
  PROVE  IndInv'
<1>1. UNCHANGED <<pending, message, next>> /\ r \in Requester
  BY DEF tables, InFlight
<1>2. CASE \E at \in {"checking", "admitting", "conflicted"} :
              Goto(r, at) /\ UNCHANGED lock
  <2>1. /\ request' \in [Requester -> RequestRecord]
        /\ InFlight' = InFlight
        /\ \A q \in Requester : /\ request'[q].id = request[q].id
                                /\ request'[q].type = request[q].type
                                /\ request'[q].delivery = request[q].delivery
        /\ \A q \in Requester \ {r} : request'[q] = request[q]
        /\ request'[r].at # "answered"
        /\ lock' = lock
    BY <1>2, GotoIs DEF IndInv
  <2>2. Rows' = Rows /\ RowsApart' /\ OneCompaction' /\ RunnerInv'
    BY <2>1, TablesStay
  <2>3. TypeOK' /\ Room'
    BY <1>1, <2>1, RoomIs DEF IndInv, TypeOK
  <2>4. ServedInv'
    BY <1>1, <2>1, <2>2 DEF IndInv, ServedInv, InFlight
  <2>5. AdmittedIsKept' /\ AskedIsItem'
    BY <1>1, <2>1 DEF IndInv, AdmittedIsKept, AskedIsItem, InFlight
  <2> QED
    BY <2>2, <2>3, <2>4, <2>5 DEF IndInv
<1>3. ASSUME NEW answer \in Types \union {"conflict"}, Answer(r, answer),
             answer \in Prompts =>
               LET i == request[r].id
               IN pending[i] # None \/ message[i] # None \/ i \in removed
      PROVE  IndInv'
  <2>1. /\ request' \in [Requester -> RequestRecord]
        /\ InFlight' = InFlight \ {r}
        /\ \A q \in Requester \ {r} : request'[q] = request[q]
        /\ request'[r].answer = answer /\ request'[r].id = request[r].id
        /\ lock' \in Requester \union {"runner", None}
        /\ lock # r => lock' = lock
    BY <1>3, AnswerIs DEF IndInv
  <2>2. Rows' = Rows /\ RowsApart' /\ OneCompaction' /\ RunnerInv'
    BY <1>1, <2>1, TablesStay, InboxAssumption
  <2>3. TypeOK' /\ Room'
    BY <1>1, <2>1, RoomIs DEF IndInv, TypeOK
  <2>4. ServedInv'
    BY <1>1, <2>1, <2>2 DEF IndInv, ServedInv, InFlight
  <2>5. AdmittedIsKept' /\ AskedIsItem'
    BY <1>1, <1>3, <2>1 DEF IndInv, AdmittedIsKept, AskedIsItem, InFlight
  <2> QED
    BY <2>2, <2>3, <2>4, <2>5 DEF IndInv
<1> QED
  BY <1>2, <1>3

LEMMA AskSteps ==
  ASSUME IndInv, NEW r \in Requester, Ask(r) \/ AskCompaction(r) \/ AskMove(r)
  PROVE  IndInv'
<1>1. CASE Ask(r)
  BY <1>1, NewRequest DEF Ask, Prompts, Types, tables, Tried, Seen
<1>2. CASE AskCompaction(r)
  <2>1. PICK id \in Tried \ Moving, delivery \in Deliveries :
          \/ \E answer \in {"compaction", "conflict"} :
               /\ request' = [request EXCEPT ![r] =
                    [at |-> "answered", id |-> id, type |-> "compaction",
                     delivery |-> delivery, answer |-> answer]]
               /\ UNCHANGED lock
          \/ /\ \A i \in Rows : pending[i].type # "compaction"
             /\ Asked(r, id, "compaction", delivery)
             /\ lock' = r
    BY <1>2 DEF AskCompaction
  <2>2. /\ Accepts(r) /\ lock = None /\ id \in Item
        /\ UNCHANGED <<tables, runner, removed, stops>>
    BY <1>2, <2>1 DEF AskCompaction, Tried, Seen
  <2>3. CASE /\ \A i \in Rows : pending[i].type # "compaction"
             /\ Asked(r, id, "compaction", delivery)
             /\ lock' = r
    BY <2>2, <2>3, NewRequest DEF Types, Controls
  <2>4. ASSUME NEW answer \in {"compaction", "conflict"},
               request' = [request EXCEPT ![r] =
                 [at |-> "answered", id |-> id, type |-> "compaction",
                  delivery |-> delivery, answer |-> answer]],
               UNCHANGED lock
        PROVE  IndInv'
    <3>1. UNCHANGED <<pending, message, next>>
      BY <2>2 DEF tables
    <3>2. Rows' = Rows /\ RowsApart' /\ OneCompaction' /\ RunnerInv'
      BY <2>2, <2>4, TablesStay
    <3>3. r \notin InFlight
      BY <2>2, AcceptsIs
    <3>4. [at |-> "answered", id |-> id, type |-> "compaction",
           delivery |-> delivery, answer |-> answer] \in RequestRecord
      BY <2>2 DEF RequestRecord, Types, Controls
    <3>5. /\ request' \in [Requester -> RequestRecord]
          /\ \A q \in Requester \ {r} : request'[q] = request[q]
          /\ request'[r].at = "answered" /\ request'[r].answer = answer
          /\ request'[r].id = id
      BY <2>4, <3>4 DEF IndInv, TypeOK
    <3>6. InFlight' = InFlight
      BY <3>3, <3>5 DEF InFlight
    <3>7. TypeOK' /\ Room'
      BY <2>2, <2>4, <3>1, <3>5, <3>6, RoomIs DEF IndInv, TypeOK
    <3>8. ServedInv'
      BY <2>4, <3>1, <3>2, <3>3, <3>5, <3>6 DEF IndInv, ServedInv, InFlight
    <3>9. AdmittedIsKept' /\ AskedIsItem'
      BY <2>2, <3>1, <3>5 DEF IndInv, AdmittedIsKept, AskedIsItem, Prompts
    <3> QED
      BY <3>2, <3>7, <3>8, <3>9 DEF IndInv
  <2> QED
    BY <2>1, <2>3, <2>4
<1>3. CASE AskMove(r)
  <2>1. PICK id \in Tried, delivery \in Deliveries : Asked(r, id, "move", delivery)
    BY <1>3 DEF AskMove
  <2>2. /\ Accepts(r) /\ lock = None /\ lock' = r /\ id \in Item
        /\ UNCHANGED <<tables, runner, removed, stops>>
    BY <1>3 DEF AskMove, Tried, Seen
  <2> QED
    BY <2>1, <2>2, NewRequest DEF Types, Controls
<1> QED
  BY <1>1, <1>2, <1>3

(* Reconciling answers a prompt with what was found under its ID only.     *)
LEMMA ReconciledStep ==
  ASSUME IndInv, NEW r \in InFlight, NEW found \in Types, Reconciled(r, found),
         pending[request[r].id] # None \/ message[request[r].id] # None,
         UNCHANGED <<tables, runner, removed, stops>>
  PROVE  IndInv'
<1>1. \E answer \in Types \union {"conflict"} : Answer(r, answer)
  BY DEF Reconciled
<1> QED
  BY <1>1, RequestMovesOn

LEMMA FindStep ==
  ASSUME IndInv, NEW r \in Requester, Find(r)
  PROVE  IndInv'
<1>1. r \in InFlight /\ UNCHANGED <<tables, runner, removed, stops>>
  BY DEF Find, InFlight
<1>2. CASE pending[request[r].id] = None
  BY <1>1, <1>2, RequestMovesOn DEF Find
<1>3. CASE pending[request[r].id] # None
  <2>1. request[r].id \in Rows
    BY <1>1, <1>3 DEF IndInv, ServedInv, Rows
  <2>2. pending[request[r].id].type \in Types
    BY <2>1, RowIs DEF IndInv
  <2> QED
    BY <1>1, <1>3, <2>2, ReconciledStep DEF Find
<1> QED
  BY <1>2, <1>3

LEMMA CheckStep ==
  ASSUME IndInv, NEW r \in Requester, Check(r)
  PROVE  IndInv'
<1>1. r \in InFlight /\ UNCHANGED <<tables, runner, removed, stops>>
  BY DEF Check, InFlight
<1>2. CASE message[request[r].id] = None
  BY <1>1, <1>2, RequestMovesOn DEF Check
<1>3. CASE message[request[r].id] # None
  <2>1. message[request[r].id] \in Types
    BY <1>1, <1>3 DEF IndInv, ServedInv, TypeOK, Types
  <2> QED
    BY <1>1, <1>3, <2>1, ReconciledStep DEF Check
<1> QED
  BY <1>2, <1>3

LEMMA RereadStep ==
  ASSUME IndInv, NEW r \in Requester, Reread(r)
  PROVE  IndInv'
<1>1. r \in InFlight /\ UNCHANGED <<tables, runner, removed, stops>>
  BY DEF Reread, InFlight
<1>2. request[r].type \in Types
  BY <1>1 DEF IndInv, ServedInv
<1>3. CASE /\ pending[request[r].id] # None
           /\ pending[request[r].id].type = request[r].type
  BY <1>1, <1>2, <1>3, RequestMovesOn DEF Reread
<1>4. CASE ~(/\ pending[request[r].id] # None
             /\ pending[request[r].id].type = request[r].type)
  <2>1. Answer(r, "conflict")
    BY <1>4 DEF Reread
  <2> QED
    BY <1>1, <2>1, RequestMovesOn DEF Prompts
<1> QED
  BY <1>3, <1>4

(* The row that an admission adds: the last of all, and a control only if  *)
(* the runner is not at work.                                              *)
LEMMA EnqueueStep ==
  ASSUME IndInv, NEW r \in Requester, Enqueue(r)
  PROVE  IndInv'
<1> DEFINE id == request[r].id
           row == [type |-> request[r].type, delivery |-> request[r].delivery, seq |-> next]
<1>1. r \in InFlight /\ UNCHANGED <<runner, removed, stops>>
  BY DEF Enqueue, InFlight
<1>2. CASE Refused(id)
  BY <1>1, <1>2, RequestMovesOn DEF Enqueue, tables
<1>3. CASE ~Refused(id)
  <2>1. /\ pending' = [pending EXCEPT ![id] = row]
        /\ next' = next + 1
        /\ Answer(r, request[r].type)
        /\ message' = message
        /\ message[id] = None /\ pending[id] = None
    BY <1>3 DEF Enqueue, Refused
  <2>2. /\ id \in Item /\ request[r].type \in Types /\ request[r].delivery \in Deliveries
        /\ request[r].type \in Controls => lock = r
        /\ request[r].type = "compaction" => \A i \in Rows : pending[i].type # "compaction"
        /\ next \in 1..MaxSeq
    BY <1>1, InFlightHasRoom DEF IndInv, ServedInv
  <2>3. row \in Row /\ row # None
    BY <2>2, InboxAssumption DEF Row
  <2>4. /\ pending' \in [Item -> Row \union {None}]
        /\ pending'[id] = row /\ row.seq = next
        /\ row.type = request[r].type /\ row.delivery = request[r].delivery
        /\ \A i \in Item \ {id} : pending'[i] = pending[i]
        /\ id \notin Rows
    BY <2>1, <2>2, <2>3 DEF IndInv, TypeOK, Rows
  <2>5. Rows' = Rows \union {id} /\ \A i \in Rows : pending'[i] = pending[i]
    BY <2>2, <2>3, <2>4 DEF Rows
  <2>6. /\ request' \in [Requester -> RequestRecord]
        /\ InFlight' = InFlight \ {r}
        /\ \A q \in Requester \ {r} : request'[q] = request[q]
        /\ request'[r].answer = request[r].type /\ request'[r].id = id
        /\ lock' \in Requester \union {"runner", None}
        /\ lock # r => lock' = lock
    BY <1>1, <2>1, <2>2, AnswerIs DEF IndInv
  <2>7. TypeOK' /\ Room'
    <3>1. next' \in 1..(MaxSeq + 1)
      BY <2>1, <2>2, InboxAssumption
    <3> QED
      BY <1>1, <2>1, <2>4, <2>6, <3>1, RoomIs DEF IndInv, TypeOK
  <2>8. RowsApart'
    <3>1. \A i \in Rows : pending[i].seq < next /\ pending[i].seq \in Nat /\ message[i] = None
      BY RowIs DEF IndInv, RowsApart
    <3>2. \A i \in Rows' : /\ message'[i] = None
                           /\ pending'[i].seq < next'
      BY <2>1, <2>2, <2>4, <2>5, <3>1
    <3>3. ASSUME NEW i \in Rows', NEW j \in Rows', pending'[j].seq = pending'[i].seq
          PROVE  j = i
      BY <2>2, <2>4, <2>5, <3>1, <3>3 DEF IndInv, RowsApart
    <3> QED
      BY <3>2, <3>3 DEF RowsApart
  <2>9. OneCompaction'
    BY <2>2, <2>4, <2>5 DEF IndInv, OneCompaction
  <2>10. ServedInv'
    <3>2. ASSUME NEW q \in InFlight \ {r}, request[q].type = "compaction", NEW i \in Rows'
          PROVE  pending'[i].type # "compaction"
      <4>1. lock = q
        BY <3>2 DEF IndInv, ServedInv, Controls
      <4>2. request[r].type # "compaction"
        BY <2>2, <3>2, <4>1 DEF Controls
      <4> QED
        BY <2>4, <2>5, <3>2, <4>2 DEF IndInv, ServedInv
    <3>3. \A q \in InFlight \ {r} : request'[q] = request[q]
      BY <2>6 DEF InFlight
    <3>4. \A q \in InFlight \ {r} : request[q].type \in Controls => lock' = q
      BY <1>1, <2>6 DEF IndInv, ServedInv, InFlight
    <3> QED
      BY <2>6, <3>2, <3>3, <3>4 DEF IndInv, ServedInv
  <2>11. AdmittedIsKept'
    <3>1. \A i \in Item : pending[i] # None => pending'[i] # None
      BY <2>3, <2>4
    <3>2. ASSUME NEW q \in Requester \ {r}, request'[q].at = "answered",
                 request'[q].answer \in Prompts
          PROVE  LET i == request'[q].id
                 IN pending'[i] # None \/ message'[i] # None \/ i \in removed'
      BY <1>1, <2>1, <2>3, <2>4, <2>6, <3>2 DEF IndInv, AdmittedIsKept
    <3>3. pending'[request'[r].id] # None
      BY <2>3, <2>4, <2>6
    <3> QED
      BY <3>2, <3>3 DEF AdmittedIsKept
  <2>12. AskedIsItem'
    BY <2>2, <2>6 DEF IndInv, AskedIsItem
  <2>13. RunnerInv'
    <3>1. runner.at \in {"promoting", "following"} =>
            lock' = "runner" /\ request[r].type \in Prompts
      BY <1>1, <2>2, <2>6, InboxAssumption DEF IndInv, RunnerInv, InFlight, Types
    <3>2. ASSUME runner.at = "promoting" PROVE BatchInv'
      <4>1. BatchInv /\ request[r].type \in Prompts
        BY <3>1, <3>2 DEF IndInv, RunnerInv
      <4>2. ControlsIn(Steers)' = ControlsIn(Steers)
        BY <2>4, <2>5, <4>1 DEF ControlsIn, Steers, Prompts, Controls
      <4>3. \A c \in ControlsIn(Steers) : pending'[c] = pending[c]
        BY <2>5 DEF ControlsIn, Steers
      <4>4. \A i \in Queued' : \/ i \in Queued /\ pending'[i] = pending[i]
                             \/ pending'[i].seq = next
        BY <2>4, <2>5 DEF Queued
      <4>5. \A b \in runner.batch :
              /\ b.id \in Rows /\ pending[b.id].seq = b.seq /\ b.seq <= next
        BY <4>1, <2>2, RowIs DEF BatchInv, IndInv, RowsApart
      <4> QED
        BY <1>1, <2>5, <4>1, <4>2, <4>3, <4>4, <4>5 DEF BatchInv
    <3> QED
      BY <1>1, <3>1, <3>2 DEF IndInv, RunnerInv
  <2> QED
    BY <2>7, <2>8, <2>9, <2>10, <2>11, <2>12, <2>13 DEF IndInv
<1> QED
  BY <1>2, <1>3

-----------------------------------------------------------------------------
(* Under the free lock: rows go to the removed ones or change delivery.    *)

LEMMA RowsGo ==
  ASSUME IndInv, lock = None,
         UNCHANGED <<message, next, lock, request, runner, stops>>,
         pending' \in [Item -> Row \union {None}],
         \A i \in Rows' : /\ i \in Rows
                          /\ pending'[i].type = pending[i].type
                          /\ pending'[i].seq = pending[i].seq,
         removed' \subseteq Item,
         removed \subseteq removed', Rows \ Rows' \subseteq removed'
  PROVE  IndInv'
<1>1. InFlight' = InFlight
  BY DEF InFlight
<1>2. TypeOK' /\ Room'
  BY <1>1, RoomIs DEF IndInv, TypeOK
<1>3. RowsApart'
  BY DEF IndInv, RowsApart
<1>4. OneCompaction' /\ ServedInv'
  BY <1>1 DEF IndInv, OneCompaction, ServedInv
<1>5. AdmittedIsKept' /\ AskedIsItem'
  <2>1. ASSUME NEW r \in Requester, request[r].at = "answered", request[r].answer \in Prompts
        PROVE  LET i == request[r].id
               IN pending'[i] # None \/ message[i] # None \/ i \in removed'
    <3>1. request[r].id \in Item
      BY <2>1 DEF IndInv, AskedIsItem
    <3> QED
      BY <2>1, <3>1 DEF IndInv, AdmittedIsKept, Rows
  <2> QED
    BY <2>1 DEF IndInv, AdmittedIsKept, AskedIsItem
<1>6. RunnerInv'
  BY InboxAssumption DEF IndInv, RunnerInv
<1> QED
  BY <1>2, <1>3, <1>4, <1>5, <1>6 DEF IndInv

LEMMA ClientSteps ==
  ASSUME IndInv,
         \/ \E i \in Item : Cancel(i) \/ ChangeDelivery(i)
         \/ MoveAtOnce
  PROVE  IndInv'
<1>1. pending \in [Item -> Row \union {None}] /\ removed \subseteq Item
  BY DEF IndInv, TypeOK
<1>2. ASSUME NEW i \in Item, Cancel(i)
      PROVE  IndInv'
  <2>1. /\ pending' = [pending EXCEPT ![i] = None]
        /\ removed' = removed \union {i}
    BY <1>2 DEF Cancel
  <2>2. Rows' = Rows \ {i}
    BY <1>1, <2>1 DEF Rows
  <2> QED
    BY <1>1, <1>2, <2>1, <2>2, RowsGo DEF Cancel, Rows
<1>3. ASSUME NEW i \in Item, ChangeDelivery(i)
      PROVE  IndInv'
  <2> DEFINE row == [pending[i] EXCEPT !.delivery = IF @ = "steer" THEN "queue" ELSE "steer"]
  <2>1. pending' = [pending EXCEPT ![i] = row] /\ i \in Rows
    BY <1>3 DEF ChangeDelivery, Rows
  <2>2. pending[i] \in Row
    BY <2>1, RowIs DEF IndInv
  <2>3. row \in Row /\ row.type = pending[i].type /\ row.seq = pending[i].seq
    BY <2>2 DEF Row, Deliveries
  <2>4. row # None
    BY <2>3, InboxAssumption
  <2>5. /\ pending' \in [Item -> Row \union {None}]
        /\ pending'[i] = row
        /\ \A j \in Item \ {i} : pending'[j] = pending[j]
    BY <1>1, <2>1, <2>3
  <2>6. Rows' = Rows
    BY <2>1, <2>4, <2>5 DEF Rows
  <2> QED
    BY <1>1, <1>3, <2>3, <2>5, <2>6, RowsGo DEF ChangeDelivery, Rows
<1>4. CASE MoveAtOnce
  <2> DEFINE moves == {i \in Rows : pending[i].type = "move"}
  <2>1. /\ pending' = [i \in Item |-> IF i \in moves THEN None ELSE pending[i]]
        /\ removed' = removed \union moves
    BY <1>4 DEF MoveAtOnce
  <2>2. moves \subseteq Rows /\ Rows \subseteq Item
    BY DEF Rows
  <2>3. Rows' = Rows \ moves
    BY <2>1, <2>2 DEF Rows
  <2>4. pending' \in [Item -> Row \union {None}]
    BY <1>1, <2>1
  <2>5. \A i \in Rows' : pending'[i] = pending[i]
    BY <2>1, <2>2, <2>3
  <2> HIDE DEF moves
  <2> QED
    BY <1>1, <1>4, <2>1, <2>2, <2>3, <2>4, <2>5, RowsGo DEF MoveAtOnce
<1> QED
  BY <1>2, <1>3, <1>4

LEMMA TakeControlStep ==
  ASSUME IndInv, NEW input \in BOOLEAN, TakeControl(input)
  PROVE  IndInv'
<1>1. pending \in [Item -> Row \union {None}] /\ removed \subseteq Item
  BY DEF IndInv, TypeOK
<1>2. /\ Steers \subseteq Rows /\ Queued \subseteq Rows
      /\ ControlsIn(Steers) \subseteq Steers
  BY DEF Steers, Queued, ControlsIn
<1>3. Steers # {} => NextSteer \in Rows
  BY <1>2, EarliestIs DEF NextSteer, IndInv
<1>4. Queued # {} => Earliest(Queued) \in Rows
  BY <1>2, EarliestIs DEF IndInv
<1>5. PICK first \in Rows : /\ pending' = [pending EXCEPT ![first] = None]
                            /\ removed' = removed \union {first}
  BY <1>3, <1>4 DEF TakeControl
<1>6. Rows' = Rows \ {first} /\ first \in Item
  BY <1>1, <1>5 DEF Rows
<1> QED
  BY <1>1, <1>5, <1>6, RowsGo DEF TakeControl, Rows

-----------------------------------------------------------------------------
(* The runner.                                                             *)

(* A step of the runner that publishes nothing.                            *)
LEMMA RunnerMoves ==
  ASSUME IndInv, UNCHANGED <<tables, request, removed>>,
         lock \in {None, "runner"}, lock' \in {None, "runner"},
         stops' \in 0..MaxStops, runner' \in RunnerRecord, RunnerInv'
  PROVE  IndInv'
<1>1. UNCHANGED <<pending, message, next>> /\ InFlight' = InFlight /\ Rows' = Rows
  BY DEF tables, InFlight, Rows
<1>2. TypeOK' /\ Room'
  BY <1>1, RoomIs DEF IndInv, TypeOK
<1>3. RowsApart' /\ OneCompaction' /\ AdmittedIsKept' /\ AskedIsItem'
  BY <1>1 DEF IndInv, RowsApart, OneCompaction, AdmittedIsKept, AskedIsItem
<1>4. \A r \in InFlight : request[r].type \notin Controls
  BY InboxAssumption DEF IndInv, ServedInv, InFlight
<1>5. ServedInv'
  BY <1>1, <1>4 DEF IndInv, ServedInv
<1> QED
  BY <1>2, <1>3, <1>5 DEF IndInv

(* Steers are promoted, at a boundary or after a queued item.              *)
LEMMA SteersPromoted ==
  ASSUME IndInv, UNCHANGED <<tables, request, removed, stops>>, lock \in {None, "runner"},
         BeforeControl # {}, lock' = "runner",
         runner' = [at |-> "promoting", batch |-> BeforeControl, queued |-> FALSE]
  PROVE  IndInv'
<1>1. /\ BeforeControl \in SUBSET [id : Item, seq : 1..MaxSeq]
      /\ \A b \in BeforeControl :
           /\ b.id \in Rows
           /\ pending[b.id].seq = b.seq
           /\ pending[b.id].type \in Prompts
           /\ pending[b.id].delivery = "steer"
      /\ \A c \in ControlsIn(Steers) :
           /\ \A b \in BeforeControl : b.seq < pending[c].seq
           /\ (\A d \in ControlsIn(Steers) : pending[c].seq <= pending[d].seq)
                => pending[c].type = "move"
  BY BeforeControlIs DEF IndInv
<1>2. /\ runner' \in RunnerRecord
      /\ runner'.at = "promoting" /\ runner'.batch = BeforeControl /\ runner'.queued = FALSE
  BY <1>1 DEF RunnerRecord
<1>3. /\ UNCHANGED <<pending, message, next>>
      /\ Rows' = Rows /\ Steers' = Steers /\ ControlsIn(Steers)' = ControlsIn(Steers)
  BY DEF tables, Rows, Steers, ControlsIn
<1>4. RunnerInv'
  BY <1>1, <1>2, <1>3 DEF RunnerInv, BatchInv
<1> QED
  BY <1>2, <1>4, RunnerMoves DEF IndInv, TypeOK

LEMMA PromoteQueuedStep ==
  ASSUME IndInv, PromoteQueued
  PROVE  IndInv'
<1> DEFINE first == Earliest(Queued)
           item == [id |-> first, seq |-> pending[first].seq]
<1>1. Queued \subseteq Rows /\ Queued # {}
  BY DEF Queued, PromoteQueued
<1>2. first \in Queued /\ \A j \in Queued : pending[first].seq <= pending[j].seq
  BY <1>1, EarliestIs DEF IndInv
<1>3. pending[first].type \in Prompts /\ pending[first].delivery = "queue"
  BY <1>1, <1>2, RowIs DEF PromoteQueued, IndInv, Types, Queued
<1>4. item \in [id : Item, seq : 1..MaxSeq]
  BY <1>1, <1>2, RowIs DEF IndInv
<1>5. Unpublished({first}) = {item}
  BY DEF Unpublished
<1>6. /\ runner' \in RunnerRecord
      /\ runner'.at = "promoting" /\ runner'.batch = {item} /\ runner'.queued = TRUE
  BY <1>4, <1>5 DEF PromoteQueued, RunnerRecord
<1>7. /\ UNCHANGED <<pending, message, next>> /\ lock = None /\ lock' = "runner"
      /\ UNCHANGED <<tables, request, removed, stops>>
      /\ Rows' = Rows /\ Queued' = Queued
  BY DEF PromoteQueued, tables, Rows, Queued
<1>8. RunnerInv'
  BY <1>1, <1>2, <1>3, <1>6, <1>7 DEF RunnerInv, BatchInv
<1> QED
  BY <1>6, <1>7, <1>8, RunnerMoves DEF IndInv, TypeOK

LEMMA FollowStep ==
  ASSUME IndInv, Follow
  PROVE  IndInv'
<1>1. lock = "runner" /\ UNCHANGED <<tables, request, removed, stops>>
  BY DEF Follow, IndInv, RunnerInv
<1>2. CASE BeforeControl = {}
  <2>1. runner' = Idle /\ lock' = None
    BY <1>2 DEF Follow
  <2>2. runner' \in RunnerRecord /\ RunnerInv'
    BY <2>1 DEF Idle, RunnerRecord, RunnerInv
  <2> QED
    BY <1>1, <2>1, <2>2, RunnerMoves DEF IndInv, TypeOK
<1>3. CASE BeforeControl # {}
  BY <1>1, <1>3, SteersPromoted DEF Follow
<1> QED
  BY <1>2, <1>3

LEMMA InterruptedStep ==
  ASSUME IndInv, Interrupted
  PROVE  IndInv'
<1>1. /\ lock = "runner" /\ lock' = None /\ runner' = Idle
      /\ UNCHANGED <<tables, request, removed>>
  BY DEF Interrupted, IndInv, RunnerInv
<1>2. runner' \in RunnerRecord /\ RunnerInv'
  BY <1>1 DEF Idle, RunnerRecord, RunnerInv
<1>3. stops' \in 0..MaxStops
  BY InboxAssumption DEF Interrupted, IndInv, TypeOK
<1> QED
  BY <1>1, <1>2, <1>3, RunnerMoves

LEMMA RestartStep ==
  ASSUME IndInv, Restart
  PROVE  IndInv'
<1>1. /\ UNCHANGED <<pending, message, next, removed>>
      /\ lock' = None /\ runner' = Idle /\ request' = [r \in Requester |-> Away]
  BY DEF Restart, tables
<1>2. InFlight' = {} /\ Rows' = Rows
  BY <1>1 DEF InFlight, Away, Rows
<1>3. TypeOK'
  <2>1. Away \in RequestRecord /\ Idle \in RunnerRecord
    BY DEF Away, RequestRecord, Idle, RunnerRecord
  <2>2. stops' \in 0..MaxStops
    BY InboxAssumption DEF Restart, IndInv, TypeOK
  <2> QED
    BY <1>1, <2>1, <2>2 DEF IndInv, TypeOK
<1>4. Room'
  BY <1>1, <1>2, RoomIs DEF IndInv
<1>5. RowsApart' /\ OneCompaction' /\ ServedInv'
  BY <1>1, <1>2 DEF IndInv, RowsApart, OneCompaction, ServedInv
<1>6. AdmittedIsKept' /\ AskedIsItem' /\ RunnerInv'
  BY <1>1 DEF AdmittedIsKept, AskedIsItem, RunnerInv, Away, Idle
<1> QED
  BY <1>3, <1>4, <1>5, <1>6 DEF IndInv

(* Whichever row of its batch the runner comes to, it is there: the row    *)
(* goes and its message appears.                                           *)
LEMMA DeliverIs ==
  ASSUME IndInv, Deliver
  PROVE  \E b \in runner.batch :
           LET left == runner.batch \ {b}
               rest == IF left # {} THEN [runner EXCEPT !.batch = left]
                       ELSE IF runner.queued THEN [Idle EXCEPT !.at = "following"]
                       ELSE Idle
           IN /\ message' = [message EXCEPT ![b.id] = pending[b.id].type]
              /\ pending' = [pending EXCEPT ![b.id] = None]
              /\ runner' = rest
              /\ lock' = IF rest = Idle THEN None ELSE lock
<1>1. BatchInv
  BY DEF Deliver, IndInv, RunnerInv
<1>2. \A b \in runner.batch : pending[b.id] # None
  BY <1>1 DEF BatchInv, Rows
<1> QED
  BY <1>2 DEF Deliver

LEMMA DeliverStep ==
  ASSUME IndInv, Deliver
  PROVE  IndInv'
<1>1. PICK b \in runner.batch :
        LET left == runner.batch \ {b}
            rest == IF left # {} THEN [runner EXCEPT !.batch = left]
                    ELSE IF runner.queued THEN [Idle EXCEPT !.at = "following"]
                    ELSE Idle
        IN /\ message' = [message EXCEPT ![b.id] = pending[b.id].type]
           /\ pending' = [pending EXCEPT ![b.id] = None]
           /\ runner' = rest
           /\ lock' = IF rest = Idle THEN None ELSE lock
  BY DeliverIs
<1> DEFINE left == runner.batch \ {b}
<1>2. /\ BatchInv /\ lock = "runner" /\ runner.at = "promoting"
      /\ UNCHANGED <<next, request, removed, stops>>
  BY DEF Deliver, IndInv, RunnerInv
<1>3. /\ runner \in RunnerRecord
      /\ runner.batch \subseteq [id : Item, seq : 1..MaxSeq] /\ runner.queued \in BOOLEAN
  BY DEF IndInv, TypeOK, RunnerRecord
<1>4. /\ b.id \in Rows /\ pending[b.id].type \in Prompts /\ b.id \in Item
      /\ message[b.id] = None
  BY <1>2 DEF BatchInv, Rows, IndInv, RowsApart
<1>5. /\ message' \in [Item -> Prompts \union {None}]
      /\ message'[b.id] = pending[b.id].type
      /\ \A i \in Item \ {b.id} : message'[i] = message[i]
  BY <1>1, <1>4 DEF IndInv, TypeOK
<1>6. /\ pending' \in [Item -> Row \union {None}]
      /\ pending'[b.id] = None
      /\ \A i \in Item \ {b.id} : pending'[i] = pending[i]
  BY <1>1, <1>4 DEF IndInv, TypeOK
<1>7. Rows' = Rows \ {b.id} /\ \A i \in Rows' : pending'[i] = pending[i]
  BY <1>4, <1>6 DEF Rows
<1>8. /\ left # {} => /\ runner' = [runner EXCEPT !.batch = left]
                      /\ lock' = lock
      /\ left = {} /\ runner.queued => runner' = [Idle EXCEPT !.at = "following"] /\ lock' = lock
      /\ left = {} /\ ~runner.queued => runner' = Idle /\ lock' = None
  <2>1. [runner EXCEPT !.batch = left].at = "promoting"
    BY <1>2, <1>3 DEF RunnerRecord
  <2>2. [runner EXCEPT !.batch = left] # Idle /\ [Idle EXCEPT !.at = "following"] # Idle
    BY <2>1 DEF Idle
  <2> QED
    BY <1>1, <2>2
<1>9. /\ runner' \in RunnerRecord
      /\ runner'.at = "promoting" =>
           left # {} /\ runner'.batch = left /\ runner'.queued = runner.queued
      /\ runner'.at # "died"
      /\ runner'.at \in {"promoting", "following"} => lock' = "runner"
      /\ lock' \in {None, "runner"}
  <2>1. CASE left # {}
    BY <1>2, <1>3, <1>8, <2>1 DEF RunnerRecord
  <2>2. CASE left = {}
    <3>1. /\ Idle \in RunnerRecord /\ Idle.at = "idle"
          /\ [Idle EXCEPT !.at = "following"] \in RunnerRecord
          /\ [Idle EXCEPT !.at = "following"].at = "following"
      BY DEF Idle, RunnerRecord
    <3> QED
      BY <1>2, <1>3, <1>8, <2>2, <3>1
  <2> QED
    BY <2>1, <2>2
<1>10. InFlight' = InFlight
  BY <1>2 DEF InFlight
<1>11. TypeOK' /\ Room'
  BY <1>2, <1>5, <1>6, <1>9, <1>10, RoomIs DEF IndInv, TypeOK
<1>12. RowsApart' /\ OneCompaction'
  <2>1. \A i \in Rows' : i \in Rows /\ pending'[i] = pending[i] /\ message'[i] = message[i]
    BY <1>5, <1>7 DEF Rows
  <2> QED
    BY <1>2, <2>1 DEF IndInv, RowsApart, OneCompaction
<1>13. ServedInv'
  <2>1. \A r \in InFlight : request[r].type \notin Controls
    BY <1>2, InboxAssumption DEF IndInv, ServedInv, InFlight
  <2> QED
    BY <1>2, <1>10, <2>1 DEF IndInv, ServedInv, Controls
<1>14. AdmittedIsKept' /\ AskedIsItem'
  <2>1. pending[b.id].type # None
    BY <1>4, InboxAssumption DEF Types
  <2>2. \A i \in Item : pending[i] # None \/ message[i] # None =>
                          pending'[i] # None \/ message'[i] # None
    BY <1>5, <1>6, <2>1
  <2> QED
    BY <1>2, <2>2 DEF IndInv, AdmittedIsKept, AskedIsItem
<1>15. RunnerInv'
  <2>1. \A c \in left : c.id # b.id
    BY <1>2, <1>3 DEF BatchInv
  <2>2. ControlsIn(Steers)' = ControlsIn(Steers)
    BY <1>4, <1>7 DEF ControlsIn, Steers, Prompts, Controls
  <2>3. \A c \in ControlsIn(Steers) : pending'[c] = pending[c]
    BY <1>7, <2>2 DEF ControlsIn, Steers
  <2>4. Queued' \subseteq Queued /\ \A i \in Queued' : pending'[i] = pending[i]
    BY <1>7 DEF Queued
  <2>5. \A c \in left : c.id \in Rows' /\ pending'[c.id] = pending[c.id]
    BY <1>2, <1>7, <2>1 DEF BatchInv
  <2>6. ASSUME runner'.at = "promoting" PROVE BatchInv'
    BY <1>2, <1>9, <2>2, <2>3, <2>4, <2>5, <2>6 DEF BatchInv
  <2> QED
    BY <1>9, <2>6 DEF RunnerInv
<1> QED
  BY <1>11, <1>12, <1>13, <1>14, <1>15 DEF IndInv

-----------------------------------------------------------------------------
(* The invariant is inductive.                                             *)

LEMMA NextIndInv == IndInv /\ [Next]_vars => IndInv'
<1> SUFFICES ASSUME IndInv, [Next]_vars PROVE IndInv'
  OBVIOUS
<1>1. ASSUME NEW r \in Requester, Ask(r) \/ AskCompaction(r) \/ AskMove(r) \/ Admitting(r)
      PROVE  IndInv'
  BY <1>1, AskSteps, FindStep, CheckStep, EnqueueStep, RereadStep DEF Admitting
<1>2. ASSUME NEW i \in Item, Cancel(i) \/ ChangeDelivery(i)
      PROVE  IndInv'
  BY <1>2, ClientSteps
<1>3. CASE MoveAtOnce
  BY <1>3, ClientSteps
<1>4. CASE Boundary
  <2>1. CASE PromoteSteers
    BY <2>1, SteersPromoted DEF PromoteSteers
  <2> QED
    BY <1>4, <2>1, TakeControlStep, PromoteQueuedStep DEF Boundary
<1>5. CASE Promoting
  BY <1>5, DeliverStep, FollowStep DEF Promoting
<1>6. CASE Interrupted \/ Restart
  BY <1>6, InterruptedStep, RestartStep
<1>7. CASE UNCHANGED vars
  <2>1. /\ UNCHANGED <<tables, request, runner, removed, stops, lock>>
        /\ UNCHANGED <<pending, message, next>>
    BY <1>7 DEF vars, tables
  <2>2. Rows' = Rows /\ RowsApart' /\ OneCompaction' /\ RunnerInv'
    BY <2>1, TablesStay
  <2>3. InFlight' = InFlight
    BY <2>1 DEF InFlight
  <2>4. TypeOK' /\ Room'
    BY <2>1, <2>3, RoomIs DEF IndInv, TypeOK
  <2>5. ServedInv' /\ AskedIsItem' /\ AdmittedIsKept'
    BY <2>1, <2>2, <2>3 DEF IndInv, ServedInv, AskedIsItem, AdmittedIsKept
  <2> QED
    BY <2>2, <2>4, <2>5 DEF IndInv
<1> QED
  BY <1>1, <1>2, <1>3, <1>4, <1>5, <1>6, <1>7 DEF Next

THEOREM Inductive == Spec => []IndInv
BY InitIndInv, NextIndInv, PTL DEF Spec

-----------------------------------------------------------------------------
(* The inbox stays well formed: there is a number for every admission, and *)
(* every row keeps its own.                                                *)
THEOREM TypeCorrect == Spec => []TypeOK
<1>1. IndInv => TypeOK
  BY DEF IndInv
<1> QED
  BY <1>1, Inductive, PTL

(* However retries race with delivery, no item is pending and a message at *)
(* once: nothing is admitted, hence delivered, a second time.              *)
THEOREM NothingIsDeliveredTwice == Spec => []DeliveredOnce
<1>1. IndInv => DeliveredOnce
  BY DEF IndInv, RowsApart, DeliveredOnce, Rows
<1> QED
  BY <1>1, Inductive, PTL

(* However many requests for a compaction race, one is pending.            *)
THEOREM CompactionsAreShared == Spec => []OneCompaction
<1>1. IndInv => OneCompaction
  BY DEF IndInv
<1> QED
  BY <1>1, Inductive, PTL

(* An item that was said to be admitted is pending, delivered or removed,  *)
(* through any interruption or restart.                                    *)
THEOREM AdmissionsAreKept == Spec => []AdmittedIsKept
<1>1. IndInv => AdmittedIsKept
  BY DEF IndInv
<1> QED
  BY <1>1, Inductive, PTL

(* The rows of a promotion are there when the runner comes to them.        *)
THEOREM RunnerLives == Spec => []RunnerNeverDies
<1>1. IndInv => RunnerNeverDies
  BY DEF IndInv, RunnerInv, RunnerNeverDies
<1> QED
  BY <1>1, Inductive, PTL

(* Only a delivery of the runner makes a message, of a row of its batch.   *)
LEMMA DeliversFromBatch ==
  ASSUME IndInv, [Next]_vars, NEW i \in Item, Delivers(i)
  PROVE  /\ BatchInv
         /\ \E b \in runner.batch : b.id = i
<1>1. message' # message
  BY DEF Delivers
<1>2. Deliver
  <2>1. ASSUME NEW r \in Requester, Ask(r) \/ AskCompaction(r) \/ AskMove(r) \/ Admitting(r)
        PROVE  message' = message
    BY <2>1 DEF Ask, AskCompaction, AskMove, Admitting, Find, Check, Enqueue, Reread, tables
  <2>2. ASSUME NEW j \in Item, Cancel(j) \/ ChangeDelivery(j)
        PROVE  message' = message
    BY <2>2 DEF Cancel, ChangeDelivery
  <2>3. ASSUME MoveAtOnce \/ Boundary
        PROVE  message' = message
    <3>1. CASE MoveAtOnce
      BY <3>1 DEF MoveAtOnce
    <3>2. CASE \E input \in BOOLEAN : TakeControl(input)
      BY <3>2 DEF TakeControl
    <3>3. CASE PromoteSteers \/ PromoteQueued
      BY <3>3 DEF PromoteSteers, PromoteQueued, tables
    <3> QED
      BY <2>3, <3>1, <3>2, <3>3 DEF Boundary
  <2>4. ASSUME Follow \/ Interrupted \/ Restart \/ UNCHANGED vars
        PROVE  message' = message
    BY <2>4 DEF Follow, Interrupted, Restart, vars, tables
  <2> QED
    BY <1>1, <2>1, <2>2, <2>3, <2>4 DEF Next, Promoting
<1>3. PICK b \in runner.batch : message' = [message EXCEPT ![b.id] = pending[b.id].type]
  BY <1>2, DeliverIs
<1>4. b.id = i
  BY <1>3 DEF Delivers, IndInv, TypeOK
<1> QED
  BY <1>2, <1>4 DEF Deliver, IndInv, RunnerInv

(* A steer is delivered only when no control should have gone first.       *)
THEOREM ControlsGoFirst == Spec => SteersRespectControls
<1> DEFINE Respects(i) ==
      Delivers(i) /\ pending[i].delivery = "steer" =>
        LET controls == ControlsIn(Steers)
        IN controls # {} =>
             /\ pending[Earliest(controls)].type = "move"
             /\ pending[i].seq < pending[Earliest(controls)].seq
<1>1. ASSUME IndInv, [Next]_vars, NEW i \in Item PROVE Respects(i)
  <2> SUFFICES ASSUME Delivers(i), pending[i].delivery = "steer", ControlsIn(Steers) # {}
               PROVE  /\ pending[Earliest(ControlsIn(Steers))].type = "move"
                      /\ pending[i].seq < pending[Earliest(ControlsIn(Steers))].seq
    OBVIOUS
  <2>1. BatchInv /\ \E b \in runner.batch : b.id = i
    BY <1>1, DeliversFromBatch
  <2>2. ~runner.queued
    BY <2>1 DEF BatchInv
  <2>3. /\ Earliest(ControlsIn(Steers)) \in ControlsIn(Steers)
        /\ \A j \in ControlsIn(Steers) :
             pending[Earliest(ControlsIn(Steers))].seq <= pending[j].seq
    <3>1. ControlsIn(Steers) \subseteq Rows
      BY DEF ControlsIn, Steers
    <3> QED
      BY <1>1, <3>1, EarliestIs DEF IndInv
  <2> QED
    BY <2>1, <2>2, <2>3 DEF BatchInv
<1>2. IndInv /\ [Next]_vars => [\A i \in Item : Respects(i)]_vars
  BY <1>1
<1> QED
  BY <1>2, Inductive, PTL DEF Spec, SteersRespectControls

(* Queued items are delivered in the order of their admission.             *)
THEOREM QueueKeepsItsOrder == Spec => QueueInOrder
<1> DEFINE First(i) ==
      Delivers(i) /\ pending[i].delivery = "queue" =>
        \A j \in Queued : pending[i].seq <= pending[j].seq
<1>1. ASSUME IndInv, [Next]_vars, NEW i \in Item PROVE First(i)
  <2> SUFFICES ASSUME Delivers(i), pending[i].delivery = "queue"
               PROVE  \A j \in Queued : pending[i].seq <= pending[j].seq
    OBVIOUS
  <2>1. BatchInv /\ \E b \in runner.batch : b.id = i
    BY <1>1, DeliversFromBatch
  <2>2. runner.queued
    BY <2>1 DEF BatchInv
  <2> QED
    BY <2>1, <2>2 DEF BatchInv
<1>2. IndInv /\ [Next]_vars => [\A i \in Item : First(i)]_vars
  BY <1>1
<1> QED
  BY <1>2, Inductive, PTL DEF Spec, QueueInOrder

=============================================================================
