-------------------------- MODULE PermissionProofs --------------------------
(***************************************************************************)
(* Proofs about Permission, for any finite set of requests, any Sessions,  *)
(* actions and repliers.                                                   *)
(***************************************************************************)
EXTENDS Permission, FiniteSetTheorems, TLAPS

Asked(r)    == asker[r].at # "away"
IsBacked(r) == r \in approved \/ r \in covered

(* What is held of a request was asked before; who was let go had a yes or *)
(* a rule behind it, and whom a rule allows now is among those it covered. *)
RequestInv(r) ==
  /\ r \in pending \/ r \in closing \/ outcome[r] # "open" => Asked(r)
  /\ Asked(r) => asker[r].action \in Action
  /\ outcome[r] = "allowed" \/ asker[r].at = "allowed" => IsBacked(r)
  /\ MayGoOn(r) => r \in covered

AnswerInv(r) ==
  /\ outcome[r] = "allowed" => told[r] \intersect {"once", "always"} # {}
  /\ outcome[r] = "corrected" => "reject" \in told[r]
  /\ outcome[r] = "declined" => "reject" \in told[r] \/ closed

(* Between two closes nobody has been forgotten: a close that failed has   *)
(* left its snapshot, and the next one takes a snapshot of all that wait.  *)
WaitInv(r) ==
  Waits(r) => r \in pending /\ (closed => r \in closing \/ (closing = {} /\ faults > 0))

(* A reply carries what it has announced and whom it has approved.         *)
ReplyInv(p) ==
  /\ reply[p].at # "idle" =>
       /\ reply[p].id \in Request /\ Asked(reply[p].id)
       /\ reply[p].reply \in Replies
  /\ reply[p].at \in {"batchTelling", "judging", "sweepTelling"} =>
       reply[p].item \in Request /\ Asked(reply[p].item)
  /\ reply[p].at = "telling" =>
       IF reply[p].reply \in Refusals THEN "reject" \in told[reply[p].id]
       ELSE reply[p].reply \in told[reply[p].id] /\ reply[p].id \in approved
  /\ reply[p].at = "saving" =>
       "always" \in told[reply[p].id] /\ reply[p].id \in approved
  /\ reply[p].at \in {"batch", "batchTelling"} => reply[p].reply \in Refusals
  /\ reply[p].at = "batchTelling" => "reject" \in told[reply[p].item]
  /\ reply[p].at = "sweepTelling" =>
       "always" \in told[reply[p].item] /\ reply[p].item \in covered

IndInv ==
  /\ TypeOK
  /\ closing # {} => closed
  /\ \A r \in Request : RequestInv(r) /\ AnswerInv(r) /\ WaitInv(r)
  /\ \A p \in Replier : ReplyInv(p)

-----------------------------------------------------------------------------
(* What the operators do.                                                  *)

AskerRecord == [at : Places, waits : BOOLEAN, action : Action \union {None}]

LEMMA SettleIs ==
  ASSUME TypeOK, NEW s \in Request, NEW result \in Outcomes, Settle(s, result)
  PROVE  /\ outcome' \in [Request -> Outcomes \union {"open"}]
         /\ outcome'[s] # "open"
         /\ outcome'[s] \in {outcome[s], result}
         /\ \A q \in Request \ {s} : outcome'[q] = outcome[q]
BY DEF TypeOK, Settle, Outcomes

LEMMA GoesIs ==
  ASSUME TypeOK, NEW r \in Request, NEW place \in Places, Goes(r, place)
  PROVE  /\ asker' \in [Request -> AskerRecord]
         /\ asker'[r].at = place
         /\ asker'[r].waits = asker[r].waits
         /\ asker'[r].action = asker[r].action
         /\ \A q \in Request \ {r} : asker'[q] = asker[q]
<1>1. asker \in [Request -> AskerRecord]
  BY DEF TypeOK, AskerRecord
<1>2. asker[r] \in AskerRecord
  BY <1>1
<1>3. /\ [asker[r] EXCEPT !.at = place] \in AskerRecord
      /\ [asker[r] EXCEPT !.at = place].at = place
      /\ [asker[r] EXCEPT !.at = place].waits = asker[r].waits
      /\ [asker[r] EXCEPT !.at = place].action = asker[r].action
  BY <1>2 DEF AskerRecord
<1>4. asker' = [asker EXCEPT ![r] = [asker[r] EXCEPT !.at = place]]
  BY DEF Goes
<1> QED
  BY <1>1, <1>3, <1>4

LEMMA AnnouncesIs ==
  ASSUME TypeOK, NEW s \in Request, NEW word \in Replies, Announces(s, word)
  PROVE  /\ told' \in [Request -> SUBSET Replies]
         /\ word \in told'[s]
         /\ \A q \in Request : told[q] \subseteq told'[q]
BY DEF TypeOK, Announces

(* There is room for a failure or an edit only below the bound.            *)
LEMMA TroubleIsBounded ==
  ASSUME TypeOK, ~Troubled
  PROVE  edits + 1 \in 0..MaxTrouble /\ faults + 1 \in 0..MaxTrouble
<1> DEFINE impatient == {r \in Request : ~asker[r].waits}
<1>1. Cardinality(impatient) \in Nat
  <2>1. IsFiniteSet(impatient)
    BY PermissionAssumption, FS_Subset
  <2> QED
    BY <2>1, FS_CardinalityType
<1>2. edits + faults + Cardinality(impatient) < MaxTrouble
  BY <1>1, PermissionAssumption DEF TypeOK, Troubled
<1> QED
  BY <1>1, <1>2, PermissionAssumption DEF TypeOK

-----------------------------------------------------------------------------
(* What is said of a request, or of a reply, that a step leaves alone.     *)

HistoryGrows ==
  /\ \A q \in Request : told[q] \subseteq told'[q]
  /\ approved \subseteq approved'
  /\ covered \subseteq covered'

CoversAll == \A q \in Request : MayGoOn(q)' => q \in covered'

(* No request becomes allowed by a rule unless it is asked or a rule is    *)
(* added, and those steps keep the history.                                *)
LEMMA StillCovered ==
  ASSUME IndInv, UNCHANGED <<asker, ruling>>, saved' \subseteq saved, covered \subseteq covered'
  PROVE  CoversAll
<1> SUFFICES ASSUME NEW q \in Request, MayGoOn(q)' PROVE q \in covered'
  BY DEF CoversAll
<1>1. MayGoOn(q)
  BY DEF MayGoOn, Permitted
<1> QED
  BY <1>1 DEF IndInv, RequestInv

LEMMA CoverCovers ==
  ASSUME TypeOK, Cover
  PROVE  CoversAll /\ covered \subseteq covered' /\ covered' \subseteq Request
BY DEF Cover, CoversAll, TypeOK

LEMMA OthersStay ==
  ASSUME IndInv, HistoryGrows, NEW p \in Replier, reply'[p] = reply[p],
         \A q \in Request : Asked(q) => Asked(q)' /\ asker'[q].action = asker[q].action
  PROVE  ReplyInv(p)'
<1>1. ReplyInv(p)
  BY DEF IndInv
<1> QED
  BY <1>1 DEF ReplyInv, HistoryGrows, Refusals

LEMMA RequestStays ==
  ASSUME IndInv, HistoryGrows, NEW q \in Request,
         asker'[q] = asker[q], outcome'[q] = outcome[q],
         q \in pending' <=> q \in pending, MayGoOn(q)' => q \in covered',
         UNCHANGED <<closed, closing>>, faults > 0 => faults' > 0
  PROVE  RequestInv(q)' /\ AnswerInv(q)' /\ WaitInv(q)'
<1>1. RequestInv(q) /\ AnswerInv(q) /\ WaitInv(q)
  BY DEF IndInv
<1>2. RequestInv(q)'
  BY <1>1 DEF RequestInv, Asked, IsBacked, HistoryGrows
<1>3. AnswerInv(q)'
  BY <1>1 DEF AnswerInv, HistoryGrows
<1>4. WaitInv(q)'
  BY <1>1 DEF WaitInv, Waits
<1> QED
  BY <1>2, <1>3, <1>4

LEMMA InitIndInv == Init => IndInv
<1> SUFFICES ASSUME Init PROVE IndInv
  OBVIOUS
<1>1. TypeOK
  <2>1. NoReply \in ReplyRecord
    BY DEF NoReply, ReplyRecord
  <2>2. [at |-> "away", waits |-> TRUE, action |-> None]
          \in [at : Places, waits : BOOLEAN, action : Action \union {None}]
    BY DEF Places
  <2>3. edits \in 0..MaxTrouble /\ faults \in 0..MaxTrouble
    BY PermissionAssumption DEF Init
  <2> QED
    BY <2>1, <2>2, <2>3 DEF Init, TypeOK, Rulings
<1>2. closing # {} => closed
  BY DEF Init
<1>3. ASSUME NEW r \in Request PROVE RequestInv(r) /\ AnswerInv(r) /\ WaitInv(r)
  BY DEF Init, RequestInv, AnswerInv, WaitInv, Asked, IsBacked, MayGoOn, Waits
<1>4. ASSUME NEW p \in Replier PROVE ReplyInv(p)
  BY DEF Init, NoReply, ReplyInv
<1> QED
  BY <1>1, <1>2, <1>3, <1>4 DEF IndInv

-----------------------------------------------------------------------------
(* Callers.                                                                *)

(* A step of the call behind r.  Its Deferred is completed by the step only*)
(* where the Location is closed.                                           *)
LEMMA CallerMoves ==
  ASSUME IndInv, NEW r \in Request,
         UNCHANGED <<reply, closed, closing, rules, told, approved>>,
         covered \subseteq covered', covered' \subseteq Request, MayGoOn(r)' => r \in covered',
         asker' \in [Request -> AskerRecord],
         Asked(r)', asker'[r].action \in Action,
         Asked(r) => asker'[r].action = asker[r].action,
         asker'[r].at = "allowed" => IsBacked(r)',
         pending' \subseteq Request,
         outcome' \in [Request -> Outcomes \union {"open"}],
         outcome'[r] = outcome[r] \/ (closed /\ outcome'[r] = "declined"),
         \A q \in Request \ {r} : /\ asker'[q] = asker[q]
                                  /\ outcome'[q] = outcome[q]
                                  /\ q \in pending' <=> q \in pending,
         faults' \in 0..MaxTrouble, faults > 0 => faults' > 0,
         WaitInv(r)'
  PROVE  IndInv'
<1>1. /\ UNCHANGED <<ruling, saved, edits, told, approved>>
      /\ HistoryGrows
  BY DEF rules, HistoryGrows
<1>2. TypeOK'
  BY <1>1 DEF IndInv, TypeOK, AskerRecord
<1>3. ASSUME NEW q \in Request PROVE RequestInv(q)' /\ AnswerInv(q)' /\ WaitInv(q)'
  <2>1. CASE q # r
    <3>1. MayGoOn(q)' => q \in covered'
      BY <1>1, <2>1 DEF MayGoOn, Permitted, IndInv, RequestInv
    <3> QED
      BY <1>1, <2>1, <3>1, RequestStays
  <2>2. RequestInv(r) /\ AnswerInv(r)
    BY DEF IndInv
  <2>3. RequestInv(r)'
    BY <1>1, <2>2 DEF RequestInv, Asked, IsBacked
  <2>4. AnswerInv(r)'
    BY <1>1, <2>2 DEF AnswerInv
  <2> QED
    BY <2>1, <2>3, <2>4
<1>4. \A q \in Request : Asked(q) => Asked(q)' /\ asker'[q].action = asker[q].action
  BY DEF Asked
<1>5. \A p \in Replier : ReplyInv(p)'
  BY <1>1, <1>4, OthersStay
<1> QED
  BY <1>2, <1>3, <1>5 DEF IndInv

LEMMA AskStep ==
  ASSUME IndInv, NEW r \in Request, NEW action \in Actions[r], NEW waits \in BOOLEAN,
         Ask(r, action, waits)
  PROVE  IndInv'
<1> DEFINE new == [at |-> IF closed THEN "over" ELSE "evaluating",
                   waits |-> waits, action |-> action]
<1>1. action \in Action
  BY PermissionAssumption
<1>2. new \in AskerRecord /\ new.at \in {"over", "evaluating"} /\ new.action = action
  BY <1>1 DEF AskerRecord, Places
<1>3. /\ asker' = [asker EXCEPT ![r] = new] /\ ~Asked(r)
      /\ UNCHANGED <<pending, outcome, reply, closed, closing, rules, told, approved, faults>>
      /\ Cover
  BY DEF Ask, Asked
<1>4. /\ asker' \in [Request -> AskerRecord]
      /\ asker'[r] = new
      /\ \A q \in Request \ {r} : asker'[q] = asker[q]
  BY <1>2, <1>3 DEF IndInv, TypeOK, AskerRecord
<1>5. WaitInv(r)'
  BY <1>2, <1>4 DEF WaitInv, Waits
<1>6. covered \subseteq covered' /\ covered' \subseteq Request /\ (MayGoOn(r)' => r \in covered')
  BY <1>3, CoverCovers DEF IndInv, CoversAll
<1> HIDE DEF new
<1> QED
  BY <1>1, <1>2, <1>3, <1>4, <1>5, <1>6, CallerMoves DEF Asked, IndInv, TypeOK

LEMMA CallerSteps ==
  ASSUME IndInv, NEW r \in Request,
         \/ Evaluate(r) \/ Create(r) \/ Announced(r) \/ AnnounceFails(r)
         \/ Resume(r) \/ Interrupt(r)
  PROVE  IndInv'
<1>1. /\ UNCHANGED <<reply, closed, closing, rules, history>>
      /\ UNCHANGED <<ruling, saved, told, approved, covered>>
      /\ Asked(r)
  BY DEF Evaluate, Create, Announced, AnnounceFails, Resume, Interrupt, Asked, rules, history
<1>2. /\ RequestInv(r) /\ WaitInv(r) /\ TypeOK
      /\ asker[r].action \in Action
      /\ pending \subseteq Request /\ outcome \in [Request -> Outcomes \union {"open"}]
      /\ faults \in 0..MaxTrouble
      /\ covered \subseteq covered' /\ covered' \subseteq Request
      /\ asker'[r].action = asker[r].action => (MayGoOn(r)' => r \in covered')
  BY <1>1 DEF IndInv, RequestInv, TypeOK, MayGoOn, Permitted, Asked
<1>3. CASE Evaluate(r)
  <2>1. PICK place \in {"over", "allowed", "prompting"} :
          /\ Goes(r, place)
          /\ place = "allowed" => MayGoOn(r)
    BY <1>1, <1>3 DEF Evaluate, Effect, MayGoOn, Asked
  <2>2. /\ UNCHANGED <<pending, outcome, faults>>
        /\ place = "allowed" => IsBacked(r)
    BY <1>2, <1>3, <2>1 DEF Evaluate, IsBacked, RequestInv
  <2>3. WaitInv(r)'
    BY <1>2, <2>1, GoesIs DEF WaitInv, Waits, Places
  <2> QED
    BY <1>1, <1>2, <2>1, <2>2, <2>3, GoesIs, CallerMoves DEF Asked, IsBacked, Places
<1>4. CASE Create(r)
  <2>1. PICK place \in {"waiting", "queued", "announcing"} :
          /\ Goes(r, place)
          /\ \/ closed /\ Settle(r, "declined") /\ pending' = pending
             \/ ~closed /\ pending' = pending \union {r} /\ outcome' = outcome
    BY <1>4 DEF Create
  <2>2. faults' = faults
    BY <1>4 DEF Create
  <2>3. /\ asker' \in [Request -> AskerRecord]
        /\ asker'[r].at = place
        /\ asker'[r].action = asker[r].action
        /\ \A q \in Request \ {r} : asker'[q] = asker[q]
    BY <1>2, <2>1, GoesIs DEF Places
  <2>4. CASE closed /\ Settle(r, "declined") /\ pending' = pending
    <3>1. /\ outcome' \in [Request -> Outcomes \union {"open"}]
          /\ outcome'[r] # "open" /\ outcome'[r] \in {outcome[r], "declined"}
          /\ \A q \in Request \ {r} : outcome'[q] = outcome[q]
      BY <1>2, <2>4, SettleIs DEF Outcomes
    <3>2. WaitInv(r)'
      BY <3>1 DEF WaitInv, Waits
    <3> QED
      BY <1>1, <1>2, <2>2, <2>3, <2>4, <3>1, <3>2, CallerMoves DEF Asked
  <2>5. CASE ~closed /\ pending' = pending \union {r} /\ outcome' = outcome
    <3>1. WaitInv(r)'
      BY <1>1, <2>5 DEF WaitInv
    <3> QED
      BY <1>1, <1>2, <2>2, <2>3, <2>5, <3>1, CallerMoves DEF Asked
  <2> QED
    BY <2>1, <2>4, <2>5
<1>5. CASE Announced(r)
  <2>1. PICK place \in {"waiting", "queued"} : Goes(r, place)
    BY <1>5 DEF Announced
  <2>2. UNCHANGED <<pending, outcome, faults>> /\ asker[r].at = "announcing"
    BY <1>5 DEF Announced
  <2>3. WaitInv(r)'
    BY <1>1, <1>2, <2>1, <2>2, GoesIs DEF WaitInv, Waits, Places
  <2> QED
    BY <1>1, <1>2, <2>1, <2>2, <2>3, GoesIs, CallerMoves DEF Asked, Places
<1>6. CASE AnnounceFails(r) \/ Resume(r) \/ Interrupt(r)
  <2>1. PICK place \in {"over", "allowed"} :
          /\ Goes(r, place)
          /\ place = "allowed" => outcome[r] = "allowed"
    BY <1>6 DEF AnnounceFails, Resume, Interrupt
  <2>2. pending' = pending \ {r} /\ outcome' = outcome
    BY <1>6 DEF AnnounceFails, Resume, Interrupt
  <2>3. faults' \in 0..MaxTrouble /\ (faults > 0 => faults' > 0)
    BY <1>2, <1>6, TroubleIsBounded DEF AnnounceFails, Resume, Interrupt, Fault
  <2>4. place = "allowed" => IsBacked(r)
    BY <1>2, <2>1 DEF RequestInv
  <2>5. /\ asker' \in [Request -> AskerRecord]
        /\ asker'[r].at = place
        /\ asker'[r].action = asker[r].action
        /\ \A q \in Request \ {r} : asker'[q] = asker[q]
    BY <1>2, <2>1, GoesIs DEF Places
  <2>6. WaitInv(r)'
    BY <2>1, <2>5 DEF WaitInv, Waits
  <2> QED
    BY <1>1, <1>2, <2>1, <2>2, <2>3, <2>4, <2>5, <2>6, CallerMoves DEF Asked, IsBacked
<1> QED
  BY <1>3, <1>4, <1>5, <1>6

-----------------------------------------------------------------------------
(* Replies.                                                                *)

(* What completes a Deferred says the truth of it.                         *)
Justifies(s, result) ==
  /\ result = "allowed" => IsBacked(s) /\ told[s] \intersect {"once", "always"} # {}
  /\ result # "allowed" => "reject" \in told[s]

LEMMA ReplyMoves ==
  ASSUME IndInv, NEW p \in Replier, HistoryGrows,
         UNCHANGED <<asker, closed, closing, ruling, edits>>,
         told' \in [Request -> SUBSET Replies],
         approved' \subseteq Request, covered' \subseteq Request, saved' \subseteq Action, CoversAll,
         faults' \in 0..MaxTrouble, faults > 0 => faults' > 0,
         reply' = [reply EXCEPT ![p] = reply'[p]], reply'[p] \in ReplyRecord, ReplyInv(p)',
         \/ UNCHANGED <<pending, outcome>>
         \/ \E s \in Request, result \in Outcomes :
              /\ Asked(s) /\ Justifies(s, result)
              /\ Settle(s, result) /\ pending' = pending \ {s}
  PROVE  IndInv'
<1>1. /\ outcome' \in [Request -> Outcomes \union {"open"}] /\ pending' \subseteq Request
      /\ reply' \in [Replier -> ReplyRecord]
  BY SettleIs DEF IndInv, TypeOK
<1>2. TypeOK'
  BY <1>1 DEF IndInv, TypeOK
<1>3. ASSUME NEW q \in Request PROVE RequestInv(q)' /\ AnswerInv(q)' /\ WaitInv(q)'
  <2>1. CASE outcome'[q] = outcome[q] /\ (q \in pending' <=> q \in pending)
    BY <2>1, RequestStays DEF CoversAll
  <2>2. CASE ~(outcome'[q] = outcome[q] /\ (q \in pending' <=> q \in pending))
    <3>1. PICK s \in Request, result \in Outcomes :
            /\ Asked(s) /\ Justifies(s, result)
            /\ Settle(s, result) /\ pending' = pending \ {s}
      BY <2>2
    <3>2. /\ outcome'[s] # "open"
          /\ outcome'[s] \in {outcome[s], result}
          /\ \A r \in Request \ {s} : outcome'[r] = outcome[r]
      BY <3>1, SettleIs DEF IndInv
    <3>3. q = s
      BY <2>2, <3>1, <3>2
    <3>4. RequestInv(q) /\ AnswerInv(q)
      BY DEF IndInv
    <3>5. RequestInv(q)'
      BY <3>1, <3>2, <3>3, <3>4
      DEF RequestInv, Justifies, Asked, IsBacked, HistoryGrows, CoversAll
    <3>6. AnswerInv(q)'
      BY <3>1, <3>2, <3>3, <3>4 DEF AnswerInv, Justifies, HistoryGrows, Outcomes
    <3>7. WaitInv(q)'
      BY <3>2, <3>3 DEF WaitInv, Waits
    <3> QED
      BY <3>5, <3>6, <3>7
  <2> QED
    BY <2>1, <2>2
<1>4. \A q \in Request : Asked(q) => Asked(q)' /\ asker'[q].action = asker[q].action
  BY DEF Asked
<1>5. ASSUME NEW o \in Replier PROVE ReplyInv(o)'
  <2>1. CASE o # p
    <3>1. reply'[o] = reply[o]
      BY <2>1 DEF IndInv, TypeOK
    <3> QED
      BY <1>4, <3>1, OthersStay
  <2> QED
    BY <2>1
<1> QED
  BY <1>2, <1>3, <1>5 DEF IndInv

(* A reply record after a step that changes some of its fields.            *)
LEMMA ReplyIs ==
  ASSUME TypeOK, NEW p \in Replier
  PROVE  /\ reply[p] \in ReplyRecord
         /\ \A new \in ReplyRecord : reply' = [reply EXCEPT ![p] = new] =>
              reply'[p] = new /\ reply' = [reply EXCEPT ![p] = reply'[p]]
         /\ reply' = [reply EXCEPT ![p] = NoReply] =>
              /\ reply'[p] \in ReplyRecord /\ reply' = [reply EXCEPT ![p] = reply'[p]]
              /\ reply'[p].at = "idle"
<1>1. reply \in [Replier -> ReplyRecord] /\ NoReply \in ReplyRecord /\ NoReply.at = "idle"
  BY DEF TypeOK, NoReply, ReplyRecord
<1> QED
  BY <1>1

LEMMA IdleReply ==
  ASSUME NEW p \in Replier, reply'[p].at = "idle"
  PROVE  ReplyInv(p)'
BY DEF ReplyInv

(* A reply goes on: what it answers does not change.                       *)
GoesOnTo(p, at, item) ==
  /\ reply'[p] \in ReplyRecord /\ reply' = [reply EXCEPT ![p] = reply'[p]]
  /\ reply'[p].at = at /\ reply'[p].item = item
  /\ reply'[p].id = reply[p].id /\ reply'[p].reply = reply[p].reply

ReplyPlaces == {"telling", "saving", "batch", "batchTelling", "sweep", "judging", "sweepTelling"}

LEMMA PlaceChanges ==
  ASSUME TypeOK, NEW p \in Replier, NEW at \in ReplyPlaces,
         reply' = [reply EXCEPT ![p].at = at]
  PROVE  GoesOnTo(p, at, reply[p].item)
BY DEF TypeOK, GoesOnTo, ReplyPlaces, ReplyRecord

LEMMA ItemChanges ==
  ASSUME TypeOK, NEW p \in Replier, NEW at \in ReplyPlaces,
         NEW item \in Request \union {None},
         reply' = [reply EXCEPT ![p] = [@ EXCEPT !.at = at, !.item = item]]
  PROVE  GoesOnTo(p, at, item)
BY DEF TypeOK, GoesOnTo, ReplyPlaces, ReplyRecord

LEMMA VisitedChanges ==
  ASSUME TypeOK, NEW p \in Replier, NEW at \in ReplyPlaces,
         NEW item \in Request, NEW visited \in SUBSET Request,
         reply' = [reply EXCEPT ![p] =
           [@ EXCEPT !.at = at, !.item = item, !.visited = visited]]
  PROVE  GoesOnTo(p, at, item)
BY DEF TypeOK, GoesOnTo, ReplyPlaces, ReplyRecord

LEMMA ReplyStartsStep ==
  ASSUME IndInv, NEW p \in Replier, NEW r \in Request, NEW word \in Replies,
         ReplyStarts(p, r, word)
  PROVE  IndInv'
<1> DEFINE said == IF word = "correct" THEN "reject" ELSE word
           new == [NoReply EXCEPT !.at = "telling", !.id = r, !.reply = word]
<1>1. /\ r \in pending /\ Announces(r, said)
      /\ reply' = [reply EXCEPT ![p] = new]
      /\ approved' = IF word \in Refusals THEN approved ELSE approved \union {r}
      /\ UNCHANGED <<pending, outcome, asker, closed, closing, covered, faults>>
      /\ UNCHANGED <<ruling, saved, edits>>
  BY DEF ReplyStarts, rules
<1>2. /\ new \in ReplyRecord /\ new.at = "telling" /\ new.id = r /\ new.reply = word
  BY DEF NoReply, ReplyRecord
<1>3. reply'[p] = new /\ reply' = [reply EXCEPT ![p] = reply'[p]]
  BY <1>1, <1>2, ReplyIs DEF IndInv
<1>4. /\ told' \in [Request -> SUBSET Replies] /\ said \in told'[r]
      /\ \A q \in Request : told[q] \subseteq told'[q]
  BY <1>1, AnnouncesIs DEF IndInv, Replies
<1>5. HistoryGrows /\ approved' \subseteq Request
  BY <1>1, <1>4 DEF HistoryGrows, IndInv, TypeOK
<1>6. Asked(r)' /\ CoversAll
  BY <1>1, StillCovered DEF IndInv, RequestInv, Asked
<1>7. word \in Refusals => said = "reject"
  BY DEF Refusals
<1>8. word \notin Refusals => said = word /\ r \in approved'
  BY <1>1 DEF Refusals
<1> HIDE DEF new, said
<1>9. ReplyInv(p)'
  BY <1>2, <1>3, <1>4, <1>6, <1>7, <1>8 DEF ReplyInv
<1> QED
  BY <1>1, <1>2, <1>3, <1>4, <1>5, <1>6, <1>9, ReplyMoves DEF IndInv, TypeOK

(* The history, the rules and the counters in a step that settles, or that *)
(* only turns a page.                                                      *)
LEMMA NothingNew ==
  ASSUME IndInv, UNCHANGED <<asker, rules, history, faults>>
  PROVE  /\ HistoryGrows /\ CoversAll /\ UNCHANGED <<ruling, saved, edits, told, approved, covered, faults>>
         /\ told' \in [Request -> SUBSET Replies]
         /\ approved' \subseteq Request /\ covered' \subseteq Request /\ saved' \subseteq Action
         /\ faults' \in 0..MaxTrouble /\ (faults > 0 => faults' > 0)
<1>1. UNCHANGED <<ruling, saved, edits, told, approved, covered, faults>>
  BY DEF rules, history
<1> QED
  BY <1>1, StillCovered DEF HistoryGrows, IndInv, TypeOK

LEMMA ReplySettles ==
  ASSUME IndInv, NEW p \in Replier,
         Refuse(p) \/ Allow(p) \/ AllowSaved(p) \/ BatchRefuses(p) \/ SweepAllows(p)
  PROVE  IndInv'
<1>1. /\ UNCHANGED <<asker, closed, closing, rules, history, faults>>
      /\ ReplyInv(p) /\ TypeOK
  BY DEF Refuse, Allow, AllowSaved, BatchRefuses, SweepAllows, IndInv
<1>2. /\ HistoryGrows /\ CoversAll /\ UNCHANGED <<ruling, saved, edits, told, approved, covered, faults>>
      /\ told' \in [Request -> SUBSET Replies]
      /\ approved' \subseteq Request /\ covered' \subseteq Request /\ saved' \subseteq Action
      /\ faults' \in 0..MaxTrouble /\ (faults > 0 => faults' > 0)
  BY <1>1, NothingNew
<1>3. Refusal(p) \in {"declined", "corrected"} /\ {"declined", "corrected"} \subseteq Outcomes
  BY DEF Refusal, Outcomes
<1>4. reply[p].at # "idle" => reply[p].id \in Request /\ Asked(reply[p].id)
  BY <1>1 DEF ReplyInv
<1>5. "allowed" \in Outcomes
  BY DEF Outcomes
<1>6. CASE Refuse(p)
  <2>1. /\ reply[p].at = "telling" /\ reply[p].reply \in Refusals
        /\ Settle(reply[p].id, Refusal(p)) /\ pending' = pending \ {reply[p].id}
        /\ reply' = [reply EXCEPT ![p].at = "batch"]
    BY <1>6 DEF Refuse
  <2>2. Justifies(reply[p].id, Refusal(p))
    BY <1>1, <1>3, <2>1 DEF ReplyInv, Justifies
  <2>3. GoesOnTo(p, "batch", reply[p].item)
    BY <1>1, <2>1, PlaceChanges DEF ReplyPlaces
  <2>4. ReplyInv(p)'
    BY <1>1, <2>1, <2>3 DEF GoesOnTo, ReplyInv, Asked
  <2> QED
    BY <1>1, <1>2, <1>3, <1>4, <2>1, <2>2, <2>3, <2>4, ReplyMoves DEF GoesOnTo
<1>7. CASE Allow(p)
  <2>1. /\ reply[p].at = "telling" /\ reply[p].reply \notin Refusals
        /\ Settle(reply[p].id, "allowed") /\ pending' = pending \ {reply[p].id}
        /\ reply' = [reply EXCEPT ![p] = NoReply]
    BY <1>7 DEF Allow
  <2>2. Justifies(reply[p].id, "allowed")
    BY <1>1, <2>1 DEF ReplyInv, Justifies, IsBacked, Replies, Refusals
  <2>3. reply'[p] \in ReplyRecord /\ reply' = [reply EXCEPT ![p] = reply'[p]] /\ ReplyInv(p)'
    BY <1>1, <2>1, ReplyIs, IdleReply
  <2> QED
    BY <1>1, <1>2, <1>4, <1>5, <2>1, <2>2, <2>3, ReplyMoves
<1>8. CASE AllowSaved(p)
  <2>1. /\ reply[p].at = "saving"
        /\ Settle(reply[p].id, "allowed") /\ pending' = pending \ {reply[p].id}
        /\ reply' = [reply EXCEPT ![p].at = "sweep"]
    BY <1>8 DEF AllowSaved
  <2>2. Justifies(reply[p].id, "allowed")
    BY <1>1, <2>1 DEF ReplyInv, Justifies, IsBacked
  <2>3. GoesOnTo(p, "sweep", reply[p].item)
    BY <1>1, <2>1, PlaceChanges DEF ReplyPlaces
  <2>4. ReplyInv(p)'
    BY <1>1, <2>1, <2>3 DEF GoesOnTo, ReplyInv, Asked
  <2> QED
    BY <1>1, <1>2, <1>4, <1>5, <2>1, <2>2, <2>3, <2>4, ReplyMoves DEF GoesOnTo
<1>9. CASE BatchRefuses(p)
  <2>1. /\ reply[p].at = "batchTelling"
        /\ Settle(reply[p].item, Refusal(p)) /\ pending' = pending \ {reply[p].item}
        /\ reply' = [reply EXCEPT ![p] = [@ EXCEPT !.at = "batch", !.item = None]]
    BY <1>9 DEF BatchRefuses
  <2>2. /\ reply[p].item \in Request /\ Asked(reply[p].item)
        /\ Justifies(reply[p].item, Refusal(p))
    BY <1>1, <1>3, <2>1 DEF ReplyInv, Justifies
  <2>3. GoesOnTo(p, "batch", None)
    BY <1>1, <2>1, ItemChanges DEF ReplyPlaces
  <2>4. ReplyInv(p)'
    BY <1>1, <2>1, <2>3 DEF GoesOnTo, ReplyInv, Asked
  <2> QED
    BY <1>1, <1>2, <1>3, <2>1, <2>2, <2>3, <2>4, ReplyMoves DEF GoesOnTo
<1>10. CASE SweepAllows(p)
  <2>1. /\ reply[p].at = "sweepTelling"
        /\ Settle(reply[p].item, "allowed") /\ pending' = pending \ {reply[p].item}
        /\ reply' = [reply EXCEPT ![p] = [@ EXCEPT !.at = "sweep", !.item = None]]
    BY <1>10 DEF SweepAllows
  <2>2. /\ reply[p].item \in Request /\ Asked(reply[p].item)
        /\ Justifies(reply[p].item, "allowed")
    BY <1>1, <2>1 DEF ReplyInv, Justifies, IsBacked
  <2>3. GoesOnTo(p, "sweep", None)
    BY <1>1, <2>1, ItemChanges DEF ReplyPlaces
  <2>4. ReplyInv(p)'
    BY <1>1, <2>1, <2>3 DEF GoesOnTo, ReplyInv, Asked
  <2> QED
    BY <1>1, <1>2, <1>5, <2>1, <2>2, <2>3, <2>4, ReplyMoves DEF GoesOnTo
<1> QED
  BY <1>6, <1>7, <1>8, <1>9, <1>10

LEMMA SaveStep ==
  ASSUME IndInv, NEW p \in Replier, Save(p)
  PROVE  IndInv'
<1> DEFINE action == asker[reply[p].id].action
<1>1. /\ reply[p].at = "telling" /\ reply[p].reply = "always"
      /\ saved' = saved \union {action} /\ Cover
      /\ reply' = [reply EXCEPT ![p].at = "saving"]
      /\ UNCHANGED <<pending, outcome, asker, closed, closing, ruling, edits, told, approved, faults>>
  BY DEF Save, IsKept
<1>2. ReplyInv(p) /\ TypeOK
  BY DEF IndInv
<1>3. reply[p].id \in Request /\ action \in Action
  BY <1>1, <1>2 DEF ReplyInv, IndInv, RequestInv
<1>4. GoesOnTo(p, "saving", reply[p].item)
  BY <1>1, <1>2, PlaceChanges DEF ReplyPlaces
<1>5. HistoryGrows /\ CoversAll /\ covered' \subseteq Request
  BY <1>1, <1>2, CoverCovers DEF HistoryGrows
<1>6. ReplyInv(p)'
  BY <1>1, <1>2, <1>4 DEF ReplyInv, GoesOnTo, Asked, Refusals
<1> QED
  BY <1>1, <1>2, <1>3, <1>4, <1>5, <1>6, ReplyMoves DEF GoesOnTo, TypeOK

LEMMA ReplyTells ==
  ASSUME IndInv, NEW p \in Replier, BatchTells(p) \/ SweepTells(p)
  PROVE  IndInv'
<1>1. ReplyInv(p) /\ TypeOK
  BY DEF IndInv
<1>2. PICK s \in Request, word \in Replies, at \in {"batchTelling", "sweepTelling"} :
        /\ Announces(s, word) /\ GoesOnTo(p, at, s)
        /\ reply[p].at \in {"batch", "judging"} /\ Asked(s)
        /\ at = "batchTelling" => reply[p].at = "batch" /\ word = "reject"
        /\ at = "sweepTelling" => word = "always" /\ s \in covered
        /\ UNCHANGED <<pending, outcome, asker, closed, closing, rules, approved, covered, faults>>
  <2>1. CASE BatchTells(p)
    <3>1. PICK s \in Siblings(reply[p].id) :
            /\ Announces(s, "reject")
            /\ reply' = [reply EXCEPT ![p] = [@ EXCEPT !.at = "batchTelling", !.item = s]]
      BY <2>1 DEF BatchTells
    <3>2. s \in Request /\ Asked(s)
      BY <3>1 DEF Siblings, IndInv, RequestInv, TypeOK
    <3>3. GoesOnTo(p, "batchTelling", s)
      BY <1>1, <3>1, <3>2, ItemChanges DEF ReplyPlaces
    <3> QED
      BY <2>1, <3>1, <3>2, <3>3 DEF BatchTells, Replies
  <2>2. CASE SweepTells(p)
    <3> DEFINE s == reply[p].item
    <3>1. /\ reply[p].at = "judging" /\ Effect(asker[s].action) = "allow"
          /\ Announces(s, "always") /\ reply' = [reply EXCEPT ![p].at = "sweepTelling"]
      BY <2>2 DEF SweepTells
    <3>2. s \in Request /\ Asked(s)
      BY <1>1, <3>1 DEF ReplyInv
    <3>3. s \in covered
      BY <3>1, <3>2 DEF IndInv, RequestInv, MayGoOn, Effect, Asked
    <3>4. GoesOnTo(p, "sweepTelling", s)
      BY <1>1, <3>1, PlaceChanges DEF ReplyPlaces
    <3> QED
      BY <2>2, <3>1, <3>2, <3>3, <3>4 DEF SweepTells, Replies
  <2> QED
    BY <2>1, <2>2
<1>3. /\ told' \in [Request -> SUBSET Replies] /\ word \in told'[s]
      /\ \A q \in Request : told[q] \subseteq told'[q]
  BY <1>1, <1>2, AnnouncesIs
<1>4. HistoryGrows /\ CoversAll /\ UNCHANGED <<ruling, saved, edits>>
  BY <1>2, <1>3, StillCovered DEF HistoryGrows, rules
<1>5. ReplyInv(p)'
  BY <1>1, <1>2, <1>3 DEF ReplyInv, GoesOnTo, Asked
<1> QED
  BY <1>1, <1>2, <1>3, <1>4, <1>5, ReplyMoves DEF GoesOnTo, TypeOK

LEMMA ReplyTurns ==
  ASSUME IndInv, NEW p \in Replier,
         \/ BatchEnds(p) \/ SweepPicks(p) \/ SweepSkips(p) \/ SweepEnds(p)
         \/ ReplyFails(p)
  PROVE  IndInv'
<1>1. /\ UNCHANGED <<pending, outcome, asker, closed, closing, rules, history>>
      /\ UNCHANGED <<ruling, saved, edits, told, approved, covered>>
  BY DEF BatchEnds, SweepPicks, SweepSkips, SweepEnds, ReplyFails, rules, history
<1>2. ReplyInv(p) /\ TypeOK
  BY DEF IndInv
<1>3. faults' \in 0..MaxTrouble /\ (faults > 0 => faults' > 0)
  <2>1. CASE faults' = faults
    BY <1>2, <2>1 DEF TypeOK
  <2>2. CASE Fault
    <3>1. faults + 1 \in 0..MaxTrouble /\ faults \in 0..MaxTrouble
      BY <1>2, <2>2, TroubleIsBounded DEF Fault, TypeOK
    <3> QED
      BY <2>2, <3>1 DEF Fault
  <2> QED
    BY <2>1, <2>2 DEF BatchEnds, SweepPicks, SweepSkips, SweepEnds, ReplyFails
<1>4. /\ reply'[p] \in ReplyRecord /\ reply' = [reply EXCEPT ![p] = reply'[p]]
      /\ ReplyInv(p)'
  <2>1. CASE BatchEnds(p) \/ SweepEnds(p) \/ ReplyFails(p)
    <3>1. reply' = [reply EXCEPT ![p] = NoReply]
      BY <2>1 DEF BatchEnds, SweepEnds, ReplyFails
    <3> QED
      BY <1>2, <3>1, ReplyIs, IdleReply
  <2>2. CASE SweepPicks(p)
    <3>1. PICK s \in pending : reply' = [reply EXCEPT ![p] =
            [@ EXCEPT !.at = "judging", !.item = s,
                      !.visited = reply[p].visited \union {s}]]
      BY <2>2 DEF SweepPicks
    <3>2. s \in Request /\ Asked(s)
      BY DEF IndInv, RequestInv, TypeOK
    <3>3. GoesOnTo(p, "judging", s)
      <4>1. reply[p].visited \union {s} \in SUBSET Request
        BY <1>2, <3>2, ReplyIs DEF ReplyRecord
      <4> QED
        BY <1>2, <3>1, <3>2, <4>1, VisitedChanges DEF ReplyPlaces
    <3>4. reply[p].at = "sweep"
      BY <2>2 DEF SweepPicks
    <3>5. ReplyInv(p)'
      BY <1>1, <1>2, <3>2, <3>3, <3>4 DEF ReplyInv, GoesOnTo, Asked
    <3> QED
      BY <3>3, <3>5 DEF GoesOnTo
  <2>3. CASE SweepSkips(p)
    <3>1. /\ reply[p].at = "judging"
          /\ reply' = [reply EXCEPT ![p] = [@ EXCEPT !.at = "sweep", !.item = None]]
      BY <2>3 DEF SweepSkips
    <3>2. GoesOnTo(p, "sweep", None)
      BY <1>2, <3>1, ItemChanges DEF ReplyPlaces
    <3>3. ReplyInv(p)'
      BY <1>1, <1>2, <3>1, <3>2 DEF ReplyInv, GoesOnTo, Asked
    <3> QED
      BY <3>2, <3>3 DEF GoesOnTo
  <2> QED
    BY <2>1, <2>2, <2>3
<1>5. HistoryGrows /\ CoversAll
  BY <1>1, StillCovered DEF HistoryGrows
<1> QED
  BY <1>1, <1>2, <1>3, <1>4, <1>5, ReplyMoves DEF TypeOK

-----------------------------------------------------------------------------
(* Closing, and the rules.                                                 *)

LEMMA CloseStep ==
  ASSUME IndInv, Close
  PROVE  IndInv'
<1>1. /\ closing = {} /\ closed' = TRUE /\ closing' = pending
      /\ UNCHANGED <<pending, outcome, asker, reply, faults>>
      /\ UNCHANGED <<ruling, saved, edits, told, approved, covered>>
  BY DEF Close, rules, history
<1>2. TypeOK'
  BY <1>1 DEF IndInv, TypeOK
<1>3. ASSUME NEW q \in Request PROVE RequestInv(q)' /\ AnswerInv(q)' /\ WaitInv(q)'
  <2>1. RequestInv(q) /\ AnswerInv(q) /\ WaitInv(q)
    BY DEF IndInv
  <2> QED
    BY <1>1, <2>1
    DEF RequestInv, AnswerInv, WaitInv, Asked, IsBacked, MayGoOn, Permitted, Waits
<1>4. HistoryGrows
  BY <1>1 DEF HistoryGrows
<1>5. \A p \in Replier : ReplyInv(p)'
  BY <1>1, <1>4, OthersStay DEF Asked
<1> QED
  BY <1>1, <1>2, <1>3, <1>5 DEF IndInv

(* One of the snapshot is declined, by the loop or by the one that stops   *)
(* it: whoever else waits is still in the snapshot, or a listener failed.  *)
LEMMA SnapshotSteps ==
  ASSUME IndInv, NEW r \in Request, CloseSettles(r) \/ CloseFails(r)
  PROVE  IndInv'
<1>1. /\ r \in closing /\ Announces(r, "reject") /\ Settle(r, "declined")
      /\ UNCHANGED <<asker, reply, closed>>
      /\ UNCHANGED <<ruling, saved, edits, approved, covered>>
  BY DEF CloseSettles, CloseFails, rules
<1>2. \/ /\ closing' = closing \ {r} /\ faults' = faults
         /\ pending' = IF closing = {r} THEN {} ELSE pending
      \/ /\ closing' = {} /\ pending' = pending /\ faults' = faults + 1 /\ ~Troubled
  BY DEF CloseSettles, CloseFails, Fault
<1>3. /\ told' \in [Request -> SUBSET Replies] /\ "reject" \in told'[r]
      /\ \A q \in Request : told[q] \subseteq told'[q]
  BY <1>1, AnnouncesIs DEF IndInv, Replies
<1>4. /\ outcome' \in [Request -> Outcomes \union {"open"}]
      /\ outcome'[r] # "open" /\ outcome'[r] \in {outcome[r], "declined"}
      /\ \A q \in Request \ {r} : outcome'[q] = outcome[q]
  BY <1>1, SettleIs DEF IndInv, Outcomes
<1>5. faults' \in 0..MaxTrouble /\ faults \in Nat
  BY <1>2, TroubleIsBounded DEF IndInv, TypeOK
<1>6. pending' \subseteq pending /\ closing' \subseteq closing
  BY <1>2
<1>7. TypeOK'
  BY <1>1, <1>3, <1>4, <1>5, <1>6 DEF IndInv, TypeOK
<1>8. HistoryGrows
  BY <1>1, <1>3 DEF HistoryGrows
<1>9. closed
  BY <1>1 DEF IndInv
<1>10. ASSUME NEW q \in Request PROVE RequestInv(q)' /\ AnswerInv(q)' /\ WaitInv(q)'
  <2>1. RequestInv(q) /\ AnswerInv(q) /\ WaitInv(q)
    BY DEF IndInv
  <2>2. RequestInv(q)'
    <3>1. r \in closing /\ RequestInv(r)
      BY <1>1 DEF IndInv
    <3> QED
      BY <1>1, <1>4, <1>6, <2>1, <3>1 DEF RequestInv, Asked, IsBacked, MayGoOn, Permitted
  <2>3. AnswerInv(q)'
    BY <1>1, <1>3, <1>4, <1>9, <2>1 DEF AnswerInv
  <2>4. WaitInv(q)'
    BY <1>1, <1>2, <1>4, <1>5, <1>9, <2>1 DEF WaitInv, Waits
  <2> QED
    BY <2>2, <2>3, <2>4
<1>11. \A p \in Replier : ReplyInv(p)'
  BY <1>1, <1>8, OthersStay DEF Asked
<1> QED
  BY <1>1, <1>7, <1>9, <1>10, <1>11 DEF IndInv

LEMMA RuleSteps ==
  ASSUME IndInv, NEW action \in Action, Configure(action) \/ Forget(action)
  PROVE  IndInv'
<1>1. /\ UNCHANGED <<pending, outcome, asker, reply, closed, closing, faults>>
      /\ UNCHANGED <<told, approved>>
  BY DEF Configure, Forget, history
<1>2. /\ edits' \in 0..MaxTrouble /\ ruling' \in [Action -> Rulings] /\ saved' \subseteq Action
      /\ CoversAll /\ covered \subseteq covered' /\ covered' \subseteq Request
  <2>1. CASE Configure(action)
    <3>1. CoversAll /\ covered \subseteq covered' /\ covered' \subseteq Request
      BY <2>1, CoverCovers DEF Configure, IndInv
    <3>2. edits' \in 0..MaxTrouble
      BY <2>1, TroubleIsBounded DEF Configure, IndInv
    <3> QED
      BY <2>1, <3>1, <3>2, PermissionAssumption DEF Configure, IndInv, TypeOK
  <2>2. CASE Forget(action)
    <3>1. UNCHANGED <<asker, ruling, covered>> /\ saved' \subseteq saved
      BY <2>2 DEF Forget, history
    <3>2. edits' \in 0..MaxTrouble
      BY <2>2, TroubleIsBounded DEF Forget, IndInv
    <3> QED
      BY <3>1, <3>2, StillCovered DEF IndInv, TypeOK
  <2> QED
    BY <2>1, <2>2
<1>3. TypeOK'
  <2>1. TypeOK
    BY DEF IndInv
  <2> QED
    BY <1>1, <1>2, <2>1 DEF TypeOK
<1>4. HistoryGrows
  BY <1>1, <1>2 DEF HistoryGrows
<1>5. \A q \in Request : RequestInv(q)' /\ AnswerInv(q)' /\ WaitInv(q)'
  BY <1>1, <1>2, <1>4, RequestStays DEF CoversAll
<1>6. \A p \in Replier : ReplyInv(p)'
  BY <1>1, <1>4, OthersStay DEF Asked
<1> QED
  BY <1>1, <1>3, <1>5, <1>6 DEF IndInv

-----------------------------------------------------------------------------
(* The invariant is inductive.                                             *)

LEMMA NextIndInv == IndInv /\ [Next]_vars => IndInv'
<1> SUFFICES ASSUME IndInv, [Next]_vars PROVE IndInv'
  OBVIOUS
<1>1. ASSUME NEW r \in Request, Caller(r) \/ CloseSettles(r) \/ CloseFails(r)
      PROVE  IndInv'
  BY <1>1, AskStep, CallerSteps, SnapshotSteps DEF Caller
<1>2. ASSUME NEW p \in Replier, Reply(p)
      PROVE  IndInv'
  <2>1. CASE \E r \in Request, word \in Words : ReplyStarts(p, r, word)
    BY <2>1, ReplyStartsStep, PermissionAssumption
  <2> QED
    BY <1>2, <2>1, ReplySettles, SaveStep, ReplyTells, ReplyTurns DEF Reply
<1>3. CASE Close
  BY <1>3, CloseStep
<1>4. ASSUME NEW action \in Action, Configure(action) \/ Forget(action)
      PROVE  IndInv'
  BY <1>4, RuleSteps
<1>5. CASE UNCHANGED vars
  <2>1. /\ UNCHANGED <<pending, outcome, asker, reply, closed, closing, faults>>
        /\ UNCHANGED <<ruling, saved, edits, told, approved, covered>>
    BY <1>5 DEF vars, rules, history
  <2>2. TypeOK'
    BY <2>1 DEF IndInv, TypeOK
  <2>3. HistoryGrows /\ CoversAll
    BY <2>1, StillCovered DEF HistoryGrows
  <2>4. \A q \in Request : RequestInv(q)' /\ AnswerInv(q)' /\ WaitInv(q)'
    BY <2>1, <2>3, RequestStays DEF CoversAll
  <2>5. \A p \in Replier : ReplyInv(p)'
    BY <2>1, <2>3, OthersStay DEF Asked
  <2> QED
    BY <2>1, <2>2, <2>4, <2>5 DEF IndInv
<1> QED
  BY <1>1, <1>2, <1>3, <1>4, <1>5 DEF Next

THEOREM Inductive == Spec => []IndInv
BY InitIndInv, NextIndInv, PTL DEF Spec

-----------------------------------------------------------------------------
(* The Map, the Deferreds, the rules and the replies stay well formed.     *)
THEOREM TypeCorrect == Spec => []TypeOK
<1>1. IndInv => TypeOK
  BY DEF IndInv
<1> QED
  BY <1>1, Inductive, PTL

(* A tool call that waits for a person is listed, and a close finds it.    *)
THEOREM WaitsAreListed == Spec => []NobodyStranded
<1>1. IndInv => NobodyStranded
  BY DEF IndInv, WaitInv, NobodyStranded
<1> QED
  BY <1>1, Inductive, PTL

(* A call goes on only when a reply to it said yes, or a rule that stood   *)
(* since it was asked let it: a saved approval, a configured rule or a     *)
(* plugin's (evaluateInput and reply in permission.ts).                    *)
THEOREM GrantsAreBacked == Spec => []GrantIsBacked
<1>1. IndInv => GrantIsBacked
  BY DEF IndInv, RequestInv, IsBacked, GrantIsBacked
<1> QED
  BY <1>1, Inductive, PTL

(* Clients were told of a reply that says what a request was settled with. *)
THEOREM AnswersAreTold == Spec => []AnswersAreAnnounced
<1>1. IndInv => AnswersAreAnnounced
  BY DEF IndInv, AnswerInv, AnswersAreAnnounced
<1> QED
  BY <1>1, Inductive, PTL

=============================================================================
