----------------------------- MODULE Permission -----------------------------
(***************************************************************************)
(* permission.ts for one Location: tools ask, users reply from any client, *)
(* an "always" is saved and settles what it covers, a rejection settles    *)
(* the rest of its Session, and closing the Location settles everybody.    *)
(* A publication runs listeners and resumes subscribers before it returns, *)
(* so what was read before it can be stale after it: it is a step.         *)
(***************************************************************************)
EXTENDS FiniteSets, Naturals

CONSTANTS
  Request,    \* request IDs, each asked at most once
  Session,
  Action,     \* what rules talk about
  Replier,    \* fibers that serve reply requests
  None,
  SessionOf,  \* [Request -> Session]
  Actions,    \* [Request -> SUBSET Action], the actions it may be about
  Savable,    \* the requests that carry resources to save
  Words,      \* bound: the replies explored
  Edits,      \* bound: [Action -> the rulings that edits make of it]
  MaxTrouble  \* bound: publications that fail, edits of the rules and requests
              \* whose caller does not wait, together

(* correct is a rejection with a message; clients are told of a reject.    *)
Replies  == {"once", "always", "reject", "correct"}
Refusals == {"reject", "correct"}
Outcomes == {"allowed", "declined", "corrected"}

(* What the configured rules say of an action, and a plugin's hook after   *)
(* them: insist is a hook that makes it ask whatever is saved.             *)
Rulings == {"ask", "allow", "deny", "insist"}

ASSUME PermissionAssumption ==
  /\ SessionOf \in [Request -> Session]
  /\ Actions \in [Request -> SUBSET Action]
  /\ Savable \subseteq Request
  /\ None \notin Request \union Replies
  /\ Words \subseteq Replies
  /\ Edits \in [Action -> SUBSET Rulings]
  /\ IsFiniteSet(Request)
  /\ MaxTrouble \in Nat

VARIABLES
  pending,  \* the keys of the pending Map
  outcome,  \* [Request -> how its Deferred is completed, or "open"]
  asker,    \* [Request -> where the caller that asked it is]
  reply,    \* [Replier -> record]: where each reply is
  closed,
  closing,  \* the requests of its snapshot that close has still to settle
  ruling,   \* [Action -> what the configured rules and the plugins say]
  saved,    \* the actions saved approvals allow
  edits,    \* how many edits of the rules so far
  faults,   \* how many publications failed so far
  told,     \* history: [Request -> the replies announced for it]
  approved, \* history: the requests a reply itself allowed
  covered   \* history: the requests that a rule has allowed since they were asked

rules   == <<ruling, saved, edits>>
history == <<told, approved, covered>>
vars    == <<pending, outcome, asker, reply, closed, closing, rules, faults, history>>

(* evaluating: the rules are about to be read.  prompting: they said to    *)
(* ask.  announcing: in the Map, Asked being published.  queued: ask has   *)
(* returned and nobody waits for the reply.  over: the call may not go on. *)
Places == {"away", "evaluating", "prompting", "announcing", "waiting", "queued", "allowed", "over"}

(* telling: Replied for the request itself is being published.  batch and  *)
(* sweep: in the loop over the Map.  judging: the rules are being read for *)
(* item.  telling it: Replied for item is being published.                 *)
ReplyRecord ==
  [at : {"idle", "telling", "saving", "batch", "batchTelling", "sweep", "judging", "sweepTelling"},
   id : Request \union {None}, reply : Replies \union {None},
   item : Request \union {None}, visited : SUBSET Request]

TypeOK ==
  /\ pending \subseteq Request
  /\ outcome \in [Request -> Outcomes \union {"open"}]
  /\ asker \in [Request -> [at : Places, waits : BOOLEAN, action : Action \union {None}]]
  /\ reply \in [Replier -> ReplyRecord]
  /\ closed \in BOOLEAN
  /\ closing \subseteq Request
  /\ ruling \in [Action -> Rulings]
  /\ saved \subseteq Action
  /\ edits \in 0..MaxTrouble
  /\ faults \in 0..MaxTrouble
  /\ told \in [Request -> SUBSET Replies]
  /\ approved \subseteq Request
  /\ covered \subseteq Request

NoReply == [at |-> "idle", id |-> None, reply |-> None, item |-> None, visited |-> {}]

Init ==
  /\ pending = {}
  /\ outcome = [r \in Request |-> "open"]
  /\ asker = [r \in Request |-> [at |-> "away", waits |-> TRUE, action |-> None]]
  /\ reply = [p \in Replier |-> NoReply]
  /\ closed = FALSE
  /\ closing = {}
  /\ ruling = [action \in Action |-> "ask"]
  /\ saved = {}
  /\ edits = 0
  /\ faults = 0
  /\ told = [r \in Request |-> {}]
  /\ approved = {}
  /\ covered = {}

(***************************************************************************)
(* Asking: ask (waits is FALSE) and assert                                 *)
(***************************************************************************)
Troubled == edits + faults + Cardinality({r \in Request : ~asker[r].waits}) >= MaxTrouble

Fault == ~Troubled /\ faults' = faults + 1

Goes(r, place) == asker' = [asker EXCEPT ![r].at = place]

(* A Deferred keeps its first completion.                                  *)
Settle(r, result) ==
  outcome' = [outcome EXCEPT ![r] = IF @ = "open" THEN result ELSE @]

(* evaluateInput: a configured deny is looked for first; then saved        *)
(* approvals come after the configured rules, and the last match wins; a   *)
(* hook has the last word.                                                 *)
Permitted(action) == ruling[action] = "allow" \/ action \in saved

Effect(action) ==
  IF ruling[action] = "deny" THEN "deny"
  ELSE IF ruling[action] # "insist" /\ Permitted(action) THEN "allow"
  ELSE "ask"

(* The history of what stood behind a request, in steps that may add to it.*)
MayGoOn(r) == asker[r].at # "away" /\ Permitted(asker[r].action)

Cover == covered' = covered \union {r \in Request : MayGoOn(r)'}

Ask(r, action, waits) ==
  /\ asker[r].at = "away"
  /\ Troubled => waits
  /\ asker' = [asker EXCEPT ![r] =
       [at |-> IF closed THEN "over" ELSE "evaluating", waits |-> waits, action |-> action]]
  /\ UNCHANGED <<pending, outcome, reply, closed, closing, rules, told, approved, faults>>
  /\ Cover

Evaluate(r) ==
  /\ asker[r].at = "evaluating"
  /\ Goes(r, CASE Effect(asker[r].action) = "deny"  -> "over"
               [] Effect(asker[r].action) = "allow" -> "allowed"
               [] OTHER                         -> "prompting")
  /\ UNCHANGED <<pending, outcome, reply, closed, closing, rules, history, faults>>

\* Mutant of Create: closed was looked at when the call came in.
CreateTrustsTheFirstLook(r) ==
  /\ asker[r].at = "prompting"
  /\ pending' = pending \union {r}
  /\ Goes(r, "announcing")
  /\ UNCHANGED <<outcome, reply, closed, closing, rules, history, faults>>

(* create looks at closed again: close may have run since assert looked.   *)
Create(r) ==
  /\ asker[r].at = "prompting"
  /\ IF closed
       THEN /\ Settle(r, "declined")
            /\ Goes(r, IF asker[r].waits THEN "waiting" ELSE "queued")
            /\ UNCHANGED pending
       ELSE /\ pending' = pending \union {r}
            /\ Goes(r, "announcing")
            /\ UNCHANGED outcome
  /\ UNCHANGED <<reply, closed, closing, rules, history, faults>>

Announced(r) ==
  /\ asker[r].at = "announcing"
  /\ Goes(r, IF asker[r].waits THEN "waiting" ELSE "queued")
  /\ UNCHANGED <<pending, outcome, reply, closed, closing, rules, history, faults>>

(* A listener failed Asked: nobody knows of the request, it is withdrawn.  *)
AnnounceFails(r) ==
  /\ Fault
  /\ asker[r].at = "announcing"
  /\ pending' = pending \ {r}
  /\ Goes(r, "over")
  /\ UNCHANGED <<outcome, reply, closed, closing, rules, history>>

Resume(r) ==
  /\ asker[r].at = "waiting"
  /\ outcome[r] # "open"
  /\ pending' = pending \ {r}
  /\ Goes(r, IF outcome[r] = "allowed" THEN "allowed" ELSE "over")
  /\ UNCHANGED <<outcome, reply, closed, closing, rules, history, faults>>

(* The tool call is interrupted; from Create to the wait it cannot be.     *)
Interrupt(r) ==
  /\ asker[r].at \in {"evaluating", "waiting"}
  /\ pending' = pending \ {r}
  /\ Goes(r, "over")
  /\ UNCHANGED <<outcome, reply, closed, closing, rules, history, faults>>

(***************************************************************************)
(* reply                                                                   *)
(***************************************************************************)
Announces(r, word) == told' = [told EXCEPT ![r] = @ \union {word}]

(* A reply for a request that is not pending fails and changes nothing.    *)
ReplyStarts(p, r, word) ==
  /\ reply[p].at = "idle"
  /\ r \in pending
  /\ Announces(r, IF word = "correct" THEN "reject" ELSE word)
  /\ reply' = [reply EXCEPT ![p] = [NoReply EXCEPT !.at = "telling", !.id = r, !.reply = word]]
  /\ approved' = IF word \in Refusals THEN approved ELSE approved \union {r}
  /\ UNCHANGED <<pending, outcome, asker, closed, closing, rules, covered, faults>>

\* Mutant of Refusal: the reply itself is taken for the outcome.
RefusalIsTheWord(p) == reply[p].reply

Refusal(p) == IF reply[p].reply = "correct" THEN "corrected" ELSE "declined"

Refuse(p) ==
  /\ reply[p].at = "telling"
  /\ reply[p].reply \in Refusals
  /\ Settle(reply[p].id, Refusal(p))
  /\ pending' = pending \ {reply[p].id}
  /\ reply' = [reply EXCEPT ![p].at = "batch"]
  /\ UNCHANGED <<asker, closed, closing, rules, history, faults>>

IsKept(p) == reply[p].reply = "always" /\ reply[p].id \in Savable

Allow(p) ==
  /\ reply[p].at = "telling"
  /\ reply[p].reply \notin Refusals
  /\ ~IsKept(p)
  /\ Settle(reply[p].id, "allowed")
  /\ pending' = pending \ {reply[p].id}
  /\ reply' = [reply EXCEPT ![p] = NoReply]
  /\ UNCHANGED <<asker, closed, closing, rules, history, faults>>

(* saved.add commits, and in a step of its own the caller is let go.       *)
Save(p) ==
  /\ reply[p].at = "telling"
  /\ IsKept(p)
  /\ saved' = saved \union {asker[reply[p].id].action}
  /\ reply' = [reply EXCEPT ![p].at = "saving"]
  /\ UNCHANGED <<pending, outcome, asker, closed, closing, ruling, edits, told, approved, faults>>
  /\ Cover

AllowSaved(p) ==
  /\ reply[p].at = "saving"
  /\ Settle(reply[p].id, "allowed")
  /\ pending' = pending \ {reply[p].id}
  /\ reply' = [reply EXCEPT ![p].at = "sweep"]
  /\ UNCHANGED <<asker, closed, closing, rules, history, faults>>

(* The rest of the Session: the iterator is live, so it reaches what is    *)
(* added while it runs and skips what is deleted ahead of it.              *)
Siblings(r) == {s \in pending : SessionOf[s] = SessionOf[r]}

BatchTells(p) ==
  /\ reply[p].at = "batch"
  /\ \E s \in Siblings(reply[p].id) :
       /\ Announces(s, "reject")
       /\ reply' = [reply EXCEPT ![p] = [@ EXCEPT !.at = "batchTelling", !.item = s]]
  /\ UNCHANGED <<pending, outcome, asker, closed, closing, rules, approved, covered, faults>>

BatchRefuses(p) ==
  /\ reply[p].at = "batchTelling"
  /\ Settle(reply[p].item, Refusal(p))
  /\ pending' = pending \ {reply[p].item}
  /\ reply' = [reply EXCEPT ![p] = [@ EXCEPT !.at = "batch", !.item = None]]
  /\ UNCHANGED <<asker, closed, closing, rules, history, faults>>

\* Mutant of BatchEnds: the loop is left before it is through.
BatchIsOne(p) ==
  /\ reply[p].at = "batch"
  /\ reply' = [reply EXCEPT ![p] = NoReply]
  /\ UNCHANGED <<pending, outcome, asker, closed, closing, rules, history, faults>>

BatchEnds(p) ==
  /\ reply[p].at = "batch"
  /\ Siblings(reply[p].id) = {}
  /\ reply' = [reply EXCEPT ![p] = NoReply]
  /\ UNCHANGED <<pending, outcome, asker, closed, closing, rules, history, faults>>

(* An "always" judges every pending request again, whatever its Session.   *)
SweepPicks(p) ==
  /\ reply[p].at = "sweep"
  /\ \E s \in pending \ reply[p].visited :
       reply' = [reply EXCEPT ![p] =
         [@ EXCEPT !.at = "judging", !.item = s, !.visited = reply[p].visited \union {s}]]
  /\ UNCHANGED <<pending, outcome, asker, closed, closing, rules, history, faults>>

SweepSkips(p) ==
  /\ reply[p].at = "judging"
  /\ Effect(asker[reply[p].item].action) # "allow"
  /\ reply' = [reply EXCEPT ![p] = [@ EXCEPT !.at = "sweep", !.item = None]]
  /\ UNCHANGED <<pending, outcome, asker, closed, closing, rules, history, faults>>

\* Mutant of SweepTells: what is pending is not judged again.
SweepTakesEverything(p) ==
  /\ reply[p].at = "judging"
  /\ Announces(reply[p].item, "always")
  /\ reply' = [reply EXCEPT ![p].at = "sweepTelling"]
  /\ UNCHANGED <<pending, outcome, asker, closed, closing, rules, approved, covered, faults>>

\* Mutant of SweepTells: what the sweep allows is not announced.
SweepIsSilent(p) ==
  /\ reply[p].at = "judging"
  /\ Effect(asker[reply[p].item].action) = "allow"
  /\ reply' = [reply EXCEPT ![p].at = "sweepTelling"]
  /\ UNCHANGED <<pending, outcome, asker, closed, closing, rules, history, faults>>

SweepTells(p) ==
  /\ reply[p].at = "judging"
  /\ Effect(asker[reply[p].item].action) = "allow"
  /\ Announces(reply[p].item, "always")
  /\ reply' = [reply EXCEPT ![p].at = "sweepTelling"]
  /\ UNCHANGED <<pending, outcome, asker, closed, closing, rules, approved, covered, faults>>

SweepAllows(p) ==
  /\ reply[p].at = "sweepTelling"
  /\ Settle(reply[p].item, "allowed")
  /\ pending' = pending \ {reply[p].item}
  /\ reply' = [reply EXCEPT ![p] = [@ EXCEPT !.at = "sweep", !.item = None]]
  /\ UNCHANGED <<asker, closed, closing, rules, history, faults>>

SweepEnds(p) ==
  /\ reply[p].at = "sweep"
  /\ pending \subseteq reply[p].visited
  /\ reply' = [reply EXCEPT ![p] = NoReply]
  /\ UNCHANGED <<pending, outcome, asker, closed, closing, rules, history, faults>>

(* A listener failed Replied: the reply dies there, the request stays.     *)
ReplyFails(p) ==
  /\ Fault
  /\ reply[p].at \in {"telling", "batchTelling", "sweepTelling"}
  /\ reply' = [reply EXCEPT ![p] = NoReply]
  /\ UNCHANGED <<pending, outcome, asker, closed, closing, rules, history>>

(***************************************************************************)
(* close, and the rules edited from outside                                *)
(***************************************************************************)
(* Shutdown closes, and the finalizer again if anything is left.           *)
Close ==
  /\ closing = {}
  /\ ~closed \/ pending # {}
  /\ closed' = TRUE
  /\ closing' = pending
  /\ UNCHANGED <<pending, outcome, asker, reply, rules, history, faults>>

(* The settlement is ensured; the last one is followed by pending.clear(). *)
CloseSettles(r) ==
  /\ r \in closing
  /\ Announces(r, "reject")
  /\ Settle(r, "declined")
  /\ closing' = closing \ {r}
  /\ pending' = IF closing = {r} THEN {} ELSE pending
  /\ UNCHANGED <<asker, reply, closed, rules, approved, covered, faults>>

CloseFails(r) ==
  /\ Fault
  /\ r \in closing
  /\ Announces(r, "reject")
  /\ Settle(r, "declined")
  /\ closing' = {}
  /\ UNCHANGED <<pending, asker, reply, closed, rules, approved, covered>>

Configure(action) ==
  /\ ~Troubled
  /\ edits' = edits + 1
  /\ \E word \in Edits[action] \ {ruling[action]} : ruling' = [ruling EXCEPT ![action] = word]
  /\ UNCHANGED <<pending, outcome, asker, reply, closed, closing, saved, told, approved, faults>>
  /\ Cover

Forget(action) ==
  /\ ~Troubled
  /\ action \in saved
  /\ edits' = edits + 1
  /\ saved' = saved \ {action}
  /\ UNCHANGED <<pending, outcome, asker, reply, closed, closing, ruling, history, faults>>

(***************************************************************************)
Caller(r) ==
  \/ \E action \in Actions[r], waits \in BOOLEAN : Ask(r, action, waits)
  \/ Evaluate(r) \/ Create(r) \/ Announced(r) \/ AnnounceFails(r)
  \/ Resume(r) \/ Interrupt(r)

Reply(p) ==
  \/ \E r \in Request, word \in Words : ReplyStarts(p, r, word)
  \/ Refuse(p) \/ Allow(p) \/ Save(p) \/ AllowSaved(p)
  \/ BatchTells(p) \/ BatchRefuses(p) \/ BatchEnds(p)
  \/ SweepPicks(p) \/ SweepSkips(p) \/ SweepTells(p) \/ SweepAllows(p) \/ SweepEnds(p)
  \/ ReplyFails(p)

Next ==
  \/ \E r \in Request : Caller(r) \/ CloseSettles(r) \/ CloseFails(r)
  \/ \E p \in Replier : Reply(p)
  \/ Close
  \/ \E action \in Action : Configure(action) \/ Forget(action)

Spec == Init /\ [][Next]_vars

(* A reply and a close are uninterruptible: once begun they go on.  Nobody *)
(* has to reply, and nobody has to close; what a failed close left, the    *)
(* finalizer closes.                                                       *)
GoesOn(p) ==
  \/ Refuse(p) \/ Allow(p) \/ Save(p) \/ AllowSaved(p)
  \/ BatchTells(p) \/ BatchRefuses(p) \/ BatchEnds(p)
  \/ SweepPicks(p) \/ SweepSkips(p) \/ SweepTells(p) \/ SweepAllows(p) \/ SweepEnds(p)

Fairness ==
  /\ \A r \in Request : WF_vars(Evaluate(r) \/ Create(r) \/ Announced(r) \/ Resume(r))
  /\ \A p \in Replier : WF_vars(GoesOn(p))
  /\ WF_vars((\E r \in Request : CloseSettles(r)) \/ (closed /\ Close))

FairSpec == Spec /\ Fairness

(***************************************************************************)
(* Properties                                                              *)
(***************************************************************************)
Waits(r) == asker[r].waits /\ asker[r].at \in {"announcing", "waiting"} /\ outcome[r] = "open"

(* A tool call that waits for a person can be answered: its request is     *)
(* listed, and once the Location is closing it is among those that close   *)
(* settles (a listener that fails a publication leaves it to the           *)
(* finalizer's close).  assert checks closed, evaluates, and only then     *)
(* enters the Map that close takes a snapshot of and clears.               *)
NobodyStranded ==
  \A r \in Request :
    Waits(r) => r \in pending /\ (closed => r \in closing \/ faults > 0)

(* A call goes on only when somebody let it: its own request was answered  *)
(* with a yes, or at some moment since it was asked a rule allowed it, a   *)
(* saved approval, a configured one or a plugin's.  The loop over pending  *)
(* requests after an "always" runs across Sessions, while replies to the   *)
(* same requests and edits of the rules are under way.                     *)
GrantIsBacked ==
  \A r \in Request : asker[r].at = "allowed" => r \in approved \/ r \in covered

(* Whatever a request was settled with, clients were told of a reply that  *)
(* says so, also when several replies, the loops and close cross: no       *)
(* prompt vanishes from a client that listens without its answer.          *)
AnswersAreAnnounced ==
  \A r \in Request :
    /\ outcome[r] = "allowed" => told[r] \intersect {"once", "always"} # {}
    /\ outcome[r] = "corrected" => "reject" \in told[r]
    /\ outcome[r] = "declined" => "reject" \in told[r] \/ closed

(* A rejection ends the wait of every call of the Session that waits while *)
(* it is carried out, the ones that entered the Map after it began too,    *)
(* unless a listener fails on the way; and once the Location closes no tool*)
(* call waits forever for a person.                                        *)
RefusalEndsWaits ==
  \A s \in Request :
    (Waits(s) /\ (closed \/ \E p \in Replier : reply[p].at = "batch" /\ s \in Siblings(reply[p].id)))
      ~> (~Waits(s) \/ (faults > 0 /\ ~closed))
=============================================================================
