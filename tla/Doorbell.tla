------------------------------ MODULE Doorbell ------------------------------
(***************************************************************************)
(* What the run coordinator promises about one key, with no fiber, joiner  *)
(* or hook in sight (session/run-coordinator.ts:6-34).                     *)
(*                                                                         *)
(* A caller rings for work of some scope.  The key is idle or in a busy    *)
(* period; in a busy period drains begin one at a time, and a drain that   *)
(* begins answers every ring its scope covers.  A busy period may end with *)
(* rings outstanding, but then the next one begins at that same step: the  *)
(* key is never left idle while a ring is owed an answer.                  *)
(***************************************************************************)
Scopes == {"input", "steer"}

(* The rings a drain of scope s answers: "input" subsumes "steer".         *)
Covered(s) == {t \in Scopes : s = t \/ s = "input"}

VARIABLES
  mode,      \* "idle", "busy" (a drain may begin) or "closing" (none may)
  draining,  \* whether a drain is under way
  owed       \* scopes rung and not yet answered by the beginning of a drain

vars == <<mode, draining, owed>>

TypeOK ==
  /\ mode \in {"idle", "busy", "closing"}
  /\ draining \in BOOLEAN
  /\ owed \subseteq Scopes

Init == mode = "idle" /\ draining = FALSE /\ owed = {}

(* A wake: rings in any mode, and begins a busy period when idle.          *)
Ring(s) ==
  /\ mode' = IF mode = "idle" THEN "busy" ELSE mode
  /\ owed' = owed \union Covered(s)
  /\ UNCHANGED draining

(* A drain begins.  It may leave rung what it answers (an extra drain      *)
(* follows), never silence what it does not.                               *)
BeginDrain(s) ==
  /\ mode = "busy" /\ ~draining
  /\ draining' = TRUE
  /\ owed' \subseteq owed
  /\ owed \ Covered(s) \subseteq owed'
  /\ UNCHANGED mode

(* A drain ends; when it fails no other begins in this busy period.        *)
EndDrain ==
  /\ draining
  /\ draining' = FALSE
  /\ mode' \in {mode, "closing"}
  /\ UNCHANGED owed

(* No drain begins from here on in this busy period.                       *)
Close ==
  /\ mode = "busy" /\ ~draining
  /\ mode' = "closing"
  /\ UNCHANGED <<draining, owed>>

(* The busy period is over; what is still owed begins the next one.        *)
Settle ==
  /\ mode = "closing"
  /\ mode' = IF owed = {} THEN "idle" ELSE "busy"
  /\ UNCHANGED <<draining, owed>>

(* An interrupt claims every ring it finds.                                *)
Claim ==
  /\ mode # "idle"
  /\ owed' = {}
  /\ UNCHANGED <<mode, draining>>

(* The busy period dies before the drain it began for: the rings it began  *)
(* for die with it, those made since then stay.                            *)
Abort ==
  /\ mode = "busy" /\ ~draining
  /\ mode' = "closing"
  /\ owed' \subseteq owed
  /\ UNCHANGED draining

Next ==
  \/ \E s \in Scopes : Ring(s) \/ BeginDrain(s)
  \/ EndDrain
  \/ Close
  \/ Settle
  \/ Claim
  \/ Abort

Spec == Init /\ [][Next]_vars
=============================================================================
