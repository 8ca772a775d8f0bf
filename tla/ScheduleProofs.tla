--------------------------- MODULE ScheduleProofs ---------------------------
(***************************************************************************)
(* Proofs about Schedule, for any set of processes, any schedule, and any  *)
(* values of the bounds.                                                   *)
(***************************************************************************)
EXTENDS Schedule, TLAPS

Firings == {"claiming", "judging", "admitting", "waking", "recording"}

(* Between the admission of a firing's prompt and its record.              *)
Open(x) == x.at \in {"waking", "recording"}

Unrecorded(p) == Open(proc[p])

(* What an active row, and so every copy that is fired, satisfies.         *)
Fireable(x) == x.next # 0 /\ x.remaining # 0 /\ x.failures < MaxFailures

RemainingFits(pl, x) == pl.times = 1 => x.remaining \in {0, 1}

RowFits(pl, x) == (x.status = "active" => Fireable(x)) /\ RemainingFits(pl, x)

RowInv == row # None => RowFits(plan, row)

(* A process holds a copy exactly while it fires it; the copy was due when *)
(* the process looked.                                                     *)
CopyFits(pl, time, x) ==
  /\ x.row # None <=> x.at \in Firings
  /\ x.now <= time
  /\ x.row # None =>
       Fireable(x.row) /\ RemainingFits(pl, x.row) /\ x.row.next <= x.now
  /\ Open(x) => x.row.run + 1 \in Run

CopyInv == \A p \in Process : CopyFits(plan, clock, proc[p])

-----------------------------------------------------------------------------
(* The rest holds until one of the exceptions of OneFiringPerSlot is met.  *)
Clean == "lease" \notin cut /\ "paused" \notin reused

(* Whoever is in a turn of its loop holds the lease.                       *)
InTurn(x) == x.at \notin {"down", "idle"}

Exclusive == \A p \in Process : InTurn(proc[p]) => lease = [owner |-> p, fresh |-> TRUE]

Says(m, r) == m[r].text \in {"prompt", "expired"}

(* The messages of the runs x has counted prompted for slots before the    *)
(* one x is due next, and there is at most one more message, of the run    *)
(* after them, for a slot that is not later than that.                     *)
Past(pl, m, x) ==
  \A r \in Run : m[r].text # None =>
    /\ r <= x.run + 1
    /\ Says(m, r) /\ r <= x.run =>
         /\ x.next = 0 \/ (pl.repeats /\ m[r].slot < x.next)
         /\ pl.times = 1 => x.remaining = 0
    /\ Says(m, r) /\ r = x.run + 1 => x.next = 0 \/ m[r].slot <= x.next

(* Users only move the row forward while a copy of it is fired.            *)
Shares(x, copy) ==
  x # None => x.run = copy.run /\ (x.next = 0 \/ copy.next <= x.next)

(* An admitted pause notice says so.                                       *)
NoticeSays(m, x) == Open(x) /\ x.text = "paused" => m[x.row.run + 1].text = "paused"

Ordered(pl, m) ==
  \A r, s \in Run : Says(m, r) /\ Says(m, s) /\ r < s =>
    m[r].slot < m[s].slot /\ pl.times # 1

FiringInv(x) ==
  x.row # None =>
    /\ Past(plan, message, x.row)
    /\ Shares(row, x.row)
    /\ NoticeSays(message, x)

HistoryInv ==
  Clean =>
    /\ Exclusive
    /\ row # None => Past(plan, message, row)
    /\ \A p \in Process : FiringInv(proc[p])
    /\ Ordered(plan, message)

(* Without a firing cut off no message is ahead of the row, but for the one*)
(* whose run is being recorded.                                            *)
Counts(m, x) == \A r \in Run : m[r].text # None => r <= x.run

CutInv ==
  cut = {} =>
    /\ reused = {}
    /\ row # None /\ (\A p \in Process : ~Unrecorded(p)) => Counts(message, row)
    /\ \A p \in Process :
         proc[p].row # None /\ ~Unrecorded(p) => Counts(message, proc[p].row)

IndInv == TypeOK /\ RowInv /\ CopyInv /\ HistoryInv /\ CutInv

-----------------------------------------------------------------------------
(* Messages and records.                                                   *)

Messages == [Run -> [text : Texts \union {None}, slot : 0..Slots]]

LEMMA RunIsNat == Run \subseteq Nat /\ 0 \notin Run
BY ScheduleAssumption DEF Run

LEMMA RowIs ==
  ASSUME NEW x \in RowRecord
  PROVE  /\ x # None
         /\ x.next \in Nat /\ x.run \in Nat /\ x.failures \in Nat
         /\ x.next \in 0..(Slots + 1)
         /\ x.remaining \in {Never} \union 0..Slots
         /\ x.status \in {"active", "paused", "done"}
BY ScheduleAssumption DEF RowRecord, Run, Slot

(* The row goes on to a later slot, or to none.                            *)
LEMMA PastGrows ==
  ASSUME NEW pl, NEW m \in Messages, NEW x \in RowRecord, NEW y \in RowRecord,
         Past(pl, m, x), y.run = x.run, y.remaining = x.remaining,
         y.next = 0 \/ (x.next # 0 /\ x.next <= y.next)
  PROVE  Past(pl, m, y)
<1> SUFFICES ASSUME NEW r \in Run, m[r].text # None
             PROVE  /\ r <= y.run + 1
                    /\ Says(m, r) /\ r <= y.run =>
                         /\ y.next = 0 \/ (pl.repeats /\ m[r].slot < y.next)
                         /\ pl.times = 1 => y.remaining = 0
                    /\ Says(m, r) /\ r = y.run + 1 => y.next = 0 \/ m[r].slot <= y.next
  BY DEF Past
<1>1. m[r].slot \in Nat
  BY ScheduleAssumption DEF Messages
<1>2. x.next \in Nat /\ y.next \in Nat
  BY RowIs
<1> QED
  BY <1>1, <1>2 DEF Past

(* The process that fires a copy moves the row to the slot after the copy's*)
(* without a run.                                                          *)
LEMMA PastPasses ==
  ASSUME NEW pl, NEW m \in Messages, NEW x \in RowRecord, NEW c \in RowRecord,
         NEW y \in RowRecord,
         Past(pl, m, x), Past(pl, m, c), c.run = x.run, c.next # 0,
         y.run = x.run, y.remaining = x.remaining,
         y.next = 0 \/ (pl.repeats /\ c.next < y.next)
  PROVE  Past(pl, m, y)
<1> SUFFICES ASSUME NEW r \in Run, m[r].text # None
             PROVE  /\ r <= y.run + 1
                    /\ Says(m, r) /\ r <= y.run =>
                         /\ y.next = 0 \/ (pl.repeats /\ m[r].slot < y.next)
                         /\ pl.times = 1 => y.remaining = 0
                    /\ Says(m, r) /\ r = y.run + 1 => y.next = 0 \/ m[r].slot <= y.next
  BY DEF Past
<1>1. m[r].slot \in Nat
  BY ScheduleAssumption DEF Messages
<1>2. c.next \in Nat /\ y.next \in Nat
  BY RowIs
<1> QED
  BY <1>1, <1>2 DEF Past

(* ... or with one.                                                        *)
LEMMA PastFires ==
  ASSUME NEW pl, NEW m \in Messages, NEW c \in RowRecord, NEW y \in RowRecord,
         Past(pl, m, c), c.next # 0,
         y.run = c.run + 1, pl.times = 1 => y.remaining = 0,
         y.next = 0 \/ (pl.repeats /\ c.next < y.next)
  PROVE  Past(pl, m, y)
<1> SUFFICES ASSUME NEW r \in Run, m[r].text # None
             PROVE  /\ r <= y.run + 1
                    /\ Says(m, r) /\ r <= y.run =>
                         /\ y.next = 0 \/ (pl.repeats /\ m[r].slot < y.next)
                         /\ pl.times = 1 => y.remaining = 0
                    /\ Says(m, r) /\ r = y.run + 1 => y.next = 0 \/ m[r].slot <= y.next
  BY DEF Past
<1>1. m[r].slot \in Nat /\ r \in Nat
  BY ScheduleAssumption, RunIsNat DEF Messages
<1>2. c.next \in Nat /\ y.next \in Nat /\ c.run \in Nat
  BY RowIs
<1>3. r <= c.run \/ r = c.run + 1
  BY <1>1, <1>2 DEF Past
<1> QED
  BY <1>1, <1>2, <1>3 DEF Past

(* A pause notice counts as a run of the row and leaves its slot.          *)
LEMMA PastPauses ==
  ASSUME NEW pl, NEW m \in Messages, NEW x \in RowRecord, NEW y \in RowRecord,
         Past(pl, m, x), ~Says(m, x.run + 1),
         y.run = x.run + 1, y.remaining = x.remaining, y.next = x.next
  PROVE  Past(pl, m, y)
<1> SUFFICES ASSUME NEW r \in Run, m[r].text # None
             PROVE  /\ r <= y.run + 1
                    /\ Says(m, r) /\ r <= y.run =>
                         /\ y.next = 0 \/ (pl.repeats /\ m[r].slot < y.next)
                         /\ pl.times = 1 => y.remaining = 0
                    /\ Says(m, r) /\ r = y.run + 1 => y.next = 0 \/ m[r].slot <= y.next
  BY DEF Past
<1>1. r \in Nat /\ x.run \in Nat
  BY RunIsNat, RowIs
<1>2. r <= x.run \/ r = x.run + 1
  BY <1>1 DEF Past
<1> QED
  BY <1>1, <1>2 DEF Past

(* An admission is the one message ahead.                                  *)
LEMMA PastAdmits ==
  ASSUME NEW pl, NEW m \in Messages, NEW n \in Messages, NEW x \in RowRecord,
         x.run + 1 \in Run,
         Past(pl, m, x), \A r \in Run : r # x.run + 1 => n[r] = m[r],
         x.next = 0 \/ n[x.run + 1].slot <= x.next
  PROVE  Past(pl, n, x)
<1>1. \A r \in Run : r \in Nat
  BY RunIsNat
<1>2. x.run \in Nat
  BY RowIs
<1> QED
  BY <1>1, <1>2 DEF Past, Says

LEMMA OrderAdmits ==
  ASSUME NEW pl, NEW m \in Messages, NEW n \in Messages, NEW x \in RowRecord,
         x.run + 1 \in Run,
         Past(pl, m, x), Ordered(pl, m), x.next # 0, x.remaining # 0,
         \A r \in Run : r # x.run + 1 => n[r] = m[r],
         n[x.run + 1].slot = x.next
  PROVE  Ordered(pl, n)
<1> SUFFICES ASSUME NEW r \in Run, NEW s \in Run, Says(n, r), Says(n, s), r < s
             PROVE  n[r].slot < n[s].slot /\ pl.times # 1
  BY DEF Ordered
<1>1. r \in Nat /\ s \in Nat /\ x.run \in Nat
  BY RunIsNat, RowIs
<1>2. s <= x.run + 1
  BY <1>1, ScheduleAssumption DEF Past, Says, Texts
<1>3. CASE s = x.run + 1
  <2>1. r <= x.run /\ Says(m, r) /\ n[r] = m[r] /\ m[r].text # None
    BY <1>1, <1>3, ScheduleAssumption DEF Says, Texts
  <2> QED
    BY <1>3, <2>1 DEF Past
<1>4. CASE s # x.run + 1
  <2>1. r # x.run + 1
    BY <1>1, <1>2, <1>4
  <2> QED
    BY <1>4, <2>1 DEF Ordered, Says
<1> QED
  BY <1>3, <1>4
-----------------------------------------------------------------------------
(* The steps of one process: what they leave alone, and what of its place  *)
(* the invariant speaks about.                                             *)
Moved(p, at, copy, now, text) ==
  /\ proc' \in [Process -> ProcRecord]
  /\ \A q \in Process \ {p} : proc'[q] = proc[q]
  /\ proc'[p].at = at /\ proc'[p].row = copy /\ proc'[p].now = now /\ proc'[p].text = text

LEMMA ProcIs ==
  ASSUME TypeOK, NEW p \in Process
  PROVE  /\ proc[p] \in ProcRecord
         /\ proc[p].at \in Places /\ proc[p].row \in RowRecord \union {None}
         /\ proc[p].now \in 0..Slots /\ proc[p].text \in Texts
         /\ proc[p].strikes \in 0..MaxFailures
BY DEF TypeOK, ProcRecord

LEMMA PlaceIs ==
  ASSUME NEW x \in ProcRecord, NEW at \in Places
  PROVE  LET y == [x EXCEPT !.at = at]
         IN /\ y \in ProcRecord
            /\ y.at = at /\ y.row = x.row /\ y.now = x.now /\ y.text = x.text
BY DEF ProcRecord

LEMMA EndIs ==
  ASSUME NEW x \in ProcRecord
  PROVE  LET y == [x EXCEPT !.at = "ending", !.row = None, !.text = "prompt", !.strikes = 0]
         IN /\ y \in ProcRecord
            /\ y.at = "ending" /\ y.row = None /\ y.now = x.now /\ y.text = "prompt"
<1>1. "ending" \in Places /\ "prompt" \in Texts /\ 0 \in 0..MaxFailures
  BY ScheduleAssumption DEF Places, Texts
<1> QED
  BY <1>1 DEF ProcRecord

LEMMA GotoIs ==
  ASSUME TypeOK, NEW p \in Process, NEW at \in Places, Goto(p, at)
  PROVE  Moved(p, at, proc[p].row, proc[p].now, proc[p].text)
<1>1. proc' = [proc EXCEPT ![p] = [proc[p] EXCEPT !.at = at]]
  BY DEF TypeOK, Goto, ProcRecord
<1> DEFINE x == [proc[p] EXCEPT !.at = at]
<1>2. /\ x \in ProcRecord
      /\ x.at = at /\ x.row = proc[p].row /\ x.now = proc[p].now /\ x.text = proc[p].text
  BY ProcIs, PlaceIs
<1> HIDE DEF x
<1> QED
  BY <1>1, <1>2 DEF Moved, TypeOK, x

LEMMA StepEndsIs ==
  ASSUME TypeOK, NEW p \in Process, StepEnds(p)
  PROVE  Moved(p, "ending", None, proc[p].now, "prompt")
<1> DEFINE x == [proc[p] EXCEPT !.at = "ending", !.row = None, !.text = "prompt", !.strikes = 0]
<1>1. x \in ProcRecord
  BY ProcIs, EndIs
<1>2. x.at = "ending" /\ x.row = None /\ x.now = proc[p].now /\ x.text = "prompt"
  BY ProcIs, EndIs
<1>3. proc' = [proc EXCEPT ![p] = x]
  BY DEF TypeOK, StepEnds, ProcRecord
<1> HIDE DEF x
<1> QED
  BY <1>1, <1>2, <1>3 DEF Moved, TypeOK

(* Where a copy may come from and go to when no prompt is admitted and     *)
(* nothing is recorded: a firing that is cut off is noted.                 *)
Keeps(p) ==
  \/ proc'[p].row = None /\ (Unrecorded(p) => cut' # {}) /\ ~Open(proc'[p])
  \/ /\ proc'[p].row = proc[p].row
     /\ Open(proc'[p]) <=> Unrecorded(p)
     /\ Open(proc'[p]) => proc'[p].text = proc[p].text
  \/ /\ proc'[p].row = row /\ row # None
     /\ InTurn(proc[p]) /\ ~Unrecorded(p) /\ ~Open(proc'[p])

LEMMA AloneInTurn ==
  ASSUME Exclusive, NEW p \in Process, NEW q \in Process, InTurn(proc[p]), InTurn(proc[q])
  PROVE  p = q
BY DEF Exclusive

LEMMA OpenInTurn ==
  ASSUME NEW x, Open(x)
  PROVE  InTurn(x)
BY DEF Open, InTurn

LEMMA MovesKeepHistory ==
  ASSUME IndInv, NEW p \in Process,
         \A q \in Process \ {p} : proc'[q] = proc[q], Keeps(p),
         UNCHANGED <<plan, row, message, reused>>, cut \subseteq cut',
         Clean' => Exclusive'
  PROVE  HistoryInv' /\ CutInv'
<1>1. (Clean' => Clean) /\ (cut' = {} => cut = {})
  BY DEF Clean
<1>2. ASSUME Clean, NEW q \in Process
      PROVE  FiringInv(proc[q])'
  <2>1. FiringInv(proc[p]) /\ FiringInv(proc[q]) /\ (row # None => Past(plan, message, row))
    BY <1>2 DEF IndInv, HistoryInv
  <2>2. CASE q # p
    BY <2>1, <2>2 DEF FiringInv
  <2>3. CASE q = p /\ proc'[p].row = None
    BY <2>3 DEF FiringInv
  <2>4. CASE q = p /\ proc'[p].row = proc[p].row
             /\ (Open(proc'[p]) <=> Unrecorded(p))
             /\ (Open(proc'[p]) => proc'[p].text = proc[p].text)
    BY <2>1, <2>4 DEF FiringInv, NoticeSays, Unrecorded
  <2>5. CASE q = p /\ proc'[p].row = row /\ row # None /\ ~Open(proc'[p])
    <3>1. Shares(row, row)
      BY <2>5, RowIs DEF IndInv, TypeOK, Shares
    <3> QED
      BY <2>1, <2>5, <3>1 DEF FiringInv, NoticeSays
  <2> QED
    BY <2>2, <2>3, <2>4, <2>5 DEF Keeps
<1>3. HistoryInv'
  BY <1>1, <1>2 DEF HistoryInv, IndInv
<1>4. ASSUME cut' = {}
      PROVE  /\ reused = {}
             /\ row # None /\ (\A q \in Process : ~Unrecorded(q)') => Counts(message, row)
             /\ \A q \in Process :
                  proc'[q].row # None /\ ~Unrecorded(q)' => Counts(message, proc'[q].row)
  <2>1. /\ reused = {}
        /\ row # None /\ (\A q \in Process : ~Unrecorded(q)) => Counts(message, row)
        /\ \A q \in Process :
             proc[q].row # None /\ ~Unrecorded(q) => Counts(message, proc[q].row)
    BY <1>1, <1>4 DEF IndInv, CutInv
  <2>2. Unrecorded(p)' <=> Unrecorded(p)
    BY <1>4 DEF Keeps, Unrecorded
  <2>3. \A q \in Process : Unrecorded(q)' <=> Unrecorded(q)
    BY <2>2 DEF Unrecorded
  <2>4. Exclusive
    BY <1>1, <1>4, <2>1 DEF IndInv, HistoryInv, Clean
  <2>5. ASSUME NEW q \in Process, proc'[q].row # None, ~Unrecorded(q)
        PROVE  Counts(message, proc'[q].row)
    <3>1. CASE proc'[q].row = proc[q].row
      BY <2>1, <2>5, <3>1
    <3>2. CASE q = p /\ proc'[p].row = row /\ row # None /\ InTurn(proc[p])
      <4>1. \A s \in Process : ~Unrecorded(s)
        BY <2>4, <2>5, <3>2, AloneInTurn, OpenInTurn DEF Unrecorded
      <4> QED
        BY <2>1, <3>2, <4>1
    <3> QED
      BY <2>5, <3>1, <3>2 DEF Keeps
  <2> QED
    BY <2>1, <2>3, <2>5
<1>5. CutInv'
  BY <1>4 DEF CutInv
<1> QED
  BY <1>3, <1>5

LEMMA MovesKeepCopies ==
  ASSUME CopyInv, NEW p \in Process, UNCHANGED <<plan, clock>>,
         \A q \in Process \ {p} : proc'[q] = proc[q], CopyFits(plan, clock, proc'[p])
  PROVE  CopyInv'
BY DEF CopyInv

(* The lease: kept by who stays in its turn, taken when nobody is in one,  *)
(* given up with the turn.                                                 *)
LEMMA LeaseKept ==
  ASSUME Exclusive, NEW p \in Process,
         \A q \in Process \ {p} : proc'[q] = proc[q],
         \/ lease' = lease /\ (InTurn(proc'[p]) => InTurn(proc[p]))
         \/ Claimable(p) /\ Claimed(p)
         \/ ~InTurn(proc'[p]) /\ (lease.owner # p => lease' = lease)
  PROVE  Exclusive'
<1> SUFFICES ASSUME NEW q \in Process, InTurn(proc'[q])
             PROVE  lease' = [owner |-> q, fresh |-> TRUE]
  BY DEF Exclusive
<1>1. q # p => lease = [owner |-> q, fresh |-> TRUE]
  BY DEF Exclusive
<1>2. CASE lease' = lease /\ (InTurn(proc'[p]) => InTurn(proc[p]))
  BY <1>1, <1>2 DEF Exclusive
<1>3. CASE Claimable(p) /\ Claimed(p)
  <2>1. q # p => lease.owner = q /\ lease.fresh = TRUE
    BY <1>1
  <2>2. q = p
    BY <1>3, <2>1 DEF Claimable
  <2> QED
    BY <1>3, <2>2 DEF Claimed
<1>4. CASE ~InTurn(proc'[p]) /\ (lease.owner # p => lease' = lease)
  <2>1. q # p
    BY <1>4
  <2>2. lease.owner = q
    BY <1>1, <2>1
  <2> QED
    BY <1>1, <1>4, <2>1, <2>2
<1> QED
  BY <1>2, <1>3, <1>4

Leases == [owner : Process \union {None, Dead}, fresh : BOOLEAN]

LEMMA LeaseIs ==
  ASSUME TypeOK, NEW p \in Process
  PROVE  /\ Released(p) \in Leases /\ (lease.owner # p => Released(p) = lease)
         /\ [owner |-> p, fresh |-> TRUE] \in Leases
         /\ [lease EXCEPT !.owner = Dead] \in Leases
         /\ [lease EXCEPT !.fresh = FALSE] \in Leases
BY DEF TypeOK, Released, NoLease, Leases

-----------------------------------------------------------------------------
(* A process moves, and at most the lease and its like change with it.     *)
LeaseMoves(p) ==
  \/ lease' = lease /\ (InTurn(proc'[p]) => InTurn(proc[p]))
  \/ Claimable(p) /\ Claimed(p)
  \/ /\ ~InTurn(proc'[p])
     /\ \/ lease' = Released(p)
        \/ lease' \in Leases /\ (lease.owner # p => lease' = lease)
  \/ lease' \in Leases /\ "lease" \in cut'

LEMMA ProcessMoves ==
  ASSUME IndInv, NEW p \in Process,
         proc' \in [Process -> ProcRecord], \A q \in Process \ {p} : proc'[q] = proc[q],
         Keeps(p), CopyFits(plan, clock, proc'[p]), LeaseMoves(p), awake' \subseteq Process,
         inbox' \in {inbox, {}}, Trouble \/ UNCHANGED trouble,
         cut' \in {cut, cut \union {"stop"}, cut \union {"lease"}},
         UNCHANGED <<plan, row, message, clock, reused>>
  PROVE  IndInv'
<1>1. lease' \in Leases
  <2>1. lease \in Leases /\ TypeOK
    BY DEF IndInv, TypeOK, Leases
  <2>2. Released(p) \in Leases /\ [owner |-> p, fresh |-> TRUE] \in Leases
    BY <2>1, LeaseIs
  <2> QED
    BY <2>1, <2>2 DEF LeaseMoves, Claimed
<1>2. TypeOK'
  <2>1. trouble' \in 0..MaxTrouble
    BY ScheduleAssumption DEF IndInv, TypeOK, Trouble
  <2>2. cut' \subseteq {"stop", "lease"} /\ inbox' \subseteq Run
    BY DEF IndInv, TypeOK
  <2> QED
    BY <1>1, <2>1, <2>2 DEF IndInv, TypeOK, Leases
<1>3. RowInv'
  BY DEF IndInv, RowInv, RowFits, RemainingFits, Fireable
<1>4. CopyInv'
  BY MovesKeepCopies DEF IndInv
<1>5. Clean' => Exclusive'
  <2> SUFFICES ASSUME Clean'
               PROVE  Exclusive'
    OBVIOUS
  <2>1. Clean /\ "lease" \notin cut'
    BY DEF Clean
  <2>2. Exclusive
    BY <2>1 DEF IndInv, HistoryInv
  <2>3. lease' = Released(p) => (lease.owner # p => lease' = lease)
    BY LeaseIs DEF IndInv
  <2> QED
    BY <2>1, <2>2, <2>3, LeaseKept DEF LeaseMoves
<1>6. HistoryInv' /\ CutInv'
  BY <1>5, MovesKeepHistory
<1> QED
  BY <1>2, <1>3, <1>4, <1>6 DEF IndInv

(* Within a firing, or outside one, a process keeps its copy or has none.  *)
LEMMA GoesOn ==
  ASSUME IndInv, NEW p \in Process, NEW at \in Places,
         Moved(p, at, proc[p].row, proc[p].now, proc[p].text),
         proc[p].at \in Firings <=> at \in Firings,
         at \in {"waking", "recording"} <=> Unrecorded(p)
  PROVE  /\ proc' \in [Process -> ProcRecord]
         /\ \A q \in Process \ {p} : proc'[q] = proc[q]
         /\ Keeps(p)
         /\ CopyFits(plan, clock, proc'[p])
<1>1. CopyFits(plan, clock, proc[p])
  BY DEF IndInv, CopyInv
<1>2. Keeps(p)
  BY DEF Moved, Keeps, Unrecorded, Open
<1> QED
  BY <1>1, <1>2 DEF Moved, CopyFits, Open, Unrecorded

LEMMA StartStep ==
  ASSUME IndInv, NEW p \in Process, Start(p)
  PROVE  IndInv'
<1>1. "idle" \in Places /\ Goto(p, "idle") /\ proc[p].at = "down"
  BY DEF Start, Places
<1>2. Moved(p, "idle", proc[p].row, proc[p].now, proc[p].text)
  BY <1>1, GotoIs DEF IndInv
<1>3. LeaseMoves(p)
  <2>1. Released(p) = lease \/ lease.owner = p
    BY DEF Released
  <2> QED
    BY <1>1, <1>2 DEF LeaseMoves, Moved, InTurn, Start, durable
<1> QED
  BY <1>1, <1>2, <1>3, GoesOn, ProcessMoves
  DEF history, Start, durable, IndInv, TypeOK, Firings, Unrecorded, Open

(* The service's flags and the captured time.                              *)
LEMMA FlagsAre ==
  ASSUME NEW x \in ProcRecord
  PROVE  /\ LET y == [x EXCEPT !.leading = FALSE]
            IN /\ y \in ProcRecord
               /\ y.at = x.at /\ y.row = x.row /\ y.now = x.now /\ y.text = x.text
         /\ LET y == [x EXCEPT !.leading = FALSE, !.booted = TRUE]
            IN /\ y \in ProcRecord
               /\ y.at = x.at /\ y.row = x.row /\ y.now = x.now /\ y.text = x.text
         /\ LET y == [x EXCEPT !.at = "idle", !.leading = FALSE]
            IN /\ y \in ProcRecord
               /\ y.at = "idle" /\ y.row = x.row /\ y.now = x.now /\ y.text = x.text
<1>1. "idle" \in Places
  BY DEF Places
<1> QED
  BY <1>1 DEF ProcRecord

LEMMA RestStep ==
  ASSUME IndInv, NEW p \in Process, Rest(p)
  PROVE  IndInv'
<1> DEFINE x == [proc[p] EXCEPT !.leading = FALSE]
<1>1. /\ x \in ProcRecord
      /\ x.at = "idle" /\ x.row = proc[p].row /\ x.now = proc[p].now /\ x.text = proc[p].text
  BY ProcIs, FlagsAre DEF IndInv, Rest
<1>2. proc' = [proc EXCEPT ![p] = x]
  BY DEF Rest, IndInv, TypeOK, ProcRecord
<1> HIDE DEF x
<1>3. Moved(p, "idle", proc[p].row, proc[p].now, proc[p].text)
  BY <1>1, <1>2 DEF Moved, IndInv, TypeOK
<1>4. LeaseMoves(p)
  BY <1>3 DEF LeaseMoves, Moved, InTurn, Rest
<1> QED
  BY <1>3, <1>4, GoesOn, ProcessMoves
  DEF history, Rest, Places, IndInv, TypeOK, Firings, Unrecorded, Open

LEMMA FollowStep ==
  ASSUME IndInv, NEW p \in Process, Follow(p)
  PROVE  IndInv'
<1> DEFINE x == [proc[p] EXCEPT !.leading = FALSE, !.booted = TRUE]
<1>1. /\ x \in ProcRecord
      /\ x.at = "idle" /\ x.row = proc[p].row /\ x.now = proc[p].now /\ x.text = proc[p].text
  BY ProcIs, FlagsAre DEF IndInv, Follow
<1>2. proc' = [proc EXCEPT ![p] = x]
  BY DEF Follow, IndInv, TypeOK, ProcRecord
<1> HIDE DEF x
<1>3. Moved(p, "idle", proc[p].row, proc[p].now, proc[p].text)
  BY <1>1, <1>2 DEF Moved, IndInv, TypeOK
<1>4. LeaseMoves(p)
  BY <1>3 DEF LeaseMoves, Moved, InTurn, Follow, durable
<1> QED
  BY <1>3, <1>4, GoesOn, ProcessMoves
  DEF history, Follow, durable, Places, IndInv, TypeOK, Firings, Unrecorded, Open

LEMMA LeadStep ==
  ASSUME IndInv, NEW p \in Process, Lead(p)
  PROVE  IndInv'
<1> DEFINE to     == IF proc[p].leading THEN "picking" ELSE "rewaking"
           active == Active
           x      == [proc[p] EXCEPT !.at = to, !.leading = TRUE, !.booted = TRUE,
                                     !.active = active, !.now = clock]
<1>1. to \in Places /\ clock \in 0..Slots /\ active \in BOOLEAN /\ to \notin Firings
  BY DEF Places, IndInv, TypeOK, Active, Firings
<1>2. proc' = [proc EXCEPT ![p] = x] /\ proc[p].at = "idle"
  BY DEF Lead
<1> HIDE DEF to, active
<1>3. /\ x \in ProcRecord
      /\ x.at = to /\ x.row = proc[p].row /\ x.now = clock /\ x.text = proc[p].text
  <2>1. proc[p] \in ProcRecord
    BY ProcIs DEF IndInv
  <2> QED
    BY <1>1, <2>1 DEF ProcRecord
<1> HIDE DEF x
<1>4. Moved(p, to, proc[p].row, clock, proc[p].text)
  BY <1>2, <1>3 DEF Moved, IndInv, TypeOK
<1>5. proc[p].row = None
  BY <1>2 DEF IndInv, CopyInv, CopyFits, Firings
<1>6. CopyFits(plan, clock, proc'[p]) /\ Keeps(p)
  BY <1>1, <1>2, <1>4, <1>5
  DEF Moved, CopyFits, Keeps, Open, Unrecorded, Firings, IndInv, TypeOK
<1> QED
  BY <1>4, <1>6, ProcessMoves DEF history, Moved, Lead, LeaseMoves, IndInv, TypeOK

LEMMA RewakeStep ==
  ASSUME IndInv, NEW p \in Process, Rewake(p)
  PROVE  IndInv'
<1> DEFINE to == IF proc[p].active THEN "picking" ELSE "ending"
<1>1. /\ to \in Places /\ to \notin Firings
      /\ Goto(p, to) /\ proc[p].at = "rewaking"
  BY DEF Rewake, Places, Firings
<1>2. to \notin {"waking", "recording", "down", "idle"}
  OBVIOUS
<1> HIDE DEF to
<1>3. Moved(p, to, proc[p].row, proc[p].now, proc[p].text)
  BY <1>1, GotoIs DEF IndInv
<1>4. LeaseMoves(p)
  BY <1>1, <1>3 DEF LeaseMoves, Moved, InTurn, Rewake, durable
<1>5. awake' \subseteq Process
  BY DEF Rewake, IndInv, TypeOK
<1> QED
  BY <1>1, <1>2, <1>3, <1>4, <1>5, GoesOn, ProcessMoves
  DEF history, Rewake, durable, Firings, Unrecorded, Open

LEMMA TickEndsStep ==
  ASSUME IndInv, NEW p \in Process, TickEnds(p)
  PROVE  IndInv'
<1>1. Moved(p, "idle", proc[p].row, proc[p].now, proc[p].text)
  <2>1. CASE Goto(p, "idle")
    BY <2>1, GotoIs DEF IndInv, Places
  <2>2. CASE proc' = [proc EXCEPT ![p].at = "idle", ![p].leading = FALSE]
    <3> DEFINE x == [proc[p] EXCEPT !.at = "idle", !.leading = FALSE]
    <3>1. /\ x \in ProcRecord
          /\ x.at = "idle" /\ x.row = proc[p].row /\ x.now = proc[p].now
          /\ x.text = proc[p].text
      BY ProcIs, FlagsAre DEF IndInv
    <3>2. proc' = [proc EXCEPT ![p] = x]
      BY <2>2 DEF IndInv, TypeOK, ProcRecord
    <3> HIDE DEF x
    <3> QED
      BY <3>1, <3>2 DEF Moved, IndInv, TypeOK
  <2> QED
    BY <2>1, <2>2 DEF TickEnds
<1>2. LeaseMoves(p)
  BY <1>1 DEF LeaseMoves, Moved, InTurn, TickEnds
<1> QED
  BY <1>1, <1>2, GoesOn, ProcessMoves
  DEF history, TickEnds, Places, IndInv, TypeOK, Firings, Unrecorded, Open

-----------------------------------------------------------------------------
(* The tick, up to the prompt.                                             *)
LEMMA PickStep ==
  ASSUME IndInv, NEW p \in Process, Pick(p)
  PROVE  IndInv'
<1>1. proc[p].at = "picking" /\ proc[p].row = None
  BY DEF Pick, IndInv, CopyInv, CopyFits, Firings
<1>2. CASE Due /\ row.next <= proc[p].now
  <2> DEFINE x == [proc[p] EXCEPT !.at = "claiming", !.row = row]
  <2>1. row # None /\ row \in RowRecord
    BY <1>2 DEF Due, Active, IndInv, TypeOK
  <2>2. /\ x \in ProcRecord
        /\ x.at = "claiming" /\ x.row = row /\ x.now = proc[p].now /\ x.text = proc[p].text
    <3>1. proc[p] \in ProcRecord /\ "claiming" \in Places
      BY ProcIs DEF IndInv, Places
    <3> QED
      BY <2>1, <3>1 DEF ProcRecord
  <2>3. proc' = [proc EXCEPT ![p] = x]
    BY <1>2 DEF Pick, IndInv, TypeOK, ProcRecord
  <2> HIDE DEF x
  <2>4. Moved(p, "claiming", row, proc[p].now, proc[p].text)
    BY <2>2, <2>3 DEF Moved, IndInv, TypeOK
  <2>5. Fireable(row) /\ RemainingFits(plan, row)
    BY <1>2, <2>1 DEF Due, Active, IndInv, RowInv, RowFits
  <2>6. proc[p].now <= clock
    BY DEF IndInv, CopyInv, CopyFits
  <2>7. CopyFits(plan, clock, proc'[p])
    BY <1>2, <2>1, <2>4, <2>5, <2>6 DEF Moved, CopyFits, Open, Firings
  <2>8. Keeps(p)
    BY <1>1, <2>1, <2>4 DEF Moved, Keeps, InTurn, Unrecorded, Open
  <2>9. LeaseMoves(p)
    BY <1>1 DEF LeaseMoves, Pick, durable, InTurn
  <2> QED
    BY <2>4, <2>7, <2>8, <2>9, ProcessMoves DEF history, Pick, durable, Moved, IndInv, TypeOK
<1>3. CASE ~(Due /\ row.next <= proc[p].now)
  <2>1. Moved(p, "ending", proc[p].row, proc[p].now, proc[p].text)
    BY <1>3, GotoIs DEF Pick, IndInv, Places
  <2>2. LeaseMoves(p)
    BY <1>1 DEF LeaseMoves, Pick, durable, InTurn
  <2> QED
    BY <1>1, <2>1, <2>2, GoesOn, ProcessMoves
    DEF history, Pick, durable, Places, Firings, Unrecorded, Open, IndInv, TypeOK
<1> QED
  BY <1>2, <1>3

(* A turn that ends without a word.                                        *)
LEMMA EndsQuietly ==
  ASSUME IndInv, NEW p \in Process, StepEnds(p), proc[p].at \in Firings, ~Unrecorded(p)
  PROVE  /\ proc' \in [Process -> ProcRecord]
         /\ \A q \in Process \ {p} : proc'[q] = proc[q]
         /\ proc'[p].row = None /\ ~Open(proc'[p])
         /\ Keeps(p)
         /\ CopyFits(plan, clock, proc'[p])
         /\ InTurn(proc'[p]) /\ InTurn(proc[p])
<1>1. Moved(p, "ending", None, proc[p].now, "prompt")
  BY StepEndsIs DEF IndInv
<1>2. CopyFits(plan, clock, proc[p])
  BY DEF IndInv, CopyInv
<1> QED
  BY <1>1, <1>2 DEF Moved, Keeps, CopyFits, Open, Firings, InTurn, Unrecorded

LEMMA ClaimAgainStep ==
  ASSUME IndInv, NEW p \in Process, ClaimAgain(p)
  PROVE  IndInv'
<1>1. proc[p].at = "claiming" /\ ~Unrecorded(p)
  BY DEF ClaimAgain, Unrecorded, Open
<1>2. CASE Claimable(p)
  <2>1. Moved(p, "judging", proc[p].row, proc[p].now, proc[p].text)
    BY <1>2, GotoIs DEF ClaimAgain, IndInv, Places
  <2>2. LeaseMoves(p)
    BY <1>2 DEF LeaseMoves, ClaimAgain
  <2> QED
    BY <1>1, <2>1, <2>2, GoesOn, ProcessMoves
    DEF history, ClaimAgain, Places, Firings, IndInv, TypeOK
<1>3. CASE ~Claimable(p)
  <2>1. StepEnds(p) /\ lease' = lease
    BY <1>3 DEF ClaimAgain
  <2> QED
    BY <1>1, <2>1, EndsQuietly, ProcessMoves
    DEF history, ClaimAgain, LeaseMoves, Firings, IndInv, TypeOK
<1> QED
  BY <1>2, <1>3

LEMMA WakesStep ==
  ASSUME IndInv, NEW p \in Process, Wakes(p)
  PROVE  IndInv'
<1>1. proc[p].at = "judging" /\ ~Unrecorded(p)
  BY DEF Wakes, Evaluated, Unrecorded, Open
<1>2. Moved(p, "admitting", proc[p].row, proc[p].now, proc[p].text)
  BY GotoIs DEF Wakes, IndInv, Places
<1>3. LeaseMoves(p)
  BY <1>1 DEF LeaseMoves, Wakes, durable, InTurn
<1> QED
  BY <1>1, <1>2, <1>3, GoesOn, ProcessMoves
  DEF history, Wakes, durable, Places, Firings, IndInv, TypeOK

LEMMA WakeStep ==
  ASSUME IndInv, NEW p \in Process, Wake(p)
  PROVE  IndInv'
<1>1. proc[p].at = "waking" /\ Unrecorded(p)
  BY DEF Wake, Unrecorded, Open
<1>2. Moved(p, "recording", proc[p].row, proc[p].now, proc[p].text)
  BY GotoIs DEF Wake, IndInv, Places
<1>3. LeaseMoves(p)
  BY <1>1 DEF LeaseMoves, Wake, durable, InTurn
<1>4. awake' \subseteq Process
  BY DEF Wake, IndInv, TypeOK
<1> QED
  BY <1>1, <1>2, <1>3, <1>4, GoesOn, ProcessMoves DEF history, Wake, durable, Places, Firings

(* A judgement with a text of its own is about to be admitted.             *)
LEMMA JudgedStep ==
  ASSUME IndInv, NEW p \in Process, NEW text, proc[p].at = "judging",
         Moved(p, "admitting", proc[p].row, proc[p].now, text)
  PROVE  /\ proc' \in [Process -> ProcRecord]
         /\ \A q \in Process \ {p} : proc'[q] = proc[q]
         /\ Keeps(p)
         /\ CopyFits(plan, clock, proc'[p])
         /\ InTurn(proc[p])
<1>1. CopyFits(plan, clock, proc[p])
  BY DEF IndInv, CopyInv
<1> QED
  BY <1>1 DEF Moved, Keeps, CopyFits, Open, Firings, InTurn, Unrecorded

LEMMA ExpiresStep ==
  ASSUME IndInv, NEW p \in Process, Evaluated(p),
         proc' = [proc EXCEPT ![p].at = "admitting", ![p].text = "expired"],
         UNCHANGED <<plan, row, lease, inbox, message, awake, clock, trouble, history>>
  PROVE  IndInv'
<1> DEFINE x == [proc[p] EXCEPT !.at = "admitting", !.text = "expired"]
<1>1. /\ x \in ProcRecord
      /\ x.at = "admitting" /\ x.row = proc[p].row /\ x.now = proc[p].now /\ x.text = "expired"
  <2>1. proc[p] \in ProcRecord /\ "admitting" \in Places /\ "expired" \in Texts
    BY ProcIs DEF IndInv, Places, Texts
  <2> QED
    BY <2>1 DEF ProcRecord
<1>2. proc' = [proc EXCEPT ![p] = x]
  BY DEF IndInv, TypeOK, ProcRecord
<1> HIDE DEF x
<1>3. Moved(p, "admitting", proc[p].row, proc[p].now, "expired")
  BY <1>1, <1>2 DEF Moved, IndInv, TypeOK
<1> QED
  BY <1>3, JudgedStep, ProcessMoves DEF history, Evaluated, LeaseMoves, IndInv, TypeOK

(* One failure too many, or an invalid check.                              *)
LEMMA PausesStep ==
  ASSUME IndInv, NEW p \in Process, NEW strikes \in 0..MaxFailures, Evaluated(p), Trouble,
         proc' = [proc EXCEPT ![p].at = "admitting", ![p].text = "paused",
                              ![p].strikes = strikes],
         UNCHANGED <<plan, row, lease, inbox, message, awake, clock, history>>
  PROVE  IndInv'
<1> DEFINE x == [proc[p] EXCEPT !.at = "admitting", !.text = "paused", !.strikes = strikes]
<1>1. /\ x \in ProcRecord
      /\ x.at = "admitting" /\ x.row = proc[p].row /\ x.now = proc[p].now /\ x.text = "paused"
  <2>1. proc[p] \in ProcRecord /\ "admitting" \in Places /\ "paused" \in Texts
    BY ProcIs DEF IndInv, Places, Texts
  <2> QED
    BY <2>1 DEF ProcRecord
<1>2. proc' = [proc EXCEPT ![p] = x]
  BY DEF IndInv, TypeOK, ProcRecord
<1> HIDE DEF x
<1>3. Moved(p, "admitting", proc[p].row, proc[p].now, "paused")
  BY <1>1, <1>2 DEF Moved, IndInv, TypeOK
<1> QED
  BY <1>3, JudgedStep, ProcessMoves DEF history, Evaluated, LeaseMoves, IndInv, TypeOK

-----------------------------------------------------------------------------
(* What happens beside the loop.                                           *)
LEMMA StaysPut ==
  ASSUME IndInv, NEW p \in Process, proc' = proc
  PROVE  /\ proc' \in [Process -> ProcRecord]
         /\ \A q \in Process \ {p} : proc'[q] = proc[q]
         /\ Keeps(p)
         /\ CopyFits(plan, clock, proc'[p])
BY DEF IndInv, TypeOK, CopyInv, Keeps, Unrecorded

LEMMA HeartbeatStep ==
  ASSUME IndInv, NEW p \in Process, Heartbeat(p)
  PROVE  IndInv'
<1>1. LeaseMoves(p)
  BY DEF Heartbeat, LeaseMoves, Claimable
<1> QED
  BY <1>1, StaysPut, ProcessMoves DEF history, Heartbeat, IndInv, TypeOK

LEMMA DeliverStep ==
  ASSUME IndInv, NEW p \in Process, Deliver(p)
  PROVE  IndInv'
<1>1. LeaseMoves(p) /\ awake' \subseteq Process
  BY DEF Deliver, LeaseMoves, IndInv, TypeOK
<1> QED
  BY <1>1, StaysPut, ProcessMoves DEF history, Deliver

LEMMA SuspendStep ==
  ASSUME IndInv, NEW p \in Process, Suspend(p)
  PROVE  IndInv'
<1>1. lease' \in Leases /\ (lease.owner # p => lease' = lease)
  BY LeaseIs DEF Suspend, IndInv
<1>2. proc' = proc /\ (InTurn(proc[p]) => "lease" \in cut')
  BY DEF Suspend, InTurn
<1>3. LeaseMoves(p)
  BY <1>1, <1>2 DEF LeaseMoves
<1>4. cut' \in {cut, cut \union {"lease"}}
  BY DEF Suspend
<1> QED
  BY <1>2, <1>3, <1>4, StaysPut, ProcessMoves DEF Suspend, IndInv, TypeOK

LEMMA DieStep ==
  ASSUME IndInv, NEW p \in Process, NEW released \in BOOLEAN, Die(p, released)
  PROVE  IndInv'
<1>1. /\ Down \in ProcRecord
      /\ Down.at = "down" /\ Down.row = None /\ Down.now = 0
  <2>1. "down" \in Places /\ "prompt" \in Texts /\ 0 \in 0..MaxFailures /\ 0 \in 0..Slots
    BY ScheduleAssumption DEF Places, Texts
  <2> QED
    BY <2>1 DEF Down, ProcRecord
<1>2. /\ proc' \in [Process -> ProcRecord]
      /\ \A q \in Process \ {p} : proc'[q] = proc[q]
      /\ proc'[p] = Down
  BY <1>1 DEF Die, IndInv, TypeOK
<1>3. cut' \in {cut, cut \union {"stop"}} /\ (Unrecorded(p) => "stop" \in cut')
  BY DEF Die, Unrecorded, Open
<1>4. Keeps(p)
  BY <1>1, <1>2, <1>3 DEF Keeps, Open
<1>5. CopyFits(plan, clock, proc'[p])
  BY <1>1, <1>2 DEF CopyFits, Open, Firings, IndInv, TypeOK
<1>6. LeaseMoves(p)
  <2>1. ~InTurn(proc'[p])
    BY <1>1, <1>2 DEF InTurn
  <2>2. lease' = Released(p) \/ lease' = lease
          \/ (lease.owner = p /\ lease' = [lease EXCEPT !.owner = Dead])
    BY DEF Die
  <2>3. [lease EXCEPT !.owner = Dead] \in Leases
    BY LeaseIs DEF IndInv
  <2> QED
    BY <2>1, <2>2, <2>3 DEF LeaseMoves
<1>7. awake' \subseteq Process
  BY DEF Die, IndInv, TypeOK
<1> QED
  BY <1>2, <1>3, <1>4, <1>5, <1>6, <1>7, ProcessMoves DEF Die

(* No process moves.                                                       *)
LEMMA NobodyMoves ==
  ASSUME IndInv, UNCHANGED <<plan, row, message, proc, reused, cut>>,
         Clean => Exclusive'
  PROVE  HistoryInv' /\ CutInv'
<1>1. Clean' <=> Clean
  BY DEF Clean
<1>2. \A p \in Process : FiringInv(proc[p])' <=> FiringInv(proc[p])
  BY DEF FiringInv
<1>3. HistoryInv'
  BY <1>1, <1>2 DEF IndInv, HistoryInv
<1>4. CutInv'
  BY DEF IndInv, CutInv, Unrecorded
<1> QED
  BY <1>3, <1>4

LEMMA TickStep ==
  ASSUME IndInv, Tick
  PROVE  IndInv'
<1>1. /\ clock \in 0..Slots /\ clock' = clock + 1 /\ clock < Slots
      /\ UNCHANGED <<plan, row, lease, inbox, message, proc, awake, trouble, reused, cut>>
  BY DEF Tick, durable, history, IndInv, TypeOK
<1>2. TypeOK'
  BY <1>1, ScheduleAssumption DEF IndInv, TypeOK
<1>3. RowInv'
  BY <1>1 DEF IndInv, RowInv
<1>4. CopyInv'
  <2>1. ASSUME NEW p \in Process
        PROVE  CopyFits(plan, clock + 1, proc[p])
    <3>1. CopyFits(plan, clock, proc[p]) /\ proc[p].now \in Nat
      BY ProcIs, ScheduleAssumption DEF IndInv, CopyInv
    <3> QED
      BY <1>1, <3>1 DEF CopyFits
  <2> QED
    BY <1>1, <2>1 DEF CopyInv
<1>5. HistoryInv' /\ CutInv'
  BY <1>1, NobodyMoves DEF Exclusive, IndInv, HistoryInv
<1> QED
  BY <1>2, <1>3, <1>4, <1>5 DEF IndInv

LEMMA ExpireStep ==
  ASSUME IndInv, Expire
  PROVE  IndInv'
<1>1. /\ lease.owner = Dead /\ lease' = [lease EXCEPT !.fresh = FALSE]
      /\ UNCHANGED <<plan, row, clock, inbox, message, proc, awake, trouble, reused, cut>>
  BY DEF Expire, history
<1>2. TypeOK'
  <2>1. lease' \in Leases
    BY <1>1 DEF IndInv, TypeOK, Leases
  <2> QED
    BY <1>1, <2>1 DEF IndInv, TypeOK, Leases
<1>3. RowInv' /\ CopyInv'
  BY <1>1 DEF IndInv, RowInv, CopyInv
<1>4. Clean => Exclusive'
  <2> SUFFICES ASSUME Clean, NEW p \in Process, InTurn(proc[p])
               PROVE  FALSE
    BY <1>1 DEF Exclusive
  <2>1. lease.owner = p
    BY DEF IndInv, HistoryInv, Exclusive
  <2> QED
    BY <1>1, <2>1, ScheduleAssumption
<1>5. HistoryInv' /\ CutInv'
  BY <1>1, <1>4, NobodyMoves
<1> QED
  BY <1>2, <1>3, <1>5 DEF IndInv

-----------------------------------------------------------------------------
(* The row's fields.                                                       *)
LEMMA FieldsAre ==
  ASSUME NEW x \in RowRecord
  PROVE  /\ LET y == [x EXCEPT !.retry = TRUE]
            IN /\ y \in RowRecord /\ y.status = x.status /\ y.failures = x.failures
               /\ y.next = x.next /\ y.run = x.run /\ y.remaining = x.remaining
         /\ LET y == [x EXCEPT !.retry = FALSE]
            IN /\ y \in RowRecord /\ y.status = x.status /\ y.failures = x.failures
               /\ y.next = x.next /\ y.run = x.run /\ y.remaining = x.remaining
         /\ LET y == [x EXCEPT !.status = "paused"]
            IN /\ y \in RowRecord /\ y.status = "paused"
               /\ y.next = x.next /\ y.run = x.run /\ y.remaining = x.remaining
         /\ LET y == [x EXCEPT !.status = "paused", !.retry = FALSE]
            IN /\ y \in RowRecord /\ y.status = "paused"
               /\ y.next = x.next /\ y.run = x.run /\ y.remaining = x.remaining
BY DEF RowRecord

LEMMA StrikesAre ==
  ASSUME NEW x \in RowRecord, NEW strikes \in 0..MaxFailures
  PROVE  LET y == [x EXCEPT !.failures = strikes, !.retry = TRUE]
         IN /\ y \in RowRecord /\ y.status = x.status /\ y.failures = strikes
            /\ y.next = x.next /\ y.run = x.run /\ y.remaining = x.remaining
BY DEF RowRecord

LEMMA ForgivenIs ==
  ASSUME NEW x \in RowRecord
  PROVE  /\ LET y == [x EXCEPT !.failures = 0]
            IN /\ y \in RowRecord /\ y.status = x.status /\ y.failures = 0
               /\ y.next = x.next /\ y.run = x.run /\ y.remaining = x.remaining
         /\ LET y == [x EXCEPT !.status = "active", !.failures = 0]
            IN /\ y \in RowRecord /\ y.status = "active" /\ y.failures = 0
               /\ y.next = x.next /\ y.run = x.run /\ y.remaining = x.remaining
<1>1. 0 \in 0..MaxFailures
  BY ScheduleAssumption
<1> QED
  BY <1>1 DEF RowRecord

LEMMA AdvanceIs ==
  ASSUME NEW x \in RowRecord, NEW next \in 0..(Slots + 1), NEW done \in BOOLEAN
  PROVE  LET y == Advance(x, next, done)
         IN /\ y \in RowRecord
            /\ y.status = IF done THEN "done" ELSE x.status
            /\ y.next = IF done THEN 0 ELSE next
            /\ y.run = x.run /\ y.last = x.last /\ y.remaining = x.remaining
            /\ y.failures = x.failures
<1>1. (IF done THEN 0 ELSE next) \in 0..(Slots + 1)
  BY ScheduleAssumption
<1>2. CASE done
  BY <1>1, <1>2 DEF Advance, RowRecord
<1>3. CASE ~done
  BY <1>1, <1>3 DEF Advance, RowRecord
<1> QED
  BY <1>2, <1>3

LEMMA FollowingIs ==
  ASSUME NEW now \in 0..Slots
  PROVE  /\ Following(now) \in 0..(Slots + 1)
         /\ Following(now) = 0 \/ (plan.repeats /\ Following(now) = now + 1)
BY ScheduleAssumption DEF Following

-----------------------------------------------------------------------------
(* Users, and time, change the row and no process.                         *)
RowForward ==
  \/ row' = None
  \/ /\ row' \in RowRecord
     /\ row'.run = row.run /\ row'.remaining = row.remaining
     /\ RowFits(plan, row')
     /\ row'.next = 0 \/ (row.next # 0 /\ row.next <= row'.next)

LEMMA RowMoves ==
  ASSUME IndInv, row # None, RowForward, Trouble \/ UNCHANGED trouble,
         UNCHANGED <<plan, lease, inbox, message, proc, awake, clock, history>>
  PROVE  IndInv'
<1>1. row \in RowRecord /\ message \in Messages
  BY DEF IndInv, TypeOK, Messages
<1>2. TypeOK'
  <2>1. trouble' \in 0..MaxTrouble
    BY ScheduleAssumption DEF IndInv, TypeOK, Trouble
  <2>2. row' \in RowRecord \union {None}
    BY DEF RowForward
  <2> QED
    BY <2>1, <2>2 DEF IndInv, TypeOK, history
<1>3. RowInv'
  BY DEF RowInv, RowForward, RowFits, RemainingFits, Fireable
<1>4. CopyInv'
  BY DEF IndInv, CopyInv
<1>5. HistoryInv'
  <2> SUFFICES ASSUME Clean
               PROVE  /\ Exclusive'
                      /\ row' # None => Past(plan, message, row')
                      /\ \A p \in Process : FiringInv(proc[p])'
                      /\ Ordered(plan, message)
    BY DEF HistoryInv, Clean, history
  <2>1. Exclusive' /\ Ordered(plan, message)
    BY DEF IndInv, HistoryInv, Exclusive
  <2>2. row' # None => Past(plan, message, row')
    BY <1>1, PastGrows DEF RowForward, IndInv, HistoryInv
  <2>3. ASSUME NEW p \in Process, proc[p].row # None
        PROVE  Shares(row', proc[p].row)
    <3>1. Shares(row, proc[p].row)
      BY <2>3 DEF IndInv, HistoryInv, FiringInv
    <3>2. proc[p].row.next \in Nat /\ row.next \in Nat
      BY <1>1, <2>3, ProcIs, RowIs DEF IndInv
    <3>3. row' # None => row'.next \in Nat
      BY RowIs DEF RowForward
    <3> QED
      BY <3>1, <3>2, <3>3 DEF Shares, RowForward
  <2>4. ASSUME NEW p \in Process
        PROVE  FiringInv(proc[p])'
    BY <2>3 DEF IndInv, HistoryInv, FiringInv
  <2> QED
    BY <2>1, <2>2, <2>4
<1>6. CutInv'
  BY DEF IndInv, CutInv, Unrecorded, history, Counts, RowForward
<1> QED
  BY <1>2, <1>3, <1>4, <1>5, <1>6 DEF IndInv

LEMMA PauseStep ==
  ASSUME IndInv, Pause
  PROVE  IndInv'
<1>1. row # None /\ row \in RowRecord /\ RowFits(plan, row)
  BY DEF Pause, Active, IndInv, TypeOK, RowInv
<1>2. /\ row' \in RowRecord /\ row'.status = "paused"
      /\ row'.next = row.next /\ row'.run = row.run /\ row'.remaining = row.remaining
  <2>1. row' = [row EXCEPT !.status = "paused"]
    BY DEF Pause
  <2> QED
    BY <1>1, <2>1, FieldsAre
<1>3. row.next \in Nat
  BY <1>1, RowIs
<1>4. RowForward
  BY <1>1, <1>2, <1>3 DEF RowForward, RowFits, RemainingFits
<1> QED
  BY <1>1, <1>4, RowMoves DEF Pause

LEMMA RetryStep ==
  ASSUME IndInv, RetryComes
  PROVE  IndInv'
<1>1. row # None /\ row \in RowRecord /\ RowFits(plan, row)
  BY DEF RetryComes, IndInv, TypeOK, RowInv
<1>2. /\ row' \in RowRecord /\ row'.status = row.status /\ row'.failures = row.failures
      /\ row'.next = row.next /\ row'.run = row.run /\ row'.remaining = row.remaining
  <2>1. row' = [row EXCEPT !.retry = FALSE]
    BY DEF RetryComes
  <2> QED
    BY <1>1, <2>1, FieldsAre
<1>3. row.next \in Nat
  BY <1>1, RowIs
<1>4. RowForward
  BY <1>1, <1>2, <1>3 DEF RowForward, RowFits, RemainingFits, Fireable
<1> QED
  BY <1>1, <1>4, RowMoves DEF RetryComes

LEMMA RemoveStep ==
  ASSUME IndInv, Remove
  PROVE  IndInv'
BY RowMoves DEF Remove, RowForward

LEMMA ResumeStep ==
  ASSUME IndInv, Resume
  PROVE  IndInv'
<1> DEFINE next == IF plan.repeats /\ row.next <= clock THEN clock + 1 ELSE row.next
           done == row.next = 0 \/ Finished(next, row.remaining)
           x    == [row EXCEPT !.status = "active", !.failures = 0]
<1>1. row # None /\ row \in RowRecord /\ RowFits(plan, row)
  BY DEF Resume, IndInv, TypeOK, RowInv
<1>2. /\ x \in RowRecord /\ x.status = "active" /\ x.failures = 0
      /\ x.next = row.next /\ x.run = row.run /\ x.remaining = row.remaining
  BY <1>1, ForgivenIs
<1>3. clock \in 0..Slots /\ row.next \in 0..(Slots + 1)
  BY <1>1, RowIs DEF IndInv, TypeOK
<1>4. next \in 0..(Slots + 1) /\ row.next <= next
  BY <1>3, ScheduleAssumption
<1>5. done \in BOOLEAN
  BY DEF Finished
<1>6. ~done => row.next # 0 /\ next # 0 /\ row.remaining # 0
  BY DEF Finished, Beyond
<1>7. row' = Advance(x, next, done) /\ Trouble
  BY DEF Resume
<1> HIDE DEF x, next, done
<1>8. /\ row' \in RowRecord
      /\ row'.status = IF done THEN "done" ELSE "active"
      /\ row'.next = IF done THEN 0 ELSE next
      /\ row'.run = row.run /\ row'.remaining = row.remaining /\ row'.failures = 0
  BY <1>2, <1>4, <1>5, <1>7, AdvanceIs
<1>9. RowForward
  BY <1>1, <1>4, <1>6, <1>8, ScheduleAssumption
  DEF RowForward, RowFits, RemainingFits, Fireable
<1> QED
  BY <1>1, <1>7, <1>9, RowMoves DEF Resume

-----------------------------------------------------------------------------
(* A turn that ends with a note in the row, and no run.                    *)
RowNoted(p) ==
  /\ row \in RowRecord /\ row' \in RowRecord
  /\ row'.run = row.run /\ row'.remaining = row.remaining
  /\ RowFits(plan, row')
  /\ \/ row'.next = 0
     \/ row'.next = row.next
     \/ plan.repeats /\ row'.next = proc[p].now + 1

(* Nobody else is in a turn.                                               *)
LEMMA NobodyElse ==
  ASSUME IndInv, Clean, NEW p \in Process, InTurn(proc[p]), NEW q \in Process \ {p}
  PROVE  proc[q].row = None /\ ~Unrecorded(q)
<1>1. ~InTurn(proc[q])
  BY AloneInTurn DEF IndInv, HistoryInv
<1> QED
  BY <1>1, OpenInTurn DEF IndInv, CopyInv, CopyFits, Firings, InTurn, Unrecorded

LEMMA TurnEnds ==
  ASSUME IndInv, NEW p \in Process, proc[p].at \in {"judging", "admitting"}, StepEnds(p),
         row' = row \/ RowNoted(p), awake' \subseteq Process,
         Trouble \/ UNCHANGED trouble,
         UNCHANGED <<plan, lease, inbox, message, clock, history>>
  PROVE  IndInv'
<1> DEFINE copy == proc[p].row
<1>1. proc[p].at \in Firings /\ ~Unrecorded(p)
  BY DEF Firings, Unrecorded, Open
<1>2. /\ proc' \in [Process -> ProcRecord]
      /\ \A q \in Process \ {p} : proc'[q] = proc[q]
      /\ proc'[p].row = None /\ ~Open(proc'[p])
      /\ CopyFits(plan, clock, proc'[p])
      /\ InTurn(proc'[p]) /\ InTurn(proc[p])
  BY <1>1, EndsQuietly
<1>3. /\ copy \in RowRecord /\ copy # None /\ Fireable(copy) /\ copy.next <= proc[p].now
      /\ proc[p].now \in Nat
  <2>1. CopyFits(plan, clock, proc[p])
    BY DEF IndInv, CopyInv
  <2> QED
    BY <1>1, <2>1, ProcIs, ScheduleAssumption DEF IndInv, CopyFits
<1>4. TypeOK'
  <2>1. trouble' \in 0..MaxTrouble
    BY ScheduleAssumption DEF IndInv, TypeOK, Trouble
  <2>2. row' \in RowRecord \union {None}
    BY DEF RowNoted, IndInv, TypeOK
  <2> QED
    BY <1>2, <2>1, <2>2 DEF IndInv, TypeOK, history
<1>5. RowInv'
  BY DEF IndInv, RowInv, RowNoted, RowFits, RemainingFits, Fireable
<1>6. CopyInv'
  BY <1>2, MovesKeepCopies DEF IndInv
<1>7. ASSUME Clean
      PROVE  /\ \A q \in Process : proc'[q].row = None /\ ~Unrecorded(q)'
             /\ \A q \in Process : ~Unrecorded(q)
  <2>1. \A q \in Process \ {p} : proc[q].row = None /\ ~Unrecorded(q)
    BY <1>2, <1>7, NobodyElse
  <2> QED
    BY <1>1, <1>2, <2>1 DEF Unrecorded
<1>8. HistoryInv'
  <2> SUFFICES ASSUME Clean
               PROVE  /\ Exclusive'
                      /\ row' # None => Past(plan, message, row')
                      /\ \A q \in Process : FiringInv(proc[q])'
                      /\ Ordered(plan, message)
    BY DEF HistoryInv, Clean, history
  <2>1. Exclusive'
    BY <1>2, LeaseKept DEF IndInv, HistoryInv
  <2>2. ASSUME RowNoted(p)
        PROVE  Past(plan, message, row')
    <3>1. row # None
      BY <2>2, RowIs DEF RowNoted
    <3>2. Past(plan, message, row) /\ Past(plan, message, copy) /\ copy.run = row.run
      BY <1>3, <3>1 DEF IndInv, HistoryInv, FiringInv, Shares
    <3>3. message \in Messages /\ row.next \in Nat
      BY <2>2, RowIs DEF IndInv, TypeOK, Messages, RowNoted
    <3>4. CASE row'.next = 0 \/ row'.next = row.next
      BY <2>2, <3>2, <3>3, <3>4, PastGrows DEF RowNoted
    <3>5. CASE plan.repeats /\ row'.next = proc[p].now + 1
      <4>1. copy.next < row'.next /\ copy.next # 0
        BY <1>3, <3>5, RowIs DEF Fireable
      <4> HIDE DEF copy
      <4> QED
        BY <1>3, <2>2, <3>2, <3>3, <3>5, <4>1, PastPasses DEF RowNoted
    <3> QED
      BY <2>2, <3>4, <3>5 DEF RowNoted
  <2>3. row' # None => Past(plan, message, row')
    BY <2>2 DEF IndInv, HistoryInv
  <2>4. \A q \in Process : FiringInv(proc[q])'
    BY <1>7 DEF FiringInv
  <2> QED
    BY <2>1, <2>3, <2>4 DEF IndInv, HistoryInv
<1>9. CutInv'
  <2> SUFFICES ASSUME cut = {}
               PROVE  /\ reused = {}
                      /\ row' # None => Counts(message, row')
                      /\ \A q \in Process : proc'[q].row = None
    BY DEF CutInv, history
  <2>1. reused = {} /\ Clean
    BY DEF IndInv, CutInv, Clean
  <2>2. row # None => Counts(message, row)
    BY <1>7, <2>1 DEF IndInv, CutInv
  <2>3. row' # None => Counts(message, row')
    BY <2>2, RowIs DEF RowNoted, Counts
  <2> QED
    BY <1>7, <2>1, <2>3
<1> QED
  BY <1>4, <1>5, <1>6, <1>8, <1>9 DEF IndInv

LEMMA BacksStep ==
  ASSUME IndInv, NEW p \in Process, Backs(p)
  PROVE  IndInv'
<1>1. row' = row \/ RowNoted(p)
  <2> SUFFICES ASSUME Active, row' = [row EXCEPT !.retry = TRUE]
               PROVE  RowNoted(p)
    BY DEF Backs, Update
  <2>1. row \in RowRecord /\ row # None /\ RowFits(plan, row)
    BY DEF Active, IndInv, TypeOK, RowInv
  <2>2. /\ row' \in RowRecord /\ row'.status = row.status /\ row'.failures = row.failures
        /\ row'.next = row.next /\ row'.run = row.run /\ row'.remaining = row.remaining
    BY <2>1, FieldsAre
  <2> QED
    BY <2>1, <2>2 DEF RowNoted, RowFits, RemainingFits, Fireable
<1> QED
  BY <1>1, TurnEnds DEF Backs, IndInv, TypeOK, history

LEMMA GoneStep ==
  ASSUME IndInv, NEW p \in Process, Gone(p)
  PROVE  IndInv'
<1>1. row' = row \/ RowNoted(p)
  <2> SUFFICES ASSUME Active, row' = [row EXCEPT !.status = "paused", !.retry = FALSE]
               PROVE  RowNoted(p)
    BY DEF Gone, Update
  <2>1. row \in RowRecord /\ row # None /\ RowFits(plan, row)
    BY DEF Active, IndInv, TypeOK, RowInv
  <2>2. /\ row' \in RowRecord /\ row'.status = "paused"
        /\ row'.next = row.next /\ row'.run = row.run /\ row'.remaining = row.remaining
    BY <2>1, FieldsAre
  <2> QED
    BY <2>1, <2>2 DEF RowNoted, RowFits, RemainingFits
<1> QED
  BY <1>1, TurnEnds DEF Gone, IndInv, TypeOK, history

(* Skip and Quiet: the row is due next at the slot after now, or done.     *)
LEMMA PassesOn ==
  ASSUME IndInv, NEW p \in Process, NEW x \in RowRecord, NEW done \in BOOLEAN,
         row \in RowRecord, RowFits(plan, row), row.status = "active",
         x.status = row.status, x.run = row.run, x.remaining = row.remaining,
         x.failures \in {0, row.failures},
         Beyond(Following(proc[p].now)) => done,
         row' = Advance(x, Following(proc[p].now), done)
  PROVE  RowNoted(p)
<1> DEFINE next == Following(proc[p].now)
<1>1. next \in 0..(Slots + 1) /\ (next = 0 \/ (plan.repeats /\ next = proc[p].now + 1))
  BY ProcIs, FollowingIs DEF IndInv
<1>2. ~done => next # 0
  BY DEF Beyond
<1> HIDE DEF next
<1>3. /\ row' \in RowRecord
      /\ row'.status = IF done THEN "done" ELSE row.status
      /\ row'.next = IF done THEN 0 ELSE next
      /\ row'.run = row.run /\ row'.remaining = row.remaining /\ row'.failures = x.failures
  BY <1>1, AdvanceIs DEF next
<1> QED
  BY <1>1, <1>2, <1>3, ScheduleAssumption DEF RowNoted, RowFits, RemainingFits, Fireable

LEMMA SkipStep ==
  ASSUME IndInv, NEW p \in Process, Skip(p)
  PROVE  IndInv'
<1>1. row' = row \/ RowNoted(p)
  <2> DEFINE next == Following(proc[p].now)
             done == Finished(next, proc[p].row.remaining)
  <2> SUFFICES ASSUME Active, row' = Advance(row, next, done)
               PROVE  RowNoted(p)
    BY DEF Skip, Update
  <2>1. row \in RowRecord /\ row # None /\ RowFits(plan, row) /\ row.status = "active"
    BY DEF Active, IndInv, TypeOK, RowInv
  <2>2. done \in BOOLEAN /\ (Beyond(next) => done)
    BY DEF Finished
  <2> HIDE DEF done
  <2> QED
    BY <2>1, <2>2, PassesOn
<1>2. awake' \subseteq Process
  BY DEF Skip, IndInv, TypeOK
<1> QED
  BY <1>1, <1>2, TurnEnds DEF Skip, history

LEMMA QuietStep ==
  ASSUME IndInv, NEW p \in Process, Quiet(p)
  PROVE  IndInv'
<1> DEFINE next  == Following(proc[p].now)
           ended == Beyond(next)
           x     == [row EXCEPT !.failures = 0]
<1>1. CASE plan.check = "until" /\ ended
  BY <1>1, ExpiresStep DEF Quiet, history
<1>2. CASE ~(plan.check = "until" /\ ended)
  <2>1. row' = row \/ RowNoted(p)
    <3> SUFFICES ASSUME Active, row' = Advance(x, next, ended)
                 PROVE  RowNoted(p)
      BY <1>2 DEF Quiet, Update
    <3>1. row \in RowRecord /\ row # None /\ RowFits(plan, row) /\ row.status = "active"
      BY DEF Active, IndInv, TypeOK, RowInv
    <3>2. ended \in BOOLEAN /\ (Beyond(next) => ended)
      BY DEF Beyond
    <3>3. /\ x \in RowRecord /\ x.status = row.status /\ x.failures = 0
          /\ x.run = row.run /\ x.remaining = row.remaining
      BY <3>1, ForgivenIs
    <3> HIDE DEF ended, x
    <3> QED
      BY <3>1, <3>2, <3>3, PassesOn
  <2> QED
    BY <1>2, <2>1, TurnEnds DEF Quiet, Evaluated, IndInv, TypeOK, history
<1> QED
  BY <1>1, <1>2

LEMMA CheckFailsStep ==
  ASSUME IndInv, NEW p \in Process, NEW invalid \in BOOLEAN, CheckFails(p, invalid)
  PROVE  IndInv'
<1> DEFINE strikes == proc[p].row.failures + 1
<1>1. strikes \in 0..MaxFailures
  <2>1. CopyFits(plan, clock, proc[p]) /\ proc[p].at = "judging"
    BY DEF IndInv, CopyInv, CheckFails, Evaluated
  <2>2. proc[p].row \in RowRecord /\ proc[p].row.failures < MaxFailures
    BY <2>1, ProcIs DEF IndInv, CopyFits, Firings, Fireable
  <2> QED
    BY <2>2, RowIs, ScheduleAssumption
<1> HIDE DEF strikes
<1>2. CASE ~invalid /\ strikes < MaxFailures
  <2>1. row' = row \/ RowNoted(p)
    <3> SUFFICES ASSUME Active, row' = [row EXCEPT !.failures = strikes, !.retry = TRUE]
                 PROVE  RowNoted(p)
      BY <1>2 DEF CheckFails, Update, strikes
    <3>1. row \in RowRecord /\ row # None /\ RowFits(plan, row)
      BY DEF Active, IndInv, TypeOK, RowInv
    <3>2. /\ row' \in RowRecord /\ row'.status = row.status /\ row'.failures = strikes
          /\ row'.next = row.next /\ row'.run = row.run /\ row'.remaining = row.remaining
      BY <1>1, <3>1, StrikesAre
    <3> QED
      BY <1>2, <3>1, <3>2 DEF RowNoted, RowFits, RemainingFits, Fireable
  <2> QED
    BY <1>2, <2>1, TurnEnds DEF CheckFails, Evaluated, IndInv, TypeOK, history, strikes
<1>3. CASE ~(~invalid /\ strikes < MaxFailures)
  BY <1>1, <1>3, PausesStep DEF CheckFails, strikes
<1> QED
  BY <1>2, <1>3

-----------------------------------------------------------------------------
(* The admission of a firing's prompt.                                     *)
LEMMA AdmitStep ==
  ASSUME IndInv, NEW p \in Process, Admit(p)
  PROVE  IndInv'
<1> DEFINE copy == proc[p].row
           text == proc[p].text
           run  == copy.run + 1
           mine == [text |-> text, slot |-> copy.next]
<1>1. proc[p].at = "admitting" /\ run \in Run
  BY DEF Admit, NextRun
<1>2. /\ copy \in RowRecord /\ copy # None
      /\ copy.next # 0 /\ copy.remaining # 0 /\ copy.next \in 0..Slots
      /\ text \in Texts
  <2>1. CopyFits(plan, clock, proc[p]) /\ proc[p].now \in 0..Slots
    BY ProcIs DEF IndInv, CopyInv
  <2>2. copy \in RowRecord /\ Fireable(copy) /\ copy.next <= proc[p].now
    BY <1>1, <2>1, ProcIs DEF IndInv, CopyFits, Firings
  <2> QED
    BY <2>1, <2>2, ProcIs, RowIs, ScheduleAssumption DEF IndInv, Fireable
<1>3. /\ proc' \in [Process -> ProcRecord]
      /\ \A q \in Process \ {p} : proc'[q] = proc[q]
      /\ proc'[p].at = "waking" /\ proc'[p].row = copy
      /\ proc'[p].now = proc[p].now /\ proc'[p].text = text
  BY GotoIs DEF Admit, Places, IndInv, Moved
<1>4. /\ InTurn(proc[p]) /\ InTurn(proc'[p]) /\ ~Unrecorded(p) /\ Open(proc'[p])
  BY <1>1, <1>3 DEF InTurn, Unrecorded, Open
<1>5. UNCHANGED <<plan, row, lease, awake, clock, trouble, cut>> /\ message \in Messages
  BY DEF Admit, IndInv, TypeOK, Messages
<1>6. \/ /\ message[run].text = None
         /\ message' = [message EXCEPT ![run] = mine]
         /\ inbox' = inbox \union {run} /\ reused' = reused
      \/ /\ message[run].text # None
         /\ reused' = IF message[run] = mine THEN reused ELSE reused \union {text}
         /\ UNCHANGED <<inbox, message>>
  BY DEF Admit, NextRun
<1> HIDE DEF copy, text, run
<1>7. message[run].text = None =>
        /\ message' \in Messages
        /\ message'[run].text = text /\ message'[run].slot = copy.next
        /\ \A r \in Run : r # run => message'[r] = message[r]
  BY <1>1, <1>2, <1>5, <1>6 DEF Messages
<1> HIDE DEF mine
<1>8. TypeOK'
  <2>1. message' \in Messages /\ inbox' \subseteq Run /\ reused' \subseteq Texts
    BY <1>1, <1>2, <1>5, <1>6, <1>7 DEF IndInv, TypeOK
  <2> QED
    BY <1>3, <1>5, <2>1 DEF IndInv, TypeOK, Messages
<1>9. RowInv'
  BY <1>5 DEF IndInv, RowInv
<1>10. CopyInv'
  <2>1. CopyFits(plan, clock, proc[p])
    BY DEF IndInv, CopyInv
  <2>2. CopyFits(plan, clock, proc'[p])
    BY <1>1, <1>2, <1>3, <2>1 DEF CopyFits, Open, Firings, copy, run
  <2> QED
    BY <1>3, <1>5, <2>2, MovesKeepCopies DEF IndInv
<1>11. ASSUME Clean
       PROVE  \A q \in Process \ {p} : proc'[q].row = None /\ ~Unrecorded(q)'
  BY <1>3, <1>4, <1>11, NobodyElse DEF Unrecorded
<1>12. HistoryInv'
  <2> SUFFICES ASSUME Clean'
               PROVE  /\ Exclusive'
                      /\ row # None => Past(plan, message', row)
                      /\ \A q \in Process : FiringInv(proc[q])'
                      /\ Ordered(plan, message')
    BY <1>5 DEF HistoryInv
  <2>1. Clean /\ "paused" \notin reused'
    BY <1>5, <1>6 DEF Clean
  <2>2. Exclusive'
    BY <1>3, <1>4, <1>5, <2>1, LeaseKept DEF IndInv, HistoryInv
  <2>3. /\ row # None => Past(plan, message, row)
        /\ Past(plan, message, copy) /\ Shares(row, copy) /\ Ordered(plan, message)
    BY <1>2, <2>1 DEF IndInv, HistoryInv, FiringInv, copy
  <2>4. /\ row # None => Past(plan, message', row)
        /\ Past(plan, message', copy)
        /\ Ordered(plan, message')
        /\ text = "paused" => message'[run].text = "paused"
    <3>1. CASE message[run].text = None
      <4>1. row # None => Past(plan, message', row)
        <5> SUFFICES ASSUME row # None
                     PROVE  Past(plan, message', row)
          OBVIOUS
        <5>1. row \in RowRecord /\ row.run + 1 = run
          BY <2>3 DEF IndInv, TypeOK, Shares, run
        <5>2. row.next = 0 \/ message'[run].slot <= row.next
          BY <1>7, <2>3, <3>1 DEF Shares
        <5> QED
          BY <1>1, <1>5, <1>7, <2>3, <3>1, <5>1, <5>2, PastAdmits
      <4>2. Past(plan, message', copy)
        <5>1. copy.next = 0 \/ message'[run].slot <= copy.next
          BY <1>2, <1>7, <3>1, RowIs
        <5> QED
          BY <1>1, <1>2, <1>5, <1>7, <2>3, <3>1, <5>1, PastAdmits DEF run
      <4>3. Ordered(plan, message')
        BY <1>1, <1>2, <1>5, <1>7, <2>3, <3>1, OrderAdmits DEF run
      <4> QED
        BY <1>7, <3>1, <4>1, <4>2, <4>3
    <3>2. CASE message[run].text # None
      <4>1. text = "paused" => message[run].text = "paused"
        BY <1>6, <2>1, <3>2 DEF mine
      <4> QED
        BY <1>6, <2>3, <3>2, <4>1
    <3> QED
      BY <3>1, <3>2
  <2>5. ASSUME NEW q \in Process
        PROVE  FiringInv(proc[q])'
    <3>1. CASE q = p
      BY <1>3, <1>5, <2>3, <2>4, <3>1 DEF FiringInv, NoticeSays, run
    <3>2. CASE q # p
      BY <1>11, <2>1, <3>2 DEF FiringInv
    <3> QED
      BY <3>1, <3>2
  <2> QED
    BY <2>2, <2>4, <2>5
<1>13. CutInv'
  <2> SUFFICES ASSUME cut = {}
               PROVE  CutInv'
    BY <1>5 DEF CutInv
  <2>1. reused = {} /\ Clean
    BY DEF IndInv, CutInv, Clean
  <2>2. Counts(message, copy)
    BY <1>2, <1>4 DEF IndInv, CutInv, copy
  <2>3. message[run].text = None
    BY <1>1, <1>2, <2>2, RowIs DEF Counts, run
  <2>4. reused' = {} /\ Unrecorded(p)'
    BY <1>4, <1>6, <2>1, <2>3 DEF Unrecorded
  <2> QED
    BY <1>11, <2>1, <2>4 DEF CutInv
<1> QED
  BY <1>8, <1>9, <1>10, <1>12, <1>13 DEF IndInv

-----------------------------------------------------------------------------
(* The record of a firing.                                                 *)
LEMMA FiredIs ==
  ASSUME IndInv, NEW p \in Process, proc[p].at = "recording", row # None
  PROVE  /\ Fired(p) \in RowRecord
         /\ Fired(p).run = proc[p].row.run + 1
         /\ RowFits(plan, Fired(p))
         /\ IF proc[p].text = "paused"
            THEN Fired(p).next = row.next /\ Fired(p).remaining = row.remaining
            ELSE /\ plan.times = 1 => Fired(p).remaining = 0
                 /\ \/ Fired(p).next = 0
                    \/ plan.repeats /\ proc[p].row.next < Fired(p).next
<1> DEFINE copy      == proc[p].row
           run       == copy.run + 1
           next      == Following(proc[p].now)
           remaining == IF plan.check = "until" THEN 0
                        ELSE IF copy.remaining = Never THEN Never ELSE copy.remaining - 1
           done      == plan.check = "until" \/ Finished(next, remaining)
           failures  == IF plan.check = "none" THEN row.failures ELSE 0
<1>1. row \in RowRecord /\ RowFits(plan, row)
  BY DEF IndInv, TypeOK, RowInv
<1>2. /\ copy \in RowRecord /\ run \in Run /\ RemainingFits(plan, copy)
      /\ copy.next <= proc[p].now /\ copy.remaining # 0 /\ proc[p].now \in 0..Slots
      /\ proc[p].strikes \in 0..MaxFailures
  <2>1. CopyFits(plan, clock, proc[p])
    BY DEF IndInv, CopyInv
  <2> QED
    BY <2>1, ProcIs DEF IndInv, CopyFits, Firings, Fireable, Open
<1>3. NextRun(p) = run
  BY DEF NextRun
<1>4. CASE proc[p].text = "paused"
  <2> DEFINE strikes == proc[p].strikes
  <2>1. /\ Fired(p) = [row EXCEPT !.status = "paused", !.failures = strikes, !.run = run,
                                  !.last = run, !.retry = FALSE]
        /\ strikes \in 0..MaxFailures
    BY <1>2, <1>3, <1>4 DEF Fired
  <2> HIDE DEF run, strikes
  <2>2. /\ Fired(p) \in RowRecord /\ Fired(p).status = "paused"
        /\ Fired(p).next = row.next /\ Fired(p).run = run /\ Fired(p).remaining = row.remaining
    BY <1>1, <1>2, <2>1 DEF RowRecord
  <2>3. RowFits(plan, Fired(p))
    BY <1>1, <2>2 DEF RowFits, RemainingFits
  <2> QED
    BY <1>4, <2>2, <2>3 DEF run
<1>5. CASE proc[p].text = "expired"
  <2> DEFINE x == Advance(row, 0, TRUE)
  <2>1. x \in RowRecord /\ x.status = "done" /\ x.next = 0
    <3>1. 0 \in 0..(Slots + 1) /\ TRUE \in BOOLEAN
      BY ScheduleAssumption
    <3> QED
      BY <1>1, <3>1, AdvanceIs
  <2>2. Fired(p) = [x EXCEPT !.failures = 0, !.run = run, !.last = run, !.remaining = 0]
    BY <1>3, <1>5 DEF Fired
  <2> HIDE DEF x, run
  <2>3. 0 \in 0..MaxFailures /\ 0 \in 0..Slots
    BY ScheduleAssumption
  <2>4. /\ Fired(p) \in RowRecord /\ Fired(p).status = "done"
        /\ Fired(p).next = 0 /\ Fired(p).run = run /\ Fired(p).remaining = 0
    BY <1>2, <2>1, <2>2, <2>3 DEF RowRecord
  <2> QED
    BY <1>5, <2>4 DEF RowFits, RemainingFits, run
<1>6. CASE proc[p].text \notin {"paused", "expired"}
  <2> DEFINE x == Advance(row, next, done)
  <2>1. next \in 0..(Slots + 1) /\ (next = 0 \/ (plan.repeats /\ next = proc[p].now + 1))
    BY <1>2, FollowingIs
  <2>2. done \in BOOLEAN /\ (~done => next # 0 /\ remaining # 0)
    BY DEF Finished, Beyond
  <2>3. /\ remaining \in {Never} \union 0..Slots
        /\ plan.times = 1 => remaining = 0
    BY <1>2, RowIs, ScheduleAssumption DEF RemainingFits, Never
  <2>4. failures \in 0..MaxFailures
    BY <1>1, ScheduleAssumption DEF RowRecord
  <2> HIDE DEF next, done, remaining
  <2>5. /\ x \in RowRecord /\ x.status = IF done THEN "done" ELSE row.status
        /\ x.next = IF done THEN 0 ELSE next
        /\ x.failures = row.failures
    BY <1>1, <2>1, <2>2, AdvanceIs
  <2>6. Fired(p) = [x EXCEPT !.failures = IF plan.check = "none" THEN @ ELSE 0, !.run = run,
                             !.last = run, !.remaining = remaining]
    BY <1>3, <1>6 DEF Fired, next, done, remaining
  <2>7. Fired(p) = [x EXCEPT !.failures = failures, !.run = run, !.last = run,
                             !.remaining = remaining]
    BY <2>5, <2>6
  <2> HIDE DEF x, run, failures
  <2>8. /\ Fired(p) \in RowRecord /\ Fired(p).status = IF done THEN "done" ELSE row.status
        /\ Fired(p).next = IF done THEN 0 ELSE next
        /\ Fired(p).run = run /\ Fired(p).remaining = remaining
        /\ Fired(p).failures = failures
    BY <1>2, <2>3, <2>4, <2>5, <2>7 DEF RowRecord
  <2>9. RowFits(plan, Fired(p))
    BY <1>1, <2>2, <2>3, <2>8, ScheduleAssumption
    DEF RowFits, RemainingFits, Fireable, failures
  <2>10. Fired(p).next = 0 \/ (plan.repeats /\ copy.next < Fired(p).next)
    BY <1>2, <2>1, <2>8, RowIs
  <2> QED
    BY <1>6, <2>3, <2>8, <2>9, <2>10 DEF run
<1> QED
  BY <1>4, <1>5, <1>6

LEMMA RecordStep ==
  ASSUME IndInv, NEW p \in Process, Record(p)
  PROVE  IndInv'
<1> DEFINE copy == proc[p].row
<1>1. proc[p].at = "recording" /\ StepEnds(p) /\ InTurn(proc[p]) /\ Unrecorded(p)
  BY DEF Record, InTurn, Unrecorded, Open
<1>2. UNCHANGED <<plan, lease, inbox, message, awake, clock, trouble, reused, cut>>
  BY DEF Record, history
<1>3. /\ proc' \in [Process -> ProcRecord]
      /\ \A q \in Process \ {p} : proc'[q] = proc[q]
      /\ proc'[p].at = "ending" /\ proc'[p].row = None /\ proc'[p].now = proc[p].now
  BY <1>1, StepEndsIs DEF IndInv, Moved
<1>4. /\ copy \in RowRecord /\ copy # None /\ copy.next # 0
      /\ CopyFits(plan, clock, proc'[p])
  <2>1. CopyFits(plan, clock, proc[p])
    BY DEF IndInv, CopyInv
  <2>2. copy # None /\ Fireable(copy)
    BY <1>1, <2>1 DEF CopyFits, Firings
  <2>3. CopyFits(plan, clock, proc'[p])
    BY <1>3, <2>1 DEF CopyFits, Open, Firings
  <2> QED
    BY <2>2, <2>3, ProcIs DEF IndInv, Fireable
<1>5. row # None => /\ row' \in RowRecord
                    /\ row'.run = copy.run + 1
                    /\ RowFits(plan, row')
                    /\ IF proc[p].text = "paused"
                       THEN row'.next = row.next /\ row'.remaining = row.remaining
                       ELSE /\ plan.times = 1 => row'.remaining = 0
                            /\ \/ row'.next = 0
                               \/ plan.repeats /\ copy.next < row'.next
  BY <1>1, FiredIs DEF Record
<1>6. row = None => row' = None
  BY DEF Record
<1>7. TypeOK'
  <2>1. row' \in RowRecord \union {None}
    BY <1>5, <1>6
  <2> QED
    BY <1>2, <1>3, <2>1 DEF IndInv, TypeOK
<1>8. RowInv'
  BY <1>2, <1>5, <1>6 DEF RowInv, RowFits, RemainingFits, Fireable
<1>9. CopyInv'
  BY <1>2, <1>3, <1>4, MovesKeepCopies DEF IndInv
<1>10. ASSUME Clean
       PROVE  \A q \in Process : proc'[q].row = None
  BY <1>1, <1>3, <1>10, NobodyElse
<1>11. ASSUME Clean
       PROVE  Past(plan, message, copy) /\ Shares(row, copy) /\ NoticeSays(message, proc[p])
  BY <1>4, <1>11 DEF IndInv, HistoryInv, FiringInv
<1>12. HistoryInv'
  <2> SUFFICES ASSUME Clean
               PROVE  /\ Exclusive'
                      /\ row' # None => Past(plan, message, row')
                      /\ \A q \in Process : FiringInv(proc[q])'
                      /\ Ordered(plan, message)
    BY <1>2 DEF HistoryInv, Clean
  <2>1. Exclusive'
    BY <1>1, <1>2, <1>3, LeaseKept DEF IndInv, HistoryInv
  <2>2. ASSUME row' # None
        PROVE  Past(plan, message, row')
    <3>1. row # None /\ row \in RowRecord /\ row' \in RowRecord /\ message \in Messages
      BY <1>5, <1>6, <2>2 DEF IndInv, TypeOK, Messages
    <3>2. Past(plan, message, row) /\ copy.run = row.run
      BY <1>11, <3>1 DEF IndInv, HistoryInv, Shares
    <3> HIDE DEF copy
    <3>3. CASE proc[p].text = "paused"
      <4>1. ~Says(message, row.run + 1)
        BY <1>1, <1>11, <3>2, <3>3 DEF NoticeSays, Says, Unrecorded, copy
      <4> QED
        BY <1>5, <3>1, <3>2, <3>3, <4>1, PastPauses
    <3>4. CASE proc[p].text # "paused"
      BY <1>4, <1>5, <1>11, <3>1, <3>4, PastFires
    <3> QED
      BY <3>3, <3>4
  <2>3. \A q \in Process : FiringInv(proc[q])'
    BY <1>10 DEF FiringInv
  <2> QED
    BY <2>1, <2>2, <2>3 DEF IndInv, HistoryInv
<1>13. CutInv'
  <2> SUFFICES ASSUME cut = {}
               PROVE  /\ reused = {}
                      /\ row' # None => Counts(message, row')
                      /\ \A q \in Process : proc'[q].row = None
    BY <1>2 DEF CutInv
  <2>1. reused = {} /\ Clean
    BY DEF IndInv, CutInv, Clean
  <2>2. row' # None => Counts(message, row')
    BY <1>5, <1>6, <1>11, <2>1 DEF Past, Counts
  <2> QED
    BY <1>10, <2>1, <2>2
<1> QED
  BY <1>7, <1>8, <1>9, <1>12, <1>13 DEF IndInv

-----------------------------------------------------------------------------
LEMMA InitIndInv == Init => IndInv
<1> SUFFICES ASSUME Init PROVE IndInv
  OBVIOUS
<1>1. /\ row.status = "active" /\ row.next = 1 /\ row.run = 0 /\ row.failures = 0
      /\ row.remaining = plan.times /\ plan.times \in {1, Never} /\ row \in RowRecord
  <2>1. plan.times \in {1, Never}
    BY DEF Init, PlanRecord
  <2>2. plan.times \in {Never} \union 0..Slots /\ 1 \in 0..(Slots + 1) /\ 0 \in 0..MaxFailures
    BY <2>1, ScheduleAssumption
  <2> DEFINE times == plan.times
  <2>3. row = [status |-> "active", next |-> 1, run |-> 0, last |-> 0, remaining |-> times,
               failures |-> 0, retry |-> FALSE]
    BY DEF Init
  <2> HIDE DEF times
  <2>4. row \in RowRecord
    BY <2>2, <2>3 DEF RowRecord, times
  <2> QED
    BY <2>1, <2>3, <2>4 DEF times
<1>2. \A p \in Process : proc[p] = Down
  BY DEF Init
<1>3. /\ Down \in ProcRecord
      /\ Down.at = "down" /\ Down.row = None /\ Down.now = 0
  <2>1. "down" \in Places /\ "prompt" \in Texts /\ 0 \in 0..MaxFailures /\ 0 \in 0..Slots
    BY ScheduleAssumption DEF Places, Texts
  <2> QED
    BY <2>1 DEF Down, ProcRecord
<1>4. TypeOK
  <2>1. proc \in [Process -> ProcRecord]
    BY <1>3 DEF Init
  <2>2. message \in [Run -> [text : Texts \union {None}, slot : 0..Slots]]
    BY ScheduleAssumption DEF Init
  <2>3. lease \in [owner : Process \union {None, Dead}, fresh : BOOLEAN]
    BY DEF Init, NoLease
  <2> QED
    BY <1>1, <2>1, <2>2, <2>3, ScheduleAssumption DEF Init, TypeOK
<1>5. RowInv
  <2>1. MaxFailures > 0 /\ Never > 1
    BY ScheduleAssumption DEF Never
  <2>2. RemainingFits(plan, row) /\ row.remaining # 0
    BY <1>1, <2>1 DEF RemainingFits
  <2> QED
    BY <1>1, <2>1, <2>2 DEF RowInv, RowFits, Fireable
<1>6. CopyInv
  <2>1. Down.at \notin Firings /\ Down.now <= clock
    BY <1>3 DEF Init, Firings
  <2>2. CopyFits(plan, clock, Down)
    BY <1>3, <2>1 DEF CopyFits, Open
  <2> QED
    BY <1>2, <2>2 DEF CopyInv
<1>7. \A r \in Run : message[r].text = None
  BY DEF Init
<1>8. HistoryInv
  BY <1>2, <1>3, <1>7, ScheduleAssumption
  DEF HistoryInv, Exclusive, InTurn, FiringInv, Past, Ordered, Says, Texts
<1>9. CutInv
  BY <1>2, <1>3, <1>7 DEF Init, CutInv, Counts
<1> QED
  BY <1>4, <1>5, <1>6, <1>8, <1>9 DEF IndInv

LEMMA StepIndInv == IndInv /\ [Next]_vars => IndInv'
<1> SUFFICES ASSUME IndInv, [Next]_vars PROVE IndInv'
  OBVIOUS
<1>1. ASSUME NEW p \in Process, Loop(p)
      PROVE  IndInv'
  BY <1>1, RestStep, FollowStep, LeadStep, RewakeStep, TickEndsStep, PickStep, ClaimAgainStep,
     BacksStep, GoneStep, SkipStep, WakesStep, QuietStep, CheckFailsStep, AdmitStep, WakeStep,
     RecordStep
  DEF Loop
<1>2. ASSUME NEW p \in Process, Start(p) \/ Heartbeat(p) \/ Deliver(p) \/ Suspend(p)
      PROVE  IndInv'
  BY <1>2, StartStep, HeartbeatStep, DeliverStep, SuspendStep
<1>3. ASSUME NEW p \in Process, NEW released \in BOOLEAN, Die(p, released)
      PROVE  IndInv'
  BY <1>3, DieStep
<1>4. CASE Pause \/ Resume \/ Remove \/ Tick \/ RetryComes \/ Expire
  BY <1>4, PauseStep, ResumeStep, RemoveStep, TickStep, RetryStep, ExpireStep
<1>5. CASE UNCHANGED vars
  <2>1. UNCHANGED <<plan, row, lease, inbox, message, proc, awake, clock, trouble, reused, cut>>
    BY <1>5 DEF vars, durable, history
  <2>2. HistoryInv' /\ CutInv'
    BY <2>1, NobodyMoves DEF Exclusive, IndInv, HistoryInv
  <2> QED
    BY <2>1, <2>2 DEF IndInv, TypeOK, RowInv, CopyInv
<1> QED
  BY <1>1, <1>2, <1>3, <1>4, <1>5 DEF Next

-----------------------------------------------------------------------------
(* The row and the copies fit each other whatever is suspended, dies or is *)
(* edited; the messages and the lease until one of the exceptions.         *)
THEOREM Inductive == Spec => []IndInv
BY InitIndInv, StepIndInv, PTL DEF Spec

(* Every variable keeps its type, so that no time, count or number of      *)
(* failures leaves its range.                                              *)
THEOREM TypeCorrect == Spec => []TypeOK
<1>1. IndInv => TypeOK
  BY DEF IndInv
<1> QED
  BY <1>1, Inductive, PTL

(* A slot fires once, and a schedule that fires once fires once.           *)
THEOREM SlotsFireOnce == Spec => []OneFiringPerSlot
<1>1. IndInv => OneFiringPerSlot
  <2> SUFFICES ASSUME IndInv, Clean, NEW r \in Run, NEW s \in Run,
                      Prompted(r), Prompted(s),
                      message[r].slot = message[s].slot \/ plan.times = 1
               PROVE  r = s
    BY DEF OneFiringPerSlot, Clean
  <2>1. Ordered(plan, message) /\ Says(message, r) /\ Says(message, s)
    BY DEF IndInv, HistoryInv, Prompted, Says
  <2>2. r \in Nat /\ s \in Nat /\ message[r].slot \in Nat /\ message[s].slot \in Nat
    BY RunIsNat, ScheduleAssumption DEF IndInv, TypeOK
  <2> QED
    BY <2>1, <2>2 DEF Ordered
<1> QED
  BY <1>1, Inductive, PTL

(* A firing finds its message ID taken only when one was cut off.          *)
THEOREM MessagesAreNew == Spec => []NewMessageEachTime
<1>1. IndInv => NewMessageEachTime
  BY DEF IndInv, CutInv, NewMessageEachTime
<1> QED
  BY <1>1, Inductive, PTL

=============================================================================
