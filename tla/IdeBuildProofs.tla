----------------------------- MODULE IdeBuildProofs -----------------------------
(***************************************************************************)
(* A Crucible build tells the truth about itself (IdeBuild): what it calls   *)
(* done was done, and it never costs more than was agreed.                   *)
(*                                                                           *)
(* The claim is made at the verdict, long after the moves it is about, and   *)
(* possibly in another process. Between the two the invariant follows every   *)
(* planned move: until the build knows itself incomplete, the parts that      *)
(* landed and the parts the queue still holds make up the move (Promised).    *)
(* Skips, halves, retries and failures each keep that, and a restart, which   *)
(* forgets the queue, finds it again in the journal, because a move is called *)
(* done there only in the step that lands it (DoneLanded).                    *)
(***************************************************************************)
EXTENDS IdeBuild, FiniteSetTheorems, SequenceTheorems, TLAPS

(* What is spent and what may yet be spent stay within the cap. *)
Budget(r) == r.spent + r.held <= r.cap

(* A question is asked with no move under way: about the budget or a move from *)
(* the queue, about findings from the Furnace.                                 *)
Asking ==
  /\ run.ask # "none" => work.stage = "idle"
  /\ run.ask \in {"budget", "move"} => run.phase = "loop" /\ run.queue # <<>>
  /\ run.ask = "furnace" => run.phase = "furnace"

(* The move in the engine is the head of the queue. *)
Busy ==
  work.stage # "idle" =>
    run.phase = "loop" /\ run.queue # <<>> /\ work.entry = Head(run.queue)

(* A move under way has a part to run; one that was not split has all its *)
(* files in it.                                                           *)
Parts ==
  work.stage \in {"call", "write", "verify", "repair"} =>
    /\ work.todo # <<>>
    /\ ~work.split => work.todo = <<work.entry.files>>

(* Counsel follows a failure, a refused write is remembered, and a move that *)
(* comes back without a failure was reported finished.                       *)
Failing ==
  /\ work.stage = "counsel" => work.kind # "none"
  /\ work.stage = "write" /\ work.reply = {} => work.refused # "none"
  /\ work.stage = "back" /\ work.kind = "none" =>
       <<work.entry.move, work.entry.files>> \in landed

(* A queue entry that was not re-planned for time carries all files of its *)
(* move.                                                                   *)
WholeMoves ==
  \A k \in DOMAIN run.queue :
    ~run.queue[k].retimed => run.queue[k].files = FilesOf[run.queue[k].move]

(* A move the journal calls done was finished, by this process or an earlier *)
(* one.                                                                      *)
DoneLanded == \A m \in Moves : journal.state[m] = "done" => Landed(m)

(* Until it has a plan, a process knows of warned moves only from a journal it *)
(* resumed.                                                                    *)
WarnedCut ==
  run.phase \in {"start", "plan"} =>
    \A m \in Moves : journal.state[m] = "warned" => m \in used.cut

(* The phases in which the build has a plan. *)
Planned == {"loop", "see", "furnace", "fixing", "gate", "expect", "missing", "sweep", "verdict"}

(* The parts of m that were finished, and the parts the queue still holds. *)
Pieces(m) ==
  { p[2] : p \in { q \in landed : q[1] = m } } \cup
  { run.queue[j].files : j \in { k \in DOMAIN run.queue : run.queue[k].move = m } }

(* Finished parts and queued parts make up all of m. *)
Backed(m) == m \in used.cut \/ (Pieces(m) # {} /\ FilesOf[m] \subseteq UNION Pieces(m))

(* While the build may still end well, every move of the plan is finished or *)
(* queued, unless the build knows itself incomplete; every planned file is   *)
(* expected, and at the verdict expected files exist.                        *)
Promised ==
  /\ run.phase # "loop" => run.queue = <<>>
  /\ Open /\ run.phase \in Planned =>
       \A k \in DOMAIN journal.plan :
         /\ run.incomplete \/ Backed(journal.plan[k])
         /\ FilesOf[journal.plan[k]] \subseteq run.expected
  /\ run.phase = "verdict" /\ ~run.incomplete => run.expected \subseteq disk

(* The inductive invariant. *)
IInv == /\ TypeOK /\ Asking /\ Busy /\ Parts /\ Failing /\ WholeMoves
        /\ DoneLanded /\ WarnedCut /\ Promised /\ HonestDone /\ CapHolds

-----------------------------------------------------------------------------
(* A finite set has a subset of half its size, rounded up. *)
LEMMA HalfExists ==
  ASSUME NEW S, IsFiniteSet(S)
  PROVE  \E h \in SUBSET S : Cardinality(h) = (Cardinality(S) + 1) \div 2
<1> DEFINE n == Cardinality(S)
           c == (n + 1) \div 2
<1>1. n \in Nat /\ ExistsBijection(1 .. n, S)
  BY FS_CardinalityType
<1>2. PICK f \in Bijection(1 .. n, S) : TRUE
  BY <1>1 DEF ExistsBijection
<1>3. c \in Nat /\ c <= n
  BY <1>1
<1> DEFINE h == { f[k] : k \in 1 .. c }
           g == [k \in 1 .. c |-> f[k]]
<1> HIDE DEF c, n
<1>4. 1 .. c \subseteq 1 .. n
  BY <1>1, <1>3
<1>5. h \in SUBSET S /\ g \in Bijection(1 .. c, h)
  BY <1>2, <1>4 DEF Bijection, Injection, Surjection, IsInjective
<1>6. IsFiniteSet(1 .. c) /\ Cardinality(1 .. c) = c
  BY <1>3, FS_Interval
<1>7. Cardinality(h) = c
  BY <1>5, <1>6, FS_Bijection DEF ExistsBijection
<1> QED
  BY <1>5, <1>7 DEF c, n

(* Halves splits a finite set in two parts that make it up. *)
LEMMA HalvesFacts ==
  ASSUME NEW S, IsFiniteSet(S)
  PROVE  \E h \in SUBSET S : Halves(S) = <<h, S \ h>>
BY HalfExists DEF Halves

(* Every set of files can be halved. *)
LEMMA FilesFinite ==
  ASSUME NEW S \in SUBSET Files
  PROVE  IsFiniteSet(S) /\ \E h \in SUBSET S : Halves(S) = <<h, S \ h>>
BY IdeBuildConstants, FS_Subset, HalvesFacts

(* The queue holds exactly the whole moves of the plan that the ledger does *)
(* not call done.                                                           *)
LEMMA QueueFacts ==
  ASSUME NEW plan \in Seq(Moves)
  PROVE  /\ Queue(plan) \in Seq(Entry)
         /\ \A j \in DOMAIN Queue(plan) : \E k \in DOMAIN plan : Queue(plan)[j] = Whole(plan[k])
         /\ \A k \in DOMAIN plan : plan[k] \notin LedgerDone =>
              \E j \in DOMAIN Queue(plan) : Queue(plan)[j] = Whole(plan[k])
<1> DEFINE left == { k \in DOMAIN plan : plan[k] \notin LedgerDone }
           Upto(k) == { j \in left : j <= k }
           c == [k \in left |-> Cardinality(Upto(k))]
           At(n) == CHOOSE k \in left : Cardinality({ j \in left : j <= k }) = n
           n == Cardinality(left)
<1>1. left \in SUBSET Nat /\ IsFiniteSet(left) /\ n \in Nat
  <2>1. left \in SUBSET (1 .. Len(plan)) /\ Len(plan) \in Nat
    OBVIOUS
  <2>2. IsFiniteSet(1 .. Len(plan))
    BY <2>1, FS_Interval
  <2> QED
    BY <2>1, <2>2, FS_Subset, FS_CardinalityType
<1>u. \A k \in left : k \in Nat /\ \A j : j \in Upto(k) <=> j \in left /\ j <= k
  BY <1>1
<1> HIDE DEF left, Upto
<1>2. \A k \in left : /\ Upto(k) \in SUBSET left /\ k \in Upto(k) /\ IsFiniteSet(Upto(k))
                      /\ Cardinality(Upto(k)) \in 1 .. n
  <2> TAKE k \in left
  <2>1. Upto(k) \in SUBSET left /\ k \in Upto(k)
    BY <1>u
  <2>2. IsFiniteSet(Upto(k)) /\ Cardinality(Upto(k)) <= n /\ Cardinality(Upto(k)) \in Nat
    BY <2>1, <1>1, FS_Subset, FS_CardinalityType
  <2>3. Cardinality(Upto(k)) # 0
    BY <2>1, <2>2, FS_EmptySet
  <2> QED
    BY <2>1, <2>2, <2>3, <1>1
<1>3. \A k, l \in left : k < l => c[k] < c[l]
  <2> SUFFICES ASSUME NEW k \in left, NEW l \in left, k < l
               PROVE  Cardinality(Upto(k)) < Cardinality(Upto(l))
    OBVIOUS
  <2>1. Upto(k) \in SUBSET Upto(l) /\ l \in Upto(l) /\ l \notin Upto(k)
    BY <1>u
  <2>2. IsFiniteSet(Upto(l)) /\ Cardinality(Upto(k)) \in Nat /\ Cardinality(Upto(l)) \in Nat
    BY <1>2, <1>1
  <2>3. Cardinality(Upto(k)) <= Cardinality(Upto(l)) /\ Cardinality(Upto(k)) # Cardinality(Upto(l))
    BY <2>1, <2>2, FS_Subset
  <2> QED
    BY <2>2, <2>3
<1>c. \A k \in left : c[k] \in 1 .. n
  BY <1>2
<1>4. \A k, l \in left : c[k] = c[l] => k = l
  <2> HIDE DEF c
  <2> QED
    BY <1>1, <1>c, <1>3
<1>5. c \in Injection(left, 1 .. n)
  BY <1>c, <1>4 DEF Injection, IsInjective
<1>6. IsFiniteSet(1 .. n) /\ Cardinality(1 .. n) = n
  BY <1>1, FS_Interval
<1>7. c \in Surjection(left, 1 .. n)
  <2> HIDE DEF c
  <2> QED
    BY <1>5, <1>6, FS_Injection
<1>8. \A i \in 1 .. n : At(i) \in left /\ c[At(i)] = i
  BY <1>7 DEF Surjection, Upto
<1>9. \A k \in left : At(c[k]) = k
  <2> HIDE DEF c, At
  <2> QED
    BY <1>c, <1>4, <1>8
<1>10. Queue(plan) = [i \in 1 .. n |-> Whole(plan[At(i)])]
  BY DEF Queue, left
<1>11. \A k \in left : k \in DOMAIN plan /\ plan[k] \in Moves /\ Whole(plan[k]) \in Entry
  BY DEF left, Whole, Entry, Files
<1>12. \A k \in DOMAIN plan : plan[k] \notin LedgerDone => k \in left
  BY DEF left
<1> HIDE DEF c, At, n
<1>13. Queue(plan) \in Seq(Entry) /\ DOMAIN Queue(plan) = 1 .. n
  <2>1. \A i \in 1 .. n : Whole(plan[At(i)]) \in Entry
    BY <1>8, <1>11
  <2>2. n \in Nat
    BY <1>1 DEF n
  <2> QED
    BY <1>10, <2>1, <2>2
<1> QED
  BY <1>c, <1>8, <1>9, <1>10, <1>11, <1>12, <1>13

-----------------------------------------------------------------------------
(* The journal's type. *)
Journal ==
  [ plan : Seq(Moves), state : [Moves -> MoveStates], files : SUBSET Files, outcome : Outcomes ]

(* A run that differs from the current one at most in its accounts. *)
SameControl(r) ==
  /\ r.phase = run.phase /\ r.queue = run.queue /\ r.ask = run.ask
  /\ r.incomplete = run.incomplete /\ r.expected = run.expected

(* A new process is well typed and within its budget. *)
LEMMA FreshType ==
  ASSUME NEW files \in SUBSET Files
  PROVE  Fresh(files) \in Run /\ Budget(Fresh(files))
BY IdeBuildConstants DEF Fresh, Run, Phases, Budget

(* A returned runIdeBuild is well typed, within the budget, and waits for *)
(* nothing.                                                               *)
LEMMA ReturnedType ==
  ASSUME NEW r \in Run, Budget(r)
  PROVE  /\ Returned(r) \in Run /\ Budget(Returned(r))
         /\ Returned(r).phase = "returned" /\ Returned(r).ask = "none"
         /\ Returned(r).queue = <<>>
<1>1. Fresh({}) \in Run
  BY FreshType
<1> QED
  BY <1>1 DEF Returned, Run, Phases, Budget, Fresh

(* An idle engine is well typed. *)
LEMMA IdleType == Idle \in Work
BY IdeBuildConstants DEF Idle, Work, Entry, Whole, Files, Kinds

(* A move that starts has all its files to do, in one part. *)
LEMMA StartingType ==
  ASSUME NEW e \in Entry
  PROVE  /\ Starting(e) \in Work
         /\ Starting(e).stage = "call" /\ Starting(e).entry = e
         /\ Starting(e).todo = <<e.files>> /\ Starting(e).split = FALSE
<1>1. <<e.files>> \in Seq(SUBSET Files)
  BY DEF Entry
<1> QED
  BY IdleType, <1>1 DEF Starting, Work, Idle, Entry

(* A call that the guard allows keeps the budget and changes nothing but the *)
(* accounts.                                                                 *)
LEMMA PaidFacts ==
  ASSUME TypeOK, CapHolds
  PROVE  /\ Affordable => Paid \in Run /\ Budget(Paid) /\ SameControl(Paid)
                          /\ Paid.frontier = run.frontier
         /\ \A r \in MaybePaid : r \in Run /\ Budget(r) /\ SameControl(r)
                                 /\ r.frontier = run.frontier
<1>1. Affordable => Paid \in Run /\ Budget(Paid) /\ SameControl(Paid)
                    /\ Paid.frontier = run.frontier
  <2>1. run \in Run /\ run.spent \in Nat /\ run.held \in Nat /\ run.cap \in Nat
    BY DEF TypeOK, Run
  <2>2. /\ Paid \in Run /\ SameControl(Paid) /\ Paid.frontier = run.frontier
        /\ Paid.spent = run.spent + 1 /\ Paid.held = run.held /\ Paid.cap = run.cap
    BY <2>1 DEF Paid, Run, SameControl
  <2>3. Affordable => run.spent + 1 + run.held <= run.cap
    BY <2>1 DEF Affordable
  <2> QED
    BY <2>2, <2>3 DEF Budget
<1>2. run \in Run /\ Budget(run) /\ SameControl(run)
  BY DEF TypeOK, CapHolds, Budget, SameControl
<1> QED
  BY <1>1, <1>2 DEF MaybePaid

(* A move event changes at most the state of the move it names. *)
LEMMA MoveEventFacts ==
  ASSUME journal \in Journal, NEW w \in Work, NEW s \in MoveStates
  PROVE  LET j == MoveEvent(w, s)
         IN /\ j \in Journal
            /\ j.plan = journal.plan /\ j.files = journal.files /\ j.outcome = journal.outcome
            /\ \A m \in Moves : \/ j.state[m] = journal.state[m]
                                \/ /\ j.state[m] = s /\ m = w.entry.move
                                   /\ ~w.entry.retimed /\ ~w.split
<1>1. w.entry.move \in Moves
  BY DEF Work, Entry
<1> QED
  BY <1>1 DEF MoveEvent, Journal

(* Sealing changes the outcome of an open journal and nothing else. *)
LEMMA SealedFacts ==
  ASSUME journal \in Journal, NEW o \in Outcomes
  PROVE  /\ Sealed(journal, o) \in Journal
         /\ Sealed(journal, o).plan = journal.plan
         /\ Sealed(journal, o).state = journal.state
         /\ Sealed(journal, o).files = journal.files
         /\ Sealed(journal, o).outcome = (IF Open THEN o ELSE journal.outcome)
BY DEF Sealed, Journal, Open

(* What was finished stays finished. *)
LEMMA LandedGrows ==
  ASSUME landed \subseteq landed', NEW m, Landed(m)
  PROVE  Landed(m)'
BY DEF Landed

(* The files of a state that only grows. *)
Grows ==
  /\ journal'.plan = journal.plan /\ disk \subseteq disk' /\ landed \subseteq landed'
  /\ used.cut \subseteq used'.cut

(* A step that keeps the queue, the phase and the outcome keeps what was *)
(* promised.                                                             *)
LEMMA FrameKeeps ==
  ASSUME IInv, TypeOK', Grows, journal'.outcome = journal.outcome,
         run'.queue = run.queue, run'.phase = run.phase,
         run'.incomplete = run.incomplete, run'.expected = run.expected
  PROVE  WholeMoves' /\ Promised' /\ HonestDone'
<1>1. WholeMoves'
  BY DEF IInv, WholeMoves
<1>2. HonestDone'
  <2>1. \A m : Landed(m) => Landed(m)'
    BY LandedGrows DEF Grows
  <2> QED
    BY <2>1 DEF IInv, HonestDone, Grows
<1>3. Promised'
  <2>1. \A m : Pieces(m) \subseteq Pieces(m)'
    BY DEF Pieces, Grows
  <2>2. \A m : Backed(m) => Backed(m)'
    BY <2>1 DEF Backed, Grows
  <2> QED
    BY <2>2 DEF IInv, Promised, Grows, Open
<1> QED
  BY <1>1, <1>2, <1>3

(* A step of the engine on the head of the queue keeps the invariant when it *)
(* calls a move done only once it landed.                                    *)
LEMMA EngineStep ==
  ASSUME IInv, TypeOK', Grows, journal'.outcome = journal.outcome,
         run'.queue = run.queue, run'.phase = run.phase, run'.ask = "none",
         run'.incomplete = run.incomplete, run'.expected = run.expected,
         run.phase = "loop", run.queue # <<>>, work'.entry = Head(run.queue),
         \A m \in Moves : journal'.state[m] = "done" => journal.state[m] = "done" \/ Landed(m)',
         Parts', Failing', Budget(run')
  PROVE  IInv'
<1>1. WholeMoves' /\ Promised' /\ HonestDone'
  BY FrameKeeps
<1>2. Asking' /\ Busy' /\ WarnedCut' /\ CapHolds'
  BY DEF Asking, Busy, WarnedCut, CapHolds, Budget
<1>3. DoneLanded'
  BY LandedGrows DEF IInv, DoneLanded, Grows
<1> QED
  BY <1>1, <1>2, <1>3 DEF IInv

-----------------------------------------------------------------------------
(* What the invariant says while a move is under way. *)
LEMMA Engaged ==
  ASSUME IInv, work.stage # "idle"
  PROVE  /\ run.phase = "loop" /\ run.ask = "none" /\ run.queue # <<>>
         /\ work.entry = Head(run.queue) /\ work.entry \in Entry
         /\ run \in Run /\ journal \in Journal /\ work \in Work
         /\ Budget(run) /\ SameControl(run)
BY DEF IInv, TypeOK, Journal, Asking, Busy, Work, CapHolds, Budget, SameControl

(* A step of the engine that says at most that the move is not done. *)
LEMMA EngineEvent ==
  ASSUME IInv, work.stage # "idle", TypeOK', Grows, journal'.outcome = journal.outcome,
         SameControl(run'), Budget(run'), work'.entry = work.entry,
         \A m \in Moves : journal'.state[m] = "done" => journal.state[m] = "done",
         Parts', Failing'
  PROVE  IInv'
BY EngineStep, Engaged DEF SameControl

(* A failed attempt keeps the invariant, whatever its kind. *)
LEMMA AttemptFailsKeeps ==
  ASSUME IInv, work.stage # "idle", NEW kind \in Kinds \ {"none"},
         NEW r \in Run, Budget(r), SameControl(r), AttemptFails(work, kind, r)
  PROVE  IInv'
<1> USE Engaged
<1>1. journal' \in Journal /\ journal'.plan = journal.plan /\ journal'.outcome = journal.outcome
      /\ \A m \in Moves : journal'.state[m] = "done" => journal.state[m] = "done"
  BY MoveEventFacts DEF AttemptFails, MoveStates
<1>2. /\ work' \in Work /\ work'.entry = work.entry /\ work'.kind = kind
      /\ work'.stage \in {"back", "counsel"}
  BY IdleType DEF AttemptFails, Work, Idle
<1>3. run' = r /\ UNCHANGED <<disk, landed, used>>
  BY DEF AttemptFails
<1>4. TypeOK' /\ Grows
  BY <1>1, <1>2, <1>3 DEF IInv, TypeOK, Journal, Grows
<1>5. Parts' /\ Failing'
  BY <1>2 DEF Parts, Failing, Kinds
<1> QED
  BY <1>1, <1>2, <1>3, <1>4, <1>5, EngineEvent DEF SameControl

(* A call that fails keeps the invariant. *)
LEMMA CallFailsKeeps == IInv /\ CallFails => IInv'
<1> SUFFICES ASSUME IInv, CallFails PROVE IInv'
  OBVIOUS
<1>1. PICK r \in MaybePaid : AttemptFails(work, "failed", r)
  BY DEF CallFails
<1>2. r \in Run /\ Budget(r) /\ SameControl(r)
  BY PaidFacts DEF IInv
<1> QED
  BY <1>1, <1>2, AttemptFailsKeeps DEF CallFails, Kinds

(* A carve-out, a failed restore point and refused writes keep the invariant. *)
LEMMA CarveOutKeeps == IInv /\ (CarveOut \/ WritesRefused) => IInv'
<1> SUFFICES ASSUME IInv, CarveOut \/ WritesRefused PROVE IInv'
  OBVIOUS
<1>1. work.stage # "idle" /\ run \in Run /\ Budget(run) /\ SameControl(run)
  BY Engaged DEF CarveOut, WritesRefused
<1>2. PICK kind \in Kinds \ {"none"} : AttemptFails(work, kind, run)
  BY DEF CarveOut, WritesRefused, IInv, TypeOK, Work, Failing, Kinds
<1> QED
  BY <1>1, <1>2, AttemptFailsKeeps

(* Splitting a move in halves keeps the invariant: there is a part left to *)
(* run.                                                                    *)
LEMMA CallSplitsKeeps == IInv /\ CallSplits => IInv'
<1> SUFFICES ASSUME IInv, CallSplits PROVE IInv'
  OBVIOUS
<1> USE Engaged
<1>1. work.stage = "call" /\ Affordable /\ run' = Paid
      /\ work' = [work EXCEPT !.todo = Halves(Head(work.todo)) \o Tail(work.todo), !.split = TRUE]
      /\ UNCHANGED <<journal, disk, landed, used>>
  BY DEF CallSplits
<1>2. Paid \in Run /\ Budget(Paid) /\ SameControl(Paid)
  BY <1>1, PaidFacts DEF IInv
<1>3. work.todo \in Seq(SUBSET Files) /\ work.todo # <<>>
  BY <1>1 DEF IInv, Parts, Work
<1>4. Head(work.todo) \in SUBSET Files /\ Tail(work.todo) \in Seq(SUBSET Files)
  BY <1>3
<1>5. PICK h \in SUBSET Files : Halves(Head(work.todo)) = <<h, Head(work.todo) \ h>>
  BY <1>4, FilesFinite
<1>6. Halves(Head(work.todo)) \in Seq(SUBSET Files) /\ Halves(Head(work.todo)) # <<>>
  <2>1. \A a, b \in SUBSET Files : <<a, b>> \in Seq(SUBSET Files) /\ <<a, b>> # <<>>
    OBVIOUS
  <2>2. h \in SUBSET Files /\ Head(work.todo) \ h \in SUBSET Files
    BY <1>4
  <2> QED
    BY <1>5, <2>1, <2>2
<1>7. /\ Halves(Head(work.todo)) \o Tail(work.todo) \in Seq(SUBSET Files)
      /\ Halves(Head(work.todo)) \o Tail(work.todo) # <<>>
  <2>1. ASSUME NEW a \in Seq(SUBSET Files), NEW b \in Seq(SUBSET Files), a # <<>>
        PROVE  a \o b \in Seq(SUBSET Files) /\ a \o b # <<>>
    <3>1. Len(a) > 0 /\ Len(a \o b) = Len(a) + Len(b)
      BY <2>1
    <3> QED
      BY <2>1, <3>1
  <2> QED
    BY <1>4, <1>6, <2>1
<1>8. work' \in Work /\ work'.entry = work.entry /\ work'.stage = "call" /\ work'.split = TRUE
      /\ work'.todo # <<>>
  BY <1>1, <1>7 DEF Work
<1>9. TypeOK' /\ Grows
  BY <1>1, <1>2, <1>8 DEF IInv, TypeOK, Grows
<1>10. Parts' /\ Failing'
  BY <1>8 DEF Parts, Failing
<1> QED
  BY <1>1, <1>2, <1>8, <1>9, <1>10, EngineEvent DEF SameControl

(* A usable reply keeps the invariant: its warnings do not call the move done. *)
LEMMA CallRepliesKeeps == IInv /\ CallReplies => IInv'
<1> SUFFICES ASSUME IInv, CallReplies PROVE IInv'
  OBVIOUS
<1> USE Engaged
<1> DEFINE files == Head(work.todo)
<1>1. work.stage = "call" /\ Affordable /\ run' = Paid /\ UNCHANGED <<disk, landed, used>>
  BY DEF CallReplies
<1>2. PICK blocks \in SUBSET (IF files = {} THEN Files ELSE files), issues \in BOOLEAN :
        /\ journal' = IF issues THEN MoveEvent(work, "warned") ELSE journal
        /\ work' = [ work EXCEPT !.stage = IF blocks = {} THEN "verify" ELSE "write",
                                 !.reply = blocks, !.wrote = {}, !.declared = blocks = {},
                                 !.refused = "none", !.repairs = 0,
                                 !.covered = @ \cup (IF blocks = {} THEN files ELSE blocks) ]
  BY DEF CallReplies
<1>3. Paid \in Run /\ Budget(Paid) /\ SameControl(Paid)
  BY <1>1, PaidFacts DEF IInv
<1>4. work.todo \in Seq(SUBSET Files) /\ work.todo # <<>>
  BY <1>1 DEF IInv, Parts, Work
<1>5. files \in SUBSET Files /\ blocks \in SUBSET Files
  BY <1>4
<1> HIDE DEF files
<1>6. /\ work' \in Work /\ work'.entry = work.entry /\ work'.todo = work.todo
      /\ work'.split = work.split /\ work'.reply = blocks
      /\ work'.stage = IF blocks = {} THEN "verify" ELSE "write"
  <2>1. CASE blocks = {}
    BY <1>1, <1>2, <1>5, <2>1 DEF Work, Kinds
  <2>2. CASE blocks # {}
    BY <1>1, <1>2, <1>5, <2>2 DEF Work, Kinds
  <2> QED
    BY <2>1, <2>2
<1>7. journal' \in Journal /\ journal'.plan = journal.plan /\ journal'.outcome = journal.outcome
      /\ \A m \in Moves : journal'.state[m] = "done" => journal.state[m] = "done"
  BY <1>1, <1>2, MoveEventFacts DEF MoveStates
<1>8. TypeOK' /\ Grows
  BY <1>1, <1>3, <1>6, <1>7 DEF IInv, TypeOK, Journal, Grows
<1>9. Parts' /\ Failing'
  BY <1>1, <1>6 DEF IInv, Parts, Failing
<1> QED
  BY <1>1, <1>3, <1>6, <1>7, <1>8, <1>9, EngineEvent DEF SameControl

(* A file event changes the journal's files and nothing else. *)
LEMMA FileEvent ==
  ASSUME journal \in Journal, NEW g \in SUBSET Files,
         journal' = IF Open THEN [journal EXCEPT !.files = @ \cup g] ELSE journal
  PROVE  /\ journal' \in Journal /\ journal'.plan = journal.plan
         /\ journal'.outcome = journal.outcome /\ journal'.state = journal.state
BY DEF Journal

(* After a write the move is verified, writes on, or has remembered a refusal. *)
LEMMA WroteFacts ==
  ASSUME NEW w \in Work, NEW f \in Files
  PROVE  LET v == Wrote(w, f)
         IN /\ v \in Work /\ v.entry = w.entry /\ v.todo = w.todo /\ v.split = w.split
            /\ v.refused = w.refused /\ v.stage \in {"verify", "write"}
            /\ v.stage = "write" /\ v.reply = {} => w.refused # "none"
BY DEF Wrote, Work

(* Writing one file of a reply keeps the invariant. *)
LEMMA WriteFileKeeps == IInv /\ WriteFile => IInv'
<1> SUFFICES ASSUME IInv, WriteFile PROVE IInv'
  OBVIOUS
<1> USE Engaged
<1> DEFINE f == CHOOSE f \in work.reply : TRUE
<1>1. work.stage = "write" /\ work.reply # {} /\ UNCHANGED <<run, landed, used>>
  BY DEF WriteFile
<1>2. f \in Files
  BY <1>1 DEF Work
<1>3. \/ /\ disk' = disk \cup {f}
         /\ journal' = IF Open THEN [journal EXCEPT !.files = @ \cup {f}] ELSE journal
         /\ work' = [Wrote(work, f) EXCEPT !.wrote = @ \cup {f}]
      \/ /\ work' = Wrote(work, f)
         /\ UNCHANGED <<journal, disk>>
      \/ \E kind \in {"failed", "environment"} :
           /\ work' = Wrote([work EXCEPT !.refused = kind], f)
           /\ UNCHANGED <<journal, disk>>
  BY DEF WriteFile
<1> HIDE DEF f
<1>4. /\ work' \in Work /\ work'.entry = work.entry /\ work'.todo = work.todo
      /\ work'.split = work.split /\ work'.stage \in {"verify", "write"}
      /\ work'.stage = "write" /\ work'.reply = {} => work'.refused # "none"
  <2>1. CASE work' = [Wrote(work, f) EXCEPT !.wrote = @ \cup {f}]
    <3>1. Wrote(work, f) \in Work
      BY <1>1, <1>2, WroteFacts
    <3> QED
      BY <1>1, <1>2, <2>1, <3>1, WroteFacts DEF Work
  <2>2. CASE work' = Wrote(work, f)
    BY <1>1, <1>2, <2>2, WroteFacts
  <2>3. ASSUME NEW kind \in {"failed", "environment"},
               work' = Wrote([work EXCEPT !.refused = kind], f)
        PROVE  /\ work' \in Work /\ work'.entry = work.entry /\ work'.todo = work.todo
               /\ work'.split = work.split /\ work'.stage \in {"verify", "write"}
               /\ work'.stage = "write" /\ work'.reply = {} => work'.refused # "none"
    <3> DEFINE v == [work EXCEPT !.refused = kind]
    <3>1. v \in Work /\ v.entry = work.entry /\ v.todo = work.todo /\ v.split = work.split
          /\ v.refused = kind
      BY <1>1 DEF Work, Kinds
    <3> HIDE DEF v
    <3> QED
      BY <1>2, <2>3, <3>1, WroteFacts DEF v
  <2> QED
    BY <1>3, <2>1, <2>2, <2>3
<1>5. /\ journal' \in Journal /\ journal'.plan = journal.plan
      /\ journal'.outcome = journal.outcome /\ journal'.state = journal.state
      /\ disk' \in SUBSET Files /\ disk \subseteq disk'
  <2>1. {f} \in SUBSET Files /\ journal \in Journal /\ disk \in SUBSET Files
    BY <1>1, <1>2 DEF IInv, TypeOK
  <2> QED
    BY <1>3, <2>1, FileEvent
<1>6. TypeOK' /\ Grows
  BY <1>1, <1>4, <1>5 DEF IInv, TypeOK, Journal, Grows
<1>7. Parts' /\ Failing'
  BY <1>1, <1>4 DEF IInv, Parts, Failing
<1> QED
  BY <1>1, <1>4, <1>5, <1>6, <1>7, EngineEvent DEF SameControl

(* A sequence of more than one element has a tail that is not empty. *)
LEMMA TailFacts ==
  ASSUME NEW S, NEW s \in Seq(S), s # <<>>
  PROVE  /\ Len(s) \in Nat /\ Len(s) > 0 /\ Tail(s) \in Seq(S)
         /\ Len(s) # 1 => Tail(s) # <<>>
<1>1. Len(s) \in Nat /\ Len(s) > 0 /\ Tail(s) \in Seq(S) /\ Len(Tail(s)) = Len(s) - 1
  BY EmptySeq, HeadTailProperties
<1>2. Len(s) # 1 => Len(Tail(s)) # 0
  BY <1>1
<1>3. Len(s) # 1 => Tail(s) # <<>>
  BY <1>2, EmptySeq, Zenon
<1> QED
  BY <1>1, <1>3

(* A passed check keeps the invariant: the journal calls the move done in the *)
(* step that lands it.                                                        *)
LEMMA VerifyPassesKeeps == IInv /\ VerifyPasses => IInv'
<1> SUFFICES ASSUME IInv, VerifyPasses PROVE IInv'
  OBVIOUS
<1> USE Engaged
<1>1. work.stage = "verify" /\ UNCHANGED <<disk, run, used>> /\ journal' = MoveEvent(work, "done")
  BY DEF VerifyPasses
<1>2. work.todo \in Seq(SUBSET Files) /\ work.todo # <<>>
      /\ (~work.split => work.todo = <<work.entry.files>>) /\ work.entry \in Entry
  BY <1>1 DEF IInv, Parts, Work
<1>3. Len(work.todo) \in Nat /\ Len(work.todo) > 0 /\ Tail(work.todo) \in Seq(SUBSET Files)
      /\ (Len(work.todo) # 1 => Tail(work.todo) # <<>>)
      /\ (~work.split => Len(work.todo) = 1)
  <2>2. Len(<<work.entry.files>>) = 1
    OBVIOUS
  <2> QED
    BY <1>2, <2>2, TailFacts
<1>4. /\ work' \in Work /\ work'.entry = work.entry /\ work'.todo = Tail(work.todo)
      /\ work'.split = work.split
      /\ work'.stage = IF Len(work.todo) = 1 THEN "back" ELSE "call"
  BY <1>1, <1>3, IdleType DEF VerifyPasses, Work, Idle
<1>5. landed' = IF Len(work.todo) = 1
                THEN landed \cup {<<work.entry.move, work.entry.files>>} ELSE landed
  BY DEF VerifyPasses
<1>6. landed' \in SUBSET (Moves \X SUBSET Files) /\ landed \subseteq landed'
  BY <1>2, <1>5 DEF IInv, TypeOK, Entry
<1>7. /\ journal' \in Journal /\ journal'.plan = journal.plan
      /\ journal'.outcome = journal.outcome
      /\ \A m \in Moves : \/ journal'.state[m] = journal.state[m]
                          \/ m = work.entry.move /\ ~work.entry.retimed /\ ~work.split
  BY <1>1, MoveEventFacts DEF MoveStates
<1>8. TypeOK' /\ Grows
  BY <1>1, <1>4, <1>6, <1>7 DEF IInv, TypeOK, Journal, Grows
<1>9. Parts' /\ Failing'
  BY <1>3, <1>4, <1>5 DEF Parts, Failing
<1>10. ASSUME NEW m \in Moves, journal'.state[m] = "done", journal.state[m] # "done"
       PROVE  Landed(m)'
  <2>1. m = work.entry.move /\ ~work.entry.retimed /\ ~work.split
    BY <1>7, <1>10
  <2>2. Len(work.todo) = 1
    BY <1>3, <2>1
  <2>3. work.entry.files = FilesOf[m]
    <3>1. work.entry = run.queue[1] /\ 1 \in DOMAIN run.queue
      BY <1>1 DEF Run
    <3> QED
      BY <2>1, <3>1 DEF IInv, WholeMoves
  <2>4. <<m, FilesOf[m]>> \in landed'
    BY <1>5, <2>1, <2>2, <2>3
  <2> QED
    BY <2>4 DEF Landed
<1> QED
  BY <1>1, <1>4, <1>7, <1>8, <1>9, <1>10, EngineStep

(* A failed check keeps the invariant. *)
LEMMA VerifyFailsKeeps == IInv /\ VerifyFails => IInv'
<1> SUFFICES ASSUME IInv, VerifyFails PROVE IInv'
  OBVIOUS
<1> USE Engaged
<1>1. work.stage = "verify"
  BY DEF VerifyFails
<1>2. CASE AttemptFails(work, "failed", run)
  BY <1>1, <1>2, AttemptFailsKeeps DEF Kinds
<1>3. CASE /\ journal' = MoveEvent(work, "repairing")
           /\ work' = [work EXCEPT !.stage = "repair"]
           /\ UNCHANGED <<disk, run, landed, used>>
  <2>1. /\ work' \in Work /\ work'.entry = work.entry /\ work'.todo = work.todo
        /\ work'.split = work.split /\ work'.stage = "repair"
    BY <1>1, <1>3 DEF Work
  <2>2. journal' \in Journal /\ journal'.plan = journal.plan /\ journal'.outcome = journal.outcome
        /\ \A m \in Moves : journal'.state[m] = "done" => journal.state[m] = "done"
    BY <1>1, <1>3, MoveEventFacts DEF MoveStates
  <2>3. TypeOK' /\ Grows
    BY <1>3, <2>1, <2>2 DEF IInv, TypeOK, Journal, Grows
  <2>4. Parts' /\ Failing'
    BY <1>1, <2>1 DEF IInv, Parts, Failing
  <2> QED
    BY <1>1, <1>3, <2>1, <2>2, <2>3, <2>4, EngineEvent DEF SameControl
<1> QED
  BY <1>2, <1>3 DEF VerifyFails

(* A repaired move is well typed and back at its check. *)
LEMMA RepairedType ==
  ASSUME NEW w \in Work, NEW n \in Nat, NEW g \in SUBSET Files
  PROVE  LET v == [w EXCEPT !.stage = "verify", !.repairs = n, !.wrote = g]
         IN /\ v \in Work /\ v.entry = w.entry /\ v.todo = w.todo /\ v.split = w.split
            /\ v.stage = "verify"
BY DEF Work

(* A repair that writes keeps the invariant. *)
LEMMA RepairWritesKeeps == IInv /\ RepairWrites => IInv'
<1> SUFFICES ASSUME IInv, RepairWrites PROVE IInv'
  OBVIOUS
<1> USE Engaged
<1>1. work.stage = "repair" /\ Affordable /\ run' = Paid /\ UNCHANGED <<landed, used>>
  BY DEF RepairWrites
<1>2. PICK f \in Files :
        /\ disk' = disk \cup {f}
        /\ journal' = IF Open THEN [journal EXCEPT !.files = @ \cup {f}] ELSE journal
        /\ work' = [work EXCEPT !.stage = "verify", !.repairs = @ + 1, !.wrote = @ \cup {f}]
  BY DEF RepairWrites
<1>3. Paid \in Run /\ Budget(Paid) /\ SameControl(Paid)
  BY <1>1, PaidFacts DEF IInv
<1>4. /\ work' \in Work /\ work'.entry = work.entry /\ work'.todo = work.todo
      /\ work'.split = work.split /\ work'.stage = "verify"
  <2>1. work \in Work /\ work.repairs + 1 \in Nat /\ work.wrote \cup {f} \in SUBSET Files
    BY <1>1 DEF Work
  <2> QED
    BY <1>2, <2>1, RepairedType
<1>5. /\ journal' \in Journal /\ journal'.plan = journal.plan
      /\ journal'.outcome = journal.outcome /\ journal'.state = journal.state
  <2>1. {f} \in SUBSET Files /\ journal \in Journal
    BY <1>1
  <2> QED
    BY <1>2, <2>1, FileEvent
<1>6. TypeOK' /\ Grows
  BY <1>1, <1>2, <1>3, <1>4, <1>5 DEF IInv, TypeOK, Journal, Grows
<1>7. Parts' /\ Failing'
  BY <1>1, <1>4 DEF IInv, Parts, Failing
<1> QED
  BY <1>1, <1>3, <1>4, <1>5, <1>6, <1>7, EngineEvent DEF SameControl

(* A step of the engine that only moves the work or the budget on. *)
LEMMA WorkStep ==
  ASSUME IInv, work.stage # "idle", UNCHANGED <<journal, disk, landed>>,
         used' \in [faults : Nat, answers : Nat, cut : SUBSET Moves], used'.cut = used.cut,
         run' \in Run, SameControl(run'), Budget(run'),
         work' \in Work, work'.entry = work.entry, Parts', Failing'
  PROVE  IInv'
<1>1. TypeOK' /\ Grows
  BY DEF IInv, TypeOK, Grows
<1> QED
  BY <1>1, EngineEvent

(* A repair that fails, or that nobody may attempt any more, keeps the *)
(* invariant.                                                          *)
LEMMA RepairFailsKeeps == IInv /\ RepairFails => IInv'
<1> SUFFICES ASSUME IInv, RepairFails PROVE IInv'
  OBVIOUS
<1> USE Engaged
<1>1. work.stage = "repair"
  BY DEF RepairFails
<1>2. PICK r \in MaybePaid :
        \/ /\ work' = [work EXCEPT !.repairs = @ + 1]
           /\ run' = r
           /\ UNCHANGED <<journal, disk, landed, used>>
        \/ AttemptFails(work, "blocked", r)
        \/ AttemptFails(work, "failed", run)
  BY DEF RepairFails
<1>3. r \in Run /\ Budget(r) /\ SameControl(r)
  BY PaidFacts DEF IInv
<1>4. CASE /\ work' = [work EXCEPT !.repairs = @ + 1]
           /\ run' = r
           /\ UNCHANGED <<journal, disk, landed, used>>
  <2>1. /\ work' \in Work /\ work'.entry = work.entry /\ work'.todo = work.todo
        /\ work'.split = work.split /\ work'.stage = "repair"
    BY <1>1, <1>4 DEF Work
  <2>2. Parts' /\ Failing'
    BY <1>1, <2>1 DEF IInv, Parts, Failing
  <2>3. used' \in [faults : Nat, answers : Nat, cut : SUBSET Moves] /\ used'.cut = used.cut
    BY <1>4 DEF IInv, TypeOK
  <2> QED
    BY <1>1, <1>3, <1>4, <2>1, <2>2, <2>3, WorkStep
<1>5. CASE AttemptFails(work, "blocked", r) \/ AttemptFails(work, "failed", run)
  BY <1>1, <1>3, <1>5, AttemptFailsKeeps DEF Kinds
<1> QED
  BY <1>2, <1>4, <1>5

(* Giving up on a silent call keeps the invariant: what it may cost stays *)
(* held.                                                                  *)
LEMMA CallStallsKeeps == IInv /\ CallStalls => IInv'
<1> SUFFICES ASSUME IInv, CallStalls PROVE IInv'
  OBVIOUS
<1> USE Engaged
<1>1. /\ work.stage \in {"call", "repair"} /\ Affordable
      /\ run' = [run EXCEPT !.held = @ + 1]
      /\ used' = [used EXCEPT !.faults = @ + 1]
      /\ UNCHANGED <<journal, disk, work, landed>>
  BY DEF CallStalls
<1>2. run.spent \in Nat /\ run.held \in Nat /\ run.cap \in Nat
  BY <1>1 DEF Run
<1>3. /\ run' \in Run /\ SameControl(run')
      /\ run'.spent = run.spent /\ run'.held = run.held + 1 /\ run'.cap = run.cap
  BY <1>1, <1>2 DEF Run, SameControl
<1>4. Budget(run')
  BY <1>1, <1>2, <1>3 DEF Budget, Affordable
<1>5. used' \in [faults : Nat, answers : Nat, cut : SUBSET Moves] /\ used'.cut = used.cut
  BY <1>1 DEF IInv, TypeOK
<1>6. Parts' /\ Failing'
  BY <1>1 DEF IInv, Parts, Failing
<1> QED
  BY <1>1, <1>3, <1>4, <1>5, <1>6, WorkStep

-----------------------------------------------------------------------------
(* A move on another rung of the ladder is well typed. *)
LEMMA RungType ==
  ASSUME NEW w \in Work, NEW k \in Kinds, NEW rung \in 1 .. 3
  PROVE  LET v == [w EXCEPT !.rung = rung, !.kind = k]
         IN v \in Work /\ v.stage = w.stage /\ v.entry = w.entry /\ v.todo = w.todo
<1>1. rung \in 0 .. 3
  OBVIOUS
<1> QED
  BY <1>1 DEF Work

(* A guided attempt starts the same move over. *)
LEMMA GuidedKeeps ==
  ASSUME IInv, work.stage = "counsel", NEW rung \in 1 .. 3,
         NEW r \in Run, Budget(r), SameControl(r), Guided(rung, r)
  PROVE  IInv'
<1> USE Engaged
<1>1. /\ Starting(work.entry) \in Work /\ Starting(work.entry).stage = "call"
      /\ Starting(work.entry).entry = work.entry
      /\ Starting(work.entry).todo = <<work.entry.files>> /\ Starting(work.entry).split = FALSE
  BY StartingType
<1>2. work' = [Starting(work.entry) EXCEPT !.rung = rung, !.kind = work.kind]
      /\ journal' = MoveEvent(work', "running") /\ run' = r /\ UNCHANGED <<disk, landed, used>>
  BY DEF Guided
<1>3. /\ work' \in Work /\ work'.stage = "call" /\ work'.entry = work.entry
      /\ work'.todo = <<work.entry.files>>
  <2>1. work.kind \in Kinds
    BY DEF Work
  <2> QED
    BY <1>1, <1>2, <2>1, RungType
<1>4. journal' \in Journal /\ journal'.plan = journal.plan /\ journal'.outcome = journal.outcome
      /\ \A m \in Moves : journal'.state[m] = "done" => journal.state[m] = "done"
  BY <1>2, <1>3, MoveEventFacts DEF MoveStates
<1>5. TypeOK' /\ Grows
  BY <1>2, <1>3, <1>4 DEF IInv, TypeOK, Journal, Grows
<1>6. Parts' /\ Failing'
  BY <1>3 DEF Parts, Failing
<1> QED
  BY <1>2, <1>3, <1>4, <1>5, <1>6, EngineEvent DEF SameControl

(* Climbing the counsel ladder, or leaving it, keeps the invariant: the *)
(* failure is not forgotten.                                            *)
LEMMA CounselMoves ==
  ASSUME IInv, work.stage = "counsel", NEW r \in Run, Budget(r), SameControl(r),
         GivesUp(r) \/ \E rung \in 1 .. 3 : NextRung(rung, r)
  PROVE  IInv'
<1> USE Engaged
<1>1. /\ work' \in Work /\ work'.entry = work.entry /\ work'.kind = work.kind
      /\ work'.stage \in {"back", "counsel"}
      /\ run' = r /\ UNCHANGED <<journal, disk, landed, used>>
  BY DEF GivesUp, NextRung, Work
<1>2. Parts' /\ Failing'
  BY <1>1 DEF IInv, Parts, Failing
<1>3. used' \in [faults : Nat, answers : Nat, cut : SUBSET Moves] /\ used'.cut = used.cut
  BY <1>1 DEF IInv, TypeOK
<1> QED
  BY <1>1, <1>2, <1>3, WorkStep DEF SameControl

(* A frontier call below the limit keeps the budget. *)
LEMMA FrontierPaid ==
  ASSUME NEW r \in Run, Budget(r), SameControl(r), r.frontier # FrontierMax
  PROVE  LET s == [r EXCEPT !.frontier = @ + 1]
         IN s \in Run /\ Budget(s) /\ SameControl(s)
<1>1. r.frontier + 1 \in 0 .. FrontierMax
  BY IdeBuildConstants DEF Run
<1>2. \A n \in 0 .. FrontierMax : [r EXCEPT !.frontier = n] \in Run
  BY DEF Run
<1>3. [r EXCEPT !.frontier = @ + 1] \in Run
  BY <1>1, <1>2
<1> QED
  BY <1>3 DEF Run, Budget, SameControl

(* Every step of the counsel ladder keeps the invariant. *)
LEMMA CounselKeeps ==
  IInv /\ (CounselBrain \/ CounselFrontier \/ CounselEscalates \/ CounselExhausted) => IInv'
<1> SUFFICES ASSUME IInv, CounselBrain \/ CounselFrontier \/ CounselEscalates \/ CounselExhausted
             PROVE  IInv'
  OBVIOUS
<1>1. work.stage = "counsel"
  BY DEF CounselBrain, CounselFrontier, CounselEscalates, CounselExhausted
<1>2. run \in Run /\ Budget(run) /\ SameControl(run)
  BY <1>1, Engaged
<1>3. (Affordable => Paid \in Run /\ Budget(Paid) /\ SameControl(Paid)
                     /\ Paid.frontier = run.frontier)
      /\ \A r \in MaybePaid : r \in Run /\ Budget(r) /\ SameControl(r) /\ r.frontier = run.frontier
  BY PaidFacts DEF IInv
<1>4. CASE CounselBrain
  <2>1. \/ GivesUp(run)
        \/ Affordable /\ Guided(1, Paid)
        \/ \E r \in MaybePaid : NextRung(1, r)
    BY <1>4 DEF CounselBrain
  <2> QED
    BY <1>1, <1>2, <1>3, <2>1, GuidedKeeps, CounselMoves
<1>5. CASE CounselFrontier
  <2>1. \/ GivesUp(run) \/ NextRung(2, run)
        \/ /\ run.frontier # FrontierMax
           /\ \/ Affordable /\ Guided(2, [Paid EXCEPT !.frontier = @ + 1])
              \/ \E r \in MaybePaid : NextRung(2, [r EXCEPT !.frontier = @ + 1])
    BY <1>5 DEF CounselFrontier
  <2>2. CASE GivesUp(run) \/ NextRung(2, run)
    BY <1>1, <1>2, <2>2, CounselMoves
  <2>3. CASE run.frontier # FrontierMax /\ Affordable
             /\ Guided(2, [Paid EXCEPT !.frontier = @ + 1])
    BY <1>1, <1>3, <2>3, FrontierPaid, GuidedKeeps
  <2>4. ASSUME run.frontier # FrontierMax, NEW r \in MaybePaid,
               NextRung(2, [r EXCEPT !.frontier = @ + 1])
        PROVE  IInv'
    BY <1>1, <1>3, <2>4, FrontierPaid, CounselMoves
  <2> QED
    BY <2>1, <2>2, <2>3, <2>4
<1>6. CASE CounselEscalates
  BY <1>1, <1>2, <1>6, GuidedKeeps, CounselMoves DEF CounselEscalates
<1>7. CASE CounselExhausted
  BY <1>1, <1>2, <1>7, CounselMoves DEF CounselExhausted
<1> QED
  BY <1>4, <1>5, <1>6, <1>7

(* Every step of the engine keeps the invariant. *)
LEMMA EngineKeeps == IInv /\ Engine => IInv'
BY CallFailsKeeps, CallSplitsKeeps, CallRepliesKeeps, CarveOutKeeps, WriteFileKeeps,
   VerifyPassesKeeps, VerifyFailsKeeps, RepairWritesKeeps, RepairFailsKeeps, CounselKeeps
   DEF Engine

-----------------------------------------------------------------------------
(* The budget moves while the build stays where it is. *)
LEMMA LateSettleKeeps == IInv /\ LateSettle => IInv'
<1> SUFFICES ASSUME IInv, LateSettle PROVE IInv'
  OBVIOUS
<1>1. PICK cost \in {0, 1} : run' = [run EXCEPT !.held = @ - 1, !.spent = @ + cost]
  BY DEF LateSettle
<1>2. run.held > 0 /\ UNCHANGED <<journal, disk, work, landed, used>> /\ run \in Run
      /\ run.spent \in Nat /\ run.held \in Nat /\ run.cap \in Nat
  BY DEF LateSettle, IInv, TypeOK, Run
<1>3. run.held - 1 \in Nat /\ run.spent + cost \in Nat
  BY <1>2
<1>4. \A h, s \in Nat : LET r == [run EXCEPT !.held = h, !.spent = s]
                        IN r \in Run /\ SameControl(r) /\ r.held = h /\ r.spent = s /\ r.cap = run.cap
  BY <1>2 DEF Run, SameControl
<1>5. run' \in Run /\ SameControl(run') /\ run'.held = run.held - 1 /\ run'.spent = run.spent + cost
      /\ run'.cap = run.cap
  BY <1>1, <1>3, <1>4
<1>6. CapHolds'
  BY <1>2, <1>5 DEF IInv, CapHolds
<1>7. TypeOK' /\ Grows
  BY <1>2, <1>5 DEF IInv, TypeOK, Grows
<1>8. WholeMoves' /\ Promised' /\ HonestDone'
  BY <1>2, <1>5, <1>7, FrameKeeps DEF SameControl
<1>9. Asking' /\ Busy' /\ Parts' /\ Failing' /\ WarnedCut'
  BY <1>2, <1>5 DEF IInv, SameControl, Asking, Busy, Parts, Failing, WarnedCut
<1>10. DoneLanded'
  BY <1>2 DEF IInv, DoneLanded, Landed
<1> QED
  BY <1>6, <1>7, <1>8, <1>9, <1>10 DEF IInv

-----------------------------------------------------------------------------
(* A step that does not call the build done leaves an earlier claim true. *)
LEMMA HonestKept ==
  ASSUME IInv, Grows, journal'.outcome = journal.outcome \/ journal'.outcome # "done"
  PROVE  HonestDone'
<1>1. \A m : Landed(m) => Landed(m)'
  BY LandedGrows DEF Grows
<1> QED
  BY <1>1 DEF IInv, HonestDone, Grows

(* A process that has nothing under way and has not planned. *)
LEMMA OutOfPlan ==
  ASSUME IInv, TypeOK', Grows, journal'.state = journal.state, Budget(run'), HonestDone',
         run'.phase \in {"start", "plan", "returned"}, run'.ask = "none", run'.queue = <<>>,
         work'.stage = "idle",
         run'.phase # "returned" =>
           \A m \in Moves : journal.state[m] = "warned" => m \in used'.cut
  PROVE  IInv'
<1>1. Asking' /\ Busy' /\ Parts' /\ Failing' /\ WarnedCut' /\ WholeMoves' /\ CapHolds'
  BY DEF Asking, Busy, Parts, Failing, WarnedCut, WholeMoves, CapHolds, Budget
<1>2. DoneLanded'
  BY LandedGrows DEF IInv, DoneLanded, Grows
<1>3. Promised'
  BY DEF Promised, Planned
<1> QED
  BY <1>1, <1>2, <1>3 DEF IInv

(* runIdeBuild returns, with or without a last word. *)
LEMMA ReturnsKeeps ==
  ASSUME IInv, NEW r \in Run, Budget(r), run' = Returned(r), work' \in Work, work'.stage = "idle",
         journal' \in Journal, journal'.state = journal.state, HonestDone', Grows,
         disk' \in SUBSET Files, UNCHANGED <<landed, used>>
  PROVE  IInv'
<1>1. /\ run' \in Run /\ Budget(run') /\ run'.phase = "returned" /\ run'.ask = "none"
      /\ run'.queue = <<>>
  BY ReturnedType
<1>2. TypeOK'
  BY <1>1 DEF IInv, TypeOK, Journal
<1> QED
  BY <1>1, <1>2, OutOfPlan

(* What the invariant says in every state. *)
LEMMA Standing ==
  ASSUME IInv
  PROVE  /\ run \in Run /\ Budget(run) /\ SameControl(run) /\ journal \in Journal /\ work \in Work
         /\ disk \in SUBSET Files
BY DEF IInv, TypeOK, Journal, CapHolds, Budget, SameControl

(* runIdeBuild returns without a word. *)
LEMMA JustReturns ==
  ASSUME IInv, run' = Returned(run), work' = work \/ work' = Idle, work'.stage = "idle",
         UNCHANGED <<journal, disk, landed, used>>
  PROVE  IInv'
<1>1. Grows /\ work' \in Work
  BY Standing, IdleType DEF Grows
<1>2. HonestDone'
  BY <1>1, HonestKept
<1> QED
  BY <1>1, <1>2, Standing, ReturnsKeeps

(* The terminal event keeps the invariant when the claim it makes is true. *)
LEMMA FinishKeeps ==
  ASSUME IInv, NEW o \in Outcomes, finish(o), HonestDone'
  PROVE  IInv'
<1>1. /\ journal' = Sealed(journal, o) /\ run' = Returned(run) /\ work' = Idle
      /\ UNCHANGED <<disk, landed, used>>
  BY DEF finish
<1>2. journal' \in Journal /\ journal'.state = journal.state /\ journal'.plan = journal.plan
  BY <1>1, Standing, SealedFacts
<1>3. Grows /\ work' \in Work /\ work'.stage = "idle" /\ disk' \in SUBSET Files
  BY <1>1, <1>2, Standing, IdleType DEF Grows, Idle
<1> QED
  BY <1>1, <1>2, <1>3, Standing, ReturnsKeeps

(* A terminal event other than done makes no claim. *)
LEMMA FinishesUndone ==
  ASSUME IInv, NEW o \in Outcomes \ {"done"}, finish(o)
  PROVE  IInv'
<1>1. journal'.outcome = journal.outcome \/ journal'.outcome # "done"
  BY Standing, SealedFacts DEF finish
<1>2. Grows
  BY Standing, SealedFacts DEF finish, Grows
<1> QED
  BY <1>1, <1>2, HonestKept, FinishKeeps

(* Every end of the build but the verdict keeps the invariant. *)
LEMMA EndsKeep ==
  ASSUME IInv, ProbeFails \/ MoveBlocked \/ MoveEnvironment \/ AnswerEnds \/ Throws
               \/ LoopReturns \/ AskSealed
  PROVE  IInv'
<1>1. CASE ProbeFails \/ MoveBlocked \/ MoveEnvironment \/ AnswerEnds \/ Throws
  <2>1. PICK o \in Outcomes \ {"done"} : finish(o)
    BY <1>1 DEF ProbeFails, MoveBlocked, MoveEnvironment, AnswerEnds, Throws, Outcomes
  <2> QED
    BY <2>1, FinishesUndone
<1>2. CASE LoopReturns \/ AskSealed
  <2>1. work.stage = "idle"
    BY <1>2 DEF LoopReturns, Driving, AskSealed, IInv, Asking
  <2>2. run' = Returned(run) /\ work' = work /\ UNCHANGED <<journal, disk, landed, used>>
    BY <1>2 DEF LoopReturns, AskSealed
  <2> QED
    BY <2>1, <2>2, JustReturns
<1> QED
  BY <1>1, <1>2

(* The verdict: with the queue empty and nothing known incomplete, what was *)
(* promised was finished.                                                   *)
LEMMA VerdictKeeps == IInv /\ Verdict => IInv'
<1> SUFFICES ASSUME IInv, Verdict PROVE IInv'
  OBVIOUS
<1>1. run.phase = "verdict"
  BY DEF Verdict, Driving
<1>2. CASE finish("checkpoint")
  BY <1>2, FinishesUndone DEF Outcomes
<1>3. CASE canClaimComplete /\ finish("done")
  <2>1. Grows /\ UNCHANGED <<disk, landed, used>>
    BY <1>3, Standing, SealedFacts DEF finish, Grows, Outcomes
  <2>2. HonestDone'
    <3>1. CASE ~Open
      <4>1. journal'.outcome = journal.outcome
        BY <1>3, <3>1, Standing, SealedFacts DEF finish, Outcomes
      <4> QED
        BY <2>1, <4>1, HonestKept
    <3>2. CASE Open
      <4>1. run.queue = <<>> /\ run.expected \subseteq disk
            /\ \A k \in DOMAIN journal.plan :
                 Backed(journal.plan[k]) /\ FilesOf[journal.plan[k]] \subseteq run.expected
        BY <1>1, <1>3, <3>2 DEF IInv, Promised, Planned, canClaimComplete
      <4>2. \A m : Backed(m) => Landed(m) \/ m \in used.cut
        <5>1. DOMAIN run.queue = {}
          BY <4>1
        <5>2. \A m : Pieces(m) = { p[2] : p \in { q \in landed : q[1] = m } }
          BY <5>1 DEF Pieces
        <5> QED
          BY <5>2 DEF Backed, Landed
      <4>3. journal'.plan = journal.plan
        BY <2>1 DEF Grows
      <4>4. \A m : Landed(m) => Landed(m)'
        BY <2>1 DEF Landed
      <4> QED
        BY <2>1, <4>1, <4>2, <4>3, <4>4 DEF HonestDone
    <3> QED
      BY <3>1, <3>2
  <2> QED
    BY <1>3, <2>2, FinishKeeps DEF Outcomes
<1> QED
  BY <1>2, <1>3 DEF Verdict

-----------------------------------------------------------------------------
(* The queue changes hands between two moves: nothing that was promised is dropped  *)
(* unless the build is known to be incomplete.                                       *)
LEMMA QueueStep ==
  ASSUME IInv, run.phase = "loop", UNCHANGED <<journal, disk, landed>>,
         used' \in [faults : Nat, answers : Nat, cut : SUBSET Moves], used'.cut = used.cut,
         run' \in Run, Budget(run'), run'.phase = "loop", run'.expected = run.expected,
         run'.ask = "none" \/ (run'.ask \in {"budget", "move"} /\ run'.queue # <<>>),
         work' \in Work, work'.stage = "idle", WholeMoves',
         run.incomplete => run'.incomplete,
         run'.incomplete \/ \A m : Pieces(m) # {} => /\ Pieces(m)' # {}
                                                    /\ UNION Pieces(m) \subseteq UNION Pieces(m)'
  PROVE  IInv'
<1>1. TypeOK' /\ Grows
  BY DEF IInv, TypeOK, Grows
<1>2. HonestDone'
  BY <1>1, HonestKept
<1>3. Asking' /\ Busy' /\ Parts' /\ Failing' /\ WarnedCut' /\ CapHolds'
  BY DEF Asking, Busy, Parts, Failing, WarnedCut, CapHolds, Budget
<1>4. DoneLanded'
  BY LandedGrows DEF IInv, DoneLanded
<1>5. run'.incomplete \/ \A m : Backed(m) => Backed(m)'
  BY DEF Backed
<1>6. Promised'
  BY <1>5 DEF IInv, Promised, Planned, Open
<1> QED
  BY <1>1, <1>2, <1>3, <1>4, <1>6 DEF IInv

(* The pieces of a move depend on the queue and on what landed. *)
LEMMA SameQueue ==
  ASSUME UNCHANGED landed, run'.queue = run.queue
  PROVE  \A m : Pieces(m)' = Pieces(m)
BY DEF Pieces

(* An answer is counted and changes no other bound. *)
LEMMA UsedType ==
  ASSUME IInv, UNCHANGED used \/ used' = [used EXCEPT !.answers = @ + 1]
  PROVE  used' \in [faults : Nat, answers : Nat, cut : SUBSET Moves] /\ used'.cut = used.cut
BY DEF IInv, TypeOK

(* The members of a queue are its head and the members of its tail. *)
LEMMA HeadOrTail ==
  ASSUME NEW S, NEW q \in Seq(S), q # <<>>
  PROVE  /\ Head(q) \in S /\ Tail(q) \in Seq(S) /\ 1 \in DOMAIN q /\ Head(q) = q[1]
         /\ \A j \in DOMAIN q : q[j] = Head(q) \/ \E k \in DOMAIN Tail(q) : Tail(q)[k] = q[j]
         /\ \A k \in DOMAIN Tail(q) : \E j \in DOMAIN q : Tail(q)[k] = q[j]
<1>1. /\ Len(q) \in Nat /\ Len(q) > 0 /\ Len(Tail(q)) = Len(q) - 1
      /\ Head(q) \in S /\ Tail(q) \in Seq(S) /\ Head(q) = q[1]
      /\ \A i \in 1 .. Len(Tail(q)) : Tail(q)[i] = q[i + 1]
  BY EmptySeq, HeadTailProperties
<1>2. DOMAIN q = 1 .. Len(q) /\ DOMAIN Tail(q) = 1 .. Len(q) - 1
  BY <1>1, LenProperties
<1>3. ASSUME NEW j \in DOMAIN q, q[j] # Head(q)
      PROVE  \E k \in DOMAIN Tail(q) : Tail(q)[k] = q[j]
  <2>1. j \in 2 .. Len(q)
    BY <1>1, <1>2, <1>3
  <2>2. j - 1 \in DOMAIN Tail(q) /\ (j - 1) + 1 = j
    BY <1>1, <1>2, <2>1
  <2>3. Tail(q)[j - 1] = q[(j - 1) + 1]
    BY <1>1, <1>2, <2>2
  <2> QED
    BY <2>2, <2>3
<1>4. ASSUME NEW k \in DOMAIN Tail(q)
      PROVE  \E j \in DOMAIN q : Tail(q)[k] = q[j]
  <2>1. k + 1 \in DOMAIN q /\ Tail(q)[k] = q[k + 1]
    BY <1>1, <1>2
  <2> QED
    BY <2>1
<1> QED
  BY <1>1, <1>2, <1>3, <1>4

(* A finished move leaves the queue: what it carried has landed. *)
LEMMA MoveLandsKeeps == IInv /\ MoveLands => IInv'
<1> SUFFICES ASSUME IInv, MoveLands PROVE IInv'
  OBVIOUS
<1>1. /\ work.stage = "back" /\ work.kind = "none" /\ work' = Idle
      /\ run' = [run EXCEPT !.queue = Tail(@), !.covered = @ \cup work.covered, !.retried = 0]
      /\ UNCHANGED <<journal, disk, landed, used>>
  BY DEF MoveLands, Back, Result
<1>2. /\ run.phase = "loop" /\ run.ask = "none" /\ run.queue # <<>>
      /\ work.entry = Head(run.queue) /\ run \in Run /\ work \in Work /\ Budget(run)
  BY <1>1, Engaged
<1>3. <<work.entry.move, work.entry.files>> \in landed
  BY <1>1 DEF IInv, Failing
<1>4. run.queue \in Seq(Entry) /\ Tail(run.queue) \in Seq(Entry)
  BY <1>2, HeadOrTail DEF Run
<1>5. /\ run' \in Run /\ run'.queue = Tail(run.queue) /\ run'.phase = "loop" /\ run'.ask = "none"
      /\ run'.expected = run.expected /\ run'.incomplete = run.incomplete /\ Budget(run')
  <2>1. run.covered \cup work.covered \in SUBSET Files
    BY <1>2 DEF Run, Work
  <2> QED
    BY <1>1, <1>2, <1>4, <2>1 DEF Run, Budget
<1>6. WholeMoves'
  BY <1>2, <1>4, <1>5, HeadOrTail DEF IInv, WholeMoves
<1>7. \A m : Pieces(m) \subseteq Pieces(m)'
  <2> SUFFICES ASSUME NEW m, NEW x \in Pieces(m) PROVE x \in Pieces(m)'
    OBVIOUS
  <2>1. CASE x \in { p[2] : p \in { q \in landed : q[1] = m } }
    BY <1>1, <2>1 DEF Pieces
  <2>2. ASSUME NEW j \in DOMAIN run.queue, run.queue[j].move = m, x = run.queue[j].files
        PROVE  x \in Pieces(m)'
    <3>1. CASE run.queue[j] = Head(run.queue)
      <4>1. <<m, x>> \in landed'
        BY <1>1, <1>2, <1>3, <2>2, <3>1
      <4> QED
        BY <4>1 DEF Pieces
    <3>2. ASSUME NEW k \in DOMAIN Tail(run.queue), Tail(run.queue)[k] = run.queue[j]
          PROVE  x \in Pieces(m)'
      BY <1>5, <2>2, <3>2 DEF Pieces
    <3> QED
      BY <1>2, <1>4, <3>1, <3>2, HeadOrTail
  <2> QED
    BY <2>1, <2>2 DEF Pieces
<1>8. \A m : Pieces(m) # {} => Pieces(m)' # {} /\ UNION Pieces(m) \subseteq UNION Pieces(m)'
  BY <1>7
<1>9. work' \in Work /\ work'.stage = "idle"
  BY <1>1, IdleType DEF Idle
<1> QED
  BY <1>1, <1>2, <1>5, <1>6, <1>8, <1>9, UsedType, QueueStep

(* The members of <<a, b>> \o s are a, b and the members of s. *)
Ahead(q, a, b, s) ==
  /\ 1 \in DOMAIN q /\ q[1] = a /\ 2 \in DOMAIN q /\ q[2] = b
  /\ \A k \in DOMAIN s : \E j \in DOMAIN q : q[j] = s[k]
  /\ \A j \in DOMAIN q : q[j] = a \/ q[j] = b \/ \E k \in DOMAIN s : q[j] = s[k]

(* The two entries put in front of a queue's tail are its first two. *)
LEMMA TwoAhead ==
  ASSUME NEW S, NEW a \in S, NEW b \in S, NEW s \in Seq(S)
  PROVE  <<a, b>> \o s \in Seq(S) /\ Ahead(<<a, b>> \o s, a, b, s)
<1> DEFINE t == <<a, b>>
<1>1. t \in Seq(S) /\ Len(t) = 2 /\ t[1] = a /\ t[2] = b
  OBVIOUS
<1> HIDE DEF t
<1>c. /\ t \o s \in Seq(S) /\ Len(t \o s) = Len(t) + Len(s) /\ Len(s) \in Nat
      /\ \A i \in 1 .. Len(t) + Len(s) :
           (t \o s)[i] = IF i <= Len(t) THEN t[i] ELSE s[i - Len(t)]
  BY <1>1, ConcatProperties, LenProperties, Zenon
<1>2. /\ t \o s \in Seq(S) /\ Len(t \o s) = 2 + Len(s) /\ Len(s) \in Nat
      /\ \A i \in 1 .. 2 + Len(s) : (t \o s)[i] = IF i <= 2 THEN t[i] ELSE s[i - 2]
  BY <1>1, <1>c
<1>3. DOMAIN (t \o s) = 1 .. 2 + Len(s) /\ DOMAIN s = 1 .. Len(s)
  BY <1>2, LenProperties
<1>4. 1 \in DOMAIN (t \o s) /\ 2 \in DOMAIN (t \o s) /\ (t \o s)[1] = a /\ (t \o s)[2] = b
  BY <1>1, <1>2, <1>3
<1>5. ASSUME NEW k \in DOMAIN s PROVE \E j \in DOMAIN (t \o s) : (t \o s)[j] = s[k]
  <2>1. k + 2 \in DOMAIN (t \o s) /\ ~(k + 2 <= 2) /\ (k + 2) - 2 = k
    BY <1>2, <1>3
  <2>2. (t \o s)[k + 2] = s[(k + 2) - 2]
    BY <1>1, <1>2, <1>3, <2>1
  <2> QED
    BY <2>1, <2>2
<1>6. ASSUME NEW j \in DOMAIN (t \o s), j # 1, j # 2
      PROVE  \E k \in DOMAIN s : (t \o s)[j] = s[k]
  <2>1. j - 2 \in DOMAIN s /\ ~(j <= 2)
    BY <1>2, <1>3, <1>6
  <2>2. (t \o s)[j] = s[j - 2]
    BY <1>1, <1>2, <1>3, <2>1
  <2> QED
    BY <2>1, <2>2
<1> QED
  BY <1>2, <1>4, <1>5, <1>6 DEF t, Ahead

(* A move re-planned for time keeps its files: the two halves make it up. *)
LEMMA MoveRetimedKeeps == IInv /\ MoveRetimed => IInv'
<1> SUFFICES ASSUME IInv, MoveRetimed PROVE IInv'
  OBVIOUS
<1> DEFINE e == work.entry
           Part(files) == [e EXCEPT !.files = files, !.retimed = TRUE]
<1>1. work.stage = "back" /\ work' = Idle /\ UNCHANGED <<journal, disk, landed, used>>
  BY DEF MoveRetimed, Back
<1>2. /\ run.phase = "loop" /\ run.ask = "none" /\ run.queue # <<>>
      /\ e = Head(run.queue) /\ e \in Entry /\ run \in Run /\ Budget(run)
  BY <1>1, Engaged
<1>3. PICK h \in SUBSET e.files : Halves(e.files) = <<h, e.files \ h>>
  BY <1>2, FilesFinite DEF Entry
<1> DEFINE a == Part(h)
           b == Part(e.files \ h)
<1>4. run' = [ run EXCEPT !.queue = <<a, b>> \o Tail(@), !.retried = 0 ]
  BY <1>3 DEF MoveRetimed
<1>5. /\ a \in Entry /\ a.move = e.move /\ a.files = h /\ a.retimed = TRUE
      /\ b \in Entry /\ b.move = e.move /\ b.files = e.files \ h /\ b.retimed = TRUE
  BY <1>2, <1>3 DEF Entry
<1> HIDE DEF a, b, e
<1>6. run.queue \in Seq(Entry) /\ Tail(run.queue) \in Seq(Entry)
  BY <1>2, HeadOrTail DEF Run
<1> DEFINE q == <<a, b>> \o Tail(run.queue)
<1>7. /\ q \in Seq(Entry) /\ 1 \in DOMAIN q /\ q[1] = a /\ 2 \in DOMAIN q /\ q[2] = b
      /\ \A k \in DOMAIN Tail(run.queue) : \E j \in DOMAIN q : q[j] = Tail(run.queue)[k]
      /\ \A j \in DOMAIN q : q[j] = a \/ q[j] = b \/ \E k \in DOMAIN Tail(run.queue) :
                                                       q[j] = Tail(run.queue)[k]
  <2>1. q \in Seq(Entry) /\ Ahead(q, a, b, Tail(run.queue))
    BY <1>5, <1>6, TwoAhead
  <2> HIDE DEF q
  <2> QED
    BY <2>1 DEF Ahead
<1>8. run' = [ run EXCEPT !.queue = q, !.retried = 0 ]
  BY <1>4
<1> HIDE DEF q
<1>9. /\ run' \in Run /\ run'.queue = q /\ run'.phase = "loop" /\ run'.ask = "none"
      /\ run'.expected = run.expected /\ run'.incomplete = run.incomplete /\ Budget(run')
  BY <1>2, <1>7, <1>8 DEF Run, Budget
<1>10. WholeMoves'
  <2> SUFFICES ASSUME NEW j \in DOMAIN q, ~q[j].retimed PROVE q[j].files = FilesOf[q[j].move]
    BY <1>9 DEF WholeMoves
  <2>1. PICK k \in DOMAIN Tail(run.queue) : q[j] = Tail(run.queue)[k]
    BY <1>5, <1>7
  <2>2. PICK l \in DOMAIN run.queue : q[j] = run.queue[l]
    BY <1>2, <1>6, <2>1, HeadOrTail
  <2> QED
    BY <2>2 DEF IInv, WholeMoves
<1>11. ASSUME NEW m, NEW x \in Pieces(m)
       PROVE  x \in Pieces(m)' \/ (x = e.files /\ h \in Pieces(m)' /\ e.files \ h \in Pieces(m)')
  <2>1. CASE x \in { p[2] : p \in { r \in landed : r[1] = m } }
    BY <1>1, <2>1 DEF Pieces
  <2>2. ASSUME NEW j \in DOMAIN run.queue, run.queue[j].move = m, x = run.queue[j].files
        PROVE  x \in Pieces(m)'
               \/ (x = e.files /\ h \in Pieces(m)' /\ e.files \ h \in Pieces(m)')
    <3>1. CASE run.queue[j] = Head(run.queue)
      <4>1. m = e.move /\ x = e.files
        BY <1>2, <2>2, <3>1
      <4>2. a.files \in Pieces(m)' /\ b.files \in Pieces(m)'
        BY <1>5, <1>7, <1>9, <4>1 DEF Pieces
      <4> QED
        BY <1>5, <4>1, <4>2
    <3>2. ASSUME NEW k \in DOMAIN Tail(run.queue), Tail(run.queue)[k] = run.queue[j]
          PROVE  x \in Pieces(m)'
      <4>1. PICK l \in DOMAIN q : q[l] = run.queue[j]
        BY <1>7, <3>2
      <4> QED
        BY <1>9, <2>2, <4>1 DEF Pieces
    <3> QED
      BY <1>2, <1>6, <3>1, <3>2, HeadOrTail
  <2> QED
    BY <1>11, <2>1, <2>2 DEF Pieces
<1>12. \A m : Pieces(m) # {} => Pieces(m)' # {} /\ UNION Pieces(m) \subseteq UNION Pieces(m)'
  <2> SUFFICES ASSUME NEW m, Pieces(m) # {}
               PROVE  Pieces(m)' # {} /\ UNION Pieces(m) \subseteq UNION Pieces(m)'
    OBVIOUS
  <2>1. \A x \in Pieces(m) :
          x \in Pieces(m)' \/ (x = e.files /\ h \in Pieces(m)' /\ e.files \ h \in Pieces(m)')
    BY <1>11
  <2> HIDE DEF Pieces
  <2> QED
    BY <2>1
<1>13. work' \in Work /\ work'.stage = "idle"
  BY <1>1, IdleType DEF Idle
<1> QED
  BY <1>1, <1>2, <1>9, <1>10, <1>12, <1>13, UsedType, QueueStep

(* A question asked or a retry granted: the queue stays as it is. *)
LEMMA SameQueueStep ==
  ASSUME IInv, run.phase = "loop", UNCHANGED <<journal, disk, landed>>,
         UNCHANGED used \/ used' = [used EXCEPT !.answers = @ + 1],
         run' \in Run, Budget(run'), run'.phase = "loop", run'.expected = run.expected,
         run'.queue = run.queue, run'.incomplete = run.incomplete,
         run'.ask = "none" \/ (run'.ask \in {"budget", "move"} /\ run.queue # <<>>),
         work' \in Work, work'.stage = "idle"
  PROVE  IInv'
<1>1. WholeMoves'
  BY DEF IInv, WholeMoves
<1>2. \A m : Pieces(m) # {} => Pieces(m)' # {} /\ UNION Pieces(m) \subseteq UNION Pieces(m)'
  BY SameQueue
<1> QED
  BY <1>1, <1>2, UsedType, QueueStep

(* A run that asks about a move differs in the question and the count alone. *)
LEMMA AskedType ==
  ASSUME NEW r \in Run, Budget(r)
  PROVE  LET s == [r EXCEPT !.ask = "move", !.retried = @ + 1]
         IN /\ s \in Run /\ Budget(s) /\ s.phase = r.phase /\ s.queue = r.queue
            /\ s.expected = r.expected /\ s.incomplete = r.incomplete /\ s.ask = "move"
<1>1. r.retried + 1 \in Nat
  BY DEF Run
<1>2. \A n \in Nat : LET s == [r EXCEPT !.ask = "move", !.retried = n]
                     IN /\ s \in Run /\ s.phase = r.phase /\ s.queue = r.queue
                        /\ s.expected = r.expected /\ s.incomplete = r.incomplete
                        /\ s.ask = "move" /\ s.cap = r.cap /\ s.spent = r.spent
                        /\ s.held = r.held
  BY DEF Run
<1> QED
  BY <1>1, <1>2 DEF Budget

(* A skipped move leaves the queue and the build knows itself incomplete. *)
LEMMA SkippedType ==
  ASSUME run \in Run, Budget(run), Tail(run.queue) \in Seq(Entry)
  PROVE  /\ Skipped \in Run /\ Budget(Skipped) /\ Skipped.phase = run.phase
         /\ Skipped.queue = Tail(run.queue) /\ Skipped.expected = run.expected
         /\ Skipped.incomplete = TRUE /\ Skipped.ask = "none"
BY DEF Skipped, Run, Budget

(* A raised cap changes nothing but the cap. *)
LEMMA RaisedType ==
  ASSUME NEW r \in Run, NEW c \in Nat
  PROVE  LET s == [r EXCEPT !.ask = "none", !.cap = @ + c]
         IN /\ s \in Run /\ s.phase = r.phase /\ s.queue = r.queue /\ s.ask = "none"
            /\ s.expected = r.expected /\ s.incomplete = r.incomplete
            /\ s.cap = r.cap + c /\ s.spent = r.spent /\ s.held = r.held
<1>1. r.cap + c \in Nat
  BY DEF Run
<1>2. \A n \in Nat : LET s == [r EXCEPT !.ask = "none", !.cap = n]
                     IN /\ s \in Run /\ s.phase = r.phase /\ s.queue = r.queue /\ s.ask = "none"
                        /\ s.expected = r.expected /\ s.incomplete = r.incomplete
                        /\ s.cap = n /\ s.spent = r.spent /\ s.held = r.held
  BY DEF Run
<1> QED
  BY <1>1, <1>2

(* Asking about the budget or a failed move keeps the invariant. *)
LEMMA AsksKeep ==
  ASSUME IInv, AskBudget \/ AskMove
  PROVE  IInv'
<1> USE Standing
<1>1. CASE AskBudget
  <2>1. /\ run.phase = "loop" /\ run.queue # <<>> /\ work.stage = "idle"
        /\ run' = [run EXCEPT !.ask = "budget"] /\ UNCHANGED <<journal, disk, work, landed, used>>
    BY <1>1 DEF AskBudget, Driving
  <2>2. /\ run' \in Run /\ Budget(run') /\ run'.phase = "loop" /\ run'.queue = run.queue
        /\ run'.expected = run.expected /\ run'.incomplete = run.incomplete /\ run'.ask = "budget"
    BY <2>1 DEF Run, Budget
  <2> QED
    BY <2>1, <2>2, SameQueueStep
<1>2. CASE AskMove
  <2>1. /\ work.stage = "back" /\ work' = Idle /\ UNCHANGED <<journal, disk, landed, used>>
        /\ run' = IF Open THEN [run EXCEPT !.ask = "move", !.retried = @ + 1] ELSE Returned(run)
    BY <1>2 DEF AskMove, Back
  <2>2. run.phase = "loop" /\ run.queue # <<>>
    BY <2>1, Engaged
  <2>3. work' \in Work /\ work'.stage = "idle"
    BY <2>1, IdleType DEF Idle
  <2>4. CASE Open
    <3>1. /\ run' \in Run /\ Budget(run') /\ run'.phase = "loop" /\ run'.queue = run.queue
          /\ run'.expected = run.expected /\ run'.incomplete = run.incomplete /\ run'.ask = "move"
      BY <2>1, <2>2, <2>4, AskedType
    <3> QED
      BY <2>1, <2>2, <2>3, <3>1, SameQueueStep
  <2>5. CASE ~Open
    BY <2>1, <2>3, <2>5, JustReturns
  <2> QED
    BY <2>4, <2>5
<1> QED
  BY <1>1, <1>2

(* What the two answers to a failed move leave. *)
LEMMA MoveAnswered ==
  ASSUME IInv, run.ask = "move", NEW r \in {Retried, Skipped}, run' = r,
         UNCHANGED <<journal, disk, work, landed>>,
         UNCHANGED used \/ used' = [used EXCEPT !.answers = @ + 1]
  PROVE  IInv'
<1> USE Standing
<1>1. run.phase = "loop" /\ run.queue # <<>> /\ work.stage = "idle"
  BY DEF IInv, Asking
<1>2. CASE run' = Retried
  <2>1. /\ run' \in Run /\ Budget(run') /\ run'.phase = "loop" /\ run'.queue = run.queue
        /\ run'.expected = run.expected /\ run'.incomplete = run.incomplete /\ run'.ask = "none"
    BY <1>1, <1>2 DEF Retried, Run, Budget
  <2> QED
    BY <1>1, <2>1, SameQueueStep
<1>3. CASE run' = Skipped
  <2>1. run.queue \in Seq(Entry) /\ Tail(run.queue) \in Seq(Entry)
    BY <1>1, HeadOrTail DEF Run
  <2>2. /\ run' \in Run /\ Budget(run') /\ run'.phase = "loop" /\ run'.queue = Tail(run.queue)
        /\ run'.expected = run.expected /\ run'.incomplete = TRUE /\ run'.ask = "none"
    BY <1>1, <1>3, <2>1, SkippedType
  <2>3. WholeMoves'
    BY <1>1, <2>1, <2>2, HeadOrTail DEF IInv, WholeMoves
  <2> QED
    BY <1>1, <2>2, <2>3, UsedType, QueueStep
<1> QED
  BY <1>2, <1>3

(* A move begins: the head of the queue goes to the engine. *)
LEMMA BeginsKeeps ==
  ASSUME IInv, run.phase = "loop", run.queue # <<>>, work.stage = "idle",
         work' = Starting(Head(run.queue)), journal' = MoveEvent(work', "running"),
         run' \in Run, Budget(run'), run'.phase = "loop", run'.queue = run.queue,
         run'.ask = "none", run'.incomplete = run.incomplete, run'.expected = run.expected,
         UNCHANGED <<disk, landed>>,
         UNCHANGED used \/ used' = [used EXCEPT !.answers = @ + 1]
  PROVE  IInv'
<1> USE Standing
<1>1. Head(run.queue) \in Entry
  BY HeadOrTail DEF Run
<1>2. /\ work' \in Work /\ work'.stage = "call" /\ work'.entry = Head(run.queue)
      /\ work'.todo = <<Head(run.queue).files>>
  BY <1>1, StartingType
<1>3. journal' \in Journal /\ journal'.plan = journal.plan /\ journal'.outcome = journal.outcome
      /\ \A m \in Moves : journal'.state[m] = "done" => journal.state[m] = "done"
  BY <1>2, MoveEventFacts DEF MoveStates
<1>4. TypeOK' /\ Grows
  BY <1>2, <1>3, UsedType DEF IInv, TypeOK, Journal, Grows
<1>5. Failing'
  BY <1>2 DEF Failing
<1>6. Parts'
  <2>1. \A x : <<x>> # <<>>
    OBVIOUS
  <2>2. work'.todo # <<>> /\ work'.todo = <<work'.entry.files>>
    BY <1>2, <2>1, Zenon
  <2> QED
    BY <2>2 DEF Parts
<1> QED
  BY <1>2, <1>3, <1>4, <1>5, <1>6, EngineStep

(* Starting a move, leaving the queue and every answer keep the invariant. *)
LEMMA LoopKeeps ==
  ASSUME IInv, StartMove \/ LoopEnds \/ AutoAnswer \/ Answer
  PROVE  IInv'
<1> USE Standing
<1>1. CASE StartMove
  <2>1. /\ run.phase = "loop" /\ run.ask = "none" /\ run.queue # <<>> /\ work.stage = "idle"
        /\ work' = Starting(Head(run.queue)) /\ journal' = MoveEvent(work', "running")
        /\ UNCHANGED <<run, disk, landed, used>>
    BY <1>1 DEF StartMove, Driving, runMove
  <2> QED
    BY <2>1, BeginsKeeps
<1>2. CASE LoopEnds
  <2>1. /\ run.phase = "loop" /\ run.ask = "none" /\ run.queue = <<>> /\ work.stage = "idle"
        /\ run' = [run EXCEPT !.phase = "see"] /\ UNCHANGED <<journal, disk, work, landed, used>>
    BY <1>2 DEF LoopEnds, Driving
  <2>2. /\ run' \in Run /\ Budget(run') /\ run'.phase = "see" /\ run'.queue = run.queue
        /\ run'.expected = run.expected /\ run'.incomplete = run.incomplete /\ run'.ask = "none"
    BY <2>1 DEF Run, Phases, Budget
  <2>3. TypeOK' /\ Grows
    BY <2>1, <2>2 DEF IInv, TypeOK, Grows
  <2>4. HonestDone'
    BY <2>1, <2>3, HonestKept
  <2>5. DoneLanded' /\ Asking' /\ Busy' /\ Parts' /\ Failing' /\ WarnedCut' /\ CapHolds' /\ WholeMoves'
    BY <2>1, <2>2, LandedGrows
    DEF IInv, DoneLanded, Asking, Busy, Parts, Failing, WarnedCut, CapHolds, Budget, WholeMoves
  <2>6. \A m : Backed(m)' <=> Backed(m)
    BY <2>1, <2>2, SameQueue DEF Backed
  <2>7. Promised'
    BY <2>1, <2>2, <2>6 DEF IInv, Promised, Planned, Open
  <2> QED
    BY <2>3, <2>4, <2>5, <2>7 DEF IInv
<1>3. CASE AutoAnswer
  BY <1>3, MoveAnswered DEF AutoAnswer, Answered
<1>4. CASE Answer
  <2>1. used' = [used EXCEPT !.answers = @ + 1]
    BY <1>4 DEF Answer
  <2>2. CASE run.ask = "move" /\ \E r \in {Retried, Skipped} : Answered(r)
    BY <2>1, <2>2, MoveAnswered DEF Answered
  <2>3. CASE /\ run.ask = "budget"
             /\ work' = Starting(Head(run.queue))
             /\ journal' = MoveEvent(work', "running")
             /\ run' = [run EXCEPT !.ask = "none", !.cap = @ + CapOriginal]
             /\ UNCHANGED <<disk, landed>>
    <3>1. run.phase = "loop" /\ run.queue # <<>> /\ work.stage = "idle"
      BY <2>3 DEF IInv, Asking
    <3>2. run.cap \in Nat /\ run.spent \in Nat /\ run.held \in Nat /\ CapOriginal \in Nat
      BY IdeBuildConstants DEF Run
    <3>3. /\ run' \in Run /\ run'.phase = "loop" /\ run'.queue = run.queue
          /\ run'.ask = "none" /\ run'.incomplete = run.incomplete /\ run'.expected = run.expected
          /\ run'.cap = run.cap + CapOriginal /\ run'.spent = run.spent /\ run'.held = run.held
      BY <2>3, <3>1, <3>2, RaisedType
    <3>4. Budget(run')
      BY <3>2, <3>3 DEF Budget
    <3> QED
      BY <2>1, <2>3, <3>1, <3>3, <3>4, BeginsKeeps
  <2>4. CASE /\ run.ask = "furnace"
             /\ run' = [run EXCEPT !.ask = "none", !.phase = "fixing"]
             /\ UNCHANGED <<journal, disk, work, landed>>
    <3>1. run.phase = "furnace" /\ work.stage = "idle" /\ run.queue = <<>>
      BY <2>4 DEF IInv, Asking, Promised
    <3>2. /\ run' \in Run /\ Budget(run') /\ run'.phase = "fixing" /\ run'.queue = run.queue
          /\ run'.expected = run.expected /\ run'.incomplete = run.incomplete /\ run'.ask = "none"
      BY <2>4 DEF Run, Phases, Budget
    <3>3. TypeOK' /\ Grows
      BY <2>1, <2>4, <3>2, UsedType DEF IInv, TypeOK, Grows
    <3>4. HonestDone'
      BY <2>4, <3>3, HonestKept
    <3>5. DoneLanded' /\ Asking' /\ Busy' /\ Parts' /\ Failing' /\ WarnedCut' /\ CapHolds' /\ WholeMoves'
      BY <2>4, <3>1, <3>2, LandedGrows
      DEF IInv, DoneLanded, Asking, Busy, Parts, Failing, WarnedCut, CapHolds, Budget, WholeMoves
    <3>6. \A m : Backed(m) => Backed(m)'
      BY <2>4, <3>2, <3>3, SameQueue DEF Backed, Grows
    <3>7. Promised'
      BY <2>4, <3>1, <3>2, <3>6 DEF IInv, Promised, Planned, Open
    <3> QED
      BY <3>3, <3>4, <3>5, <3>7 DEF IInv
  <2> QED
    BY <1>4, <2>2, <2>3, <2>4 DEF Answer
<1> QED
  BY <1>1, <1>2, <1>3, <1>4

-----------------------------------------------------------------------------
(* A probe that answers keeps the invariant. *)
LEMMA ProbeAnswersKeeps == IInv /\ ProbeAnswers => IInv'
<1> SUFFICES ASSUME IInv, ProbeAnswers PROVE IInv'
  OBVIOUS
<1> USE Standing
<1>1. /\ run.phase = "start" /\ run.ask = "none" /\ work.stage = "idle"
      /\ run' = [run EXCEPT !.phase = "plan"] /\ UNCHANGED <<journal, disk, work, landed, used>>
  BY DEF ProbeAnswers, Driving
<1>2. /\ run' \in Run /\ Budget(run') /\ run'.phase = "plan" /\ run'.ask = "none"
      /\ run'.queue = <<>>
  BY <1>1 DEF Run, Phases, Budget, IInv, Promised
<1>3. TypeOK' /\ Grows
  BY <1>1, <1>2 DEF IInv, TypeOK, Grows
<1>4. HonestDone'
  BY <1>1, <1>3, HonestKept
<1>5. \A m \in Moves : journal.state[m] = "warned" => m \in used'.cut
  BY <1>1 DEF IInv, WarnedCut
<1> QED
  BY <1>1, <1>2, <1>3, <1>4, <1>5, OutOfPlan

(* s is r with a queue to work off. *)
PlannedRun(s, r, q, x) ==
  /\ s \in Run /\ s.phase = "loop" /\ s.queue = q /\ s.expected = x
  /\ s.ask = r.ask /\ s.incomplete = r.incomplete
  /\ s.cap = r.cap /\ s.spent = r.spent /\ s.held = r.held

(* A run that has just planned. *)
LEMMA PlannedType ==
  ASSUME NEW r \in Run, NEW q \in Seq(Entry), NEW x \in SUBSET Files, NEW s,
         s = [r EXCEPT !.phase = "loop", !.queue = q, !.expected = x]
  PROVE  PlannedRun(s, r, q, x)
BY DEF Run, Phases, PlannedRun

(* The plan: each of its moves is queued whole, or the ledger calls it done *)
(* and it landed, or it was cut at a warning.                               *)
LEMMA MakePlanKeeps == IInv /\ MakePlan => IInv'
<1> SUFFICES ASSUME IInv, MakePlan PROVE IInv'
  OBVIOUS
<1> USE Standing
<1>1. run.phase = "plan" /\ run.ask = "none" /\ work.stage = "idle"
      /\ UNCHANGED <<disk, work, landed, used>>
  BY DEF MakePlan, Driving
<1>2. PICK plan \in (IF journal.plan # <<>> THEN {journal.plan} ELSE {Blueprint, <<SingleMove>>}) :
        /\ journal' = IF Open THEN [journal EXCEPT !.plan = plan] ELSE journal
        /\ run' = [ run EXCEPT !.phase = "loop", !.queue = Queue(plan),
                               !.expected = UNION { FilesOf[plan[k]] : k \in DOMAIN plan } ]
  BY Zenon DEF MakePlan
<1>3. plan \in Seq(Moves)
  <2>1. <<SingleMove>> \in Seq(Moves)
    BY IdeBuildConstants
  <2> QED
    BY <1>2, <2>1, IdeBuildConstants DEF Journal
<1> DEFINE x == UNION { FilesOf[plan[k]] : k \in DOMAIN plan }
<1>4. \A k \in DOMAIN plan : plan[k] \in Moves /\ FilesOf[plan[k]] \subseteq x
  BY <1>3
<1>5. x \in SUBSET Files
  BY <1>4 DEF Files
<1>6. run' = [run EXCEPT !.phase = "loop", !.queue = Queue(plan), !.expected = x]
  BY <1>2
<1> HIDE DEF x
<1>7. /\ Queue(plan) \in Seq(Entry)
      /\ \A j \in DOMAIN Queue(plan) : \E k \in DOMAIN plan : Queue(plan)[j] = Whole(plan[k])
      /\ \A k \in DOMAIN plan : plan[k] \notin LedgerDone =>
           \E j \in DOMAIN Queue(plan) : Queue(plan)[j] = Whole(plan[k])
  BY <1>3, QueueFacts
<1>8. /\ run' \in Run /\ run'.phase = "loop" /\ run'.queue = Queue(plan) /\ run'.expected = x
      /\ run'.ask = "none" /\ run'.incomplete = run.incomplete
      /\ run'.cap = run.cap /\ run'.spent = run.spent /\ run'.held = run.held
  <2>1. run \in Run /\ Queue(plan) \in Seq(Entry)
    BY <1>7
  <2>2. PlannedRun(run', run, Queue(plan), x)
    BY <1>5, <1>6, <2>1, PlannedType
  <2> QED
    BY <1>1, <2>2 DEF PlannedRun
<1>9. /\ journal' \in Journal /\ journal'.state = journal.state
      /\ journal'.outcome = journal.outcome /\ (Open => journal'.plan = plan)
      /\ (~Open => journal' = journal)
  BY <1>2, <1>3 DEF Journal
<1>10. TypeOK'
  BY <1>1, <1>8, <1>9 DEF IInv, TypeOK, Journal
<1>11. HonestDone'
  BY <1>1, <1>9 DEF IInv, HonestDone, Landed, Open
<1>12. Asking' /\ Busy' /\ Parts' /\ Failing' /\ WarnedCut' /\ CapHolds'
  BY <1>1, <1>8 DEF IInv, Asking, Busy, Parts, Failing, WarnedCut, CapHolds
<1>13. DoneLanded'
  BY <1>1, <1>9, LandedGrows DEF IInv, DoneLanded
<1>14. WholeMoves'
  BY <1>7, <1>8 DEF WholeMoves, Whole
<1>15. \A k \in DOMAIN plan : Backed(plan[k])'
  <2> SUFFICES ASSUME NEW k \in DOMAIN plan, plan[k] \notin used.cut
               PROVE  Pieces(plan[k])' # {} /\ FilesOf[plan[k]] \subseteq UNION Pieces(plan[k])'
    BY <1>1 DEF Backed
  <2>1. CASE plan[k] \in LedgerDone
    <3>1. Landed(plan[k])
      BY <1>1, <1>4, <2>1 DEF LedgerDone, IInv, DoneLanded, WarnedCut
    <3>2. { p[2] : p \in { q \in landed' : q[1] = plan[k] } } \subseteq Pieces(plan[k])'
      BY DEF Pieces
    <3> QED
      BY <1>1, <3>1, <3>2 DEF Landed
  <2>2. CASE plan[k] \notin LedgerDone
    <3>1. PICK j \in DOMAIN Queue(plan) : Queue(plan)[j] = Whole(plan[k])
      BY <1>7, <2>2
    <3>2. Queue(plan)[j].move = plan[k] /\ Queue(plan)[j].files = FilesOf[plan[k]]
      BY <3>1 DEF Whole
    <3>3. FilesOf[plan[k]] \in Pieces(plan[k])'
      BY <1>8, <3>2 DEF Pieces
    <3> QED
      BY <3>3
  <2> QED
    BY <2>1, <2>2
<1>16. Promised'
  BY <1>4, <1>8, <1>9, <1>15 DEF Promised, Planned, Open
<1> QED
  BY <1>10, <1>11, <1>12, <1>13, <1>14, <1>16 DEF IInv

-----------------------------------------------------------------------------
(* After the moves: the queue is empty, nothing is taken off what is expected, and  *)
(* what is known to be incomplete stays so.                                         *)
LEMMA LaterStep ==
  ASSUME IInv, run.phase \in Planned \ {"loop"}, work.stage = "idle",
         run' \in Run, Budget(run'), run'.queue = run.queue,
         run'.phase \in Planned \ {"loop"}, run.expected \subseteq run'.expected,
         run.incomplete => run'.incomplete,
         run'.phase = "verdict" /\ ~run'.incomplete => run'.expected \subseteq disk',
         run'.ask = "none" \/ (run'.ask = "furnace" /\ run'.phase = "furnace"),
         journal' \in Journal, journal'.plan = journal.plan, journal'.state = journal.state,
         journal'.outcome = journal.outcome,
         disk' \in SUBSET Files, disk \subseteq disk', UNCHANGED <<work, landed, used>>
  PROVE  IInv'
<1>1. TypeOK' /\ Grows
  BY DEF IInv, TypeOK, Journal, Grows
<1>2. HonestDone'
  BY <1>1, HonestKept
<1>3. Asking' /\ Busy' /\ Parts' /\ Failing' /\ WarnedCut' /\ CapHolds' /\ WholeMoves'
  BY DEF IInv, Planned, Asking, Busy, Parts, Failing, WarnedCut, CapHolds, Budget, WholeMoves
<1>4. DoneLanded'
  BY LandedGrows DEF IInv, DoneLanded
<1>5. \A m : Backed(m) => Backed(m)'
  BY SameQueue DEF Backed
<1>6. Promised'
  BY <1>5 DEF IInv, Promised, Open
<1> QED
  BY <1>1, <1>2, <1>3, <1>4, <1>6 DEF IInv

(* A step of the later phases that writes nothing. *)
LEMMA LaterRun ==
  ASSUME IInv, run.phase \in Planned \ {"loop"}, work.stage = "idle",
         UNCHANGED <<journal, disk, work, landed, used>>,
         run' \in Run, Budget(run'), run'.queue = run.queue,
         run'.phase \in Planned \ {"loop"}, run.expected \subseteq run'.expected,
         run.incomplete => run'.incomplete,
         run'.phase = "verdict" /\ ~run'.incomplete => run'.expected \subseteq disk,
         run'.ask = "none" \/ (run'.ask = "furnace" /\ run'.phase = "furnace")
  PROVE  IInv'
<1>1. journal' \in Journal /\ disk' \in SUBSET Files /\ disk \subseteq disk'
  BY Standing
<1> QED
  BY <1>1, LaterStep

(* A file given up on makes the build incomplete. *)
LEMMA GivenUpType ==
  ASSUME NEW r \in Run, Budget(r), NEW l \in SUBSET Files, NEW s,
         s = [r EXCEPT !.tries = 0, !.incomplete = TRUE, !.lost = l]
  PROVE  /\ s \in Run /\ Budget(s) /\ s.phase = r.phase /\ s.incomplete = TRUE
         /\ s.queue = r.queue /\ s.expected = r.expected /\ s.ask = r.ask
<1>1. 0 \in 0 .. 3 /\ TRUE \in BOOLEAN
  OBVIOUS
<1>2. s \in Run
  BY <1>1 DEF Run
<1> QED
  BY <1>2 DEF Run, Budget

(* The later steps that write nothing keep the invariant: none makes the build *)
(* complete again.                                                             *)
LEMMA QuietLater ==
  ASSUME IInv, SeeSkips \/ FurnaceClean \/ FurnaceAsks \/ (\E red \in BOOLEAN : GateChecked(red))
               \/ GateExpected \/ MissingGivenUp \/ MissingEnds \/ FinalSweep
  PROVE  IInv'
<1> USE Standing
<1>1. CASE SeeSkips \/ MissingEnds
  <2>1. /\ run.phase \in {"see", "missing"} /\ run.ask = "none" /\ work.stage = "idle"
        /\ \E ph \in {"furnace", "sweep"} : run' = [run EXCEPT !.phase = ph]
        /\ UNCHANGED <<journal, disk, work, landed, used>>
    BY <1>1 DEF SeeSkips, MissingEnds, Driving
  <2>2. /\ run' \in Run /\ Budget(run') /\ run'.queue = run.queue
        /\ run'.phase \in {"furnace", "sweep"} /\ run'.expected = run.expected
        /\ run'.incomplete = run.incomplete /\ run'.ask = "none"
    BY <2>1 DEF Run, Phases, Budget
  <2> QED
    BY <2>1, <2>2, LaterRun DEF Planned
<1>2. CASE FurnaceClean \/ \E red \in BOOLEAN : GateChecked(red)
  <2>1. PICK b \in BOOLEAN, ph \in {"gate", "expect"} :
          run' = [run EXCEPT !.phase = ph, !.incomplete = run.incomplete \/ b]
    BY <1>2 DEF FurnaceClean, GateChecked
  <2>2. /\ run.phase \in {"furnace", "gate"} /\ run.ask = "none" /\ work.stage = "idle"
        /\ UNCHANGED <<journal, disk, work, landed, used>>
    BY <1>2 DEF FurnaceClean, GateChecked, Driving
  <2>3. /\ run' \in Run /\ Budget(run') /\ run'.queue = run.queue /\ run'.phase = ph
        /\ run'.expected = run.expected /\ run'.ask = "none"
        /\ run'.incomplete = (run.incomplete \/ b)
    <3>1. PICK i \in BOOLEAN : i = (run.incomplete \/ b)
      BY Zenon
    <3>2. ph \in Planned /\ run' = [run EXCEPT !.phase = ph, !.incomplete = i]
      BY <2>1, <3>1 DEF Planned
    <3>3. /\ run' \in Run /\ Budget(run') /\ run'.phase = ph /\ run'.incomplete = i
          /\ run'.queue = run.queue /\ run'.expected = run.expected /\ run'.ask = run.ask
      BY <3>2 DEF Run, Phases, Planned, Budget
    <3> QED
      BY <2>2, <3>1, <3>3, Zenon
  <2> QED
    BY <2>2, <2>3, LaterRun DEF Planned
<1>3. CASE FurnaceAsks
  <2>1. /\ run.phase = "furnace" /\ run.ask = "none" /\ work.stage = "idle"
        /\ run' = IF Open THEN [run EXCEPT !.ask = "furnace"] ELSE Returned(run)
        /\ UNCHANGED <<journal, disk, work, landed, used>>
    BY <1>3 DEF FurnaceAsks, Driving
  <2>2. CASE Open
    <3>1. /\ run' \in Run /\ Budget(run') /\ run'.queue = run.queue /\ run'.phase = "furnace"
          /\ run'.expected = run.expected /\ run'.incomplete = run.incomplete
          /\ run'.ask = "furnace"
      BY <2>1, <2>2 DEF Run, Budget
    <3> QED
      BY <2>1, <3>1, LaterRun DEF Planned
  <2>3. CASE ~Open
    BY <2>1, <2>3, JustReturns
  <2> QED
    BY <2>2, <2>3
<1>4. CASE GateExpected
  <2>1. /\ run.phase = "expect" /\ run.ask = "none" /\ work.stage = "idle"
        /\ run' = [run EXCEPT !.phase = "missing", !.expected = GateExpects]
        /\ UNCHANGED <<journal, disk, work, landed, used>>
    BY <1>4 DEF GateExpected, Driving
  <2>2. GateExpects \in SUBSET Files /\ run.expected \subseteq GateExpects
    BY DEF GateExpects, Run, Journal
  <2>3. /\ run' \in Run /\ Budget(run') /\ run'.queue = run.queue /\ run'.phase = "missing"
        /\ run'.expected = GateExpects /\ run'.incomplete = run.incomplete /\ run'.ask = "none"
    BY <2>1, <2>2 DEF Run, Phases, Budget
  <2> QED
    BY <2>1, <2>2, <2>3, LaterRun DEF Planned
<1>5. CASE MissingGivenUp
  <2> DEFINE l == run.lost \cup {CHOOSE f \in MissingPlanned : TRUE}
  <2>1. /\ run.phase = "missing" /\ run.ask = "none" /\ work.stage = "idle"
        /\ MissingPlanned # {}
        /\ run' = [run EXCEPT !.tries = 0, !.incomplete = TRUE, !.lost = l]
        /\ UNCHANGED <<journal, disk, work, landed, used>>
    BY <1>5 DEF MissingGivenUp, Driving
  <2>2. l \in SUBSET Files
    BY <2>1 DEF MissingPlanned, Run
  <2> HIDE DEF l
  <2>3. /\ run' \in Run /\ Budget(run') /\ run'.queue = run.queue /\ run'.phase = "missing"
        /\ run'.expected = run.expected /\ run'.incomplete = TRUE /\ run'.ask = "none"
    <3>1. run \in Run /\ Budget(run) /\ run' = [run EXCEPT !.tries = 0, !.incomplete = TRUE, !.lost = l]
      BY <2>1
    <3>2. /\ run' \in Run /\ Budget(run') /\ run'.phase = run.phase /\ run'.incomplete = TRUE
          /\ run'.queue = run.queue /\ run'.expected = run.expected /\ run'.ask = run.ask
      BY <3>1, <2>2, GivenUpType, Zenon
    <3> QED
      BY <2>1, <3>2
  <2> QED
    BY <2>1, <2>3, LaterRun DEF Planned
<1>6. CASE FinalSweep
  <2>1. PICK found \in BOOLEAN :
          /\ ~(run.expected \subseteq disk) => found
          /\ run' = [run EXCEPT !.phase = "verdict", !.incomplete = run.incomplete \/ found]
    BY <1>6 DEF FinalSweep
  <2>2. /\ run.phase = "sweep" /\ run.ask = "none" /\ work.stage = "idle"
        /\ UNCHANGED <<journal, disk, work, landed, used>>
    BY <1>6 DEF FinalSweep, Driving
  <2>3. /\ run' \in Run /\ Budget(run') /\ run'.queue = run.queue /\ run'.phase = "verdict"
        /\ run'.expected = run.expected /\ run'.ask = "none"
        /\ run'.incomplete = (run.incomplete \/ found)
    <3>1. PICK i \in BOOLEAN : i = (run.incomplete \/ found)
      BY Zenon
    <3>2. "verdict" \in Planned /\ run' = [run EXCEPT !.phase = "verdict", !.incomplete = i]
      BY <2>1, <3>1 DEF Planned
    <3>3. /\ run' \in Run /\ Budget(run') /\ run'.phase = "verdict" /\ run'.incomplete = i
          /\ run'.queue = run.queue /\ run'.expected = run.expected /\ run'.ask = run.ask
      BY <3>2 DEF Run, Phases, Planned, Budget
    <3> QED
      BY <2>2, <3>1, <3>3, Zenon
  <2> QED
    BY <2>1, <2>2, <2>3, LaterRun DEF Planned
<1> QED
  BY <1>1, <1>2, <1>3, <1>4, <1>5, <1>6

-----------------------------------------------------------------------------
(* What a move of the later phases leaves on disk and in the journal. *)
Extra(wrote, o) ==
  /\ disk' = disk \cup wrote
  /\ journal' = [ Sealed(journal, o) EXCEPT !.files = IF Open THEN @ \cup wrote ELSE @ ]
  /\ UNCHANGED <<work, landed, used>>

(* A later phase's engine run keeps the plan, the move states and the disk's *)
(* files.                                                                    *)
LEMMA ExtraFacts ==
  ASSUME IInv, NEW wrote \in SUBSET Files, NEW o \in {"none", "checkpoint"}, Extra(wrote, o)
  PROVE  /\ journal' \in Journal /\ journal'.plan = journal.plan
         /\ journal'.state = journal.state
         /\ journal'.outcome = journal.outcome \/ journal'.outcome = "checkpoint"
         /\ o = "none" => journal'.outcome = journal.outcome
         /\ disk' \in SUBSET Files /\ disk \subseteq disk' /\ Grows
<1> USE Standing
<1> DEFINE j == Sealed(journal, o)
<1>1. /\ j \in Journal /\ j.plan = journal.plan /\ j.state = journal.state
      /\ j.outcome = (IF Open THEN o ELSE journal.outcome)
  BY SealedFacts DEF Outcomes
<1>2. journal' = [j EXCEPT !.files = IF Open THEN @ \cup wrote ELSE @]
  BY DEF Extra
<1> HIDE DEF j
<1>3. /\ journal' \in Journal /\ journal'.plan = j.plan /\ journal'.state = j.state
      /\ journal'.outcome = j.outcome
  BY <1>1, <1>2 DEF Journal
<1>4. disk' \in SUBSET Files /\ disk \subseteq disk' /\ UNCHANGED <<landed, used>>
  BY DEF Extra
<1>5. /\ journal'.outcome = journal.outcome \/ journal'.outcome = "checkpoint"
      /\ o = "none" => journal'.outcome = journal.outcome
  BY <1>1, <1>3 DEF Open
<1> QED
  BY <1>1, <1>3, <1>4, <1>5 DEF Grows

(* Covered files do not touch the control of the build. *)
LEMMA CoveredType ==
  ASSUME NEW s \in Run, Budget(s), NEW g \in SUBSET Files, NEW t, t = [s EXCEPT !.covered = g]
  PROVE  /\ t \in Run /\ Budget(t) /\ t.phase = s.phase /\ t.queue = s.queue
         /\ t.expected = s.expected /\ t.incomplete = s.incomplete /\ t.ask = s.ask
BY DEF Run, Budget

(* A later phase's engine run keeps the invariant unless it ends the build. *)
LEMMA ExtraStep ==
  ASSUME IInv, run.phase \in Planned \ {"loop"}, run.ask = "none", work.stage = "idle",
         NEW wrote \in SUBSET Files, Extra(wrote, "none"),
         NEW s \in Run, Budget(s), s.phase \in Planned \ {"loop", "verdict"},
         s.queue = run.queue, s.expected = run.expected, s.ask = run.ask,
         run.incomplete => s.incomplete,
         NEW g \in SUBSET Files, run' = [s EXCEPT !.covered = g]
  PROVE  IInv'
<1>1. /\ run' \in Run /\ Budget(run') /\ run'.phase = s.phase /\ run'.queue = s.queue
      /\ run'.expected = s.expected /\ run'.incomplete = s.incomplete /\ run'.ask = s.ask
  BY CoveredType
<1>2. /\ journal' \in Journal /\ journal'.plan = journal.plan
      /\ journal'.state = journal.state /\ journal'.outcome = journal.outcome
      /\ disk' \in SUBSET Files /\ disk \subseteq disk'
  BY ExtraFacts
<1>3. UNCHANGED <<work, landed, used>>
  BY DEF Extra
<1> QED
  BY <1>1, <1>2, <1>3, LaterStep

(* The polish move keeps the invariant. *)
LEMMA SeePolishesKeeps == IInv /\ SeePolishes => IInv'
<1> SUFFICES ASSUME IInv, SeePolishes PROVE IInv'
  OBVIOUS
<1> USE Standing
<1>1. run.phase = "see" /\ run.ask = "none" /\ work.stage = "idle"
  BY DEF SeePolishes, Driving
<1>2. PICK result \in {"ok", "failed", "environment"}, r \in MaybePaid,
           wrote \in SUBSET (IF journal.files = {} THEN Files ELSE journal.files) :
        /\ Extra(wrote, "none")
        /\ run' = [ [r EXCEPT !.phase = "furnace"] EXCEPT
                      !.covered = IF result = "ok" THEN @ \cup journal.files ELSE @ ]
  BY DEF SeePolishes, runExtra, Goes, Extra
<1>3. r \in Run /\ Budget(r) /\ SameControl(r)
  BY PaidFacts DEF IInv
<1> DEFINE s == [r EXCEPT !.phase = "furnace"]
           g == IF result = "ok" THEN s.covered \cup journal.files ELSE s.covered
<1>4. /\ s \in Run /\ Budget(s) /\ s.phase = "furnace" /\ s.queue = run.queue
      /\ s.expected = run.expected /\ s.ask = run.ask /\ s.incomplete = run.incomplete
  BY <1>3 DEF Run, Phases, Budget, SameControl
<1>5. wrote \in SUBSET Files /\ g \in SUBSET Files
  BY <1>4 DEF Journal, Run
<1>6. run' = [s EXCEPT !.covered = g]
  BY <1>2
<1> HIDE DEF s, g
<1> QED
  BY <1>1, <1>2, <1>4, <1>5, <1>6, ExtraStep DEF Planned

(* A Furnace fix keeps the invariant, whether or not it succeeds. *)
LEMMA FurnaceFixesKeeps == IInv /\ FurnaceFixes => IInv'
<1> SUFFICES ASSUME IInv, FurnaceFixes PROVE IInv'
  OBVIOUS
<1> USE Standing
<1>1. run.phase \in Planned \ {"loop"} /\ run.ask = "none" /\ work.stage = "idle"
  BY DEF FurnaceFixes, Driving, Planned
<1> DEFINE After(result, r) == Goes([r EXCEPT !.incomplete = @ \/ result # "ok"], "gate")
<1>2. PICK result \in {"ok", "failed", "environment"}, r \in MaybePaid,
           wrote \in SUBSET (IF journal.files = {} THEN Files ELSE journal.files) :
        /\ result = "ok" \/ wrote # {} => r = Paid /\ Affordable
        /\ disk' = disk \cup wrote
        /\ journal' = [ Sealed(journal, After(result, r).outcome)
                          EXCEPT !.files = IF Open THEN @ \cup wrote ELSE @ ]
        /\ run' = [ After(result, r).run EXCEPT
                       !.covered = IF result = "ok" THEN @ \cup journal.files ELSE @ ]
        /\ UNCHANGED <<work, landed, used>>
  <2>1. runExtra(journal.files, After)
    BY Zenon DEF FurnaceFixes
  <2> QED
    BY <2>1, Zenon DEF runExtra
<1>3. r \in Run /\ Budget(r) /\ SameControl(r) /\ r.incomplete \in BOOLEAN
  BY PaidFacts DEF IInv, Run
<1>4. PICK i \in BOOLEAN : i = (r.incomplete \/ result # "ok")
  BY Zenon
<1> DEFINE s == [r EXCEPT !.incomplete = i, !.phase = "gate"]
           g == IF result = "ok" THEN s.covered \cup journal.files ELSE s.covered
<1>5. After(result, r).outcome = "none" /\ After(result, r).run = s
  BY <1>3, <1>4 DEF Goes, Run
<1> HIDE DEF After
<1>6. Extra(wrote, "none") /\ run' = [s EXCEPT !.covered = g]
  BY <1>2, <1>5 DEF Extra
<1>7. /\ s \in Run /\ Budget(s) /\ s.phase = "gate" /\ s.queue = r.queue
      /\ s.expected = r.expected /\ s.ask = r.ask /\ s.incomplete = i
  BY <1>3 DEF Run, Phases, Budget
<1> HIDE DEF s
<1>8. journal.files \in SUBSET Files /\ wrote \in SUBSET Files /\ g \in SUBSET Files
  BY <1>7 DEF Journal, Run
<1> HIDE DEF g
<1>9. /\ s.queue = run.queue /\ s.expected = run.expected /\ s.ask = run.ask
      /\ run.incomplete => s.incomplete
  BY <1>3, <1>4, <1>7 DEF SameControl
<1> QED
  BY <1>1, <1>6, <1>7, <1>8, <1>9, ExtraStep DEF Planned

(* The gate's repair keeps the invariant: a check still red makes the build *)
(* incomplete.                                                              *)
LEMMA GateRepairsKeeps == IInv /\ GateRepairs => IInv'
<1> SUFFICES ASSUME IInv, GateRepairs PROVE IInv'
  OBVIOUS
<1> USE Standing
<1>1. run.phase \in Planned \ {"loop"} /\ run.ask = "none" /\ work.stage = "idle"
  BY DEF GateRepairs, Driving, Planned
<1>g. PICK green \in BOOLEAN :
        LET After(result, r) ==
              Goes([r EXCEPT !.incomplete = @ \/ result # "ok" \/ ~green], "expect")
        IN runExtra(GateExpects, After)
  BY Zenon DEF GateRepairs
<1> DEFINE After(result, r) == Goes([r EXCEPT !.incomplete = @ \/ result # "ok" \/ ~green], "expect")
<1>2. PICK result \in {"ok", "failed", "environment"}, r \in MaybePaid,
           wrote \in SUBSET (IF GateExpects = {} THEN Files ELSE GateExpects) :
        /\ result = "ok" \/ wrote # {} => r = Paid /\ Affordable
        /\ disk' = disk \cup wrote
        /\ journal' = [ Sealed(journal, After(result, r).outcome)
                          EXCEPT !.files = IF Open THEN @ \cup wrote ELSE @ ]
        /\ run' = [ After(result, r).run EXCEPT
                       !.covered = IF result = "ok" THEN @ \cup GateExpects ELSE @ ]
        /\ UNCHANGED <<work, landed, used>>
  <2>1. runExtra(GateExpects, After)
    BY <1>g, Zenon
  <2> QED
    BY <2>1, Zenon DEF runExtra
<1>3. r \in Run /\ Budget(r) /\ SameControl(r) /\ r.incomplete \in BOOLEAN
  BY PaidFacts DEF IInv, Run
<1>4. PICK i \in BOOLEAN : i = (r.incomplete \/ result # "ok" \/ ~green)
  BY Zenon
<1> DEFINE s == [r EXCEPT !.incomplete = i, !.phase = "expect"]
           g == IF result = "ok" THEN s.covered \cup GateExpects ELSE s.covered
<1>5. After(result, r).outcome = "none" /\ After(result, r).run = s
  BY <1>3, <1>4 DEF Goes, Run
<1> HIDE DEF After
<1>6. Extra(wrote, "none") /\ run' = [s EXCEPT !.covered = g]
  BY <1>2, <1>5 DEF Extra
<1>7. /\ s \in Run /\ Budget(s) /\ s.phase = "expect" /\ s.queue = r.queue
      /\ s.expected = r.expected /\ s.ask = r.ask /\ s.incomplete = i
  BY <1>3 DEF Run, Phases, Budget
<1> HIDE DEF s
<1>8. GateExpects \in SUBSET Files /\ wrote \in SUBSET Files /\ g \in SUBSET Files
  BY <1>7 DEF Journal, Run, GateExpects
<1> HIDE DEF g
<1>9. /\ s.queue = run.queue /\ s.expected = run.expected /\ s.ask = run.ask
      /\ run.incomplete => s.incomplete
  BY <1>3, <1>4, <1>7 DEF SameControl
<1> QED
  BY <1>1, <1>6, <1>7, <1>8, <1>9, ExtraStep DEF Planned

(* Another attempt at a missing file stays in its phase. *)
LEMMA TriedType ==
  ASSUME NEW r \in Run, Budget(r), NEW n \in 0 .. 3, NEW s,
         s = [ [r EXCEPT !.tries = n] EXCEPT !.phase = "missing" ]
  PROVE  /\ s \in Run /\ Budget(s) /\ s.phase = "missing" /\ s.queue = r.queue
         /\ s.expected = r.expected /\ s.ask = r.ask /\ s.incomplete = r.incomplete
<1>1. s \in Run
  BY DEF Run, Phases
<1> QED
  BY <1>1 DEF Run, Budget

(* Asking for a missing file keeps the invariant, or pauses the build. *)
LEMMA MissingRepairKeeps == IInv /\ MissingRepair => IInv'
<1> SUFFICES ASSUME IInv, MissingRepair PROVE IInv'
  OBVIOUS
<1> USE Standing
<1> DEFINE file == CHOOSE f \in MissingPlanned : TRUE
<1>1. /\ run.phase = "missing" /\ run.ask = "none" /\ work.stage = "idle"
      /\ MissingPlanned # {} /\ run.tries < 3
  BY DEF MissingRepair, Driving
<1>2. file \in Files
  BY <1>1 DEF MissingPlanned, Run
<1>3. PICK result \in {"ok", "failed", "environment"}, r \in MaybePaid, wrote \in SUBSET {file} :
        \/ /\ Extra(wrote, "checkpoint")
           /\ run' = [ Returned(r) EXCEPT !.covered = IF result = "ok" THEN @ \cup {file} ELSE @ ]
           /\ result = "environment"
        \/ /\ Extra(wrote, "none")
           /\ run' = [ [ [r EXCEPT !.tries = IF result = "ok" THEN 0 ELSE @ + 1]
                         EXCEPT !.phase = "missing" ]
                       EXCEPT !.covered = IF result = "ok" THEN @ \cup {file} ELSE @ ]
  <2> DEFINE After(result, r) ==
               IF result = "environment" /\ run.tries = 0
               THEN [outcome |-> "checkpoint", run |-> Returned(r)]
               ELSE Goes([r EXCEPT !.tries = IF result = "ok" THEN 0 ELSE @ + 1], "missing")
  <2>1. PICK result \in {"ok", "failed", "environment"}, r \in MaybePaid,
             wrote \in SUBSET (IF {file} = {} THEN Files ELSE {file}) :
          /\ result = "ok" \/ wrote # {} => r = Paid /\ Affordable
          /\ disk' = disk \cup wrote
          /\ journal' = [ Sealed(journal, After(result, r).outcome)
                            EXCEPT !.files = IF Open THEN @ \cup wrote ELSE @ ]
          /\ run' = [ After(result, r).run EXCEPT
                         !.covered = IF result = "ok" THEN @ \cup {file} ELSE @ ]
          /\ UNCHANGED <<work, landed, used>>
    <3>1. runExtra({file}, After)
      BY Zenon DEF MissingRepair
    <3> QED
      BY <3>1, Zenon DEF runExtra
  <2>2. wrote \in SUBSET {file}
    OBVIOUS
  <2>3. CASE result = "environment" /\ run.tries = 0
    <3>1. After(result, r).outcome = "checkpoint" /\ After(result, r).run = Returned(r)
      BY <2>3
    <3> HIDE DEF After
    <3>2. /\ Extra(wrote, "checkpoint")
          /\ run' = [ Returned(r) EXCEPT !.covered = IF result = "ok" THEN @ \cup {file} ELSE @ ]
      BY <2>1, <3>1 DEF Extra
    <3> QED
      BY <2>2, <2>3, <3>2
  <2>4. CASE ~(result = "environment" /\ run.tries = 0)
    <3> DEFINE t == [ [r EXCEPT !.tries = IF result = "ok" THEN 0 ELSE @ + 1]
                      EXCEPT !.phase = "missing" ]
    <3>1. After(result, r).outcome = "none" /\ After(result, r).run = t
      BY <2>4 DEF Goes
    <3> HIDE DEF After, t
    <3>2. /\ Extra(wrote, "none")
          /\ run' = [ t EXCEPT !.covered = IF result = "ok" THEN @ \cup {file} ELSE @ ]
      BY <2>1, <3>1 DEF Extra
    <3> QED
      BY <2>2, <3>2 DEF t
  <2> QED
    BY <2>3, <2>4
<1> HIDE DEF file
<1>4. r \in Run /\ Budget(r) /\ SameControl(r) /\ wrote \in SUBSET Files
  BY <1>2, PaidFacts DEF IInv
<1>5. r.tries = run.tries
  BY DEF MaybePaid, Paid, Run
<1>6. CASE /\ Extra(wrote, "checkpoint")
           /\ run' = [ Returned(r) EXCEPT !.covered = IF result = "ok" THEN @ \cup {file} ELSE @ ]
           /\ result = "environment"
  <2>1. Returned(r) \in Run
    BY <1>4, ReturnedType
  <2>2. run' = Returned(r)
    BY <1>6, <2>1 DEF Run
  <2>3. /\ journal' \in Journal /\ journal'.state = journal.state /\ Grows
        /\ journal'.outcome = journal.outcome \/ journal'.outcome = "checkpoint"
        /\ disk' \in SUBSET Files
    BY <1>4, <1>6, ExtraFacts
  <2>4. HonestDone'
    BY <2>3, HonestKept
  <2>5. UNCHANGED <<work, landed, used>>
    BY <1>6 DEF Extra
  <2> QED
    BY <1>1, <1>4, <2>2, <2>3, <2>4, <2>5, ReturnsKeeps
<1>7. CASE /\ Extra(wrote, "none")
           /\ run' = [ [ [r EXCEPT !.tries = IF result = "ok" THEN 0 ELSE @ + 1]
                         EXCEPT !.phase = "missing" ]
                       EXCEPT !.covered = IF result = "ok" THEN @ \cup {file} ELSE @ ]
  <2> DEFINE n == IF result = "ok" THEN 0 ELSE r.tries + 1
             s == [ [r EXCEPT !.tries = n] EXCEPT !.phase = "missing" ]
             g == IF result = "ok" THEN s.covered \cup {file} ELSE s.covered
  <2>1. n \in 0 .. 3
    BY <1>1, <1>5 DEF Run
  <2>2. run' = [s EXCEPT !.covered = g]
    BY <1>7
  <2> HIDE DEF n
  <2>3. /\ s \in Run /\ Budget(s) /\ s.phase = "missing" /\ s.queue = r.queue
        /\ s.expected = r.expected /\ s.ask = r.ask /\ s.incomplete = r.incomplete
    BY <1>4, <2>1, TriedType
  <2> HIDE DEF s
  <2>4. g \in SUBSET Files
    BY <1>2, <2>3 DEF Run
  <2> HIDE DEF g
  <2>5. /\ s.queue = run.queue /\ s.expected = run.expected /\ s.ask = run.ask
        /\ run.incomplete => s.incomplete
    BY <1>4, <2>3 DEF SameControl
  <2> QED
    BY <1>1, <1>4, <1>7, <2>2, <2>3, <2>4, <2>5, ExtraStep DEF Planned
<1> QED
  BY <1>3, <1>6, <1>7

-----------------------------------------------------------------------------
(* Stop seals the job while the build is still at work: no promise is left to *)
(* keep.                                                                      *)
LEMMA StopKeeps == IInv /\ Stop => IInv'
<1> SUFFICES ASSUME IInv, Stop PROVE IInv'
  OBVIOUS
<1>1. /\ Open /\ journal' = Sealed(journal, "stopped") /\ run' = [run EXCEPT !.aborted = TRUE]
      /\ used' = [used EXCEPT !.faults = @ + 1] /\ UNCHANGED <<disk, work, landed>>
  BY DEF Stop
<1>2. /\ journal' \in Journal /\ journal'.plan = journal.plan /\ journal'.state = journal.state
      /\ journal'.outcome = "stopped"
  BY <1>1, Standing, SealedFacts DEF Outcomes
<1>3. run' \in Run /\ SameControl(run') /\ Budget(run')
  <2>1. run \in Run /\ Budget(run)
    BY Standing
  <2> QED
    BY <1>1, <2>1 DEF Run, SameControl, Budget
<1>4. used' \in [faults : Nat, answers : Nat, cut : SUBSET Moves] /\ used'.cut = used.cut
  BY <1>1 DEF IInv, TypeOK
<1>5. TypeOK' /\ Grows
  BY <1>1, <1>2, <1>3, <1>4 DEF IInv, TypeOK, Journal, Grows
<1>6. Asking' /\ Busy' /\ Parts' /\ Failing' /\ WarnedCut' /\ WholeMoves'
  BY <1>1, <1>2, <1>3, <1>4
     DEF IInv, SameControl, Asking, Busy, Parts, Failing, WarnedCut, WholeMoves
<1>7. DoneLanded'
  BY <1>2, <1>5, LandedGrows DEF IInv, DoneLanded, Grows
<1>8. Promised'
  BY <1>1, <1>2, <1>3 DEF IInv, SameControl, Promised, Open
<1>9. HonestDone' /\ CapHolds'
  BY <1>2, <1>3, <1>5, HonestKept DEF CapHolds, Budget
<1> QED
  BY <1>5, <1>6, <1>7, <1>8, <1>9 DEF IInv

(* Restart's bookkeeping keeps its type. *)
LEMMA CutType ==
  ASSUME NEW u \in [faults : Nat, answers : Nat, cut : SUBSET Moves], NEW S \in SUBSET Moves
  PROVE  LET v == [u EXCEPT !.faults = @ + 1, !.cut = @ \cup S]
         IN v \in [faults : Nat, answers : Nat, cut : SUBSET Moves] /\ v.cut = u.cut \cup S
<1>1. u.faults + 1 \in Nat /\ u.cut \cup S \in SUBSET Moves /\ u.answers \in Nat
  OBVIOUS
<1> QED
  BY <1>1

(* A restart keeps the invariant: what the journal calls done has landed, and *)
(* moves it calls warned are recorded as cut.                                 *)
LEMMA RestartKeeps == IInv /\ Restart => IInv'
<1> SUFFICES ASSUME IInv, Restart PROVE IInv'
  OBVIOUS
<1>1. /\ run' = Fresh(journal.files) /\ work' = Idle /\ UNCHANGED <<journal, disk, landed>>
      /\ used' = [ used EXCEPT !.faults = @ + 1,
                     !.cut = @ \cup { m \in Moves : journal.state[m] = "warned" } ]
  BY DEF Restart
<1>2. journal.files \in SUBSET Files
  BY DEF IInv, TypeOK
<1>3. /\ run' \in Run /\ Budget(run') /\ run'.phase = "start" /\ run'.ask = "none"
      /\ run'.queue = <<>>
  BY <1>1, <1>2, FreshType DEF Fresh
<1>4. /\ used' \in [faults : Nat, answers : Nat, cut : SUBSET Moves]
      /\ used.cut \subseteq used'.cut
      /\ \A m \in Moves : journal.state[m] = "warned" => m \in used'.cut
  <2> DEFINE warned == { m \in Moves : journal.state[m] = "warned" }
  <2>1. warned \in SUBSET Moves /\ \A m \in Moves : journal.state[m] = "warned" => m \in warned
    OBVIOUS
  <2>2. used' = [used EXCEPT !.faults = @ + 1, !.cut = @ \cup warned]
    BY <1>1
  <2>3. used \in [faults : Nat, answers : Nat, cut : SUBSET Moves]
    BY DEF IInv, TypeOK
  <2> HIDE DEF warned
  <2>4. used' \in [faults : Nat, answers : Nat, cut : SUBSET Moves] /\ used'.cut = used.cut \cup warned
    BY <2>1, <2>2, <2>3, CutType
  <2> QED
    BY <2>1, <2>4
<1>5. work' \in Work /\ work'.stage = "idle"
  BY <1>1, IdleType DEF Idle
<1>6. TypeOK' /\ Grows
  BY <1>1, <1>3, <1>4, <1>5 DEF IInv, TypeOK, Grows
<1>7. HonestDone'
  BY <1>1, <1>6, HonestKept
<1> QED
  BY <1>1, <1>3, <1>4, <1>5, <1>6, <1>7, OutOfPlan

(* The invariant holds at first. *)
LEMMA InitKeeps == Init => IInv
<1> SUFFICES ASSUME Init PROVE IInv
  OBVIOUS
<1>1. /\ journal = [ plan |-> <<>>, state |-> [m \in Moves |-> "planned"], files |-> {},
                     outcome |-> "none" ]
      /\ disk = {} /\ run = Fresh({}) /\ work = Idle /\ landed = {}
      /\ used = [faults |-> 0, answers |-> 0, cut |-> {}]
  BY DEF Init
<1>2. run \in Run /\ Budget(run) /\ work \in Work
  BY <1>1, FreshType, IdleType
<1>3. run.phase = "start" /\ run.ask = "none" /\ run.queue = <<>> /\ work.stage = "idle"
  BY <1>1 DEF Fresh, Idle
<1>4. TypeOK
  <2>1. journal \in [ plan : Seq(Moves), state : [Moves -> MoveStates], files : SUBSET Files,
                      outcome : Outcomes ]
    BY <1>1 DEF MoveStates, Outcomes
  <2> QED
    BY <1>1, <1>2, <2>1 DEF TypeOK
<1>5. Asking /\ Busy /\ Parts /\ Failing /\ WholeMoves /\ Promised /\ CapHolds
  BY <1>2, <1>3
     DEF Asking, Busy, Parts, Failing, WholeMoves, Promised, Planned, CapHolds, Budget
<1>6. DoneLanded /\ WarnedCut /\ HonestDone
  BY <1>1 DEF DoneLanded, WarnedCut, HonestDone
<1> QED
  BY <1>4, <1>5, <1>6 DEF IInv

(* Every step keeps the invariant. *)
LEMMA NextKeeps == IInv /\ [Next]_vars => IInv'
<1> SUFFICES ASSUME IInv, [Next]_vars PROVE IInv'
  OBVIOUS
<1>1. CASE Engine
  BY <1>1, EngineKeeps
<1>2. CASE Build
  BY <1>2, EndsKeep, ProbeAnswersKeeps, MakePlanKeeps, AsksKeep, LoopKeeps, MoveLandsKeeps,
     MoveRetimedKeeps, QuietLater, SeePolishesKeeps, FurnaceFixesKeeps, GateRepairsKeeps,
     MissingRepairKeeps, VerdictKeeps
     DEF Build
<1>3. CASE CallStalls \/ LateSettle \/ Throws \/ Answer \/ AnswerEnds \/ Stop \/ Restart
  BY <1>3, CallStallsKeeps, LateSettleKeeps, EndsKeep, LoopKeeps, StopKeeps, RestartKeeps
<1>4. CASE UNCHANGED vars
  <2>1. TypeOK' /\ Asking' /\ Busy' /\ Parts' /\ Failing' /\ WholeMoves'
    BY <1>4 DEF vars, IInv, TypeOK, Asking, Busy, Parts, Failing, WholeMoves
  <2>2. DoneLanded' /\ WarnedCut' /\ CapHolds'
    BY <1>4 DEF vars, IInv, DoneLanded, WarnedCut, CapHolds, Landed
  <2>3. Grows
    BY <1>4 DEF vars, Grows
  <2>4. Promised' /\ HonestDone'
    BY <1>4, <2>1, <2>3, FrameKeeps DEF vars
  <2> QED
    BY <2>1, <2>2, <2>4 DEF IInv
<1> QED
  BY <1>1, <1>2, <1>3, <1>4 DEF Next

(* Every reachable state is well typed: the queue holds entries of the plan, *)
(* repair counts and the frontier count stay within their limits.            *)
THEOREM BuildTyping == Spec => []TypeOK
<1>1. IInv => TypeOK
  BY DEF IInv
<1> QED
  BY <1>1, InitKeeps, NextKeeps, PTL DEF Spec

(* A build that the journal calls done has every move of its plan finished by *)
(* some process and every file the plan names on disk, whatever the plan, the *)
(* limits, the number of restarts, stops, stalls and answers (Verdict, the    *)
(* queue loop, resumeLedger). Moves cut at a warning by a restart are         *)
(* excepted, as in HonestDone.                                                *)
THEOREM DoneIsHonest == Spec => []HonestDone
<1>1. IInv => HonestDone
  BY DEF IInv
<1> QED
  BY <1>1, InitKeeps, NextKeeps, PTL DEF Spec

(* What is spent and what calls still running may yet cost never exceed the *)
(* cap, for any cap and any number of calls given up on (ideBudgetGuard).   *)
THEOREM CapIsKept == Spec => []CapHolds
<1>1. IInv => CapHolds
  BY DEF IInv
<1> QED
  BY <1>1, InitKeeps, NextKeeps, PTL DEF Spec
=============================================================================
