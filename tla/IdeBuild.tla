-------------------------------- MODULE IdeBuild --------------------------------
(***************************************************************************)
(* One Crucible build from the first probe to its verdict: runIdeBuild       *)
(* (server.mjs, the standard-crew path) driving the engine's runMove         *)
(* (ideengine.mjs), and the restart that resumes it from the journal.        *)
(*                                                                           *)
(* What survives a process is the journal (the plan, the latest state of     *)
(* every move, the file events, the terminal event) and the project's disk.   *)
(* Models, checks and the machine answer nondeterministically; the question   *)
(* is what the build may call done.                                           *)
(***************************************************************************)
EXTENDS Integers, Sequences, FiniteSets

CONSTANTS
  Moves,            \* the moves of a planned build, in the order of Blueprint
  Blueprint,        \* the planner's move list
  FilesOf,          \* the files each move declares
  SingleMove,       \* the one move of a small ask or of the fallback plan
  Splittable,       \* SPLITTABLE_MOVE_FILES
  MaxRepairs,       \* repair attempts after a red check
  AutoRetryLimit,   \* MOVE_AUTO_RETRY_LIMIT
  FrontierMax,      \* CRUCIBLE_FRONTIER_MAX
  CapOriginal,      \* the build's budget, in model calls
  MaxFaults,        \* bound: restarts, stops and calls given up on while still running
  MaxAnswers        \* bound: questions a person answers

Files == UNION { FilesOf[m] : m \in Moves }

ASSUME IdeBuildConstants ==
  /\ Blueprint \in Seq(Moves) /\ SingleMove \in Moves /\ IsFiniteSet(Files)
  /\ \A k \in DOMAIN Blueprint : Blueprint[k] # SingleMove
  /\ Splittable \in Nat /\ MaxRepairs \in Nat /\ AutoRetryLimit \in Nat
  /\ FrontierMax \in Nat /\ CapOriginal \in Nat \ {0}
  /\ MaxFaults \in Nat /\ MaxAnswers \in Nat

VARIABLES
  journal,   \* plan, latest move states, file events and terminal event
  disk,      \* files present in the project
  run,       \* the process driving the build: runIdeBuild's variables
  work,      \* engine.runMove under way, for whichever phase called it
  landed,    \* history: what runMove reported finished, across processes
  used       \* how much of each bound has been spent

vars == <<journal, disk, run, work, landed, used>>

MoveStates == {"planned", "running", "warned", "repairing", "failed", "blocked", "done"}
Outcomes   == {"none", "done", "checkpoint", "error", "stopped"}
Phases     == {"start", "plan", "loop", "see", "furnace", "fixing", "gate", "expect",
               "missing", "sweep", "verdict", "returned"}

(* A queue entry: a planned move, or half of one re-planned for time. *)
Entry == [move : Moves, files : SUBSET Files, retimed : BOOLEAN]

Run ==
  [ phase : Phases, queue : Seq(Entry), covered : SUBSET Files, expected : SUBSET Files,
    incomplete : BOOLEAN,                        \* knownIncomplete is not empty
    retried : Nat,                               \* autoRetried of the queue's head
    ask : {"none", "budget", "move", "furnace"}, \* the question the build waits on
    cap : Nat, spent : Nat, held : Nat,          \* budget: capUsd, spentUsd, reservedUsd
    frontier : 0 .. FrontierMax,                 \* frontierCalls
    tries : 0 .. 3, lost : SUBSET Files,         \* missing-file repair
    aborted : BOOLEAN ]                          \* ac.signal

Kinds == {"none", "failed", "blocked", "environment", "snapshot"}

Work ==
  [ stage : {"idle", "call", "write", "verify", "repair", "counsel", "back"},
    entry : Entry,
    todo : Seq(SUBSET Files), split : BOOLEAN,   \* parts still to be run
    reply : SUBSET Files, wrote : SUBSET Files, declared : BOOLEAN, refused : Kinds,
    repairs : Nat, rung : 0 .. 3, kind : Kinds,  \* counsel ladder, latest failure
    covered : SUBSET Files ]

TypeOK ==
  /\ journal \in [ plan : Seq(Moves), state : [Moves -> MoveStates], files : SUBSET Files,
                    outcome : Outcomes ]
  /\ disk \in SUBSET Files
  /\ run \in Run
  /\ work \in Work
  /\ landed \in SUBSET (Moves \X SUBSET Files)
  /\ used \in [faults : Nat, answers : Nat, cut : SUBSET Moves]

Whole(m) == [move |-> m, files |-> FilesOf[m], retimed |-> FALSE]

Idle ==
  [ stage |-> "idle", entry |-> Whole(SingleMove), todo |-> <<>>, split |-> FALSE,
    reply |-> {}, wrote |-> {}, declared |-> FALSE, refused |-> "none",
    repairs |-> 0, rung |-> 0, kind |-> "none", covered |-> {} ]

(* A new process: everything but the journal and the disk starts over. The files   *)
(* the journal names count as covered (resumeLedger.files).                         *)
Fresh(files) ==
  [ phase |-> "start", queue |-> <<>>, covered |-> files, expected |-> {},
    incomplete |-> FALSE, retried |-> 0, ask |-> "none",
    cap |-> CapOriginal, spent |-> 0, held |-> 0, frontier |-> 0,
    tries |-> 0, lost |-> {}, aborted |-> FALSE ]

Init ==
  /\ journal = [ plan |-> <<>>, state |-> [m \in Moves |-> "planned"], files |-> {},
                 outcome |-> "none" ]
  /\ disk = {}
  /\ run = Fresh({})
  /\ work = Idle
  /\ landed = {}
  /\ used = [faults |-> 0, answers |-> 0, cut |-> {}]

Alive  == run.phase # "returned"
Open   == journal.outcome = "none"
Driving(phase) == run.phase = phase /\ run.ask = "none" /\ work.stage = "idle"
Back == work.stage = "back"

-----------------------------------------------------------------------------
(* emit refuses every record once the job is sealed. *)
Sealed(j, outcome) ==
  IF j.outcome = "none" THEN [j EXCEPT !.outcome = outcome] ELSE j

(* runIdeBuild returns: only its budget outlives it, for calls that still run. *)
Returned(r) ==
  [Fresh({}) EXCEPT !.phase = "returned", !.cap = r.cap, !.spent = r.spent,
                    !.held = r.held, !.aborted = r.aborted]

(* finish: the terminal event, and the function returns. *)
finish(outcome) ==
  /\ journal' = Sealed(journal, outcome)
  /\ run' = Returned(run)
  /\ work' = Idle
  /\ UNCHANGED <<disk, landed, used>>

(* A move event. Halves of a split or re-planned move carry ids of their own, which  *)
(* the plan does not list.                                                           *)
MoveEvent(w, state) ==
  IF journal.outcome = "none" /\ ~w.entry.retimed /\ ~w.split
  THEN [journal EXCEPT !.state[w.entry.move] = state]
  ELSE journal

(* engine.runMove is called. *)
Starting(entry) ==
  [Idle EXCEPT !.stage = "call", !.entry = entry, !.todo = <<entry.files>>]

runMove(entry) ==
  /\ work' = Starting(entry)
  /\ journal' = MoveEvent(work', "running")
  /\ UNCHANGED run
  /\ UNCHANGED <<disk, landed, used>>

-----------------------------------------------------------------------------
(* Seeded fault: a call given up on frees its reservation. *)
Affordable_Fault == ~run.aborted /\ run.cap - run.spent >= 1

(* ideBudgetGuard: a call must fit what is neither spent nor held by calls that      *)
(* were given up on but still run.                                                   *)
Affordable == ~run.aborted /\ run.cap - run.spent - run.held >= 1

Paid == [run EXCEPT !.spent = @ + 1]

(* What a call that may or may not have been made leaves of the budget. *)
MaybePaid == {run} \cup (IF Affordable THEN {Paid} ELSE {})

(* withLiveness gives up on a silent call after STALL_MS without cancelling it; the   *)
(* step goes to another model.                                                        *)
CallStalls ==
  /\ work.stage \in {"call", "repair"} /\ Affordable /\ used.faults < MaxFaults
  /\ run' = [run EXCEPT !.held = @ + 1]
  /\ used' = [used EXCEPT !.faults = @ + 1]
  /\ UNCHANGED <<journal, disk, work, landed>>

(* settle of a call nobody waits for any more. *)
LateSettle ==
  /\ run.held > 0
  /\ \E cost \in {0, 1} : run' = [run EXCEPT !.held = @ - 1, !.spent = @ + cost]
  /\ UNCHANGED <<journal, disk, work, landed, used>>

-----------------------------------------------------------------------------
(* runMoveOnce ends in failure. Only the first attempt's carve-out, snapshot or        *)
(* machine refusals end runMove; every other failure goes to counsel.                  *)
AttemptFails(w, kind, r) ==
  LET over == w.rung = 0 /\ kind \in {"blocked", "environment", "snapshot"}
  IN /\ journal' = MoveEvent(w, IF kind = "blocked" THEN "blocked" ELSE "failed")
     /\ work' = [ Idle EXCEPT !.stage = IF over THEN "back" ELSE "counsel",
                              !.entry = w.entry, !.rung = w.rung, !.kind = kind ]
     /\ run' = r
     /\ UNCHANGED <<disk, landed, used>>

(* No answer, no file blocks after the format retry, or files still missing after     *)
(* the coverage retry.                                                                *)
CallFails ==
  /\ work.stage = "call"
  /\ \E r \in MaybePaid : AttemptFails(work, "failed", r)

(* The first half of a move's files and the rest. *)
Halves(files) ==
  LET half == CHOOSE h \in SUBSET files : Cardinality(h) = (Cardinality(files) + 1) \div 2
  IN <<half, files \ half>>

(* A reply that leaves files out of a large move: the move is run in halves. *)
CallSplits ==
  LET files == Head(work.todo)
  IN /\ work.stage = "call" /\ Affordable
     /\ Cardinality(files) > Splittable
     /\ work' = [work EXCEPT !.todo = Halves(files) \o Tail(work.todo), !.split = TRUE]
     /\ run' = Paid
     /\ UNCHANGED <<journal, disk, landed, used>>

(* A usable reply: blocks for some of the declared files and NO-CHANGE for the rest,   *)
(* or any files when none were declared. Unusable blocks are reported as warnings      *)
(* before anything is written.                                                         *)
CallReplies ==
  LET files == Head(work.todo)
  IN /\ work.stage = "call" /\ Affordable
     /\ \E blocks \in SUBSET (IF files = {} THEN Files ELSE files), issues \in BOOLEAN :
          /\ files = {} => blocks # {}
          /\ journal' = IF issues THEN MoveEvent(work, "warned") ELSE journal
          /\ work' = [ work EXCEPT !.stage = IF blocks = {} THEN "verify" ELSE "write",
                                   !.reply = blocks, !.wrote = {}, !.declared = blocks = {},
                                   !.refused = "none", !.repairs = 0,
                                   !.covered = @ \cup (IF blocks = {} THEN files ELSE blocks) ]
     /\ run' = Paid
     /\ UNCHANGED <<disk, landed, used>>

(* The carve-out and the restore point come before the first write. *)
CarveOut ==
  /\ work.stage = "write" /\ work.wrote = {} /\ work.refused = "none" /\ work.reply # {}
  /\ \E kind \in {"blocked", "snapshot"} : AttemptFails(work, kind, run)

(* writeFiles, one file after the other: written, or already identical, or refused;    *)
(* after the last, the check.                                                          *)
Wrote(w, f) ==
  LET left == w.reply \ {f}
  IN [ w EXCEPT !.reply = left,
                !.stage = IF left = {} /\ w.refused = "none" THEN "verify" ELSE "write" ]

WriteFile ==
  LET f == CHOOSE f \in work.reply : TRUE
  IN /\ work.stage = "write" /\ work.reply # {}
     /\ \/ /\ disk' = disk \cup {f}
           /\ journal' = IF Open THEN [journal EXCEPT !.files = @ \cup {f}] ELSE journal
           /\ work' = [Wrote(work, f) EXCEPT !.wrote = @ \cup {f}]
        \/ /\ f \in disk
           /\ work' = Wrote(work, f)
           /\ UNCHANGED <<journal, disk>>
        \/ \E kind \in {"failed", "environment"} :
             /\ work' = Wrote([work EXCEPT !.refused = kind], f)
             /\ UNCHANGED <<journal, disk>>
     /\ UNCHANGED <<run, landed, used>>

(* Every refused write is a warning, and the move fails. *)
WritesRefused ==
  /\ work.stage = "write" /\ work.reply = {}
  /\ AttemptFails(work, work.refused, run)

-----------------------------------------------------------------------------
(* verify: green; red; absent when no check exists or its tools are missing; pending    *)
(* when only files of later moves are missing.                                          *)
Checks == {"green", "absent", "pending", "red"}

(* A reply that changed nothing needs a check to vouch for it; one that declared        *)
(* NO-CHANGE needs only that no check disagrees.                                         *)
Passes(check) ==
  IF work.wrote = {} /\ ~work.declared THEN check \in {"green", "pending"} ELSE check # "red"

(* The part is done, and with the last part the move. *)
VerifyPasses ==
  /\ work.stage = "verify" /\ \E check \in Checks : Passes(check)
  /\ journal' = MoveEvent(work, "done")
  /\ work' = [ Idle EXCEPT !.stage = IF Len(work.todo) = 1 THEN "back" ELSE "call",
                           !.entry = work.entry, !.todo = Tail(work.todo),
                           !.split = work.split, !.rung = work.rung,
                           !.covered = work.covered ]
  /\ landed' = IF Len(work.todo) = 1
               THEN landed \cup {<<work.entry.move, work.entry.files>>} ELSE landed
  /\ UNCHANGED <<disk, run, used>>

VerifyFails ==
  /\ work.stage = "verify" /\ \E check \in Checks : ~Passes(check)
  /\ IF work.wrote = {} /\ ~work.declared THEN AttemptFails(work, "failed", run)
     ELSE /\ journal' = MoveEvent(work, "repairing")
          /\ work' = [work EXCEPT !.stage = "repair"]
          /\ UNCHANGED <<disk, run, landed, used>>

RepairsLeft == work.repairs < (IF work.declared THEN 1 ELSE MaxRepairs)

(* A repair may return any file the check blames. *)
RepairWrites ==
  /\ work.stage = "repair" /\ RepairsLeft /\ Affordable
  /\ \E f \in Files :
       /\ disk' = disk \cup {f}
       /\ journal' = IF Open THEN [journal EXCEPT !.files = @ \cup {f}] ELSE journal
       /\ work' = [work EXCEPT !.stage = "verify", !.repairs = @ + 1, !.wrote = @ \cup {f}]
  /\ run' = Paid
  /\ UNCHANGED <<landed, used>>

RepairFails ==
  /\ work.stage = "repair"
  /\ \E r \in MaybePaid :
       IF RepairsLeft
       THEN \/ /\ work' = [work EXCEPT !.repairs = @ + 1]
               /\ run' = r
               /\ UNCHANGED <<journal, disk, landed, used>>
            \/ AttemptFails(work, "blocked", r)
       ELSE AttemptFails(work, "failed", run)

-----------------------------------------------------------------------------
(* runMove's counsel ladder: brain, frontier, escalation, each worth one guided          *)
(* attempt at most; an aborted call ends the ladder.                                     *)
Guided(rung, r) ==
  /\ work' = [ Starting(work.entry) EXCEPT !.rung = rung, !.kind = work.kind ]
  /\ journal' = MoveEvent(work', "running")
  /\ run' = r
  /\ UNCHANGED <<disk, landed, used>>

GivesUp(r) ==
  /\ work' = [work EXCEPT !.stage = "back"]
  /\ run' = r
  /\ UNCHANGED <<journal, disk, landed, used>>

NextRung(rung, r) ==
  /\ work' = [work EXCEPT !.rung = rung]
  /\ run' = r
  /\ UNCHANGED <<journal, disk, landed, used>>

CounselBrain ==
  /\ work.stage = "counsel" /\ work.rung = 0
  /\ IF run.aborted THEN GivesUp(run)
     ELSE \/ Affordable /\ Guided(1, Paid)
          \/ \E r \in MaybePaid : NextRung(1, r)

(* Seeded fault: the frontier allowance is not checked. *)
CounselFrontier_Fault ==
  /\ work.stage = "counsel" /\ work.rung = 1 /\ ~run.aborted
  /\ \E r \in MaybePaid : NextRung(2, [r EXCEPT !.frontier = @ + 1])

CounselFrontier ==
  /\ work.stage = "counsel" /\ work.rung = 1
  /\ IF run.aborted THEN GivesUp(run)
     ELSE IF run.frontier = FrontierMax THEN NextRung(2, run)
     ELSE \/ Affordable /\ Guided(2, [Paid EXCEPT !.frontier = @ + 1])
          \/ \E r \in MaybePaid : NextRung(2, [r EXCEPT !.frontier = @ + 1])

CounselEscalates ==
  /\ work.stage = "counsel" /\ work.rung = 2
  /\ Guided(3, run) \/ GivesUp(run)

CounselExhausted ==
  /\ work.stage = "counsel" /\ work.rung = 3
  /\ GivesUp(run)

(* What the caller sees of a finished runMove. *)
Result ==
  IF work.kind = "none" THEN "ok"
  ELSE IF work.kind = "blocked" THEN "blocked"
  ELSE IF work.kind = "environment" /\ work.rung = 0 THEN "environment"
  ELSE "failed"

-----------------------------------------------------------------------------
(* The probe, and the check that the workspace lies within the node's roots. *)
ProbeFails ==
  /\ Driving("start")
  /\ \E outcome \in {"error", "checkpoint"} : finish(outcome)

ProbeAnswers ==
  /\ Driving("start")
  /\ run' = [run EXCEPT !.phase = "plan"]
  /\ UNCHANGED <<journal, disk, work, landed, used>>

(* The plan: the journal's own after a restart, less the moves its ledger calls done;  *)
(* a blueprint; or one move, for a small ask or after three unreadable blueprints.      *)
LedgerDone == { m \in Moves : journal.state[m] \in {"done", "warned"} }

(* Seeded fault: the resumed queue ignores the ledger. *)
Queue_Fault(plan) == [k \in DOMAIN plan |-> Whole(plan[k])]

(* The moves left, in the plan's order: the n-th is the one with n at or before it. *)
Queue(plan) ==
  LET left  == { k \in DOMAIN plan : plan[k] \notin LedgerDone }
      At(n) == CHOOSE k \in left : Cardinality({ j \in left : j <= k }) = n
  IN [n \in 1 .. Cardinality(left) |-> Whole(plan[At(n)])]

MakePlan ==
  /\ Driving("plan")
  /\ \E plan \in (IF journal.plan # <<>> THEN {journal.plan} ELSE {Blueprint, <<SingleMove>>}) :
       /\ journal' = IF Open THEN [journal EXCEPT !.plan = plan] ELSE journal
       /\ run' = [ run EXCEPT !.phase = "loop", !.queue = Queue(plan),
                              !.expected = UNION { FilesOf[plan[k]] : k \in DOMAIN plan } ]
  /\ UNCHANGED <<disk, work, landed, used>>

-----------------------------------------------------------------------------
(* The queue: each turn checks the signal and the budget before it runs a move. *)
LoopReturns ==
  /\ Driving("loop") /\ run.queue # <<>> /\ run.aborted
  /\ run' = Returned(run)
  /\ UNCHANGED <<journal, disk, work, landed, used>>

OverBudget == run.spent >= run.cap

AskBudget ==
  /\ Driving("loop") /\ run.queue # <<>> /\ ~run.aborted /\ OverBudget
  /\ run' = [run EXCEPT !.ask = "budget"]
  /\ UNCHANGED <<journal, disk, work, landed, used>>

StartMove ==
  /\ Driving("loop") /\ run.queue # <<>> /\ ~run.aborted /\ ~OverBudget
  /\ runMove(Head(run.queue))

LoopEnds ==
  /\ Driving("loop") /\ run.queue = <<>>
  /\ run' = [run EXCEPT !.phase = "see"]
  /\ UNCHANGED <<journal, disk, work, landed, used>>

(* markCovered. *)
MoveLands ==
  /\ Back /\ Result = "ok"
  /\ run' = [run EXCEPT !.queue = Tail(@), !.covered = @ \cup work.covered, !.retried = 0]
  /\ work' = Idle
  /\ UNCHANGED <<journal, disk, landed, used>>

(* A carve-out ends the build; a machine that cannot reach the files pauses it. *)
MoveBlocked ==
  /\ Back /\ Result = "blocked"
  /\ finish("error")

MoveEnvironment ==
  /\ Back /\ Result = "environment"
  /\ finish("checkpoint")

(* Twenty minutes spent on several files: two smaller moves take its place. *)
MoveRetimed ==
  /\ Back /\ Result = "failed" /\ Cardinality(work.entry.files) > 1
  /\ LET Part(files) == [work.entry EXCEPT !.files = files, !.retimed = TRUE]
         halves == Halves(work.entry.files)
     IN run' = [ run EXCEPT !.queue = <<Part(halves[1]), Part(halves[2])>> \o Tail(@),
                            !.retried = 0 ]
  /\ work' = Idle
  /\ UNCHANGED <<journal, disk, landed, used>>

(* Seeded fault: automatic retries are not counted. *)
AskMove_Fault ==
  /\ Back /\ Result = "failed"
  /\ run' = IF Open THEN [run EXCEPT !.ask = "move"] ELSE Returned(run)
  /\ work' = Idle
  /\ UNCHANGED <<journal, disk, landed, used>>

(* ask, with moveFailAuto's count. *)
AskMove ==
  /\ Back /\ Result = "failed"
  /\ run' = IF Open THEN [run EXCEPT !.ask = "move", !.retried = @ + 1] ELSE Returned(run)
  /\ work' = Idle
  /\ UNCHANGED <<journal, disk, landed, used>>

(* Seeded fault: a skipped move leaves no trace. *)
Skipped_Fault == [run EXCEPT !.ask = "none", !.queue = Tail(@), !.retried = 0]

(* Answers. A skipped move is known to be incomplete; a retry runs the same slot. *)
Skipped == [run EXCEPT !.ask = "none", !.queue = Tail(@), !.incomplete = TRUE,
                       !.retried = 0]

Retried == [run EXCEPT !.ask = "none"]

Answered(r) ==
  /\ run' = r
  /\ UNCHANGED <<journal, disk, work, landed>>

AutoAnswer ==
  /\ run.ask = "move" /\ Open
  /\ Answered(IF run.retried <= AutoRetryLimit THEN Retried ELSE Skipped)
  /\ UNCHANGED used

Answer ==
  /\ run.ask # "none" /\ Open /\ used.answers < MaxAnswers
  /\ used' = [used EXCEPT !.answers = @ + 1]
  /\ \/ /\ run.ask = "move"
        /\ \E r \in {Retried, Skipped} : Answered(r)
     \/ /\ run.ask = "budget"
        /\ work' = Starting(Head(run.queue))
        /\ journal' = MoveEvent(work', "running")
        /\ run' = [run EXCEPT !.ask = "none", !.cap = @ + CapOriginal]
        /\ UNCHANGED <<disk, landed>>
     \/ /\ run.ask = "furnace"
        /\ run' = [run EXCEPT !.ask = "none", !.phase = "fixing"]
        /\ UNCHANGED <<journal, disk, work, landed>>

(* Stop at a question, or finish as it is. *)
AnswerEnds ==
  /\ run.ask # "none" /\ Open
  /\ finish(IF run.ask = "furnace" THEN "checkpoint" ELSE "stopped")

(* waitForAnswer resolves null once the job is sealed. *)
AskSealed ==
  /\ run.ask # "none" /\ ~Open
  /\ run' = Returned(run)
  /\ UNCHANGED <<journal, disk, work, landed, used>>

-----------------------------------------------------------------------------
(* engine.runMove as the later phases see it: the same engine, whose attempts, counsel    *)
(* and splits come down to what was written, what was spent and the answer. Its moves      *)
(* have ids the plan does not list.                                                        *)
runExtra(files, After(_, _)) ==
  \E result \in {"ok", "failed", "environment"}, r \in MaybePaid,
    wrote \in SUBSET (IF files = {} THEN Files ELSE files) :
      /\ result = "ok" \/ wrote # {} => r = Paid /\ Affordable
      /\ disk' = disk \cup wrote
      /\ journal' = [ Sealed(journal, After(result, r).outcome)
                        EXCEPT !.files = IF Open THEN @ \cup wrote ELSE @ ]
      /\ run' = [ After(result, r).run EXCEPT
                     !.covered = IF result = "ok" THEN @ \cup files ELSE @ ]
      /\ UNCHANGED <<work, landed, used>>

Goes(r, phase) == [outcome |-> "none", run |-> [r EXCEPT !.phase = phase]]

(* Run and see: at most one polish move, whose failure changes nothing. *)
SeeSkips ==
  /\ Driving("see")
  /\ run' = [run EXCEPT !.phase = "furnace"]
  /\ UNCHANGED <<journal, disk, work, landed, used>>

SeePolishes ==
  LET After(result, r) == Goes(r, "furnace")
  IN Driving("see") /\ runExtra(journal.files, After)

(* The Furnace pass over what was written: nothing found, or found and fixed at once,   *)
(* or asked about first; an audit that throws is known to be incomplete.                 *)
FurnaceClean ==
  /\ Driving("furnace")
  /\ \E threw \in BOOLEAN :
       run' = [run EXCEPT !.phase = "gate", !.incomplete = @ \/ threw]
  /\ UNCHANGED <<journal, disk, work, landed, used>>

FurnaceFixes ==
  LET After(result, r) == Goes([r EXCEPT !.incomplete = @ \/ result # "ok"], "gate")
  IN /\ Driving("furnace") \/ Driving("fixing")
     /\ journal.files # {} /\ runExtra(journal.files, After)

FurnaceAsks ==
  /\ Driving("furnace") /\ journal.files # {}
  /\ run' = IF Open THEN [run EXCEPT !.ask = "furnace"] ELSE Returned(run)
  /\ UNCHANGED <<journal, disk, work, landed, used>>

(* The mechanical completion gate: everything written is expected from here on; a red     *)
(* check gets a repair move and another check, unless its tools are missing.              *)
GateExpects == run.expected \cup journal.files

GateChecked(red) ==
  /\ Driving("gate")
  /\ run' = [run EXCEPT !.phase = "expect", !.incomplete = @ \/ red]
  /\ UNCHANGED <<journal, disk, work, landed, used>>

GateRepairs ==
  \E green \in BOOLEAN :
    LET After(result, r) ==
          Goes([r EXCEPT !.incomplete = @ \/ result # "ok" \/ ~green], "expect")
    IN Driving("gate") /\ GateExpects # {} /\ runExtra(GateExpects, After)

GateExpected ==
  /\ Driving("expect")
  /\ run' = [run EXCEPT !.phase = "missing", !.expected = GateExpects]
  /\ UNCHANGED <<journal, disk, work, landed, used>>

(* A planned file that no step returned: asked for three times, then known missing. The    *)
(* first attempt to meet a machine that cannot reach the files pauses the build.            *)
MissingPlanned == run.expected \ (run.covered \cup run.lost)

MissingRepair ==
  LET file == CHOOSE f \in MissingPlanned : TRUE
      After(result, r) ==
        IF result = "environment" /\ run.tries = 0
        THEN [outcome |-> "checkpoint", run |-> Returned(r)]
        ELSE Goes([r EXCEPT !.tries = IF result = "ok" THEN 0 ELSE @ + 1], "missing")
  IN /\ Driving("missing") /\ MissingPlanned # {} /\ run.tries < 3
     /\ runExtra({file}, After)

MissingGivenUp ==
  /\ Driving("missing") /\ MissingPlanned # {} /\ run.tries = 3
  /\ run' = [ run EXCEPT !.tries = 0, !.incomplete = TRUE,
                         !.lost = @ \cup {CHOOSE f \in MissingPlanned : TRUE} ]
  /\ UNCHANGED <<journal, disk, work, landed, used>>

MissingEnds ==
  /\ Driving("missing") /\ MissingPlanned = {}
  /\ run' = [run EXCEPT !.phase = "sweep"]
  /\ UNCHANGED <<journal, disk, work, landed, used>>

(* The last sweep reads every expected file: one it cannot read, a marker of unfinished    *)
(* work or a broken reference is known to be incomplete.                                    *)
FinalSweep ==
  /\ Driving("sweep")
  /\ \E found \in BOOLEAN :
       /\ ~(run.expected \subseteq disk) => found
       /\ run' = [run EXCEPT !.phase = "verdict", !.incomplete = @ \/ found]
  /\ UNCHANGED <<journal, disk, work, landed, used>>

(* evaluateCompletionEvidence: a build that changed nothing has no evidence either. *)
canClaimComplete == ~run.incomplete /\ journal.files # {}

Verdict ==
  /\ Driving("verdict")
  /\ finish(IF canClaimComplete THEN "done" ELSE "checkpoint")

-----------------------------------------------------------------------------
(* A fault anywhere in runIdeBuild: the catch seals the job, or returns after Stop. *)
Throws ==
  /\ Alive /\ run.ask = "none" /\ run.phase \notin {"see", "furnace", "fixing"}
  /\ finish("error")

(* stopJob: the job is sealed, the signal raised; the build notices later. *)
Stop ==
  /\ Alive /\ Open /\ used.faults < MaxFaults
  /\ journal' = Sealed(journal, "stopped")
  /\ run' = [run EXCEPT !.aborted = TRUE]
  /\ used' = [used EXCEPT !.faults = @ + 1]
  /\ UNCHANGED <<disk, work, landed>>

(* The process dies and attemptResume relaunches the build in another. *)
Restart ==
  /\ Open /\ used.faults < MaxFaults
  /\ run' = Fresh(journal.files)
  /\ work' = Idle
  /\ used' = [ used EXCEPT !.faults = @ + 1,
                           !.cut = @ \cup { m \in Moves : journal.state[m] = "warned" } ]
  /\ UNCHANGED <<journal, disk, landed>>

Engine ==
  \/ CallFails \/ CallSplits \/ CallReplies \/ CarveOut
  \/ WriteFile \/ WritesRefused
  \/ VerifyPasses \/ VerifyFails \/ RepairWrites \/ RepairFails
  \/ CounselBrain \/ CounselFrontier \/ CounselEscalates \/ CounselExhausted

Build ==
  \/ ProbeFails \/ ProbeAnswers \/ MakePlan
  \/ LoopReturns \/ AskBudget \/ StartMove \/ LoopEnds
  \/ MoveLands \/ MoveBlocked \/ MoveEnvironment \/ MoveRetimed \/ AskMove
  \/ AutoAnswer \/ AskSealed
  \/ SeeSkips \/ SeePolishes \/ FurnaceClean \/ FurnaceFixes \/ FurnaceAsks
  \/ GateRepairs \/ GateExpected \/ \E red \in BOOLEAN : GateChecked(red)
  \/ MissingRepair \/ MissingGivenUp \/ MissingEnds \/ FinalSweep \/ Verdict

Next ==
  \/ Engine \/ Build
  \/ CallStalls \/ LateSettle \/ Throws
  \/ Answer \/ AnswerEnds \/ Stop \/ Restart

Spec == Init /\ [][Next]_vars

(* The build's own steps and its auto-answers happen; people and faults need not. *)
FairSpec == Spec /\ WF_vars(Engine \/ Build)

-----------------------------------------------------------------------------
(* The files a process reported finished for m make up all of m. *)
Landed(m) ==
  LET parts == { p \in landed : p[1] = m }
  IN parts # {} /\ FilesOf[m] \subseteq UNION { p[2] : p \in parts }

(* A build is called done only when every move of its plan was finished by some process,    *)
(* skipped and failed ones included, and every file the plan names is there: across retries, *)
(* splits, later repairs and restarts (runIdeBuild's knownIncomplete, resumeLedger). A move  *)
(* whose last event was a warning when a process died is excepted: its files are still       *)
(* required, its work is not.                                                                *)
HonestDone ==
  journal.outcome = "done" =>
    /\ \A k \in DOMAIN journal.plan :
         Landed(journal.plan[k]) \/ journal.plan[k] \in used.cut
    /\ \A k \in DOMAIN journal.plan : FilesOf[journal.plan[k]] \subseteq disk

(* Without the exception: what the resumed queue is said to guarantee ("Anything NOT        *)
(* already done ... stays in the queue").                                                    *)
HonestDoneAlways ==
  journal.outcome = "done" => \A k \in DOMAIN journal.plan : Landed(journal.plan[k])

(* What is spent and what calls still running may yet cost never exceed the cap a person     *)
(* agreed to, however many calls were given up on (ideBudgetGuard.reserve and settle).       *)
CapHolds == run.spent + run.held <= run.cap

(* A move the journal calls done is never run again, by this process or a resumed one.        *)
NotRepeated ==
  [][\A m \in Moves : journal.state[m] = "done" => journal'.state[m] = "done"]_vars

(* An unattended build does not park: it always gets to a terminal event or to one of the    *)
(* two questions only a person may answer (moveFailAuto, the attempt limits, Verdict).        *)
BuildEnds == []<>(~Open \/ run.ask \in {"budget", "furnace"})
=============================================================================
