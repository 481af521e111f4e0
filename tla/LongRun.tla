-------------------------------- MODULE LongRun --------------------------------
(***************************************************************************)
(* One long-run job: the segment runner and its ledger (longrun.mjs), the     *)
(* tranche fuse and metering (longrunbilling.mjs, longrunglue.mjs) and the     *)
(* /jobs operations that start, pause, resume and approve (server.mjs).        *)
(*                                                                           *)
(* A driver's code runs without interruption between two model calls, so a     *)
(* step below goes from one await to the next. The job's files are shared by   *)
(* the server processes; a deploy may have two of them up at once. Money is    *)
(* counted in model calls: a call costs one unit or nothing.                   *)
(***************************************************************************)
EXTENDS Integers, Sequences, FiniteSets

CONSTANTS
  Units,           \* the number of units in the plan
  Tranche,         \* what one approval adds
  MaxOutstanding,  \* GUEST_MAX_OUTSTANDING_TRANCHES
  Credits,         \* the credits of the account
  NumProcs,        \* bound: server processes, in boot order
  MaxRequests      \* bound: pause, resume, start and approve requests

ASSUME LongRunConstants ==
  /\ Units \in Nat \ {0} /\ Tranche \in Nat \ {0} /\ MaxOutstanding \in Nat
  /\ Credits \in Nat /\ Tranche <= Credits /\ NumProcs \in Nat \ {0} /\ MaxRequests \in Nat

Procs == 1 .. NumProcs
Plan  == 1 .. Units

VARIABLES
  meta,      \* meta.json: the job's state
  ledger,    \* ledger.jsonl
  approved, spent,   \* budget.jsonl, folded
  charged,   \* what the account was charged for
  up,        \* the server processes running
  driver,    \* LONGRUN_ACTIVE and the runJob behind it, one per process
  adrift,    \* abandoned calls still running, per process
  seen,      \* history: two drivers at once, a process lost beside another, late charges
  tally       \* how much of each bound has been spent

longRunVars == <<meta, ledger, approved, spent, charged, up, driver, adrift, seen, tally>>

States == {"ready", "running", "paused", "halted", "done"}

(* The line of a substituted model has neither a unit nor an outcome. *)
Fallback == [unit |-> 0, outcome |-> "none"]
Lines == [unit : Plan, outcome : {"done", "failed"}] \cup {Fallback}

Off == [on |-> FALSE, unit |-> 0, attempt |-> 0]

LongRunTypeOK ==
  /\ meta \in States
  /\ ledger \in Seq(Lines)
  /\ approved \in Nat /\ spent \in Nat /\ charged \in Nat
  /\ up \subseteq Procs
  /\ driver \in [Procs -> {Off} \cup [on : {TRUE}, unit : Plan, attempt : 1 .. 2]]
  /\ adrift \in [Procs -> Nat]
  /\ seen \in [shared : BOOLEAN, orphaned : BOOLEAN, late : Nat, cut : Nat]
  /\ tally \in [boots : Nat, requests : Nat]

(* createJob with its first tranche approved, in the first process. *)
LongRunInit ==
  /\ meta = "ready"
  /\ ledger = <<>>
  /\ approved = Tranche /\ spent = 0 /\ charged = 0
  /\ up = {1}
  /\ driver = [i \in Procs |-> Off]
  /\ adrift = [i \in Procs |-> 0]
  /\ seen = [shared |-> FALSE, orphaned |-> FALSE, late |-> 0, cut |-> 0]
  /\ tally = [boots |-> 1, requests |-> 0]

-----------------------------------------------------------------------------
(* Seeded fault: any line of a unit counts as its completion. *)
Remaining_Fault(lines) == { u \in Plan : \A k \in DOMAIN lines : lines[k].unit # u }

(* progress: a unit is done when a line says so. *)
Remaining(lines) ==
  { u \in Plan : \A k \in DOMAIN lines : lines[k] # [unit |-> u, outcome |-> "done"] }

(* The first of them in plan order. *)
Firsts(units) == { u \in units : \A v \in units : u <= v }

(* watchdogVerdict: the last two lines failed the same unit, or the last three were the     *)
(* same step with the same result.                                                          *)
TwoStrike(lines) ==
  LET n == Len(lines)
  IN n >= 2 /\ lines[n] = lines[n - 1] /\ lines[n].outcome = "failed"

MayLoop(lines) ==
  LET n == Len(lines)
  IN n >= 3 /\ lines[n] = lines[n - 1] /\ lines[n] = lines[n - 2] /\ lines[n] # Fallback

Verdicts(lines) ==
  IF TwoStrike(lines) THEN {"halt"}
  ELSE IF MayLoop(lines) THEN {"halt", "ok"} ELSE {"ok"}

(* Seeded fault: an exactly spent tranche buys one more unit. *)
FuseBlown_Fault(paid) == paid > approved

(* budget.remaining() <= 0. *)
FuseBlown(paid) == paid >= approved

(* The top of runJob's loop, up to the next model call: the state to write and the driver. *)
LoopTop(state, lines, paid) ==
  IF state = "paused" THEN {<<"paused", Off>>}
  ELSE IF Remaining(lines) = {} THEN {<<"done", Off>>}
  ELSE { IF verdict = "halt" THEN <<"halted", Off>>
         ELSE IF FuseBlown(paid) THEN <<"paused", Off>>
         ELSE <<state, [on |-> TRUE, unit |-> u, attempt |-> 1]>>
         : verdict \in Verdicts(lines), u \in Firsts(Remaining(lines)) }

Driven == { i \in up : driver[i].on }

(* startLongRun: one driver per process; runJob marks the job running. A retired model is    *)
(* replaced and the ledger says so; a job with no runnable model is left as it is.           *)
startLongRun(i, state) ==
  \/ /\ driver[i].on \/ state # "ready"
     /\ meta' = state
     /\ UNCHANGED <<ledger, driver, seen>>
  \/ /\ ~driver[i].on /\ state = "ready"
     /\ ledger' \in {ledger, Append(ledger, Fallback)}
     /\ \E top \in LoopTop("running", ledger', spent) :
          /\ meta' = top[1]
          /\ driver' = [driver EXCEPT ![i] = top[2]]
          /\ seen' = [seen EXCEPT !.shared = @ \/ (top[2].on /\ Driven # {})]
  \/ /\ ~driver[i].on /\ state = "ready"
     /\ meta' = "ready"
     /\ UNCHANGED <<ledger, driver, seen>>

Request(i) ==
  /\ i \in up /\ tally.requests < MaxRequests
  /\ tally' = [tally EXCEPT !.requests = @ + 1]

Start(i) ==
  /\ Request(i)
  /\ startLongRun(i, meta)
  /\ UNCHANGED <<approved, spent, charged, up, adrift>>

(* resumeJob, whatever the state is unless done, and a driver at once. *)
Resume(i) ==
  /\ Request(i)
  /\ startLongRun(i, IF meta = "done" THEN "done" ELSE "ready")
  /\ UNCHANGED <<approved, spent, charged, up, adrift>>

(* pauseJob writes the state; the driver sees it before its next unit. *)
Pause(i) ==
  /\ Request(i)
  /\ meta' = "paused"
  /\ UNCHANGED <<ledger, approved, spent, charged, up, driver, adrift, seen>>

Balance == IF charged >= Credits THEN 0 ELSE Credits - charged

(* approve-tranche: the account must cover what is being approved, and a guest's unspent     *)
(* tranches are limited.                                                                     *)
Outstanding == IF spent >= approved THEN 0 ELSE (approved - spent + Tranche - 1) \div Tranche

Approve(i) ==
  /\ Request(i)
  /\ Balance >= Tranche /\ Outstanding < MaxOutstanding
  /\ approved' = approved + Tranche
  /\ UNCHANGED <<meta, ledger, spent, charged, up, driver, adrift, seen>>

-----------------------------------------------------------------------------
Line(i, outcome) == Append(ledger, [unit |-> driver[i].unit, outcome |-> outcome])

(* meter: the account is charged and the tranche counted when the answer arrives, before it   *)
(* is validated.                                                                              *)
Metered(cost) ==
  /\ charged' = charged + cost
  /\ spent' = spent + cost

(* The unit counts, and the loop goes on. *)
UnitDone(i) ==
  /\ driver[i].on
  /\ \E cost \in {0, 1} :
       /\ Metered(cost)
       /\ ledger' = Line(i, "done")
       /\ \E top \in LoopTop(meta, ledger', spent + cost) :
            /\ meta' = top[1]
            /\ driver' = [driver EXCEPT ![i] = top[2]]
  /\ UNCHANGED <<approved, up, adrift, seen, tally>>

(* Seeded fault: a unit is tried until it passes. *)
UnitRetried_Fault(i) ==
  /\ driver[i].on
  /\ \E cost \in {0, 1} : Metered(cost)
  /\ driver' = [driver EXCEPT ![i].attempt = @ + 1]
  /\ UNCHANGED <<meta, ledger, approved, up, adrift, seen, tally>>

(* An error or a rejected result: once more with the reason, and no check in between. *)
UnitRetried(i) ==
  /\ driver[i].on /\ driver[i].attempt = 1
  /\ \E cost \in {0, 1} : Metered(cost)
  /\ driver' = [driver EXCEPT ![i].attempt = 2]
  /\ UNCHANGED <<meta, ledger, approved, up, adrift, seen, tally>>

UnitFails(i) ==
  /\ driver[i].on /\ driver[i].attempt = 2
  /\ \E cost \in {0, 1} : Metered(cost)
  /\ ledger' = Line(i, "failed")
  /\ \E verdict \in Verdicts(ledger') : meta' = IF verdict = "halt" THEN "halted" ELSE "paused"
  /\ driver' = [driver EXCEPT ![i] = Off]
  /\ UNCHANGED <<approved, up, adrift, seen, tally>>

(* Seeded fault: only the first attempt races the stall clock. *)
Stalls_Fault(i) ==
  /\ driver[i].on /\ driver[i].attempt = 1
  /\ meta' = "halted"
  /\ driver' = [driver EXCEPT ![i] = Off]
  /\ adrift' = [adrift EXCEPT ![i] = @ + 1]
  /\ UNCHANGED <<ledger, approved, spent, charged, up, seen, tally>>

(* The stall clock wins the race: the call is abandoned, not cancelled. *)
Stalls(i) ==
  /\ driver[i].on
  /\ meta' = "halted"
  /\ driver' = [driver EXCEPT ![i] = Off]
  /\ adrift' = [adrift EXCEPT ![i] = @ + 1]
  /\ UNCHANGED <<ledger, approved, spent, charged, up, seen, tally>>

(* Seeded fault: an abandoned call still records its unit. *)
LateAnswer_Fault(i) ==
  /\ adrift[i] > 0 /\ Remaining(ledger) # Plan
  /\ adrift' = [adrift EXCEPT ![i] = @ - 1]
  /\ ledger' = Append(ledger, [unit |-> 1, outcome |-> "done"])
  /\ UNCHANGED <<meta, approved, spent, charged, up, driver, seen, tally>>

(* An abandoned call answers: it is paid for and recorded nowhere else. *)
LateAnswer(i) ==
  /\ adrift[i] > 0
  /\ adrift' = [adrift EXCEPT ![i] = @ - 1]
  /\ \E cost \in {0, 1} :
       /\ Metered(cost)
       /\ seen' = [seen EXCEPT !.late = @ + cost]
  /\ UNCHANGED <<meta, ledger, approved, up, driver, tally>>

(* A fault in the runner, say a ledger line that could not be written: startLongRun's catch   *)
(* pauses the job.                                                                            *)
Throws(i) ==
  /\ driver[i].on
  /\ \E cost \in {0, 1} : Metered(cost)
  /\ meta' = "paused"
  /\ driver' = [driver EXCEPT ![i] = Off]
  /\ UNCHANGED <<ledger, approved, up, adrift, seen, tally>>

-----------------------------------------------------------------------------
(* A process dies; a call in it may have been charged and not yet counted. *)
Dies(i) ==
  /\ i \in up
  /\ up' = up \ {i}
  /\ driver' = [driver EXCEPT ![i] = Off]
  /\ adrift' = [adrift EXCEPT ![i] = 0]
  /\ \E half \in (IF driver[i].on \/ adrift[i] > 0 THEN {0, 1} ELSE {0}) :
       /\ charged' = charged + half
       /\ seen' = [ seen EXCEPT !.orphaned = @ \/ up' # {}, !.cut = @ + half ]
  /\ UNCHANGED <<meta, ledger, approved, spent, tally>>

(* Seeded fault: the boot sweep is missing. *)
Boots_Fault ==
  /\ tally.boots < NumProcs /\ Cardinality(up) < 2
  /\ up' = up \cup {tally.boots + 1}
  /\ tally' = [tally EXCEPT !.boots = @ + 1]
  /\ UNCHANGED <<meta, ledger, approved, spent, charged, driver, adrift, seen>>

(* sealInterrupted at boot: a running job is taken to be driven by nobody. *)
Boots ==
  /\ tally.boots < NumProcs /\ Cardinality(up) < 2
  /\ up' = up \cup {tally.boots + 1}
  /\ tally' = [tally EXCEPT !.boots = @ + 1]
  /\ meta' = IF meta = "running" THEN "paused" ELSE meta
  /\ UNCHANGED <<ledger, approved, spent, charged, driver, adrift, seen>>

Runs(i) == UnitDone(i) \/ UnitRetried(i) \/ UnitFails(i)

LongRunNext ==
  \/ \E i \in Procs :
       \/ Start(i) \/ Resume(i) \/ Pause(i) \/ Approve(i)
       \/ Runs(i) \/ Stalls(i) \/ LateAnswer(i) \/ Throws(i) \/ Dies(i)
  \/ Boots

LongRunSpec == LongRunInit /\ [][LongRunNext]_longRunVars

(* Only the stall clock is sure to fire: a model may never answer. *)
LongRunFairSpec == LongRunSpec /\ \A i \in Procs : WF_longRunVars(Stalls(i))

-----------------------------------------------------------------------------
(* A job called done has every unit's completion on disk, through retries, pauses, restarts   *)
(* and a second driver (runJob, progress).                                                    *)
DoneIsComplete ==
  meta = "done" =>
    \A u \in Plan : \E k \in DOMAIN ledger : ledger[k] = [unit |-> u, outcome |-> "done"]

(* A unit is completed once, abandoned calls and restarts notwithstanding, as long as no two   *)
(* drivers ran at once (LONGRUN_ACTIVE; a deploy's overlap escapes it).                        *)
CompletedOnce ==
  ~seen.shared =>
    \A j, k \in DOMAIN ledger :
      ledger[j] = ledger[k] /\ ledger[j].outcome = "done" => j = k

(* The fuse overshoots by one unit at most, two calls, apart from what abandoned calls add      *)
(* later (budget.remaining before each unit; W1 of the billing notes).                          *)
FuseBounded == ~seen.shared => spent - seen.late <= approved + 1

(* A job that says running is being run, unless no process is up to say otherwise or one died   *)
(* beside another (sealInterrupted; W8).                                                        *)
RunningIsDriven == meta = "running" => Driven # {} \/ up = {} \/ seen.orphaned

(* A driver never hangs: each comes to rest, whatever its model does (raceUnit). *)
DriverRests == \A i \in Procs : driver[i].on ~> ~driver[i].on

(* What W6 is said to give: the ledger is appended to by one driver. *)
NeverShared == ~seen.shared

(* What W8 is said to give. *)
RunningIsDrivenAlways == meta = "running" => Driven # {} \/ up = {}

(* "resume means GO": a job marked ready that has begun is being driven. *)
ReadyIsDriven == meta = "ready" /\ ledger # <<>> => Driven # {} \/ up = {}

(* "resumed; ledger is the memory": a halted job that is resumed gets to call its model. *)
HaltedCanResume == meta = "halted" => "ok" \in Verdicts(ledger)

(* What W3 is said to give: unbilled spend stays within one tranche. *)
UnbilledBounded == charged <= Credits + Tranche

(* A finished job stays finished. *)
DoneStays == [][meta = "done" => meta' = "done"]_longRunVars
=============================================================================
