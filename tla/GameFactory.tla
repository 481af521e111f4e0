------------------------------ MODULE GameFactory ------------------------------
(* The Game Factory's task store (gamefactorystore.mjs) and the orchestrator that   *)
(* runs its tasks on a remote worker (gamefactoryorchestrator.mjs): one game, its    *)
(* tasks, the owner's commands, the dispatch journal with its security latch, and    *)
(* the instances of a rolling deploy, one of which leads.                            *)
(*                                                                                   *)
(* Every store or journal method is one SQLite transaction. An instance takes one    *)
(* step per transaction or per answer of the worker, so that two instances           *)
(* interleave wherever the databases let them. The lifecycle states in which a game  *)
(* accepts work are one state, "LIVE"; a deployed game is not modelled.              *)
EXTENDS Integers, FiniteSets

CONSTANTS
  Tasks,         \* the tasks of the game
  Instances,     \* the processes that run an orchestrator
  None,          \* no instance, no task
  MaxAttempts,   \* maxAttempts of every task, and the bound on its claims
  MaxCommands,   \* bound: commands of the owner, but for those that end a hold
  MaxFaults,     \* bound: probes that prove nothing, calls the worker does not answer,
                 \* leadership leases that run out and processes that die, together
  Stalls         \* may a process freeze between two transactions that no await separates?

ASSUME GameFactoryConstants ==
  /\ IsFiniteSet(Tasks) /\ None \notin Tasks \cup Instances /\ Instances # {}
  /\ MaxAttempts \in Nat \ {0}
  /\ {MaxCommands, MaxFaults} \subseteq Nat
  /\ Stalls \in BOOLEAN

Runs == Tasks \X (1 .. MaxAttempts)     \* runId: the task and its attempt

VARIABLES
  safe,       \* safeToRetry of each task
  db,         \* the store: the game's row, its tasks and its compatible checkpoints
  journal,    \* the dispatch journal: one row per run
  epoch,      \* securityEpoch: how many incidents the journal has recorded
  suspended,  \* worker_suspension
  leader,     \* orchestrator_leader
  inst,       \* runTick of each instance
  remote,     \* the worker's payload of each run
  tainted,    \* history: runs that were open when a loss of isolation was recorded
  used        \* how much of each bound has been spent

vars == <<safe, db, journal, epoch, suspended, leader, inst, remote, tainted, used>>

Hold     == {"PAUSED", "BLOCKED", "FAILED"}
Asked    == {"PAUSE_REQUESTED", "STOP_REQUESTED"}
Alive    == {"running", "stopping"}
Terminal == {"SUCCEEDED", "FAILED", "PAUSED", "CANCELLED"}

Task == [status  : {"QUEUED", "RUNNING", "PAUSED", "COMPLETED", "FAILED", "CANCELLED"},
         attempt : 0 .. MaxAttempts,
         cancel  : BOOLEAN,    \* cancelRequested
         stopped : BOOLEAN,    \* result.securityStopped
         ended   : Nat]        \* endedAt, in checkpoints written before it

Store == [state : Hold \cup {"LIVE"}, resume : Hold \cup {"LIVE", ""},
          op    : Asked \cup {"", "PAUSED", "STOPPED"}, task : [Tasks -> Task], stamp : Nat,
          checkpoints : SUBSET [owner : Tasks \cup {None}, at : Nat]]

Instance ==
  [pc      : {"idle", "probe", "observe", "next", "status", "start", "cancel", "terminal",
              "collect", "complete", "finish", "stop", "ask", "claim", "intent", "send",
              "starting"},
   before  : Nat, expected : Nat,      \* security epochs this tick relies on
   secure  : BOOLEAN,                  \* workerSecure
   admit   : BOOLEAN,                  \* no incident so far in this tick
   todo    : SUBSET Runs,              \* activeDispatches not reconciled yet
   run     : Runs \cup {<<None, 0>>},  \* the dispatch in hand
   got     : Terminal \cup {"none"},   \* its terminal status
   witness : BOOLEAN,                  \* workerProof, for a proof of absence
   claims  : BOOLEAN]                  \* the dispatch in hand was claimed by this tick

Idle == [pc |-> "idle", before |-> 0, expected |-> 0, secure |-> FALSE, admit |-> FALSE,
         todo |-> {}, run |-> <<None, 0>>, got |-> "none", witness |-> FALSE,
         claims |-> FALSE]

TypeOK ==
  /\ safe \in [Tasks -> BOOLEAN]
  /\ db \in Store
  /\ journal \in [Runs -> [status : {"none", "open", "closed", "latched", "interrupted"},
                           seen : BOOLEAN]]
  /\ epoch \in Nat /\ suspended \in BOOLEAN
  /\ leader \in Instances \cup {None}
  /\ inst \in [Instances -> Instance]
  /\ remote \in [Runs -> Alive \cup Terminal \cup {"absent", "never"}]
  /\ tainted \subseteq Runs

Init ==
  /\ safe \in [Tasks -> BOOLEAN]
  /\ db = [state |-> "LIVE", resume |-> "", op |-> "", checkpoints |-> {}, stamp |-> 0,
           task |-> [t \in Tasks |-> [status |-> "QUEUED", attempt |-> 0, cancel |-> FALSE,
                                      stopped |-> FALSE, ended |-> 0]]]
  /\ journal = [r \in Runs |-> [status |-> "none", seen |-> FALSE]]
  /\ epoch = 0 /\ suspended = FALSE /\ leader = None
  /\ inst = [i \in Instances |-> Idle]
  /\ remote = [r \in Runs |-> "absent"]
  /\ tainted = {}
  /\ used = [commands |-> 0, faults |-> 0]

Fault == used.faults < MaxFaults /\ used' = [used EXCEPT !.faults = @ + 1]

-----------------------------------------------------------------------------
(* The store.                                                                       *)

Running(d) == \E t \in Tasks : d.task[t].status = "RUNNING"

(* The lifecycle state to come back to from a hold. *)
ResumeState(d) == IF d.state \in Hold THEN d.resume ELSE d.state

Retasked(d, from, to) ==
  [d EXCEPT !.task = [t \in Tasks |-> IF d.task[t].status \in from
                                      THEN [d.task[t] EXCEPT !.status = to, !.ended = d.stamp]
                                      ELSE d.task[t]]]

createCheckpoint(d, owner) ==
  [d EXCEPT !.checkpoints = @ \cup {[owner |-> owner, at |-> d.stamp]}, !.stamp = @ + 1]

finalizePause(d) ==
  IF Running(d) THEN d
  ELSE [createCheckpoint(Retasked(d, {"QUEUED"}, "PAUSED"), None)
          EXCEPT !.state = "PAUSED", !.resume = ResumeState(d), !.op = "PAUSED"]

finalizeStop(d) ==
  IF Running(d) THEN d
  ELSE [createCheckpoint(Retasked(d, {"QUEUED", "PAUSED"}, "CANCELLED"), None)
          EXCEPT !.state = "FAILED", !.resume = ResumeState(d), !.op = "STOPPED"]

Finalized(d) ==
  CASE d.op = "PAUSE_REQUESTED" -> finalizePause(d)
    [] d.op = "STOP_REQUESTED"  -> finalizeStop(d)
    [] OTHER -> d

(* A worker that failed, or whose lease ran out: what becomes of the game. *)
Held(d, state) == [d EXCEPT !.state = state, !.resume = ResumeState(d), !.op = ""]

Ended(d, t, status) ==
  [d EXCEPT !.task[t].status = status, !.task[t].ended = d.stamp]

(* The lease a worker call must still hold. *)
Owns(d, r) == d.task[r[1]].status = "RUNNING" /\ d.task[r[1]].attempt = r[2]

(* Seeded fault: the worker's status becomes the task's. *)
completeTask_Fault(d, r, status) ==
  IF Owns(d, r) THEN Finalized(createCheckpoint(Ended(d, r[1], status), r[1])) ELSE d

(* completeTask: success is kept even when the owner asked to stop; anything else is *)
(* the safe boundary the owner asked for.                                            *)
completeTask(d, r, status) ==
  LET t       == r[1]
      stopped == d.task[t].cancel /\ status # "SUCCEEDED"
      to      == IF ~stopped THEN "COMPLETED"
                 ELSE IF d.op = "STOP_REQUESTED" THEN "CANCELLED" ELSE "PAUSED"
  IN IF Owns(d, r) THEN Finalized(createCheckpoint(Ended(d, t, to), t)) ELSE d

(* failTask. *)
failTask(d, r, retryable) ==
  LET t     == r[1]
      again == retryable /\ safe[t] /\ d.task[t].attempt < MaxAttempts
  IN IF ~Owns(d, r) THEN d
     ELSE IF d.task[t].cancel /\ d.op \in Asked THEN Held(Ended(d, t, "FAILED"), "BLOCKED")
     ELSE IF again THEN Ended(d, t, "QUEUED")
     ELSE Held(Ended(d, t, "FAILED"), "FAILED")

(* securityStopTask: absorbing for this attempt, whatever the task had become; the    *)
(* checkpoints a stale completion could have written are no longer compatible.        *)
securityStopTask(d, r) ==
  LET t           == r[1]
      row         == d.task[t]
      was         == IF row.status \in {"RUNNING", "QUEUED"} THEN d.stamp ELSE row.ended
      unsafe      == { c \in d.checkpoints : c.owner = t \/ c.at >= was }
      unconfirmed == row.cancel /\ (d.op # "" \/ d.state = "PAUSED")
      after       == [Ended(d, t, "FAILED") EXCEPT !.task[t].stopped = TRUE,
                                                   !.task[t].cancel = FALSE,
                                                   !.checkpoints = @ \ unsafe]
  IN IF row.attempt # r[2] \/ row.stopped THEN d
     ELSE Held(after, IF unconfirmed THEN "BLOCKED" ELSE "FAILED")

(* reconcile: the lease that ran out, then the owner's operations that wait for nothing. *)
Expired(d, t) ==
  IF d.op \in Asked THEN Held(Ended(d, t, "FAILED"), "BLOCKED")
  ELSE IF safe[t] /\ d.task[t].attempt < MaxAttempts THEN Ended(d, t, "QUEUED")
  ELSE Held(Ended(d, t, "FAILED"), "FAILED")

reconcile(d, t) == Finalized(IF t = None THEN d ELSE Expired(d, t))

-----------------------------------------------------------------------------
(* The owner's commands (executeCommand), one transaction each. Resume and retry, which   *)
(* need a hold to end, are not counted against the bound.                                 *)

Sets(new) ==
  /\ db' = new
  /\ UNCHANGED <<safe, journal, epoch, suspended, leader, inst, remote, tainted>>

Command(new) ==
  /\ used.commands < MaxCommands /\ used' = [used EXCEPT !.commands = @ + 1]
  /\ Sets(new)

Cancelling(d) ==
  [d EXCEPT !.task = [t \in Tasks |-> [d.task[t] EXCEPT !.cancel = @ \/ d.task[t].status = "RUNNING"]]]

Pause ==
  /\ db.state # "PAUSED"
  /\ Command(Finalized(Cancelling([db EXCEPT !.op = "PAUSE_REQUESTED"])))

Stop ==
  Command(Finalized(Retasked(Cancelling([db EXCEPT !.op = "STOP_REQUESTED"]), {"QUEUED"}, "CANCELLED")))

Resume ==
  /\ db.state = "PAUSED" /\ db.checkpoints # {} /\ db.resume = "LIVE"
  /\ UNCHANGED used
  /\ Sets([db EXCEPT !.state = "LIVE", !.resume = "", !.op = "",
       !.task = [t \in Tasks |-> IF db.task[t].status = "PAUSED"
                                 THEN [db.task[t] EXCEPT !.status = "QUEUED", !.cancel = FALSE, !.ended = 0]
                                 ELSE db.task[t]]])

(* retry and unblock leave the tasks alone. *)
Retry ==
  /\ db.state \in {"BLOCKED", "FAILED"}
  /\ UNCHANGED used
  /\ Sets([db EXCEPT !.state = "LIVE", !.resume = "", !.op = ""])

Block ==
  /\ db.state # "BLOCKED"
  /\ Command([db EXCEPT !.state = "BLOCKED", !.resume = db.state, !.op = ""])

(* advance, transition and revise: to another lifecycle state, or back to the one held. *)
Transition ==
  /\ ResumeState(db) = "LIVE"
  /\ Command([db EXCEPT !.state = "LIVE", !.resume = "", !.op = ""])

-----------------------------------------------------------------------------
(* The journal. *)

Open(r)         == journal[r].status = "open"
Latched(r)      == journal[r].status \in {"latched", "interrupted"}     \* isSecurityStatus
Active          == { r \in Runs : journal[r].status \in {"open", "latched"} }
pendingSecurity == \E r \in Runs : journal[r].status = "latched"

(* writeSecurityLatch on a set of rows: an incident for each that was not latched yet. *)
securityLatch(rows) ==
  LET new == { r \in rows : journal[r].status \in {"open", "closed"} }
  IN /\ journal' = [r \in Runs |-> IF r \in new THEN [journal[r] EXCEPT !.status = "latched"]
                                   ELSE journal[r]]
     /\ epoch' = epoch + Cardinality(new)

(* update with a response of the worker: a row that has ended or is latched stays. *)
Seen(r) == journal' = [journal EXCEPT ![r].seen = @ \/ Open(r)]

(* An instance goes on: with the next dispatch, or with the end of its tick. *)
Go(i, pc) == inst' = [inst EXCEPT ![i].pc = pc]
Done(i)   == inst' = [inst EXCEPT ![i] = IF @.claims THEN Idle
                                         ELSE [@ EXCEPT !.pc = "next", !.run = <<None, 0>>,
                                                        !.got = "none", !.witness = FALSE]]

(* The points of a tick that await the worker. Unless a process can freeze there, claimOne *)
(* has its intent on record and its dispatch out before any other answer or timer comes.   *)
Calls  == {"probe", "status", "start", "cancel", "collect", "ask", "starting"}
Prompt == Stalls \/ \A i \in Instances : inst[i].pc \notin {"claim", "intent", "send"}

At(i, pc) == inst[i].pc = pc /\ (pc \in Calls => Prompt)
Mine(i)   == inst[i].run

(* proofLossFence: is this dispatch caught by an incident that is not this tick's? *)
Fenced(i) == Latched(Mine(i)) \/ pendingSecurity \/ epoch # inst[i].expected

(* securityLatch and then interruptForProofLoss, from its store repair on. *)
Interrupt(i, witness) ==
  /\ securityLatch({Mine(i)})
  /\ inst' = [inst EXCEPT ![i].pc = "stop", ![i].witness = witness]

-----------------------------------------------------------------------------
(* runTick, up to its list of dispatches. *)

acquireLeadership(i) ==
  /\ At(i, "idle") /\ leader \in {None, i}
  /\ leader' = i
  /\ inst' = [inst EXCEPT ![i] = [Idle EXCEPT !.pc = "probe", !.before = epoch]]
  /\ UNCHANGED <<safe, db, journal, epoch, suspended, remote, tainted, used>>

(* The list, with every dispatch on it latched when there is an incident. *)
Listed(i, secure, incident) ==
  /\ IF incident THEN securityLatch(Active) ELSE UNCHANGED <<journal, epoch>>
  /\ inst' = [inst EXCEPT ![i] = [@ EXCEPT !.pc = "next", !.secure = secure, !.todo = Active,
                                           !.before = 0, !.expected = epoch,
                                           !.admit = secure /\ ~incident /\ epoch = inst[i].before]]
  /\ UNCHANGED tainted

Observes(i, secure) ==
  /\ inst' = [inst EXCEPT ![i].pc = "observe", ![i].secure = secure]
  /\ suspended' = FALSE
  /\ UNCHANGED <<journal, epoch, tainted>>

(* A probe that proves isolation. After a suspension it resumes, unless the grace      *)
(* window is over or another container answers.                                        *)
ProbeSecure(i) ==
  /\ At(i, "probe")
  /\ \/ /\ Listed(i, TRUE, pendingSecurity)
        /\ suspended' = FALSE
     \/ /\ suspended
        /\ Observes(i, TRUE)
  /\ UNCHANGED <<safe, db, leader, remote, used>>

(* A probe that only shows the node is not connected: the lane is suspended, for no    *)
(* longer than the grace window.                                                        *)
ProbeOffline(i) ==
  /\ At(i, "probe") /\ Fault
  /\ IF pendingSecurity THEN Observes(i, FALSE)
     ELSE \/ /\ suspended' = TRUE
             /\ inst' = [inst EXCEPT ![i].pc = "next"]
             /\ UNCHANGED <<journal, epoch, tainted>>
          \/ /\ suspended
             /\ Observes(i, FALSE)
  /\ UNCHANGED <<safe, db, leader, remote>>

ProbeInsecure(i) ==
  /\ At(i, "probe") /\ Fault
  /\ Observes(i, FALSE)
  /\ UNCHANGED <<safe, db, leader, remote>>

(* observeProofLoss: the incident and the latch of every open dispatch, in one          *)
(* transaction.                                                                          *)
observeProofLoss(i) ==
  LET open == { r \in Runs : Open(r) }
  IN /\ At(i, "observe")
     /\ journal' = [r \in Runs |-> IF Open(r) THEN [journal[r] EXCEPT !.status = "latched"]
                                   ELSE journal[r]]
     /\ epoch' = epoch + Cardinality(open) + 1
     /\ tainted' = tainted \cup open
     /\ inst' = [inst EXCEPT ![i] = [@ EXCEPT !.pc = "next", !.admit = FALSE,
                                              !.todo = Active, !.expected = epoch']]
     /\ UNCHANGED <<safe, db, suspended, leader, remote, used>>

-----------------------------------------------------------------------------
(* reconcileOne. *)

(* The next dispatch of the list: interrupted at once under an incident, asked for      *)
(* otherwise.                                                                            *)
NextDispatch(i) ==
  /\ At(i, "next")
  /\ \E r \in inst[i].todo :
       LET me == [inst[i] EXCEPT !.todo = @ \ {r}, !.run = r]
       IN IF ~inst[i].secure \/ pendingSecurity
          THEN /\ securityLatch({r})
               /\ inst' = [inst EXCEPT ![i] = [me EXCEPT !.pc = "stop", !.witness = inst[i].secure]]
          ELSE /\ inst' = [inst EXCEPT ![i] = IF Latched(r) THEN [me EXCEPT !.run = <<None, 0>>]
                                             ELSE [me EXCEPT !.pc = "status"]]
               /\ UNCHANGED <<journal, epoch>>
  /\ UNCHANGED <<safe, db, suspended, leader, remote, tainted, used>>

(* A payload that is still running: heartbeatTask renews its lease, unless the task has  *)
(* left this run, and a pause or stop the owner asked for is passed on. When a lease runs *)
(* out is left to the clock (TickEnds), renewed or not.                                   *)
StillRunning(i) ==
  LET r == Mine(i)
  IN IF Owns(db, r)
     THEN /\ Seen(r)
          /\ IF db.task[r[1]].cancel THEN Go(i, "cancel") ELSE Done(i)
          /\ UNCHANGED epoch
     ELSE Interrupt(i, FALSE)

(* No answer. Within the recovery window the lease is kept, after it the dispatch is cut. *)
NoAnswer(i) ==
  \/ Interrupt(i, FALSE)
  \/ /\ Owns(db, Mine(i))
     /\ Done(i)
     /\ UNCHANGED <<journal, epoch>>

StatusActive(i) ==
  /\ At(i, "status") /\ remote[Mine(i)] \in Alive
  /\ IF Fenced(i) THEN Interrupt(i, FALSE) ELSE StillRunning(i)
  /\ UNCHANGED <<safe, db, suspended, leader, remote, tainted, used>>

Unanswered(i) ==
  /\ At(i, "status") /\ Fault
  /\ IF Fenced(i) THEN Interrupt(i, FALSE) ELSE NoAnswer(i)
  /\ UNCHANGED <<safe, db, suspended, leader, remote, tainted>>

(* The worker has no such run. Unless it was seen there, the same run is started again.  *)
StatusAbsent(i) ==
  LET r == Mine(i)
  IN /\ At(i, "status") /\ remote[r] \in {"absent", "never"}
     /\ IF Fenced(i) THEN Interrupt(i, FALSE)
        ELSE IF journal[r].seen THEN NoAnswer(i)
        ELSE Go(i, "start") /\ UNCHANGED <<journal, epoch>>
     /\ UNCHANGED <<safe, db, suspended, leader, remote, tainted, used>>

(* worker.start: the run id makes it idempotent, and a run that the worker has declared  *)
(* absent for good is refused.                                                           *)
Started(r) == remote' = [remote EXCEPT ![r] = IF @ = "absent" THEN "running" ELSE @]

StartAgain(i) ==
  /\ At(i, "start")
  /\ \/ /\ Started(Mine(i))
        /\ IF Fenced(i) THEN Interrupt(i, TRUE)
           ELSE /\ remote[Mine(i)] # "never"
                /\ StillRunning(i)
        /\ UNCHANGED used
     \/ /\ Fault
        /\ Started(Mine(i)) \/ UNCHANGED remote
        /\ IF Fenced(i) THEN Interrupt(i, TRUE) ELSE NoAnswer(i)
  /\ UNCHANGED <<safe, db, suspended, leader, tainted>>

StatusTerminal(i) ==
  LET r == Mine(i)
  IN /\ At(i, "status") /\ remote[r] \in Terminal
     /\ IF Fenced(i) THEN Interrupt(i, FALSE)
        ELSE /\ Seen(r)
             /\ inst' = [inst EXCEPT ![i].pc = "terminal", ![i].got = remote[r]]
             /\ UNCHANGED epoch
     /\ UNCHANGED <<safe, db, suspended, leader, remote, tainted, used>>

(* terminal: a failure is recorded; anything else first renews the lease and is         *)
(* collected; a pause nobody asked for is a failure.                                     *)
terminal(i) ==
  LET r == Mine(i)
      failed == failTask(db, r, inst[i].got = "FAILED")
  IN /\ At(i, "terminal")
     /\ \/ /\ Fenced(i) \/ (inst[i].got # "FAILED" /\ ~Owns(db, r))
           /\ Interrupt(i, FALSE) /\ UNCHANGED db
        \/ /\ ~Fenced(i)
           /\ \/ inst[i].got = "FAILED"
              \/ inst[i].got \in {"PAUSED", "CANCELLED"} /\ Owns(db, r) /\ ~db.task[r[1]].cancel
           /\ db' = failed /\ Go(i, "finish")
           /\ UNCHANGED <<journal, epoch>>
        \/ /\ ~Fenced(i) /\ Owns(db, r)
           /\ inst[i].got = "SUCCEEDED" \/ (inst[i].got # "FAILED" /\ db.task[r[1]].cancel)
           /\ Go(i, "collect")
           /\ UNCHANGED <<db, journal, epoch>>
     /\ UNCHANGED <<safe, suspended, leader, remote, tainted, used>>

Collected(i) ==
  /\ At(i, "collect")
  /\ IF Fenced(i) THEN Interrupt(i, FALSE) ELSE Go(i, "complete") /\ UNCHANGED <<journal, epoch>>
  /\ UNCHANGED <<safe, db, suspended, leader, remote, tainted, used>>

CollectFails(i) ==
  /\ At(i, "collect") /\ Fault
  /\ IF Fenced(i) THEN Interrupt(i, FALSE) ELSE Done(i) /\ UNCHANGED <<journal, epoch>>
  /\ UNCHANGED <<safe, db, suspended, leader, remote, tainted>>

(* The store's commit of the result, and the journal's after it. *)
Complete(i) ==
  /\ At(i, "complete")
  /\ db' = completeTask(db, Mine(i), inst[i].got)
  /\ Go(i, "finish")
  /\ UNCHANGED <<safe, journal, epoch, suspended, leader, remote, tainted, used>>

(* Seeded fault: the row is closed whatever the epoch. *)
FinishIn_Fault(i) == TRUE

(* finishIfSecurityEpoch: closes the row only in the epoch the tick began with. *)
FinishIn(i) == ~pendingSecurity /\ epoch = inst[i].expected /\ ~Latched(Mine(i))

finishNormally(i) ==
  /\ At(i, "finish")
  /\ IF FinishIn(i)
     THEN /\ journal' = [journal EXCEPT ![Mine(i)].status = "closed"]
          /\ Done(i)
          /\ UNCHANGED epoch
     ELSE Interrupt(i, FALSE)
  /\ UNCHANGED <<safe, db, suspended, leader, remote, tainted, used>>

(* worker.cancel for the owner: at once for a stop, at a safe boundary for a pause. *)
Cancel(i) ==
  LET r == Mine(i)
  IN /\ At(i, "cancel")
     /\ \/ /\ Fault
           /\ UNCHANGED remote
        \/ /\ remote' = [remote EXCEPT ![r] = IF @ \notin Alive THEN @
                                              ELSE IF db.op = "STOP_REQUESTED" THEN "CANCELLED"
                                              ELSE "stopping"]
           /\ UNCHANGED used
     /\ IF Fenced(i) THEN Interrupt(i, FALSE) ELSE Done(i) /\ UNCHANGED <<journal, epoch>>
     /\ UNCHANGED <<safe, db, suspended, leader, tainted>>

(* Seeded fault: new work is admitted beside a dispatch that is still active. *)
TickEnds_Fault(i, t) ==
  /\ At(i, "next") /\ inst[i].todo = {}
  /\ t # None => db.task[t].status = "RUNNING" /\ Prompt
  /\ db' = reconcile(db, t)
  /\ inst' = [inst EXCEPT ![i] = IF inst[i].admit THEN [@ EXCEPT !.pc = "claim", !.claims = TRUE]
                                 ELSE Idle]
  /\ UNCHANGED <<safe, journal, epoch, suspended, leader, remote, tainted, used>>

(* The end of the list: the store's own recovery of a lease that ran out (of none for     *)
(* t = None), then the admission of new work.                                             *)
TickEnds(i, t) ==
  /\ At(i, "next") /\ inst[i].todo = {}
  /\ t # None => db.task[t].status = "RUNNING" /\ Prompt
  /\ db' = reconcile(db, t)
  /\ inst' = [inst EXCEPT ![i] =
       IF inst[i].admit /\ ~pendingSecurity /\ epoch = inst[i].expected /\ Active = {}
       THEN [@ EXCEPT !.pc = "claim", !.claims = TRUE] ELSE Idle]
  /\ UNCHANGED <<safe, journal, epoch, suspended, leader, remote, tainted, used>>

-----------------------------------------------------------------------------
(* interruptForProofLoss. *)

(* The store is repaired first, on every pass: the task's current attempt is stopped,    *)
(* which is a newer one when the lease ran out meanwhile, and that one's dispatch is     *)
(* latched too. The journal's and the store's transactions of this repair, which no      *)
(* await separates, are one step.                                                        *)
StopStore(i) ==
  LET r   == Mine(i)
      now == <<r[1], db.task[r[1]].attempt>>
  IN /\ At(i, "stop")
     /\ IF journal[r].status = "interrupted"
        THEN Done(i) /\ UNCHANGED <<db, journal, epoch>>
        ELSE /\ db' = securityStopTask(db, now)
             /\ securityLatch({now})
             /\ Go(i, "ask")
     /\ UNCHANGED <<safe, suspended, leader, remote, tainted, used>>

(* securityFinish. *)
securityFinish(r) ==
  journal' = [journal EXCEPT ![r].status = IF @ = "latched" THEN "interrupted" ELSE @]

(* Seeded fault: a run the worker does not know is taken for dead. *)
AskDead_Fault(i) ==
  LET r == Mine(i)
  IN /\ At(i, "ask")
     /\ remote' = [remote EXCEPT ![r] = IF @ \in Alive THEN "CANCELLED" ELSE @]
     /\ securityFinish(r)
     /\ Done(i)
     /\ UNCHANGED <<safe, db, epoch, suspended, leader, tainted, used>>

(* worker.status and worker.cancel, immediate. The latch closes on a proof that the      *)
(* payload is dead, or, with a secure probe in hand, that it was never authorised.       *)
AskDead(i) ==
  LET r == Mine(i)
  IN /\ At(i, "ask")
     /\ IF remote[r] \in {"absent", "never"}
        THEN IF inst[i].witness
             THEN remote' = [remote EXCEPT ![r] = "never"] /\ securityFinish(r)
             ELSE UNCHANGED <<remote, journal>>
        ELSE /\ remote' = [remote EXCEPT ![r] = IF @ \in Alive THEN "CANCELLED" ELSE @]
             /\ securityFinish(r)
     /\ Done(i)
     /\ UNCHANGED <<safe, db, epoch, suspended, leader, tainted, used>>

(* The node does not answer, though the cancellation may have reached it: the latch stays. *)
AskLost(i) ==
  LET r == Mine(i)
  IN /\ At(i, "ask") /\ Fault
     /\ \/ UNCHANGED remote
        \/ remote[r] \in Alive /\ remote' = [remote EXCEPT ![r] = "CANCELLED"]
     /\ Done(i)
     /\ UNCHANGED <<safe, db, journal, epoch, suspended, leader, tainted>>

-----------------------------------------------------------------------------
(* claimOne. *)

(* incidentChanged. *)
Incident(i) == pendingSecurity \/ epoch # inst[i].expected

Claimable(t) ==
  /\ db.task[t].status = "QUEUED" /\ ~db.task[t].cancel
  /\ db.state \notin Hold /\ db.op = "" /\ ~Running(db)
  /\ db.task[t].attempt < MaxAttempts     \* bound

claimNextTask(i) ==
  /\ At(i, "claim")
  /\ IF Incident(i) \/ ~\E t \in Tasks : Claimable(t)
     THEN inst' = [inst EXCEPT ![i] = Idle] /\ UNCHANGED db
     ELSE \E t \in { x \in Tasks : Claimable(x) } :
            /\ db' = [db EXCEPT !.task[t].status = "RUNNING", !.task[t].attempt = @ + 1]
            /\ inst' = [inst EXCEPT ![i].pc = "intent", ![i].run = <<t, db.task[t].attempt + 1>>]
  /\ UNCHANGED <<safe, journal, epoch, suspended, leader, remote, tainted, used>>

(* The intent is durable before the dispatch leaves; a recipe that makes no request, or   *)
(* one the journal refuses, fails the task.                                               *)
recordIntent(i) ==
  LET r == Mine(i)
  IN /\ At(i, "intent")
     /\ \/ /\ Incident(i)
           /\ db' = securityStopTask(db, r)
           /\ inst' = [inst EXCEPT ![i] = Idle]
           /\ UNCHANGED journal
        \/ /\ ~Incident(i)
           /\ journal' = [journal EXCEPT ![r].status = "open"]
           /\ Go(i, "send")
           /\ UNCHANGED db
        \/ /\ ~Incident(i)
           /\ db' = failTask(db, r, FALSE)
           /\ inst' = [inst EXCEPT ![i] = Idle]
           /\ UNCHANGED journal
     /\ UNCHANGED <<safe, epoch, suspended, leader, remote, tainted, used>>

(* The last check before worker.start: an incident closes the intent as never sent.       *)
Send(i) ==
  LET r == Mine(i)
  IN /\ At(i, "send")
     /\ IF Incident(i)
        THEN /\ journal' = [journal EXCEPT ![r].status = "interrupted"]
             /\ epoch' = epoch + (IF Latched(r) THEN 0 ELSE 1)
             /\ db' = securityStopTask(db, r)
             /\ inst' = [inst EXCEPT ![i] = Idle]
        ELSE Go(i, "starting") /\ UNCHANGED <<db, journal, epoch>>
     /\ UNCHANGED <<safe, suspended, leader, remote, tainted, used>>

(* worker.start: acknowledged; or in doubt, and then kept for the next tick; or refused,  *)
(* and then interrupted for want of a proof that nothing runs.                            *)
StartAnswered(i) ==
  /\ At(i, "starting")
  /\ Started(Mine(i))
  /\ IF Fenced(i) \/ remote[Mine(i)] = "never" THEN Interrupt(i, TRUE)
     ELSE Seen(Mine(i)) /\ Done(i) /\ UNCHANGED epoch
  /\ UNCHANGED <<safe, db, suspended, leader, tainted, used>>

StartLost(i) ==
  /\ At(i, "starting") /\ Fault
  /\ \/ /\ Started(Mine(i)) \/ UNCHANGED remote
        /\ IF Fenced(i) THEN Interrupt(i, TRUE) ELSE Done(i) /\ UNCHANGED <<journal, epoch>>
     \/ /\ Interrupt(i, TRUE)
        /\ UNCHANGED remote
  /\ UNCHANGED <<safe, db, suspended, leader, tainted>>

-----------------------------------------------------------------------------
(* Around the orchestrator. *)

(* The payload's own end. A requested pause is taken at its next safe boundary.           *)
PayloadEnds(r) ==
  /\ remote[r] \in Alive
  /\ \E end \in {"SUCCEEDED", "FAILED"} \cup (IF remote[r] = "stopping" THEN {"PAUSED"} ELSE {}) :
       remote' = [remote EXCEPT ![r] = end]
  /\ UNCHANGED <<safe, db, journal, epoch, suspended, leader, inst, tainted, used>>

(* The leadership lease runs out during a slow call to the worker: another instance may    *)
(* lead while this one goes on when its answer comes.                                      *)
LeaderLapses ==
  /\ leader # None /\ Fault
  /\ inst[leader].pc \in Calls
  /\ leader' = None
  /\ UNCHANGED <<safe, db, journal, epoch, suspended, inst, remote, tainted>>

(* A process dies, and comes back as a new one. *)
Crash(i) ==
  /\ inst[i].pc # "idle" /\ Fault
  /\ inst' = [inst EXCEPT ![i] = Idle]
  /\ leader' = IF leader = i THEN None ELSE leader
  /\ UNCHANGED <<safe, db, journal, epoch, suspended, remote, tainted>>

Tick(i) ==
  \/ acquireLeadership(i) \/ ProbeSecure(i) \/ ProbeOffline(i) \/ ProbeInsecure(i)
  \/ observeProofLoss(i) \/ NextDispatch(i) \/ (\E t \in Tasks \cup {None} : TickEnds(i, t))
  \/ StatusActive(i) \/ StatusAbsent(i) \/ Unanswered(i) \/ StatusTerminal(i) \/ StartAgain(i)
  \/ terminal(i) \/ Collected(i) \/ CollectFails(i) \/ Complete(i) \/ finishNormally(i)
  \/ Cancel(i) \/ StopStore(i) \/ AskDead(i) \/ AskLost(i)
  \/ claimNextTask(i) \/ recordIntent(i) \/ Send(i) \/ StartAnswered(i) \/ StartLost(i)

Next ==
  \/ Pause \/ Stop \/ Resume \/ Retry \/ Block \/ Transition
  \/ \E i \in Instances : Tick(i) \/ Crash(i)
  \/ \E r \in Runs : PayloadEnds(r)
  \/ LeaderLapses

Spec == Init /\ [][Next]_vars

(* The poll timer drives every instance's ticks, every worker call settles, a payload     *)
(* ends by its own time limit, and a lease runs out when no dispatch is there to renew it. *)
FairSpec ==
  /\ Spec
  /\ \A i \in Instances : WF_vars(Tick(i))
  /\ \A r \in Runs : WF_vars(PayloadEnds(r))
  /\ \A t \in Tasks : SF_vars(/\ \A r \in Runs : Open(r) => ~Owns(db, r)
                            /\ \E i \in Instances : TickEnds(i, t))

-----------------------------------------------------------------------------
(* Whatever a stale leader, a crash or a lapsed lease does, a run that was open when      *)
(* isolation was lost never ends as ordinary work (the absorbing latch of                  *)
(* writeSecurityLatch), and once its row is closed the store agrees: the task is stopped   *)
(* for good and no checkpoint of it can be resumed from.                                   *)
SecurityWins ==
  /\ \A r \in tainted : Latched(r)
  /\ \A r \in Runs : journal[r].status = "interrupted" =>
       /\ db.task[r[1]].stopped /\ db.task[r[1]].status = "FAILED"
       /\ \A c \in db.checkpoints : c.owner # r[1]

(* A row that claimOne, finishNormally or interruptForProofLoss has ended stands for a     *)
(* payload that is not running, and cannot start any more.                                 *)
EndedIsDead ==
  \A r \in Runs : journal[r].status \in {"closed", "interrupted"} => remote[r] \notin Alive

(* "requeueing here could execute a non-idempotent build twice": no two payloads ever run  *)
(* at once, and a task that is not safe to retry is not run again after a success.         *)
EffectOnce ==
  \A r, s \in Runs :
    r # s /\ remote[s] \in Alive =>
      remote[r] \notin Alive /\ ~(r[1] = s[1] /\ ~safe[r[1]] /\ remote[r] = "SUCCEEDED")

(* An owner's pause or stop is confirmed or given up, it does not hang.                    *)
OwnerConcludes == db.op \in Asked ~> db.op \notin Asked

(* The lane comes back: a security latch does not stay pending for ever.                   *)
LatchCloses == pendingSecurity ~> ~pendingSecurity

(* What is not so: a game the owner sees paused has no payload at work.                    *)
PausedIsQuiet ==
  db.state = "PAUSED" => \A r \in Runs : remote[r] \in Alive => Latched(r)

(* Nor is this: a completion without any loss of isolation stays a completion.             *)
CompletionSticks ==
  [][\A t \in Tasks : db.task[t].status = "COMPLETED" /\ <<t, db.task[t].attempt>> \notin tainted
                      => db'.task[t].status = "COMPLETED"]_vars
=============================================================================
