-------------------------------- MODULE IdeJobs --------------------------------
(***************************************************************************)
(* The durable spine of one Crucible build (idejobs.mjs): an append-only     *)
(* journal on a shared volume, and the server instances that write and read  *)
(* it during rolling deploys and restarts. The instance that created the     *)
(* build heartbeats into the journal and never reads it back; an instance    *)
(* that boots later follows the journal under a lease, and resumes or seals  *)
(* the build when the lease runs out (resumeIdeBuild in server.mjs).         *)
(*                                                                           *)
(* Time is counted in ticks. Only differences matter to the code, so the     *)
(* model keeps the age of the last record and what is left of each lease.    *)
(* Lease records differ from the others only by being invisible: they are    *)
(* an age of zero and a mark for every follower, not an entry of `journal`.  *)
(***************************************************************************)
EXTENDS Integers, Sequences, FiniteSets, SequencesExt

CONSTANTS
  NumInstances,      \* bound: server instances, numbered in the order they boot
  Grace,             \* DEPLOY_GRACE_MS, in ticks
  Beat,              \* heartbeatMs, in ticks
  MaxReadFailures,   \* MAX_READ_FAILURES
  ResumeMaxAttempts, \* RESUME_MAX_ATTEMPTS
  MaxAsks,        \* bound: questions the build asks; one answer more is given
  MaxKills,          \* bound: instance deaths
  MaxUnread,         \* bound: journal reads that fail
  MaxLost,           \* bound: appends of records that fail (append swallows the error)
  MaxMissed          \* bound: appends of heartbeats that fail

ASSUME IdeJobsConstants ==
  /\ Grace \in Nat \ {0} /\ Beat \in Nat \ {0} /\ Beat < Grace
  /\ NumInstances \in Nat \ {0} /\ MaxReadFailures \in Nat \ {0} /\ ResumeMaxAttempts \in Nat \ {0}
  /\ {MaxAsks, MaxKills, MaxUnread, MaxLost, MaxMissed} \subseteq Nat

Instances == 1 .. NumInstances

VARIABLES
  journal,   \* the job's JSONL file, lease records left out
  age,       \* ticks since the last record of an unfinished journal, up to Grace
  inst,      \* one record per instance: process, index entry, follower, runner
  used       \* how much of each bound has been spent

vars == <<journal, age, inst, used>>

(* TERMINAL: done stands for done, checkpoint and error; the seal is an error *)
(* with code "interrupted".                                                   *)
Terminal == {"done", "stopped", "interrupted"}
RecordTypes ==
  {"job", "_request", "need_input", "answer", "paused", "resumed"} \cup Terminal

Record == [type : RecordTypes, writer : Instances]

(* The job's entry in INDEX, FOLLOWERS and HEARTBEATS, and the build running  *)
(* in this process.                                                           *)
Instance ==
  [ up       : {"off", "up", "dead"},
    known    : BOOLEAN,                           \* INDEX has the job
    events   : Seq(Record), outcome : Terminal \cup {"none"},
    follow   : BOOLEAN, cursor : Nat, left : 0 .. Grace, leased : BOOLEAN, unread : Nat,
    beat     : 0 .. Beat, beats : BOOLEAN,        \* heartbeat timer
    resume   : {"no", "asked", "retry"}, attempt : Nat,
    runner   : {"none", "opening", "run", "ask"}, \* runIdeBuild of this process
    aborted  : BOOLEAN ]                          \* its AbortController

TypeOK ==
  /\ journal \in Seq(Record)
  /\ age \in 0 .. Grace
  /\ inst \in [Instances -> Instance]
  /\ used \in [asks : Nat, kills : Nat, unread : Nat, lost : Nat, missed : Nat]

NotStarted ==
  [ up |-> "off", known |-> FALSE, events |-> <<>>, outcome |-> "none",
    follow |-> FALSE, cursor |-> 0, left |-> 0, leased |-> FALSE, unread |-> 0,
    beat |-> 0, beats |-> FALSE, resume |-> "no", attempt |-> 0,
    runner |-> "none", aborted |-> FALSE ]

Init ==
  /\ journal = <<>>
  /\ age = Grace
  /\ inst = [p \in Instances |-> NotStarted]
  /\ used = [asks |-> 0, kills |-> 0, unread |-> 0, lost |-> 0, missed |-> 0]

IsTerminal(r) == r.type \in Terminal

Up(p) == inst[p].up = "up"

(* create and recordRequest are one tick: nothing else of p happens between. *)
Free(p) == Up(p) /\ inst[p].runner # "opening"
Done(i) == i.outcome # "none"

-----------------------------------------------------------------------------
(* The first terminal record of a journal, 0 for none. *)
FirstTerminal(s) ==
  LET ends == { k \in DOMAIN s : IsTerminal(s[k]) }
  IN IF ends = {} THEN 0 ELSE CHOOSE k \in ends : \A l \in ends : k <= l

(* The records of s at the positions ks, in order. *)
Picked(s, ks) ==
  LET upTo[k \in 0 .. Len(s)] ==
        IF k = 0 THEN <<>>
        ELSE IF k \in ks THEN Append(upTo[k - 1], s[k])
        ELSE upTo[k - 1]
  IN upTo[Len(s)]

NotRequest(r) == r.type # "_request"

(* Seeded fault: stale records behind the terminal one are kept. *)
publicEvents_All(s) == Picked(s, { k \in DOMAIN s : NotRequest(s[k]) })

(* publicEvents: private records dropped, everything after the first          *)
(* terminal record ignored.                                                   *)
publicEvents(s) ==
  Picked(s, { k \in DOMAIN s : NotRequest(s[k]) /\ \A l \in 1 .. k - 1 : ~IsTerminal(s[l]) })

(* The outcome a process that replays the journal finds. *)
Outcome(s) ==
  LET end == FirstTerminal(s) IN IF end = 0 THEN "none" ELSE s[end].type

HasRequest(s) == \E k \in DOMAIN s : s[k].type = "_request"

(* stopFollowing: what only a follower uses is forgotten with it. *)
NotFollowing(i) == [i EXCEPT !.follow = FALSE, !.left = 0, !.leased = FALSE, !.cursor = 0]

(* publish: a terminal record seals the entry, its heartbeat and its follower. *)
publish(i, rec) ==
  IF IsTerminal(rec)
  THEN [NotFollowing(i) EXCEPT !.outcome = rec.type, !.beats = FALSE, !.beat = 0]
  ELSE i

Pushed(i, rec) == publish([i EXCEPT !.events = Append(@, rec)], rec)

(* An append to the file by p, kept or lost: a kept record is the newest.     *)
append(rec, kept) ==
  /\ kept \/ used.lost < MaxLost
  /\ journal' = IF kept THEN Append(journal, rec) ELSE journal
  /\ age' = IF kept /\ FirstTerminal(journal) = 0 THEN 0 ELSE age

(* push, append and publish one record of p's own. *)
Writes(p, i, type, count) ==
  \E kept \in BOOLEAN :
    LET rec == [type |-> type, writer |-> p]
    IN /\ append(rec, kept)
       /\ inst' = [inst EXCEPT ![p] = Pushed(i, rec)]
       /\ used' = [used EXCEPT !.asks = @ + count,
                               !.lost = @ + (IF kept THEN 0 ELSE 1)]

OnlyRemembers(p, i) ==
  /\ inst' = [inst EXCEPT ![p] = i]
  /\ UNCHANGED <<journal, age, used>>

(* sealInterrupted. *)
sealInterrupted(p, i) == Writes(p, i, "interrupted", 0)

-----------------------------------------------------------------------------
(* reconcileOne on a readable journal: the records after the cursor that are   *)
(* not this instance's own are adopted up to the first terminal one, and any    *)
(* foreign record or lease renews the lease.                                    *)

(* The positions of the records that are new to a follower and not its own. *)
NewForeign(p, i) == { k \in i.cursor + 1 .. Len(journal) : journal[k].writer # p }

Ends(ks) == { k \in ks : IsTerminal(journal[k]) }

(* What is taken of them: all up to the first terminal one. *)
Taken(ks) == { k \in ks : \A l \in Ends(ks) : k <= l }

(* Seeded fault: a lease record is skipped before it counts as activity. *)
Adopted_NoLease(p, i) ==
  LET new  == NewForeign(p, i)
      read == [i EXCEPT !.events = @ \o Picked(journal, Taken(new)), !.unread = 0]
  IN IF Ends(new) # {}
     THEN [NotFollowing(read) EXCEPT
             !.outcome = journal[CHOOSE k \in Ends(new) : \A l \in Ends(new) : k <= l].type]
     ELSE [ read EXCEPT !.cursor = Len(journal), !.leased = FALSE,
                        !.left = IF new # {} THEN Grace ELSE @ ]

Adopted(p, i) ==
  LET new  == NewForeign(p, i)
      read == [i EXCEPT !.events = @ \o Picked(journal, Taken(new)), !.unread = 0]
  IN IF Ends(new) # {}
     THEN [NotFollowing(read) EXCEPT
             !.outcome = journal[CHOOSE k \in Ends(new) : \A l \in Ends(new) : k <= l].type]
     ELSE [ read EXCEPT !.cursor = Len(journal), !.leased = FALSE,
                        !.left = IF new # {} \/ i.leased THEN Grace ELSE @ ]

(* attemptResume up to its await: following stops for good, resume() asks the   *)
(* build machine whether it is there.                                           *)
attemptResume(i, attempt) ==
  [NotFollowing(i) EXCEPT !.resume = "asked", !.attempt = attempt]

(* reconcileOne(id): a lease that is over even after what was just read makes   *)
(* this instance the one to resume the build.                                   *)
reconcileOne(p, i) ==
  LET a == Adopted(p, i)
  IN IF ~i.follow THEN i
     ELSE IF a.follow /\ a.left = 0 THEN attemptResume(a, 1)
     ELSE a

(* reconcileOne(id, false), at the head of emit. *)
Caught(p, i) == IF i.follow THEN Adopted(p, i) ELSE i

(* The tail timer, or any read of the job: get, listFor, attach. *)
Reconcile(p) ==
  /\ Up(p) /\ inst[p].follow
  /\ OnlyRemembers(p, reconcileOne(p, inst[p]))

(* The journal cannot be read: three failures after the lease seal the build.   *)
ReconcileUnreadable(p) ==
  LET i == [inst[p] EXCEPT !.unread = @ + 1]
  IN /\ Up(p) /\ inst[p].follow
     /\ used.unread < MaxUnread
     /\ IF i.left = 0 /\ i.unread >= MaxReadFailures
        THEN \E kept \in BOOLEAN :
               LET rec == [type |-> "interrupted", writer |-> p]
               IN /\ append(rec, kept)
                  /\ inst' = [inst EXCEPT ![p] = Pushed(i, rec)]
                  /\ used' = [used EXCEPT !.unread = @ + 1,
                                          !.lost = @ + (IF kept THEN 0 ELSE 1)]
        ELSE /\ inst' = [inst EXCEPT ![p] = i]
             /\ used' = [used EXCEPT !.unread = @ + 1]
             /\ UNCHANGED <<journal, age>>

-----------------------------------------------------------------------------
(* create, then recordRequest at the top of runIdeBuild: the same tick of p,    *)
(* two appends another process may read between.                                *)
Create(p) ==
  /\ Up(p) /\ journal = <<>> /\ \A q \in Instances : ~inst[q].known
  /\ Writes(p, [inst[p] EXCEPT !.known = TRUE, !.beats = TRUE, !.beat = Beat,
                               !.runner = "opening"], "job", 0)

(* recordRequest: written without a _writer, so every reader takes it for        *)
(* foreign; only its creator, who does not follow, could tell.                   *)
RecordRequest(p) ==
  /\ Up(p) /\ inst[p].runner = "opening"
  /\ \E kept \in BOOLEAN :
       /\ append([type |-> "_request", writer |-> p], kept)
       /\ used' = [used EXCEPT !.lost = @ + (IF kept THEN 0 ELSE 1)]
  /\ inst' = [inst EXCEPT ![p].runner = "run"]

(* emit: catch up first when following, refuse when the job is sealed.           *)
emit(p, i, type, count) ==
  LET c == Caught(p, i)
  IN IF Done(c) THEN OnlyRemembers(p, c) ELSE Writes(p, c, type, count)

(* The build at work in p asks (its other structural events differ from a question  *)
(* only by not waiting) or reaches its end.                                         *)
RunnerAsks(p) ==
  /\ Up(p) /\ inst[p].runner = "run" /\ ~inst[p].aborted
  /\ used.asks < MaxAsks
  /\ emit(p, [inst[p] EXCEPT !.runner = IF Done(inst[p]) THEN "none" ELSE "ask"],
          "need_input", 1)

(* finish. *)
RunnerFinishes(p) ==
  /\ Up(p) /\ inst[p].runner = "run" /\ ~inst[p].aborted
  /\ emit(p, [inst[p] EXCEPT !.runner = "none"], "done", 0)

(* A stopped build returns at its next check of the signal; a waiting one is      *)
(* released with null when its job seals.                                         *)
RunnerReturns(p) ==
  /\ Up(p) /\ inst[p].runner \in {"run", "ask"}
  /\ inst[p].aborted \/ (inst[p].runner = "ask" /\ Done(inst[p]))
  /\ OnlyRemembers(p, [inst[p] EXCEPT !.runner = "none"])

(* summarize: a question nobody has answered is shown to the user. *)
Pending(s) ==
  \E k \in DOMAIN s : /\ s[k].type = "need_input"
                      /\ \A l \in k .. Len(s) : s[l].type # "answer"

(* answerJob and stopJob: jobs.get reconciles, then the record is emitted. An      *)
(* answer reaches the question only if it is asked in this process.                *)
answerJob(p) ==
  LET i == reconcileOne(p, inst[p])
  IN /\ Free(p) /\ inst[p].known /\ ~Done(inst[p])
     /\ Pending(inst[p].events) /\ used.asks <= MaxAsks
     /\ IF Done(i) THEN OnlyRemembers(p, i)
        ELSE Writes(p, [i EXCEPT !.runner = IF @ = "ask" THEN "run" ELSE @], "answer", 1)

stopJob(p) ==
  LET i == reconcileOne(p, inst[p])
  IN /\ Free(p) /\ inst[p].known /\ ~Done(inst[p])
     /\ IF Done(i) THEN OnlyRemembers(p, i)
        ELSE Writes(p, [i EXCEPT !.aborted = i.runner # "none"], "stopped", 0)

-----------------------------------------------------------------------------
(* resumeIdeBuild answers. It launches the build itself, whatever has become of   *)
(* the job meanwhile; idejobs then says so on the journal unless it is sealed.     *)
ResumeLaunches(p) ==
  LET i == [inst[p] EXCEPT !.resume = "no", !.runner = "run", !.aborted = FALSE]
  IN /\ Up(p) /\ inst[p].resume = "asked" /\ HasRequest(journal)
     /\ emit(p, i, "resumed", 0)

(* The machine does not answer: a paused record and another attempt later, up to  *)
(* the cap, then the seal.                                                         *)
(* Seeded fault: the last refusal neither retries nor seals. *)
ResumePauses_Silently(p) ==
  LET i == [inst[p] EXCEPT !.resume = "no"]
  IN /\ Up(p) /\ inst[p].resume = "asked" /\ HasRequest(journal)
     /\ IF Done(i) \/ inst[p].attempt >= ResumeMaxAttempts THEN OnlyRemembers(p, i)
        ELSE emit(p, [i EXCEPT !.resume = "retry"], "paused", 0)

ResumePauses(p) ==
  LET i == [inst[p] EXCEPT !.resume = "no"]
  IN /\ Up(p) /\ inst[p].resume = "asked" /\ HasRequest(journal)
     /\ IF Done(i) THEN OnlyRemembers(p, i)
        ELSE IF inst[p].attempt < ResumeMaxAttempts
        THEN emit(p, [i EXCEPT !.resume = "retry"], "paused", 0)
        ELSE sealInterrupted(p, i)

(* No recorded request, or no such workspace: sealed at once. *)
ResumeRefuses(p) ==
  LET i == [inst[p] EXCEPT !.resume = "no"]
  IN /\ Up(p) /\ inst[p].resume = "asked"
     /\ IF Done(i) THEN OnlyRemembers(p, i) ELSE sealInterrupted(p, i)

ResumeRetries(p) ==
  LET i == inst[p]
  IN /\ Up(p) /\ i.resume = "retry"
     /\ OnlyRemembers(p, IF Done(i) THEN [i EXCEPT !.resume = "no"]
                         ELSE attemptResume(i, i.attempt + 1))

-----------------------------------------------------------------------------
(* loadFromDisk: an unfinished job is followed for what is left of the grace      *)
(* since its last record, or resumed at once when nothing is left.                *)
loadFromDisk ==
  LET events == publicEvents(journal)
      last   == events[Len(events)]
      fresh  == [NotStarted EXCEPT !.up = "up"]
      i      == [ fresh EXCEPT !.known = TRUE, !.events = events,
                               !.outcome = IF IsTerminal(last) THEN last.type ELSE "none",
                               !.cursor = Len(journal), !.left = Grace - age ]
  IN IF events = <<>> THEN fresh
     ELSE IF Done(i) THEN i
     ELSE IF age < Grace THEN [i EXCEPT !.follow = TRUE]
     ELSE attemptResume(i, 1)

(* A container starts: a rolling deploy runs the new one beside the old one. *)
Boot(p) ==
  /\ inst[p].up = "off"
  /\ \A q \in 1 .. p - 1 : inst[q].up # "off"
  /\ Cardinality({ q \in Instances : Up(q) }) < 2
  /\ OnlyRemembers(p, loadFromDisk)

(* scheduleHeartbeat: the creator's lease record, marked for every follower,        *)
(* unless the append fails.                                                          *)
Heartbeat(p, kept) ==
  /\ Up(p) /\ inst[p].beats /\ inst[p].beat = 0
  /\ kept \/ used.missed < MaxMissed
  /\ age' = IF kept /\ FirstTerminal(journal) = 0 THEN 0 ELSE age
  /\ inst' = [q \in Instances |->
               IF q = p THEN [inst[q] EXCEPT !.beat = Beat]
               ELSE [inst[q] EXCEPT !.leased = @ \/ (kept /\ inst[q].follow)]]
  /\ used' = [used EXCEPT !.missed = @ + (IF kept THEN 0 ELSE 1)]
  /\ UNCHANGED journal

(* A tick passes once every heartbeat that is due has been written.                *)
Tick ==
  /\ \A p \in Instances : Up(p) => Free(p) /\ (inst[p].beats => inst[p].beat > 0)
  /\ age' = IF age < Grace /\ FirstTerminal(journal) = 0 THEN age + 1 ELSE age
  /\ inst' = [p \in Instances |->
               [inst[p] EXCEPT !.beat = IF @ > 0 /\ inst[p].beats THEN @ - 1 ELSE @,
                               !.left = IF @ > 0 THEN @ - 1 ELSE @]]
  /\ UNCHANGED <<journal, used>>

(* The platform kills a container: the old one of a deploy, or a crash.            *)
Kill(p) ==
  /\ Up(p) /\ used.kills < MaxKills
  /\ inst' = [inst EXCEPT ![p] = [NotStarted EXCEPT !.up = "dead"]]
  /\ used' = [used EXCEPT !.kills = @ + 1]
  /\ UNCHANGED <<journal, age>>

Next ==
  \/ Tick
  \/ \E p \in Instances :
       \/ Boot(p) \/ Kill(p) \/ \E kept \in BOOLEAN : Heartbeat(p, kept)
       \/ Create(p) \/ RecordRequest(p)
       \/ RunnerAsks(p) \/ RunnerFinishes(p) \/ RunnerReturns(p)
       \/ answerJob(p) \/ stopJob(p)
       \/ Reconcile(p) \/ ReconcileUnreadable(p)
       \/ ResumeLaunches(p) \/ ResumePauses(p) \/ ResumeRefuses(p) \/ ResumeRetries(p)

Spec == Init /\ [][Next]_vars

(* Timers fire, containers are started, a running build reaches its end and       *)
(* resume() answers. Users, deaths and failures are not fair.                     *)
FairSpec ==
  /\ Spec
  /\ WF_vars(Tick)
  /\ \A p \in Instances :
       /\ WF_vars(Boot(p)) /\ WF_vars(\E kept \in BOOLEAN : Heartbeat(p, kept)) /\ WF_vars(Reconcile(p))
       /\ WF_vars(RecordRequest(p)) /\ WF_vars(RunnerFinishes(p)) /\ WF_vars(RunnerReturns(p))
       /\ WF_vars(ResumeLaunches(p) \/ ResumePauses(p) \/ ResumeRefuses(p))
       /\ WF_vars(ResumeRetries(p))

-----------------------------------------------------------------------------
(* While the process that created a build is alive and heartbeats, no other        *)
(* instance runs it or sets out to: the lease keeps followers off through any       *)
(* interleaving of a rolling deploy (scheduleHeartbeat, reconcileOne, loadFromDisk). *)
(* The lease outlasts missed heartbeats as long as the beats they delay fit in it.  *)
CreatorRunsAlone ==
  (used.missed + 1) * Beat < Grace =>
    \A p, q \in Instances :
      p # q /\ Up(p) /\ inst[p].beats => inst[q].runner = "none" /\ inst[q].resume = "no"

(* Two instances never run the same build at once. *)
SingleRunner ==
  \A p, q \in Instances : p # q => inst[p].runner = "none" \/ inst[q].runner = "none"

(* An instance that only follows the build and calls it finished names the outcome  *)
(* that the journal's first terminal record gives, however many stale records       *)
(* slower writers put behind it (publicEvents, reconcileOne, emit). An instance      *)
(* that had to seal a journal it could not read is excepted, and a journal that      *)
(* lacks a record because an append failed.                                          *)
Creator(p) == \E k \in DOMAIN journal : journal[k] = [type |-> "job", writer |-> p]

FollowersAgree ==
  used.lost = 0 => \A p \in Instances :
    Done(inst[p]) /\ ~Creator(p) /\ inst[p].attempt = 0 /\ inst[p].unread < MaxReadFailures
      => inst[p].outcome = Outcome(journal)

(* Every process that calls the build finished agrees on the outcome, the creator   *)
(* included ("That keeps every process on the same durable outcome").               *)
EveryoneAgrees ==
  \A p \in Instances : Done(inst[p]) => inst[p].outcome = Outcome(journal)

(* What a follower shows is the public journal, in the journal's order and with     *)
(* no record missing or twice: a client that reconnects to another instance with    *)
(* ?from=n is not shown a different n-th event (reconcileOne, emit's own records).   *)
ReplayFaithful ==
  \A p \in Instances :
    inst[p].follow =>
      LET e == inst[p].events
      IN IsPrefix(Picked(e, { k \in DOMAIN e : NotRequest(e[k]) }), publicEvents(journal))

(* The private request record never enters the stream a client is shown. *)
RequestPrivate ==
  \A p \in Instances : \A k \in DOMAIN inst[p].events : NotRequest(inst[p].events[k])

(* A build that its own process records as finished is not being run there, except  *)
(* to wind down after Stop or to be released from a question.                        *)
NoZombie ==
  \A p \in Instances :
    inst[p].runner = "run" /\ Done(inst[p]) => inst[p].aborted

(* A build that was started ends up sealed on disk, or waits for its user's answer   *)
(* in a live process: no death or deploy leaves it a spinner for ever                *)
(* (attemptResume, sealInterrupted). The one escape is a build no live process has   *)
(* in its index, which the next boot takes up.                                       *)
Orphaned == \A p \in Instances : ~inst[p].known

Concludes ==
  journal # <<>> ~> \/ FirstTerminal(journal) # 0
                    \/ \E p \in Instances : inst[p].runner = "ask"
                    \/ Orphaned
=============================================================================
