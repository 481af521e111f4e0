--------------------------- MODULE GameFactoryProofs ---------------------------
(***************************************************************************)
(* The Game Factory for any tasks, attempts, instances, commands and faults.  *)
(* Three things are proved of processes that do not freeze between two         *)
(* transactions (Stalls = FALSE): a loss of isolation is final, a row that      *)
(* has ended stands for a dead payload, and no effect happens twice.            *)
(*                                                                              *)
(* The argument is in three layers. What a store method does to a task          *)
(* (Leaves, Calm); what any step may do to a row of the journal, a payload, a    *)
(* task and an instance (Legal), shown once for every action; and the            *)
(* inductive invariant, preserved by whatever is Legal.                          *)
(***************************************************************************)
EXTENDS GameFactory, FiniteSetTheorems, TLAPS

Working   == {"status", "start", "cancel", "terminal", "collect", "complete", "finish", "stop",
              "ask", "intent", "send", "starting"}      \* the points with a dispatch in hand
Late      == {"terminal", "collect", "complete", "finish"}
Starting  == {"start", "starting"}
Fresh     == {"intent", "send"}
Admitting == {"claim", "intent", "send"}
Waiting   == {"QUEUED", "PAUSED"}

-----------------------------------------------------------------------------
(* The store's methods. *)

StopsLast(d) ==
  \A t \in Tasks : d.task[t].stopped =>
    d.task[t].status = "FAILED" /\ \A c \in d.checkpoints : c.owner # t

(* e is d, but for tasks that wait and are set aside. *)
Calm(e, d) ==
  /\ \A t \in Tasks :
       /\ e.task[t].attempt = d.task[t].attempt
       /\ e.task[t].stopped = d.task[t].stopped
       /\ (e.task[t].status = "RUNNING") <=> (d.task[t].status = "RUNNING")
       /\ e.task[t].status \in Waiting => d.task[t].status \in Waiting
       /\ d.task[t].status = "FAILED" => e.task[t].status = "FAILED"
  /\ \A c \in e.checkpoints : c \in d.checkpoints \/ c.owner = None

(* e is d, but that t runs no more. *)
Leaves(e, d, t) ==
  /\ e \in Store
  /\ StopsLast(e)
  /\ \A u \in Tasks :
       /\ e.task[u].attempt = d.task[u].attempt
       /\ e.task[u].stopped = d.task[u].stopped
       /\ e.task[u].status = "RUNNING" => d.task[u].status = "RUNNING"
       /\ u # t => /\ d.task[u].status = "RUNNING" => e.task[u].status = "RUNNING"
                   /\ e.task[u].status \in Waiting => d.task[u].status \in Waiting

(* A store that is only calmed keeps what stopped tasks left behind. *)
LEMMA CalmKeepsStops ==
  ASSUME NEW d, NEW e, StopsLast(d), Calm(e, d)
  PROVE  StopsLast(e)
  BY GameFactoryConstants DEF StopsLast, Calm

(* A store with other tasks. *)
LEMMA StoreWithTasks ==
  ASSUME NEW d \in Store, NEW f \in [Tasks -> Task]
  PROVE  /\ [d EXCEPT !.task = f] \in Store
         /\ [d EXCEPT !.task = f].task = f
         /\ [d EXCEPT !.task = f].checkpoints = d.checkpoints
         /\ [d EXCEPT !.task = f].stamp = d.stamp
  BY DEF Store

(* A store with one checkpoint more. *)
LEMMA StoreWithCheckpoint ==
  ASSUME NEW d \in Store, NEW o \in Tasks \cup {None}
  PROVE  /\ createCheckpoint(d, o) \in Store
         /\ createCheckpoint(d, o).task = d.task
         /\ createCheckpoint(d, o).checkpoints = d.checkpoints \cup {[owner |-> o, at |-> d.stamp]}
<1>2. d.stamp \in Nat /\ d.checkpoints \in SUBSET [owner : Tasks \cup {None}, at : Nat]
  BY DEF Store
<1>3. [owner |-> o, at |-> d.stamp] \in [owner : Tasks \cup {None}, at : Nat]
  BY <1>2
<1>4. /\ d.checkpoints \cup {[owner |-> o, at |-> d.stamp]} \in SUBSET [owner : Tasks \cup {None}, at : Nat]
      /\ d.stamp + 1 \in Nat
  BY <1>2, <1>3
<1> DEFINE K == d.checkpoints \cup {[owner |-> o, at |-> d.stamp]}
           n == d.stamp + 1
<1>5. createCheckpoint(d, o) = [d EXCEPT !.checkpoints = K, !.stamp = n]
  BY DEF createCheckpoint
<1> HIDE DEF K, n
<1>6. createCheckpoint(d, o) \in Store
  BY <1>4, <1>5 DEF Store, K, n
<1> QED
  BY <1>5, <1>6 DEF Store, K

(* Setting aside the tasks that wait is calm. *)
LEMMA RetaskedCalm ==
  ASSUME NEW d \in Store, NEW from \in SUBSET Waiting, NEW to \in {"PAUSED", "CANCELLED"}
  PROVE  Retasked(d, from, to) \in Store /\ Calm(Retasked(d, from, to), d)
<1> DEFINE f == [t \in Tasks |-> IF d.task[t].status \in from
                                 THEN [d.task[t] EXCEPT !.status = to, !.ended = d.stamp]
                                 ELSE d.task[t]]
<1>1. d.task \in [Tasks -> Task] /\ d.stamp \in Nat
  BY DEF Store
<1>2. ASSUME NEW t \in Tasks
      PROVE  /\ f[t] \in Task
             /\ f[t].attempt = d.task[t].attempt /\ f[t].stopped = d.task[t].stopped
             /\ f[t] = d.task[t] \/ (d.task[t].status \in from /\ f[t].status = to)
  <2>1. d.task[t] \in Task
    BY <1>1
  <2> DEFINE a == [d.task[t] EXCEPT !.status = to, !.ended = d.stamp]
  <2>2. a \in Task /\ a.status = to /\ a.attempt = d.task[t].attempt /\ a.stopped = d.task[t].stopped
    BY <1>1, <2>1 DEF Task
  <2>3. f[t] = IF d.task[t].status \in from THEN a ELSE d.task[t]
    OBVIOUS
  <2> HIDE DEF a, f
  <2> QED
    BY <2>1, <2>2, <2>3
<1>3. Retasked(d, from, to) = [d EXCEPT !.task = f]
  BY DEF Retasked
<1>4. f \in [Tasks -> Task]
  BY <1>2
<1> HIDE DEF f
<1>5. [d EXCEPT !.task = f] \in Store /\ [d EXCEPT !.task = f].task = f
      /\ [d EXCEPT !.task = f].checkpoints = d.checkpoints
  BY <1>4, StoreWithTasks
<1>6. ASSUME NEW t \in Tasks
      PROVE  /\ (f[t].status = "RUNNING") <=> (d.task[t].status = "RUNNING")
             /\ f[t].status \in Waiting => d.task[t].status \in Waiting
             /\ d.task[t].status = "FAILED" => f[t].status = "FAILED"
  BY <1>2 DEF Waiting
<1> QED
  BY <1>2, <1>3, <1>5, <1>6 DEF Calm

(* A checkpoint of nobody's is calm. *)
LEMMA CheckpointCalm ==
  ASSUME NEW d \in Store
  PROVE  createCheckpoint(d, None) \in Store /\ Calm(createCheckpoint(d, None), d)
<1> DEFINE e == createCheckpoint(d, None)
<1>1. d.task \in [Tasks -> Task]
  BY DEF Store
<1>2. /\ e \in Store /\ e.task = d.task
      /\ e.checkpoints = d.checkpoints \cup {[owner |-> None, at |-> d.stamp]}
  BY StoreWithCheckpoint
<1> HIDE DEF e
<1>3. Calm(e, d)
  BY <1>2 DEF Calm
<1> QED
  BY <1>2, <1>3 DEF e

(* The game's own row may change. *)
LEMMA RowCalm ==
  ASSUME NEW d \in Store, NEW s \in Hold \cup {"LIVE"}, NEW res \in Hold \cup {"LIVE", ""},
         NEW o \in Asked \cup {"", "PAUSED", "STOPPED"}
  PROVE  /\ [d EXCEPT !.state = s, !.resume = res, !.op = o] \in Store
         /\ Calm([d EXCEPT !.state = s, !.resume = res, !.op = o], d)
  BY DEF Store, Calm

(* Calm is transitive. *)
LEMMA CalmChain ==
  ASSUME NEW d, NEW e, NEW f, Calm(e, d), Calm(f, e)
  PROVE  Calm(f, d)
  BY DEF Calm

(* The state to resume in is one a game can have. *)
LEMMA ResumeType ==
  ASSUME NEW d \in Store
  PROVE  ResumeState(d) \in Hold \cup {"LIVE", ""}
  BY DEF ResumeState, Store, Hold

(* finalizePause, finalizeStop and the choice between them are calm. *)
LEMMA FinalizedCalm ==
  ASSUME NEW d \in Store
  PROVE  Finalized(d) \in Store /\ Calm(Finalized(d), d)
<1>0. Calm(d, d)
  BY DEF Calm
<1>1. finalizePause(d) \in Store /\ Calm(finalizePause(d), d)
  <2> DEFINE a == Retasked(d, {"QUEUED"}, "PAUSED")
             b == createCheckpoint(a, None)
             c == [b EXCEPT !.state = "PAUSED", !.resume = ResumeState(d), !.op = "PAUSED"]
  <2>1. a \in Store /\ Calm(a, d)
    BY RetaskedCalm DEF Waiting
  <2> HIDE DEF a
  <2>2. b \in Store /\ Calm(b, a)
    BY <2>1, CheckpointCalm
  <2> HIDE DEF b
  <2>3. c \in Store /\ Calm(c, b)
    BY <2>2, RowCalm, ResumeType DEF Hold, Asked
  <2>4. Calm(c, d)
    BY <2>1, <2>2, <2>3, CalmChain
  <2> QED
    BY <1>0, <2>3, <2>4 DEF finalizePause, a, b
<1>2. finalizeStop(d) \in Store /\ Calm(finalizeStop(d), d)
  <2> DEFINE a == Retasked(d, {"QUEUED", "PAUSED"}, "CANCELLED")
             b == createCheckpoint(a, None)
             c == [b EXCEPT !.state = "FAILED", !.resume = ResumeState(d), !.op = "STOPPED"]
  <2>1. a \in Store /\ Calm(a, d)
    BY RetaskedCalm DEF Waiting
  <2> HIDE DEF a
  <2>2. b \in Store /\ Calm(b, a)
    BY <2>1, CheckpointCalm
  <2> HIDE DEF b
  <2>3. c \in Store /\ Calm(c, b)
    BY <2>2, RowCalm, ResumeType DEF Hold, Asked
  <2>4. Calm(c, d)
    BY <2>1, <2>2, <2>3, CalmChain
  <2> QED
    BY <1>0, <2>3, <2>4 DEF finalizeStop, a, b
<1> QED
  BY <1>0, <1>1, <1>2 DEF Finalized

(* Holding the game is calm. *)
LEMMA HeldCalm ==
  ASSUME NEW d \in Store, NEW s \in Hold
  PROVE  Held(d, s) \in Store /\ Calm(Held(d, s), d)
  BY RowCalm, ResumeType DEF Held

(* The end of a task that runs, with or without a checkpoint of its own. *)
LEMMA EndedLeaves ==
  ASSUME NEW d \in Store, StopsLast(d), NEW t \in Tasks, d.task[t].status = "RUNNING",
         NEW s \in {"QUEUED", "PAUSED", "COMPLETED", "FAILED", "CANCELLED"}
  PROVE  /\ Leaves(Ended(d, t, s), d, t) /\ Ended(d, t, s).task[t].status = s
         /\ Leaves(createCheckpoint(Ended(d, t, s), t), d, t)
         /\ createCheckpoint(Ended(d, t, s), t).task[t].status = s
<1> DEFINE e == Ended(d, t, s)
           k == createCheckpoint(e, t)
<1>1. /\ d.task \in [Tasks -> Task] /\ d.stamp \in Nat
      /\ ~d.task[t].stopped
  BY DEF Store, StopsLast
<1> DEFINE a == [d.task[t] EXCEPT !.status = s, !.ended = d.stamp]
           f == [d.task EXCEPT ![t] = a]
<1>2. e = [d EXCEPT !.task = f]
  BY <1>1 DEF Ended, Store
<1>3. a \in Task /\ a.status = s /\ a.attempt = d.task[t].attempt /\ a.stopped = d.task[t].stopped
  BY <1>1 DEF Task
<1> HIDE DEF a
<1>4. f \in [Tasks -> Task] /\ f[t] = a /\ \A u \in Tasks \ {t} : f[u] = d.task[u]
  BY <1>1, <1>3
<1> HIDE DEF f
<1>5. /\ e \in Store /\ e.checkpoints = d.checkpoints /\ e.stamp = d.stamp /\ e.task = f
  BY <1>2, <1>4, StoreWithTasks
<1> HIDE DEF e
<1>7. /\ k \in Store /\ k.task = f
      /\ k.checkpoints = d.checkpoints \cup {[owner |-> t, at |-> d.stamp]}
  <2>1. t \in Tasks \cup {None}
    OBVIOUS
  <2> QED
    BY <1>5, <2>1, StoreWithCheckpoint
<1> HIDE DEF k
<1>6. StopsLast(e) /\ StopsLast(k)
  BY <1>1, <1>3, <1>4, <1>5, <1>7 DEF StopsLast
<1>8. Leaves(e, d, t) /\ Leaves(k, d, t)
  BY <1>3, <1>4, <1>5, <1>6, <1>7 DEF Leaves
<1> QED
  BY <1>3, <1>4, <1>5, <1>7, <1>8 DEF e, k

(* A task that has left stays so while the rest is calmed. *)
LEMMA LeavesCalm ==
  ASSUME NEW d, NEW e, NEW f \in Store, NEW t, Leaves(e, d, t), Calm(f, e)
  PROVE  Leaves(f, d, t)
<1>1. StopsLast(f)
  BY CalmKeepsStops DEF Leaves
<1> QED
  BY <1>1 DEF Leaves, Calm

(* completeTask, for the attempt that holds the lease: the task leaves, and waits again only *)
(* after an end that was no success.                                                         *)
LEMMA CompleteLeaves ==
  ASSUME NEW d \in Store, StopsLast(d), NEW r \in Runs, Owns(d, r), NEW g \in Terminal
  PROVE  /\ Leaves(completeTask(d, r, g), d, r[1])
         /\ completeTask(d, r, g).task[r[1]].status \in Waiting => g # "SUCCEEDED"
<1> DEFINE t == r[1]
           stopped == d.task[t].cancel /\ g # "SUCCEEDED"
           to == IF ~stopped THEN "COMPLETED"
                 ELSE IF d.op = "STOP_REQUESTED" THEN "CANCELLED" ELSE "PAUSED"
           e == createCheckpoint(Ended(d, t, to), t)
<1>1. t \in Tasks /\ d.task[t].status = "RUNNING"
  BY DEF Runs, Owns
<1>2. to \in {"QUEUED", "PAUSED", "COMPLETED", "FAILED", "CANCELLED"} /\ (to = "PAUSED" => g # "SUCCEEDED")
      /\ to # "QUEUED"
  OBVIOUS
<1>3. completeTask(d, r, g) = Finalized(e)
  BY DEF completeTask
<1> HIDE DEF t, to
<1>4. Leaves(e, d, t) /\ e.task[t].status = to
  BY <1>1, <1>2, EndedLeaves
<1> HIDE DEF e
<1>5. Finalized(e) \in Store /\ Calm(Finalized(e), e)
  BY <1>4, FinalizedCalm DEF Leaves
<1>6. Leaves(Finalized(e), d, t)
  BY <1>4, <1>5, LeavesCalm
<1>7. Finalized(e).task[t].status \in Waiting => to \in Waiting
  BY <1>1, <1>4, <1>5 DEF Calm
<1> QED
  BY <1>2, <1>3, <1>6, <1>7 DEF Waiting, t

(* The end of a running task, and the hold it may put the game in. *)
LEMMA HeldLeaves ==
  ASSUME NEW d \in Store, StopsLast(d), NEW t \in Tasks, d.task[t].status = "RUNNING",
         NEW s \in Hold
  PROVE  /\ Leaves(Held(Ended(d, t, "FAILED"), s), d, t)
         /\ Held(Ended(d, t, "FAILED"), s).task[t].status = "FAILED"
<1> DEFINE e == Ended(d, t, "FAILED")
<1>1. Leaves(e, d, t) /\ e.task[t].status = "FAILED"
  BY EndedLeaves
<1> HIDE DEF e
<1>2. Held(e, s) \in Store /\ Calm(Held(e, s), e)
  BY <1>1, HeldCalm DEF Leaves
<1>3. Leaves(Held(e, s), d, t)
  BY <1>1, <1>2, LeavesCalm
<1> QED
  BY <1>1, <1>2, <1>3 DEF Calm, e

(* failTask, for the attempt that holds the lease: only a task that is safe to retry waits again. *)
LEMMA FailLeaves ==
  ASSUME NEW d \in Store, StopsLast(d), NEW r \in Runs, Owns(d, r), NEW retryable \in BOOLEAN
  PROVE  /\ Leaves(failTask(d, r, retryable), d, r[1])
         /\ failTask(d, r, retryable).task[r[1]].status \in Waiting => safe[r[1]]
<1> DEFINE t == r[1]
           again == retryable /\ safe[t] /\ d.task[t].attempt < MaxAttempts
           x == Held(Ended(d, t, "FAILED"), "BLOCKED")
           y == Ended(d, t, "QUEUED")
           z == Held(Ended(d, t, "FAILED"), "FAILED")
<1>1. t \in Tasks /\ d.task[t].status = "RUNNING"
  BY DEF Runs, Owns
<1>2. failTask(d, r, retryable) = IF d.task[t].cancel /\ d.op \in Asked THEN x
                                  ELSE IF again THEN y ELSE z
  BY DEF failTask
<1> HIDE DEF t
<1>3. Leaves(x, d, t) /\ x.task[t].status = "FAILED"
  BY <1>1, HeldLeaves DEF Hold
<1>4. Leaves(y, d, t)
  BY <1>1, EndedLeaves
<1>5. Leaves(z, d, t) /\ z.task[t].status = "FAILED"
  BY <1>1, HeldLeaves DEF Hold
<1> HIDE DEF x, y, z
<1> QED
  BY <1>2, <1>3, <1>4, <1>5 DEF Waiting, t

(* reconcile, for a task whose lease ran out: only one that is safe to retry waits again. *)
LEMMA ExpireLeaves ==
  ASSUME NEW d \in Store, StopsLast(d), NEW t \in Tasks, d.task[t].status = "RUNNING"
  PROVE  /\ Leaves(reconcile(d, t), d, t)
         /\ reconcile(d, t).task[t].status \in Waiting => safe[t]
<1> DEFINE x == Held(Ended(d, t, "FAILED"), "BLOCKED")
           y == Ended(d, t, "QUEUED")
           z == Held(Ended(d, t, "FAILED"), "FAILED")
           e == Expired(d, t)
<1>1. e = IF d.op \in Asked THEN x
          ELSE IF safe[t] /\ d.task[t].attempt < MaxAttempts THEN y ELSE z
  BY DEF Expired
<1>2. Leaves(x, d, t) /\ x.task[t].status = "FAILED"
  BY HeldLeaves DEF Hold
<1>3. Leaves(y, d, t)
  BY EndedLeaves
<1>4. Leaves(z, d, t) /\ z.task[t].status = "FAILED"
  BY HeldLeaves DEF Hold
<1> HIDE DEF x, y, z, e
<1>5. Leaves(e, d, t) /\ (e.task[t].status \in Waiting => safe[t])
  BY <1>1, <1>2, <1>3, <1>4 DEF Waiting
<1>6. Finalized(e) \in Store /\ Calm(Finalized(e), e)
  BY <1>5, FinalizedCalm DEF Leaves
<1>7. reconcile(d, t) = Finalized(e)
  BY GameFactoryConstants DEF reconcile, e
<1>8. Leaves(Finalized(e), d, t)
  BY <1>5, <1>6, LeavesCalm
<1> QED
  BY <1>5, <1>6, <1>7, <1>8 DEF Calm

(* e is d, but that t is stopped for good and leaves no checkpoint. *)
Stopped(e, d, t) ==
  /\ e \in Store
  /\ StopsLast(e)
  /\ e.task[t].stopped /\ e.task[t].status = "FAILED"
  /\ \A u \in Tasks : e.task[u].attempt = d.task[u].attempt /\ (u # t => e.task[u] = d.task[u])

(* securityStopTask, for the current attempt. *)
LEMMA StopStops ==
  ASSUME NEW d \in Store, StopsLast(d), NEW t \in Tasks, NEW n, n = d.task[t].attempt
  PROVE  Stopped(securityStopTask(d, <<t, n>>), d, t)
<1> DEFINE row == d.task[t]
           was == IF row.status \in {"RUNNING", "QUEUED"} THEN d.stamp ELSE row.ended
           unsafe == { c \in d.checkpoints : c.owner = t \/ c.at >= was }
           unconfirmed == row.cancel /\ (d.op # "" \/ d.state = "PAUSED")
           a == [row EXCEPT !.status = "FAILED", !.ended = d.stamp, !.stopped = TRUE, !.cancel = FALSE]
           f == [d.task EXCEPT ![t] = a]
           K == d.checkpoints \ unsafe
           after == [Ended(d, t, "FAILED") EXCEPT !.task[t].stopped = TRUE,
                                                  !.task[t].cancel = FALSE,
                                                  !.checkpoints = @ \ unsafe]
           s == IF unconfirmed THEN "BLOCKED" ELSE "FAILED"
<1>1. d.task \in [Tasks -> Task] /\ d.stamp \in Nat /\ row \in Task
  BY DEF Store
<1>2. CASE row.stopped
  <2>1. securityStopTask(d, <<t, n>>) = d
    BY <1>2 DEF securityStopTask
  <2> QED
    BY <1>2, <2>1 DEF Stopped, StopsLast
<1>3. CASE ~row.stopped
  <2>1. securityStopTask(d, <<t, n>>) = Held(after, s)
    BY <1>3 DEF securityStopTask
  <2>2. after = [d EXCEPT !.task = f, !.checkpoints = K]
    <3> DEFINE b == [row EXCEPT !.status = "FAILED", !.ended = d.stamp]
               g == [d.task EXCEPT ![t] = b]
               m == Ended(d, t, "FAILED")
               b2 == [b EXCEPT !.stopped = TRUE, !.cancel = FALSE]
    <3>1. m = [d EXCEPT !.task = g]
      BY <1>1 DEF Ended, Store
    <3>2. m.task = g /\ m.checkpoints = d.checkpoints /\ g[t] = b
      BY <1>1, <3>1 DEF Store
    <3>3. b2 = a
      BY <1>1 DEF Task
    <3> HIDE DEF m, b
    <3>4. after = [m EXCEPT !.task = [g EXCEPT ![t] = b2], !.checkpoints = K]
      BY <1>1, <3>1, <3>2 DEF m, Store
    <3> HIDE DEF a, b2, K
    <3>5. [g EXCEPT ![t] = b2] = f
      BY <1>1, <3>3
    <3> QED
      BY <3>1, <3>4, <3>5 DEF Store
  <2>3. a \in Task /\ a.status = "FAILED" /\ a.stopped /\ a.attempt = row.attempt
    BY <1>1 DEF Task
  <2>4. K \in SUBSET d.checkpoints /\ \A c \in K : c.owner # t
    OBVIOUS
  <2> HIDE DEF after, a, K
  <2>5. f \in [Tasks -> Task] /\ f[t] = a /\ \A u \in Tasks \ {t} : f[u] = d.task[u]
    BY <1>1, <2>3
  <2> HIDE DEF f
  <2>6. after \in Store /\ after.task = f /\ after.checkpoints = K
    BY <2>2, <2>4, <2>5 DEF Store
  <2>7. s \in Hold
    BY DEF Hold
  <2> DEFINE h == Held(after, s)
  <2> HIDE DEF s
  <2>8. h \in Store /\ h.task = after.task /\ h.checkpoints = after.checkpoints
    BY <2>6, <2>7, HeldCalm DEF Held, Store
  <2> HIDE DEF h
  <2>9. StopsLast(h)
    BY <2>3, <2>4, <2>5, <2>6, <2>8 DEF StopsLast
  <2> QED
    BY <1>1, <2>1, <2>3, <2>5, <2>6, <2>8, <2>9 DEF Stopped, h
<1> QED
  BY <1>2, <1>3

-----------------------------------------------------------------------------
(* The inductive invariant. *)

(* The lane runs one task at a time (claimNextTask). *)
OneRunning(d) ==
  \A t, u \in Tasks : d.task[t].status = "RUNNING" /\ d.task[u].status = "RUNNING" => t = u

(* What was open at a loss of isolation is latched. *)
TaintHolds == \A r \in tainted : Latched(r)

(* What an instance relies on at each point of its tick: the dispatch in hand is on record, *)
(* an interrupted one is latched and then stopped in the store, a terminal status is the      *)
(* worker's, and a start that may still arrive is not of a row that has ended.                *)
InHand ==
  \A i \in Instances :
    /\ inst[i].pc \in Working => inst[i].run \in Runs
    /\ inst[i].pc \notin Working => inst[i].run = <<None, 0>>
    /\ inst[i].pc \in Working \ {"intent"} => journal[inst[i].run].status # "none"
    /\ \A r \in inst[i].todo : journal[r].status # "none"
    /\ inst[i].expected <= epoch
    /\ inst[i].pc = "stop" => Latched(inst[i].run)
    /\ inst[i].pc = "ask" => db.task[inst[i].run[1]].stopped
    /\ inst[i].pc \in Late => remote[inst[i].run] \in Terminal /\ inst[i].got = remote[inst[i].run]
    /\ inst[i].pc \in Starting =>
         ~(journal[inst[i].run].status = "interrupted" /\ remote[inst[i].run] = "absent")

(* Between claimNextTask and the last check before worker.start the run is this instance's: *)
(* its lease cannot run out, its payload does not exist, and another instance has it in hand *)
(* only to interrupt it.                                                                     *)
FreshRuns ==
  \A i \in Instances : inst[i].pc \in Fresh =>
    /\ db.task[inst[i].run[1]].attempt = inst[i].run[2]
    /\ db.task[inst[i].run[1]].status = "RUNNING" \/ db.task[inst[i].run[1]].stopped
    /\ inst[i].pc = "intent" => journal[inst[i].run].status = "none"
    /\ inst[i].pc = "send" => journal[inst[i].run].status \in {"open", "latched"}
    /\ remote[inst[i].run] = "absent"
    /\ \A j \in Instances \ {i} :
         /\ inst[j].run = inst[i].run => inst[j].pc \in {"stop", "ask"}
         /\ inst[i].run \in inst[j].todo => Latched(inst[i].run)

(* A row on record is of an attempt that was made; a payload is of a row on record; a closed *)
(* row is of a payload that ended; an interrupted one is of a task that is stopped.          *)
Rows ==
  \A r \in Runs :
    /\ journal[r].status # "none" => r[2] <= db.task[r[1]].attempt
    /\ remote[r] # "absent" => journal[r].status # "none"
    /\ journal[r].status = "closed" => remote[r] \in Terminal
    /\ journal[r].status = "interrupted" =>
         db.task[r[1]].stopped /\ remote[r] \in Terminal \cup {"never", "absent"}

(* An instance that admits work in the epoch it relies on is alone: nothing is latched, its   *)
(* task runs, and a row that is active is held by its task and in nobody's list or hands but *)
(* those of the instance that has just claimed it.                                           *)
Lane ==
  \A i \in Instances : inst[i].pc \in Admitting /\ epoch = inst[i].expected =>
    /\ ~pendingSecurity
    /\ inst[i].pc \in Fresh => db.task[inst[i].run[1]].status = "RUNNING"
    /\ \A r \in Active :
         /\ Owns(db, r)
         /\ \A j \in Instances :
              r \notin inst[j].todo /\ (inst[j].run = r => inst[j].pc \in {"send", "starting"})

(* Of two active rows at least one is of a payload that has ended. *)
Alone ==
  \A r, s \in Active : r # s => remote[r] \in Terminal \/ remote[s] \in Terminal

(* A task that is not safe to retry waits, or has a newer attempt, only after ends that were *)
(* no success.                                                                               *)
UnsafeOnce ==
  \A r \in Runs :
    /\ ~safe[r[1]]
    /\ \/ r[2] < db.task[r[1]].attempt
       \/ r[2] = db.task[r[1]].attempt /\ db.task[r[1]].status \in Waiting
    => remote[r] \in Terminal \ {"SUCCEEDED"}

IInv ==
  /\ TypeOK /\ StopsLast(db) /\ OneRunning(db) /\ TaintHolds
  /\ InHand /\ FreshRuns /\ Rows /\ Lane /\ Alone /\ UnsafeOnce

-----------------------------------------------------------------------------
(* What a step may do. *)

NoneAdmits == \A j \in Instances : inst[j].pc \notin Admitting

(* To a row of the journal. *)
LegalRow(i, r) ==
  LET old == journal[r].status
      new == journal'[r].status
  IN \/ new = old
     \/ old \in {"open", "closed"} /\ new = "latched" /\ epoch' > epoch
     \/ inst[i].pc = "finish" /\ r = inst[i].run /\ ~Latched(r) /\ new = "closed"
     \/ /\ inst[i].pc = "intent" /\ r = inst[i].run /\ ~Incident(i)
        /\ new = "open" /\ inst'[i].pc = "send"
     \/ /\ inst[i].pc = "send" /\ r = inst[i].run
        /\ new = "interrupted" /\ db'.task[r[1]].stopped
        /\ old = "latched" \/ epoch' > epoch
        /\ inst'[i].pc = "idle"
     \/ /\ inst[i].pc = "ask" /\ NoneAdmits /\ r = inst[i].run
        /\ old = "latched" /\ new = "interrupted" /\ remote'[r] \in Terminal \cup {"never"}

(* To a payload. *)
LegalRemote(i, r) ==
  LET old == remote[r]
      new == remote'[r]
  IN \/ new = old
     \/ old \in Alive /\ new \in Alive \cup Terminal
     \/ /\ inst[i].pc \in Starting /\ NoneAdmits /\ r = inst[i].run
        /\ old = "absent" /\ new = "running"
     \/ /\ inst[i].pc = "ask" /\ NoneAdmits /\ r = inst[i].run
        /\ old = "absent" /\ new = "never"

(* To a task: it is claimed, or it keeps its attempt, and every way out of RUNNING and into *)
(* waiting is one of those listed.                                                          *)
LegalTask(i, t) ==
  LET old == db.task[t]
      new == db'.task[t]
  IN \/ /\ inst[i].pc = "claim" /\ ~Incident(i) /\ ~Running(db) /\ old.status = "QUEUED"
        /\ new.status = "RUNNING" /\ new.attempt = old.attempt + 1 /\ new.stopped = old.stopped
        /\ inst'[i].pc = "intent" /\ inst'[i].run = <<t, new.attempt>>
     \/ /\ new.attempt = old.attempt
        /\ old.stopped => new.stopped
        /\ new.status = "RUNNING" => old.status = "RUNNING"
        /\ new.stopped =>
             \/ old.stopped
             \/ inst[i].pc = "stop" /\ inst[i].run[1] = t /\ journal[inst[i].run].status # "interrupted"
             \/ /\ inst[i].pc \in Fresh /\ inst[i].run[1] = t /\ Incident(i)
                /\ inst'[i].pc = "idle"
                /\ inst[i].pc = "send" => journal'[inst[i].run].status = "interrupted"
        /\ old.status = "RUNNING" =>
             \/ new.status = "RUNNING"
             \/ new.stopped
             \/ inst[i].pc \in {"terminal", "complete"} /\ Owns(db, inst[i].run) /\ t = inst[i].run[1]
             \/ /\ inst[i].pc = "intent" /\ Owns(db, inst[i].run) /\ t = inst[i].run[1]
                /\ inst'[i].pc = "idle"
             \/ NoneAdmits
        /\ new.status \in Waiting =>
             \/ old.status \in Waiting
             \/ safe[t]
             \/ /\ inst[i].pc = "complete" /\ Owns(db, inst[i].run) /\ t = inst[i].run[1]
                /\ inst[i].got # "SUCCEEDED"

(* To an instance: it puts down what it had in hand, *)
Rests(i) ==
  /\ inst'[i].pc \in {"idle", "probe", "observe", "next"} /\ inst'[i].run = <<None, 0>>
  /\ \A r \in inst'[i].todo :
       \/ r \in inst[i].todo
       \/ inst[i].pc = "probe" /\ NoneAdmits /\ r \in Active
       \/ inst[i].pc = "observe" /\ epoch' > epoch /\ r \in Active /\ Latched(r)'
  /\ inst'[i].expected <= epoch'

(* or admits new work, *)
Admits(i) ==
  /\ inst[i].pc = "next" /\ inst'[i].pc = "claim" /\ inst'[i].run = <<None, 0>>
  /\ inst'[i].todo = {} /\ inst'[i].expected = epoch /\ epoch' = epoch
  /\ ~pendingSecurity /\ Active = {} /\ journal' = journal

(* or takes the next dispatch of its list, *)
Picks(i) ==
  /\ inst[i].pc = "next" /\ inst'[i].run \in inst[i].todo /\ inst'[i].todo \subseteq inst[i].todo
  /\ inst'[i].expected = inst[i].expected
  /\ \/ inst'[i].pc = "stop" /\ Latched(inst[i].run)'
     \/ inst'[i].pc = "status" /\ ~Latched(inst'[i].run) /\ journal' = journal

(* or claims a task, *)
Claims(i) ==
  /\ inst[i].pc = "claim" /\ ~Incident(i) /\ ~Running(db)
  /\ inst'[i].pc = "intent" /\ inst'[i].expected = inst[i].expected /\ inst'[i].todo = inst[i].todo
  /\ \E t \in Tasks : /\ inst'[i].run = <<t, db'.task[t].attempt>> /\ inst'[i].run \in Runs
                      /\ db'.task[t].attempt = db.task[t].attempt + 1
                      /\ db'.task[t].status = "RUNNING"
  /\ journal' = journal /\ epoch' = epoch /\ remote' = remote

(* or goes on with the dispatch it has in hand. *)
Keeps(i) ==
  /\ inst[i].pc \in Working /\ inst'[i].run = inst[i].run /\ inst'[i].todo = inst[i].todo
  /\ inst'[i].expected = inst[i].expected
  /\ \/ /\ inst'[i].pc = "stop" /\ inst[i].pc \notin Fresh /\ Latched(inst[i].run)'
        /\ inst[i].pc = "starting" => NoneAdmits
     \/ inst'[i].pc = "cancel" /\ inst[i].pc \in {"status", "start"}
     \/ inst'[i].pc = "start" /\ inst[i].pc = "status" /\ ~Latched(inst[i].run) /\ journal' = journal
     \/ /\ inst'[i].pc = "terminal" /\ inst[i].pc = "status"
        /\ remote[inst[i].run] \in Terminal /\ inst'[i].got = remote[inst[i].run]
     \/ inst'[i].pc \in Late \ {"terminal"} /\ inst[i].pc \in Late /\ inst'[i].got = inst[i].got
     \/ inst'[i].pc = "ask" /\ inst[i].pc = "stop" /\ db'.task[inst[i].run[1]].stopped
     \/ /\ inst'[i].pc = "send" /\ inst[i].pc = "intent" /\ ~Incident(i)
        /\ journal'[inst[i].run].status = "open" /\ db' = db /\ epoch' = epoch
     \/ inst'[i].pc = "starting" /\ inst[i].pc = "send" /\ ~Incident(i) /\ journal' = journal

LegalRows(i)    == \A r \in Runs : LegalRow(i, r)
LegalRemotes(i) == \A r \in Runs : LegalRemote(i, r)
LegalTasks(i)   == \A t \in Tasks : LegalTask(i, t)
LegalInst(i) ==
  /\ \A j \in Instances \ {i} : inst'[j] = inst[j]
  /\ inst' = inst \/ Rests(i) \/ Admits(i) \/ Picks(i) \/ Claims(i) \/ Keeps(i)

Legal(i) ==
  /\ LegalRows(i) /\ LegalRemotes(i) /\ LegalTasks(i) /\ LegalInst(i)
  /\ epoch' >= epoch /\ safe' = safe
  /\ \A r \in tainted' : r \in tainted \/ journal'[r].status = "latched"
  /\ TypeOK' /\ StopsLast(db')

-----------------------------------------------------------------------------
(* Whatever is legal preserves the invariant. *)

(* The tasks of a store. *)
LEMMA StoreTasks ==
  ASSUME NEW d \in Store, NEW t \in Tasks
  PROVE  /\ d.task[t] \in Task
         /\ d.task[t].attempt \in Nat /\ d.task[t].attempt <= MaxAttempts
         /\ d.task[t].stopped \in BOOLEAN
<1>1. d.task[t] \in Task
  BY DEF Store
<1> QED
  BY <1>1, GameFactoryConstants DEF Task

(* A stopped task stays stopped, and an attempt is never taken back. *)
LEMMA TasksGrow ==
  ASSUME TypeOK, NEW i, LegalTasks(i), TypeOK', NEW t \in Tasks
  PROVE  /\ db.task[t].stopped => db'.task[t].stopped
         /\ db.task[t].attempt <= db'.task[t].attempt
         /\ db.task[t].attempt \in Int /\ db'.task[t].attempt \in Int
<1>1. db.task[t].attempt \in Nat /\ db'.task[t].attempt \in Nat
  BY StoreTasks DEF TypeOK
<1>2. LegalTask(i, t)
  BY DEF LegalTasks
<1> QED
  BY <1>1, <1>2 DEF LegalTask

(* The lane still runs one task at a time. *)
LEMMA OneRunningKept ==
  ASSUME OneRunning(db), NEW i, LegalTasks(i)
  PROVE  OneRunning(db')
<1>1. SUFFICES ASSUME NEW t \in Tasks, NEW u \in Tasks, t # u,
                      db'.task[t].status = "RUNNING", db'.task[u].status = "RUNNING"
               PROVE  FALSE
  BY DEF OneRunning
<1>2. LegalTask(i, t) /\ LegalTask(i, u)
  BY DEF LegalTasks
<1> QED
  BY <1>1, <1>2 DEF LegalTask, OneRunning, Running

(* A security status is absorbing (writeSecurityLatch, finishIfSecurityEpoch). *)
LEMMA LatchAbsorbs ==
  ASSUME IInv, NEW i \in Instances, LegalRows(i), NEW r \in Runs, Latched(r)
  PROVE  Latched(r)'
<1>1. LegalRow(i, r)
  BY DEF LegalRows
<1>2. inst[i].pc = "intent" => journal[inst[i].run].status = "none"
  BY DEF IInv, FreshRuns, Fresh
<1> QED
  BY <1>1, <1>2 DEF LegalRow, Latched

(* A row stays on record. *)
LEMMA RowsStay ==
  ASSUME NEW i, LegalRows(i), NEW r \in Runs, journal[r].status # "none"
  PROVE  journal'[r].status # "none"
<1>1. LegalRow(i, r)
  BY DEF LegalRows
<1> QED
  BY <1>1 DEF LegalRow

(* A payload that has ended stays as it ended. *)
LEMMA EndsStay ==
  ASSUME NEW i, LegalRemotes(i), NEW r \in Runs, remote[r] \in Terminal
  PROVE  remote'[r] = remote[r]
<1>1. LegalRemote(i, r)
  BY DEF LegalRemotes
<1> QED
  BY <1>1 DEF LegalRemote, Terminal, Alive

(* What was open at a loss of isolation stays latched. *)
LEMMA TaintKept ==
  ASSUME IInv, NEW i \in Instances, Legal(i)
  PROVE  TaintHolds'
<1>1. SUFFICES ASSUME NEW r \in tainted'
               PROVE  Latched(r)'
  BY DEF TaintHolds
<1>2. CASE journal'[r].status = "latched"
  BY <1>2 DEF Latched
<1>3. CASE r \in tainted
  <2>1. r \in Runs /\ Latched(r)
    BY <1>3 DEF IInv, TaintHolds, TypeOK
  <2> QED
    BY <2>1, LatchAbsorbs DEF Legal
<1> QED
  BY <1>2, <1>3 DEF Legal

(* The rows. *)
LEMMA RowsKept ==
  ASSUME IInv, NEW i \in Instances, Legal(i)
  PROVE  Rows'
<1>1. SUFFICES ASSUME NEW r \in Runs
               PROVE  /\ journal'[r].status # "none" => r[2] <= db'.task[r[1]].attempt
                      /\ remote'[r] # "absent" => journal'[r].status # "none"
                      /\ journal'[r].status = "closed" => remote'[r] \in Terminal
                      /\ journal'[r].status = "interrupted" =>
                           /\ db'.task[r[1]].stopped
                           /\ remote'[r] \in Terminal \cup {"never", "absent"}
  BY DEF Rows
<1>2. LegalRow(i, r) /\ LegalRemote(i, r) /\ r[1] \in Tasks /\ r[2] \in Int
  BY GameFactoryConstants DEF Legal, LegalRows, LegalRemotes, Runs
<1>3. /\ db.task[r[1]].stopped => db'.task[r[1]].stopped
      /\ db.task[r[1]].attempt <= db'.task[r[1]].attempt
      /\ db.task[r[1]].attempt \in Int /\ db'.task[r[1]].attempt \in Int
  BY <1>2, TasksGrow DEF Legal, IInv
<1>4. /\ journal[r].status # "none" => r[2] <= db.task[r[1]].attempt
      /\ remote[r] # "absent" => journal[r].status # "none"
      /\ journal[r].status = "closed" => remote[r] \in Terminal
      /\ journal[r].status = "interrupted" =>
           db.task[r[1]].stopped /\ remote[r] \in Terminal \cup {"never", "absent"}
  BY DEF IInv, Rows
<1>5. journal'[r].status # "none" => r[2] <= db'.task[r[1]].attempt
  <2>1. CASE journal[r].status # "none"
    BY <1>2, <1>3, <1>4, <2>1
  <2>2. CASE journal[r].status = "none" /\ journal'[r].status # "none"
    <3>1. inst[i].pc \in Working /\ r = inst[i].run /\ inst[i].pc # "ask"
          /\ (inst[i].pc # "intent" => journal[r].status # "none")
      BY <1>2, <2>2 DEF LegalRow, Working, IInv, InHand
    <3>2. db.task[r[1]].attempt = r[2]
      BY <2>2, <3>1 DEF IInv, FreshRuns, Fresh
    <3> QED
      BY <1>2, <1>3, <3>2
  <2> QED
    BY <2>1, <2>2
<1>6. remote'[r] # "absent" => journal'[r].status # "none"
  <2>1. journal[r].status # "none" => journal'[r].status # "none"
    BY RowsStay DEF Legal
  <2>2. inst[i].pc \in Starting \cup {"ask"} /\ r = inst[i].run => journal[r].status # "none"
    BY DEF IInv, InHand, Starting, Working
  <2>3. remote'[r] # "absent" => remote[r] # "absent" \/ (inst[i].pc \in Starting \cup {"ask"} /\ r = inst[i].run)
    BY <1>2 DEF LegalRemote, Alive
  <2> QED
    BY <1>4, <2>1, <2>2, <2>3
<1>7. journal'[r].status = "closed" => remote'[r] \in Terminal
  <2>1. inst[i].pc = "finish" /\ r = inst[i].run => remote[r] \in Terminal
    BY DEF IInv, InHand, Late
  <2>2. remote[r] \in Terminal => remote'[r] = remote[r]
    BY EndsStay DEF Legal
  <2> QED
    BY <1>2, <1>4, <2>1, <2>2 DEF LegalRow
<1>8. ASSUME journal'[r].status = "interrupted"
      PROVE  db'.task[r[1]].stopped /\ remote'[r] \in Terminal \cup {"never", "absent"}
  <2>1. CASE journal[r].status = "interrupted"
    <3>1. ~(inst[i].pc \in Starting /\ r = inst[i].run /\ remote[r] = "absent")
      BY <2>1 DEF IInv, InHand
    <3> QED
      BY <1>2, <1>3, <1>4, <2>1, <3>1 DEF LegalRemote, Alive, Terminal
  <2>2. CASE inst[i].pc = "send" /\ r = inst[i].run /\ db'.task[r[1]].stopped
    <3>1. remote[r] = "absent"
      BY <2>2 DEF IInv, FreshRuns, Fresh
    <3> QED
      BY <1>2, <2>2, <3>1 DEF LegalRemote, Alive, Starting
  <2>3. CASE inst[i].pc = "ask" /\ r = inst[i].run /\ remote'[r] \in Terminal \cup {"never"}
    <3>1. db.task[r[1]].stopped
      BY <2>3 DEF IInv, InHand
    <3> QED
      BY <1>3, <2>3, <3>1
  <2> QED
    BY <1>2, <1>8, <2>1, <2>2, <2>3 DEF LegalRow
<1> QED
  BY <1>5, <1>6, <1>7, <1>8

(* Active rows. *)
LEMMA ActiveRows ==
  ASSUME IInv, NEW i \in Instances, Legal(i), NEW r \in Active', r \notin Active
  PROVE  /\ r \in Runs
         /\ \/ journal[r].status = "closed" /\ epoch' > epoch /\ journal'[r].status = "latched"
            \/ /\ journal[r].status = "none" /\ journal'[r].status = "open"
               /\ inst[i].pc = "intent" /\ r = inst[i].run /\ ~Incident(i)
               /\ inst'[i].pc = "send"
<1>1. r \in Runs /\ journal'[r].status \in {"open", "latched"} /\ journal[r].status \notin {"open", "latched"}
  BY DEF Active
<1>2. LegalRow(i, r)
  BY <1>1 DEF Legal, LegalRows
<1>3. inst[i].pc = "intent" => journal[inst[i].run].status = "none"
  BY DEF IInv, FreshRuns, Fresh
<1> QED
  BY <1>1, <1>2, <1>3 DEF LegalRow

(* The lane is empty when an intent is recorded. *)
LEMMA LaneIsEmpty ==
  ASSUME IInv, NEW i \in Instances, inst[i].pc = "intent", ~Incident(i)
  PROVE  Active = {}
<1>1. SUFFICES ASSUME NEW r \in Active
               PROVE  FALSE
  OBVIOUS
<1> DEFINE m == inst[i].run
<1>2. /\ db.task[m[1]].status = "RUNNING" /\ Owns(db, r)
      /\ m \in Runs
      /\ db.task[m[1]].attempt = m[2] /\ journal[m].status = "none"
  BY DEF IInv, Lane, FreshRuns, Incident, Fresh, Admitting, InHand, Working
<1>3. r \in Runs /\ journal[r].status # "none"
  BY DEF Active
<1>4. r[1] = m[1] /\ r[2] = m[2]
  BY <1>2, <1>3 DEF Owns, IInv, OneRunning, Runs
<1>5. r = m
  BY <1>2, <1>3, <1>4 DEF Runs
<1> QED
  BY <1>2, <1>3, <1>5

(* Of two active rows one has ended. *)
LEMMA AloneKept ==
  ASSUME IInv, NEW i \in Instances, Legal(i)
  PROVE  Alone'
<1>1. SUFFICES ASSUME NEW r \in Active', NEW s \in Active', r # s
               PROVE  remote'[r] \in Terminal \/ remote'[s] \in Terminal
  BY DEF Alone
<1>2. r \in Runs /\ s \in Runs
  BY DEF Active
<1>3. /\ remote[r] \in Terminal => remote'[r] \in Terminal
      /\ remote[s] \in Terminal => remote'[s] \in Terminal
  BY <1>2, EndsStay DEF Legal
<1>4. CASE r \in Active /\ s \in Active
  BY <1>1, <1>3, <1>4 DEF IInv, Alone
<1>5. ASSUME NEW a \in Active', NEW b \in Active', a # b, a \notin Active
      PROVE  remote[a] \in Terminal \/ remote[b] \in Terminal
  <2>1. CASE journal[a].status = "closed"
    BY <1>5, <2>1, ActiveRows DEF IInv, Rows
  <2>2. CASE inst[i].pc = "intent" /\ a = inst[i].run /\ ~Incident(i)
    <3>1. b \notin Active
      BY <2>2, LaneIsEmpty
    <3>2. b \in Runs /\ journal[b].status = "closed"
      BY <1>5, <2>2, <3>1, ActiveRows
    <3> QED
      BY <3>2 DEF IInv, Rows
  <2> QED
    BY <1>5, <2>1, <2>2, ActiveRows
<1> QED
  BY <1>1, <1>3, <1>4, <1>5

(* A task that is not safe to retry waits only after ends that were no success. *)
LEMMA UnsafeKept ==
  ASSUME IInv, NEW i \in Instances, Legal(i)
  PROVE  UnsafeOnce'
<1>1. SUFFICES ASSUME NEW r \in Runs, ~safe[r[1]],
                      \/ r[2] < db'.task[r[1]].attempt
                      \/ r[2] = db'.task[r[1]].attempt /\ db'.task[r[1]].status \in Waiting
               PROVE  remote'[r] \in Terminal \ {"SUCCEEDED"}
  BY DEF UnsafeOnce, Legal
<1>2. r[1] \in Tasks /\ r[2] \in Int /\ LegalTask(i, r[1])
  BY GameFactoryConstants DEF Runs, Legal, LegalTasks
<1>3. SUFFICES remote[r] \in Terminal \ {"SUCCEEDED"}
  BY EndsStay DEF Legal
<1>4. db.task[r[1]].attempt \in Int /\ db'.task[r[1]].attempt \in Int
  BY <1>2, TasksGrow DEF Legal, IInv
<1>5. CASE r[2] < db.task[r[1]].attempt
  BY <1>1, <1>5 DEF IInv, UnsafeOnce
<1>6. CASE r[2] = db.task[r[1]].attempt /\ db.task[r[1]].status \in Waiting
  BY <1>1, <1>6 DEF IInv, UnsafeOnce
<1>7. CASE /\ inst[i].pc = "complete" /\ Owns(db, inst[i].run) /\ r[1] = inst[i].run[1]
           /\ inst[i].got # "SUCCEEDED" /\ r[2] = db.task[r[1]].attempt
  <2>1. inst[i].run \in Runs /\ remote[inst[i].run] \in Terminal /\ inst[i].got = remote[inst[i].run]
    BY <1>7 DEF IInv, InHand, Late, Working
  <2>2. r = inst[i].run
    BY <1>7, <2>1 DEF Owns, Runs
  <2> QED
    BY <1>7, <2>1, <2>2
<1>8. CASE /\ db.task[r[1]].status = "QUEUED" /\ db'.task[r[1]].status = "RUNNING"
           /\ db'.task[r[1]].attempt = db.task[r[1]].attempt + 1
  <2>1. r[2] < db.task[r[1]].attempt \/ r[2] = db.task[r[1]].attempt
    BY <1>1, <1>2, <1>4, <1>8 DEF Waiting
  <2> QED
    BY <1>5, <1>6, <1>8, <2>1 DEF Waiting
<1> QED
  BY <1>1, <1>2, <1>4, <1>5, <1>6, <1>7, <1>8 DEF LegalTask

(* No run is the absence of one. *)
LEMMA NoneIsNoRun == <<None, 0>> \notin Runs
  BY GameFactoryConstants DEF Runs

(* What an instance relies on, when it does not move. *)
LEMMA InHandStill ==
  ASSUME IInv, NEW i \in Instances, Legal(i), NEW j \in Instances, inst'[j] = inst[j]
  PROVE  /\ inst[j].pc \in Working => inst[j].run \in Runs
         /\ inst[j].pc \notin Working => inst[j].run = <<None, 0>>
         /\ inst[j].pc \in Working \ {"intent"} => journal'[inst[j].run].status # "none"
         /\ \A r \in inst[j].todo : journal'[r].status # "none"
         /\ inst[j].expected <= epoch'
         /\ inst[j].pc = "stop" => journal'[inst[j].run].status \in {"latched", "interrupted"}
         /\ inst[j].pc = "ask" => db'.task[inst[j].run[1]].stopped
         /\ inst[j].pc \in Late => remote'[inst[j].run] \in Terminal /\ inst[j].got = remote'[inst[j].run]
         /\ inst[j].pc \in Starting =>
              ~(journal'[inst[j].run].status = "interrupted" /\ remote'[inst[j].run] = "absent")
<1> DEFINE r == inst[j].run
<1>1. inst[j] \in Instance /\ epoch \in Nat /\ epoch' \in Nat /\ epoch <= epoch'
  BY DEF IInv, TypeOK, Legal
<1>2. inst[j].todo \in SUBSET Runs /\ inst[j].expected \in Nat /\ inst[j].expected <= epoch
  BY <1>1 DEF Instance, IInv, InHand
<1>3. (inst[j].pc \in Working => r \in Runs) /\ (inst[j].pc \notin Working => r = <<None, 0>>)
  BY DEF IInv, InHand
<1>4. inst[j].pc \in Working \ {"intent"} => journal'[r].status # "none"
  BY <1>3, RowsStay DEF IInv, InHand, Legal
<1>5. \A x \in inst[j].todo : journal'[x].status # "none"
  BY <1>2, RowsStay DEF IInv, InHand, Legal
<1>6. inst[j].expected <= epoch'
  BY <1>1, <1>2
<1>7. inst[j].pc = "stop" => journal'[r].status \in {"latched", "interrupted"}
  <2>1. inst[j].pc = "stop" => Latched(r) /\ r \in Runs
    BY <1>3 DEF IInv, InHand, Working
  <2> HIDE DEF r
  <2>2. Latched(r) /\ r \in Runs => journal'[r].status \in {"latched", "interrupted"}
    <3>1. ASSUME NEW x \in Runs, Latched(x)
          PROVE  journal'[x].status \in {"latched", "interrupted"}
      BY <3>1, LatchAbsorbs DEF Legal, Latched
    <3> QED
      BY <3>1
  <2> QED
    BY <2>1, <2>2
<1>8. inst[j].pc = "ask" => db'.task[r[1]].stopped
  <2>1. inst[j].pc = "ask" => db.task[r[1]].stopped /\ r[1] \in Tasks
    BY <1>3 DEF IInv, InHand, Working, Runs
  <2> QED
    BY <2>1, TasksGrow DEF Legal, IInv
<1>9. inst[j].pc \in Late => remote'[r] \in Terminal /\ inst[j].got = remote'[r]
  <2>1. inst[j].pc \in Late => r \in Runs /\ remote[r] \in Terminal /\ inst[j].got = remote[r]
    BY <1>3 DEF IInv, InHand, Working, Late
  <2> QED
    BY <2>1, EndsStay DEF Legal
<1>10. ASSUME inst[j].pc \in Starting, journal'[r].status = "interrupted", remote'[r] = "absent"
       PROVE  FALSE
  <2>1. r \in Runs /\ ~(journal[r].status = "interrupted" /\ remote[r] = "absent")
    BY <1>3, <1>10 DEF IInv, InHand, Starting, Working
  <2>2. LegalRow(i, r) /\ LegalRemote(i, r)
    BY <2>1 DEF Legal, LegalRows, LegalRemotes
  <2>3. remote[r] = "absent"
    BY <1>10, <2>2 DEF LegalRemote, Alive, Terminal
  <2>4. inst[i].pc = "send" /\ r = inst[i].run
    BY <1>10, <2>1, <2>2, <2>3 DEF LegalRow, Terminal
  <2>5. i # j
    BY <1>10, <2>4 DEF Starting
  <2> QED
    BY <1>10, <2>4, <2>5 DEF IInv, FreshRuns, Fresh, Starting
<1> QED
  BY <1>3, <1>4, <1>5, <1>6, <1>7, <1>8, <1>9, <1>10

(* What an instance relies on, when it moves. *)
LEMMA InHandKept ==
  ASSUME IInv, NEW i \in Instances, Legal(i)
  PROVE  InHand'
<1> DEFINE P(j) ==
      /\ inst'[j].pc \in Working => inst'[j].run \in Runs
      /\ inst'[j].pc \notin Working => inst'[j].run = <<None, 0>>
      /\ inst'[j].pc \in Working \ {"intent"} => journal'[inst'[j].run].status # "none"
      /\ \A r \in inst'[j].todo : journal'[r].status # "none"
      /\ inst'[j].expected <= epoch'
      /\ inst'[j].pc = "stop" => journal'[inst'[j].run].status \in {"latched", "interrupted"}
      /\ inst'[j].pc = "ask" => db'.task[inst'[j].run[1]].stopped
      /\ inst'[j].pc \in Late => remote'[inst'[j].run] \in Terminal /\ inst'[j].got = remote'[inst'[j].run]
      /\ inst'[j].pc \in Starting =>
           ~(journal'[inst'[j].run].status = "interrupted" /\ remote'[inst'[j].run] = "absent")
<1>1. ASSUME NEW j \in Instances, inst'[j] = inst[j]
      PROVE  P(j)
  BY <1>1, InHandStill
<1>2. /\ inst[i] \in Instance /\ epoch \in Nat /\ epoch' \in Nat /\ epoch <= epoch'
      /\ inst[i].todo \in SUBSET Runs /\ inst[i].expected \in Nat /\ inst[i].expected <= epoch
      /\ \A r \in inst[i].todo : journal[r].status # "none"
  BY DEF IInv, TypeOK, Legal, Instance, InHand
<1>3. \A r \in Runs : journal[r].status # "none" => journal'[r].status # "none"
  BY RowsStay DEF Legal
<1>4. ASSUME Rests(i)
      PROVE  P(i)
  <2>1. \A r \in Active : r \in Runs /\ journal[r].status # "none"
    BY DEF Active
  <2>2. \A r \in inst'[i].todo : journal'[r].status # "none"
    BY <1>2, <1>3, <1>4, <2>1 DEF Rests
  <2>3. inst'[i].pc \notin Working \cup Late \cup Starting \cup {"stop", "ask"}
    BY <1>4 DEF Rests, Working, Late, Starting
  <2> QED
    BY <1>4, <2>2, <2>3 DEF Rests
<1>5. ASSUME Admits(i)
      PROVE  P(i)
  <2>1. inst'[i].pc \notin Working \cup Late \cup Starting \cup {"stop", "ask"}
    BY <1>5 DEF Admits, Working, Late, Starting
  <2> QED
    BY <1>2, <1>5, <2>1 DEF Admits
<1>6. ASSUME Picks(i)
      PROVE  P(i)
  <2>1. /\ inst'[i].pc \in {"stop", "status"} /\ inst'[i].pc \in Working
        /\ inst'[i].pc \notin Late \cup Starting \cup {"ask"}
    BY <1>6 DEF Picks, Working, Late, Starting
  <2>2. inst'[i].pc = "stop" => journal'[inst'[i].run].status \in {"latched", "interrupted"}
    BY <1>6 DEF Picks, Latched
  <2> QED
    BY <1>2, <1>3, <1>6, <2>1, <2>2 DEF Picks
<1>7. ASSUME Claims(i)
      PROVE  P(i)
  <2>1. inst'[i].pc = "intent" /\ inst'[i].run \in Runs
    BY <1>7 DEF Claims
  <2> QED
    BY <1>2, <1>3, <1>7, <2>1 DEF Claims, Working, Late, Starting
<1>8. ASSUME Keeps(i)
      PROVE  P(i)
  <2> DEFINE r == inst[i].run
  <2>1. /\ r \in Runs /\ inst'[i].run = r /\ inst'[i].todo = inst[i].todo
        /\ inst'[i].expected = inst[i].expected
    BY <1>8 DEF Keeps, IInv, InHand
  <2>2. inst'[i].pc \in Working \ {"status", "intent"}
    BY <1>8 DEF Keeps, Working, Late
  <2>3. journal'[r].status # "none"
    <3>1. CASE inst[i].pc = "intent"
      BY <1>8, <3>1 DEF Keeps, Fresh, Late
    <3>2. CASE inst[i].pc # "intent"
      BY <1>3, <1>8, <2>1, <3>2 DEF Keeps, IInv, InHand
    <3> QED
      BY <3>1, <3>2
  <2>4. inst'[i].pc = "stop" => journal'[r].status \in {"latched", "interrupted"}
    BY <1>8, <2>1 DEF Keeps, Latched, Late
  <2>5. inst'[i].pc = "ask" => db'.task[r[1]].stopped
    BY <1>8 DEF Keeps, Late
  <2>6. inst'[i].pc \in Late => remote'[r] \in Terminal /\ inst'[i].got = remote'[r]
    <3>1. inst'[i].pc \in Late => remote[r] \in Terminal /\ inst'[i].got = remote[r]
      BY <1>8 DEF Keeps, Late, IInv, InHand
    <3> QED
      BY <2>1, <3>1, EndsStay DEF Legal
  <2>7. inst'[i].pc \in Starting => journal'[r].status # "interrupted"
    <3>1. inst[i].pc = "send" => journal[r].status # "interrupted"
      BY DEF IInv, FreshRuns, Fresh
    <3> QED
      BY <1>8, <3>1 DEF Keeps, Late, Starting, Latched
  <2> QED
    BY <1>2, <1>3, <2>1, <2>2, <2>3, <2>4, <2>5, <2>6, <2>7
<1> HIDE DEF P
<1>9. \A j \in Instances : P(j)
  BY <1>1, <1>4, <1>5, <1>6, <1>7, <1>8 DEF Legal, LegalInst
<1> QED
  BY <1>9 DEF P, InHand, Latched

(* Two runs of one task and one attempt are the same. *)
LEMMA SameRun ==
  ASSUME NEW r \in Runs, NEW s \in Runs, r[1] = s[1], r[2] = s[2]
  PROVE  r = s
  BY DEF Runs

(* The claimed run of an instance that does not move is still its own. *)
LEMMA FreshStill ==
  ASSUME IInv, NEW i \in Instances, Legal(i), NEW k \in Instances, inst'[k] = inst[k],
         inst[k].pc \in Fresh
  PROVE  /\ db'.task[inst[k].run[1]].attempt = inst[k].run[2]
         /\ db'.task[inst[k].run[1]].status = "RUNNING" \/ db'.task[inst[k].run[1]].stopped
         /\ inst[k].pc = "intent" => journal'[inst[k].run].status = "none"
         /\ inst[k].pc = "send" => journal'[inst[k].run].status \in {"open", "latched"}
         /\ remote'[inst[k].run] = "absent"
<1> DEFINE r == inst[k].run
           t == r[1]
<1>1. r \in Runs /\ t \in Tasks
  BY DEF IInv, InHand, Fresh, Working, Runs
<1>2. /\ db.task[t].attempt = r[2]
      /\ db.task[t].status = "RUNNING" \/ db.task[t].stopped
      /\ inst[k].pc = "intent" => journal[r].status = "none"
      /\ inst[k].pc = "send" => journal[r].status \in {"open", "latched"}
      /\ remote[r] = "absent"
      /\ \A j \in Instances \ {k} : inst[j].run = r => inst[j].pc \in {"stop", "ask"}
  BY DEF IInv, FreshRuns
<1>3. ~NoneAdmits
  BY DEF NoneAdmits, Admitting, Fresh
<1>4. LegalRow(i, r) /\ LegalRemote(i, r) /\ LegalTask(i, t)
  BY <1>1 DEF Legal, LegalRows, LegalRemotes, LegalTasks
<1>5. db.task[t].status # "QUEUED"
  BY <1>1, <1>2 DEF IInv, StopsLast
<1>6. db'.task[t].attempt = r[2]
  BY <1>2, <1>4, <1>5 DEF LegalTask
<1>7. i = k => inst[i].pc \in Fresh /\ inst'[i].pc = inst[i].pc
  OBVIOUS
<1>8. Owns(db, inst[i].run) /\ t = inst[i].run[1] /\ inst[i].pc \in Working => r = inst[i].run
  <2>1. inst[i].pc \in Working => inst[i].run \in Runs
    BY DEF IInv, InHand
  <2> QED
    BY <1>1, <1>2, <2>1, SameRun DEF Owns
<1>9. db'.task[t].status = "RUNNING" \/ db'.task[t].stopped
  <2>1. CASE db.task[t].stopped
    BY <1>1, <2>1, TasksGrow DEF Legal, IInv
  <2>2. CASE db.task[t].status = "RUNNING"
    <3>1. ~(inst[i].pc \in {"terminal", "complete"} /\ Owns(db, inst[i].run) /\ t = inst[i].run[1])
      BY <1>2, <1>7, <1>8 DEF Fresh, Working
    <3>2. ~(inst[i].pc = "intent" /\ Owns(db, inst[i].run) /\ t = inst[i].run[1] /\ inst'[i].pc = "idle")
      BY <1>2, <1>7, <1>8 DEF Fresh, Working
    <3> QED
      BY <1>3, <1>4, <1>5, <2>2, <3>1, <3>2 DEF LegalTask
  <2> QED
    BY <1>2, <2>1, <2>2
<1>10. /\ inst[k].pc = "intent" => journal'[r].status = "none"
       /\ inst[k].pc = "send" => journal'[r].status \in {"open", "latched"}
  BY <1>2, <1>3, <1>4, <1>7 DEF LegalRow, Fresh
<1>11. remote'[r] = "absent"
  BY <1>2, <1>3, <1>4 DEF LegalRemote, Alive
<1> QED
  BY <1>6, <1>9, <1>10, <1>11

(* The run of another instance, which does not move, is touched only to be interrupted. *)
LEMMA FreshOthers ==
  ASSUME IInv, NEW i \in Instances, Legal(i), NEW k \in Instances, inst'[k] = inst[k],
         inst[k].pc \in Fresh, NEW j \in Instances \ {k}
  PROVE  /\ inst'[j].run = inst[k].run => inst'[j].pc \in {"stop", "ask"}
         /\ inst[k].run \in inst'[j].todo => journal'[inst[k].run].status \in {"latched", "interrupted"}
<1> DEFINE r == inst[k].run
<1>1. r \in Runs /\ r[1] \in Tasks /\ r # <<None, 0>> /\ r[2] \in Int
  <2>1. r \in Runs
    BY DEF IInv, InHand, Fresh, Working
  <2> QED
    BY <2>1, NoneIsNoRun DEF Runs
<1>2. /\ inst[j].run = r => inst[j].pc \in {"stop", "ask"}
      /\ r \in inst[j].todo => Latched(r)
      /\ db.task[r[1]].attempt = r[2]
  BY DEF IInv, FreshRuns
<1>3. Latched(r) => journal'[r].status \in {"latched", "interrupted"}
  <2>1. ASSUME NEW x \in Runs, Latched(x)
        PROVE  journal'[x].status \in {"latched", "interrupted"}
    BY <2>1, LatchAbsorbs DEF Legal, Latched
  <2> QED
    BY <1>1, <2>1
<1>4. ~NoneAdmits
  BY DEF NoneAdmits, Admitting, Fresh
<1>5. CASE inst'[j] = inst[j]
  BY <1>2, <1>3, <1>5
<1>6. CASE j = i /\ Rests(i)
  BY <1>1, <1>2, <1>3, <1>4, <1>6 DEF Rests, Latched
<1>7. CASE j = i /\ Admits(i)
  BY <1>1, <1>7 DEF Admits
<1>8. CASE j = i /\ Picks(i)
  BY <1>2, <1>3, <1>8 DEF Picks
<1>9. CASE j = i /\ Claims(i)
  <2>1. PICK t \in Tasks : inst'[i].run = <<t, db'.task[t].attempt>> /\ db'.task[t].attempt = db.task[t].attempt + 1
    BY <1>9 DEF Claims
  <2>2. db.task[t].attempt \in Nat
    BY StoreTasks DEF IInv, TypeOK
  <2>3. inst'[i].run # r
    BY <1>2, <2>1, <2>2
  <2> QED
    BY <1>2, <1>3, <1>9, <2>3 DEF Claims
<1>10. CASE j = i /\ Keeps(i)
  <2>1. inst'[j].run = inst[j].run /\ inst'[j].todo = inst[j].todo
    BY <1>10 DEF Keeps
  <2>2. inst[j].pc \in {"stop", "ask"} => inst'[j].pc \in {"stop", "ask"}
    BY <1>10 DEF Keeps, Late
  <2> QED
    BY <1>2, <1>3, <2>1, <2>2
<1> QED
  BY <1>5, <1>6, <1>7, <1>8, <1>9, <1>10 DEF Legal, LegalInst

(* A run that is being claimed is new: no row, no payload, and nobody has it in hand. *)
LEMMA ClaimIsFresh ==
  ASSUME IInv, NEW i \in Instances, Legal(i), Claims(i)
  PROVE  /\ db'.task[inst'[i].run[1]].attempt = inst'[i].run[2]
         /\ db'.task[inst'[i].run[1]].status = "RUNNING"
         /\ inst'[i].pc = "intent" /\ journal'[inst'[i].run].status = "none"
         /\ remote'[inst'[i].run] = "absent"
         /\ \A j \in Instances \ {i} : inst[j].run # inst'[i].run /\ inst'[i].run \notin inst[j].todo
<1>1. PICK t \in Tasks : /\ inst'[i].run = <<t, db'.task[t].attempt>> /\ inst'[i].run \in Runs
                         /\ db'.task[t].attempt = db.task[t].attempt + 1
                         /\ db'.task[t].status = "RUNNING"
  BY DEF Claims
<1> DEFINE r == inst'[i].run
<1>2. db.task[t].attempt \in Nat
  BY StoreTasks DEF IInv, TypeOK
<1>3. r \in Runs /\ r[1] = t /\ r[2] = db.task[t].attempt + 1 /\ r # <<None, 0>>
  BY <1>1, NoneIsNoRun
<1>4. journal[r].status = "none"
  BY <1>2, <1>3 DEF IInv, Rows
<1>5. remote[r] = "absent"
  BY <1>3, <1>4 DEF IInv, Rows
<1>6. ASSUME NEW j \in Instances
      PROVE  inst[j].run # r /\ r \notin inst[j].todo
  <2>1. r \notin inst[j].todo
    BY <1>4 DEF IInv, InHand
  <2>2. inst[j].pc \notin Working => inst[j].run # r
    BY <1>3 DEF IInv, InHand
  <2>3. inst[j].pc \in Working \ {"intent"} => inst[j].run # r
    BY <1>4 DEF IInv, InHand
  <2>4. inst[j].pc = "intent" => inst[j].run # r
    BY <1>2, <1>3 DEF IInv, FreshRuns, Fresh
  <2> QED
    BY <2>1, <2>2, <2>3, <2>4
<1> QED
  BY <1>1, <1>3, <1>4, <1>5, <1>6 DEF Claims

(* The claimed run, whoever moves. *)
LEMMA FreshKept ==
  ASSUME IInv, NEW i \in Instances, Legal(i)
  PROVE  FreshRuns'
<1> DEFINE P(k) ==
      /\ db'.task[inst'[k].run[1]].attempt = inst'[k].run[2]
      /\ db'.task[inst'[k].run[1]].status = "RUNNING" \/ db'.task[inst'[k].run[1]].stopped
      /\ inst'[k].pc = "intent" => journal'[inst'[k].run].status = "none"
      /\ inst'[k].pc = "send" => journal'[inst'[k].run].status \in {"open", "latched"}
      /\ remote'[inst'[k].run] = "absent"
      /\ \A j \in Instances \ {k} :
           /\ inst'[j].run = inst'[k].run => inst'[j].pc \in {"stop", "ask"}
           /\ inst'[k].run \in inst'[j].todo => journal'[inst'[k].run].status \in {"latched", "interrupted"}
<1>1. ASSUME NEW k \in Instances, inst'[k] = inst[k], inst'[k].pc \in Fresh
      PROVE  P(k)
  BY <1>1, FreshStill, FreshOthers
<1>2. \A j \in Instances \ {i} : inst'[j] = inst[j]
  BY DEF Legal, LegalInst
<1>3. ASSUME Claims(i)
      PROVE  P(i)
  BY <1>2, <1>3, ClaimIsFresh
<1>4. ASSUME Keeps(i), inst'[i].pc \in Fresh
      PROVE  P(i)
  <2> DEFINE r == inst[i].run
  <2>1. /\ inst'[i].pc = "send" /\ inst[i].pc = "intent" /\ inst'[i].run = r
        /\ journal'[r].status = "open" /\ db' = db
    BY <1>4 DEF Keeps, Fresh, Late
  <2>2. r \in Runs
    BY <2>1 DEF IInv, InHand, Working
  <2>3. /\ db.task[r[1]].attempt = r[2]
        /\ db.task[r[1]].status = "RUNNING" \/ db.task[r[1]].stopped
        /\ journal[r].status = "none" /\ remote[r] = "absent"
        /\ \A j \in Instances \ {i} : inst[j].run = r => inst[j].pc \in {"stop", "ask"}
    BY <2>1 DEF IInv, FreshRuns, Fresh
  <2>4. \A j \in Instances \ {i} : r \notin inst[j].todo
    BY <2>3 DEF IInv, InHand
  <2>5. remote'[r] = "absent"
    <3>1. LegalRemote(i, r)
      BY <2>2 DEF Legal, LegalRemotes
    <3> QED
      BY <2>1, <2>3, <3>1 DEF LegalRemote, Alive, Starting
  <2> QED
    BY <1>2, <2>1, <2>3, <2>4, <2>5
<1>5. ASSUME Rests(i) \/ Admits(i) \/ Picks(i)
      PROVE  inst'[i].pc \notin Fresh
  BY <1>5 DEF Rests, Admits, Picks, Fresh
<1> HIDE DEF P
<1>6. \A k \in Instances : inst'[k].pc \in Fresh => P(k)
  BY <1>1, <1>3, <1>4, <1>5 DEF Legal, LegalInst
<1> QED
  BY <1>6 DEF P, FreshRuns, Latched

(* The row of an intent that has just been recorded is its task's, and only its instance has it. *)
LEMMA OpenedIsOwned ==
  ASSUME IInv, NEW i \in Instances, Legal(i), inst[i].pc = "intent", inst'[i].pc = "send"
  PROVE  /\ ~Incident(i) /\ epoch' = epoch /\ inst'[i].run = inst[i].run /\ Owns(db', inst[i].run)
         /\ \A j \in Instances :
              /\ inst[i].run \notin inst'[j].todo
              /\ inst'[j].run = inst[i].run => inst'[j].pc \in {"send", "starting"}
<1> DEFINE r == inst[i].run
<1>1. Keeps(i) /\ ~Incident(i) /\ db' = db /\ epoch' = epoch
  BY DEF Legal, LegalInst, Rests, Admits, Picks, Claims, Keeps, Late
<1>2. /\ db.task[r[1]].attempt = r[2] /\ journal[r].status = "none"
      /\ \A j \in Instances \ {i} : inst[j].run = r => inst[j].pc \in {"stop", "ask"}
  BY DEF IInv, FreshRuns, Fresh
<1>3. db.task[r[1]].status = "RUNNING"
  BY <1>1 DEF IInv, Lane, Admitting, Fresh, Incident
<1>4. \A j \in Instances : r \notin inst[j].todo
  BY <1>2 DEF IInv, InHand
<1>5. \A j \in Instances \ {i} : inst[j].run # r
  BY <1>2 DEF IInv, InHand, Working
<1>6. \A j \in Instances \ {i} : inst'[j] = inst[j]
  BY DEF Legal, LegalInst
<1>7. inst'[i].run = r /\ inst'[i].todo = inst[i].todo
  BY <1>1 DEF Keeps
<1> QED
  BY <1>1, <1>2, <1>3, <1>4, <1>5, <1>6, <1>7 DEF Owns

(* No row becomes latched in an epoch that stays. *)
LEMMA NothingLatched ==
  ASSUME IInv, NEW i \in Instances, Legal(i), ~pendingSecurity, epoch' = epoch
  PROVE  ~pendingSecurity'
<1>1. SUFFICES ASSUME NEW r \in Runs, journal'[r].status = "latched"
               PROVE  FALSE
  BY DEF pendingSecurity
<1>2. LegalRow(i, r) /\ journal[r].status # "latched" /\ epoch \in Nat
  BY DEF Legal, LegalRows, pendingSecurity, IInv, TypeOK
<1> QED
  BY <1>1, <1>2 DEF LegalRow

(* While an instance admits work in its epoch, a task that runs is left running by the steps *)
(* of any instance, but for the one that has its run in hand.                                *)
LEMMA RunnersStay ==
  ASSUME IInv, NEW i \in Instances, Legal(i), ~pendingSecurity, ~NoneAdmits,
         NEW r \in Runs, Owns(db, r), ~Owns(db', r)
  PROVE  /\ r = inst[i].run /\ inst[i].pc \in {"terminal", "complete", "intent", "send"}
         /\ inst[i].pc \in Fresh => inst'[i].pc = "idle"
         /\ inst[i].pc = "send" => journal'[r].status = "interrupted"
<1> DEFINE t == r[1]
           m == inst[i].run
<1>1. t \in Tasks /\ LegalTask(i, t)
  BY DEF Runs, Legal, LegalTasks
<1>2. db.task[t].status = "RUNNING" /\ db.task[t].attempt = r[2] /\ ~db.task[t].stopped
  BY <1>1 DEF Owns, IInv, StopsLast
<1>3. db'.task[t].attempt = r[2] /\ db'.task[t].status # "RUNNING"
  BY <1>1, <1>2 DEF LegalTask, Owns
<1>4. inst[i].pc \in Working => m \in Runs
  BY DEF IInv, InHand
<1>5. inst[i].pc \in Working /\ m[1] = t /\ m[2] = db.task[t].attempt => m = r
  BY <1>2, <1>4, SameRun
<1>6. ~(inst[i].pc = "stop" /\ journal[m].status # "interrupted")
  BY <1>4 DEF IInv, InHand, Latched, pendingSecurity, Working
<1>7. CASE db'.task[t].stopped
  <2>1. /\ inst[i].pc \in Fresh /\ m[1] = t /\ inst'[i].pc = "idle"
        /\ inst[i].pc = "send" => journal'[m].status = "interrupted"
    BY <1>1, <1>2, <1>6, <1>7 DEF LegalTask
  <2>2. m = r
    BY <1>2, <1>5, <2>1 DEF IInv, FreshRuns, Fresh, Working
  <2> QED
    BY <2>1, <2>2 DEF Fresh
<1>8. CASE ~db'.task[t].stopped
  <2>1. /\ inst[i].pc \in {"terminal", "complete", "intent"} /\ Owns(db, m) /\ t = m[1]
        /\ inst[i].pc = "intent" => inst'[i].pc = "idle"
    BY <1>1, <1>2, <1>3, <1>8 DEF LegalTask
  <2>2. m = r
    BY <1>5, <2>1 DEF Owns, Working
  <2> QED
    BY <2>1, <2>2 DEF Fresh
<1> QED
  BY <1>7, <1>8

(* The lane of an instance that admits work and does not move. *)
LEMMA LaneStill ==
  ASSUME IInv, NEW i \in Instances, Legal(i), NEW k \in Instances, inst'[k] = inst[k],
         inst[k].pc \in Admitting, epoch' = inst[k].expected
  PROVE  /\ ~pendingSecurity'
         /\ inst[k].pc \in Fresh => db'.task[inst[k].run[1]].status = "RUNNING"
         /\ \A r \in Active' :
              /\ Owns(db', r)
              /\ \A j \in Instances :
                   r \notin inst'[j].todo /\ (inst'[j].run = r => inst'[j].pc \in {"send", "starting"})
<1>1. epoch = inst[k].expected /\ epoch' = epoch /\ epoch \in Nat
  <2>1. epoch \in Nat /\ epoch' \in Nat /\ epoch <= epoch' /\ inst[k].expected <= epoch /\ inst[k].expected \in Nat
    BY DEF IInv, TypeOK, Instance, Legal, InHand
  <2> QED
    BY <2>1
<1>2. /\ ~pendingSecurity
      /\ inst[k].pc \in Fresh => db.task[inst[k].run[1]].status = "RUNNING"
      /\ \A r \in Active :
           /\ Owns(db, r)
           /\ \A j \in Instances :
                r \notin inst[j].todo /\ (inst[j].run = r => inst[j].pc \in {"send", "starting"})
  BY <1>1 DEF IInv, Lane
<1>3. ~NoneAdmits
  BY DEF NoneAdmits
<1>4. ~pendingSecurity'
  BY <1>1, <1>2, NothingLatched
<1>5. ASSUME inst[k].pc \in Fresh
      PROVE  db'.task[inst[k].run[1]].status = "RUNNING"
  <2> DEFINE r == inst[k].run
  <2>1. r \in Runs /\ Owns(db, r)
    BY <1>2, <1>5 DEF IInv, InHand, FreshRuns, Fresh, Working, Owns
  <2>2. r = inst[i].run /\ i # k => inst[i].pc \in {"stop", "ask"}
    BY <1>5 DEF IInv, FreshRuns
  <2>3. i = k => inst'[i].pc # "idle" /\ inst[i].pc \in Fresh
    BY <1>5 DEF Fresh
  <2>4. Owns(db', r)
    BY <1>2, <1>3, <2>1, <2>2, <2>3, RunnersStay
  <2> QED
    BY <2>4 DEF Owns
<1>6. ASSUME NEW r \in Active', r \notin Active
      PROVE  /\ Owns(db', r)
             /\ \A j \in Instances :
                  r \notin inst'[j].todo /\ (inst'[j].run = r => inst'[j].pc \in {"send", "starting"})
  <2>1. inst[i].pc = "intent" /\ r = inst[i].run /\ inst'[i].pc = "send"
    BY <1>1, <1>6, ActiveRows
  <2> QED
    BY <2>1, OpenedIsOwned
<1>7. ASSUME NEW r \in Active', r \in Active
      PROVE  Owns(db', r)
  <2>1. r \in Runs /\ journal[r].status # "none" /\ journal'[r].status # "interrupted"
    BY <1>7 DEF Active
  <2>2. r = inst[i].run => inst[i].pc \in {"send", "starting"}
    BY <1>2, <1>7
  <2> QED
    BY <1>2, <1>3, <1>7, <2>1, <2>2, RunnersStay
<1>8. ASSUME NEW r \in Active', r \in Active, NEW j \in Instances
      PROVE  r \notin inst'[j].todo /\ (inst'[j].run = r => inst'[j].pc \in {"send", "starting"})
  <2>1. r \in Runs /\ r # <<None, 0>>
    BY <1>8, NoneIsNoRun DEF Active
  <2>2. Owns(db, r) /\ r \notin inst[j].todo /\ (inst[j].run = r => inst[j].pc \in {"send", "starting"})
    BY <1>2, <1>8
  <2>3. CASE inst'[j] = inst[j]
    BY <2>2, <2>3
  <2>4. CASE j = i /\ Rests(i)
    BY <1>1, <1>3, <2>1, <2>2, <2>4 DEF Rests
  <2>5. CASE j = i /\ Admits(i)
    BY <2>1, <2>5 DEF Admits
  <2>6. CASE j = i /\ Picks(i)
    BY <2>2, <2>6 DEF Picks
  <2>7. CASE j = i /\ Claims(i)
    <3>1. inst'[i].run # r
      BY <2>1, <2>2, <2>7 DEF Claims, Owns, Running, Runs
    <3> QED
      BY <2>2, <2>7, <3>1 DEF Claims
  <2>8. CASE j = i /\ Keeps(i)
    <3>1. inst'[j].run = inst[j].run /\ inst'[j].todo = inst[j].todo
      BY <2>8 DEF Keeps
    <3>2. inst[j].pc \in {"send", "starting"} => inst'[j].pc \in {"send", "starting"}
      BY <1>3, <2>8 DEF Keeps, Late, Fresh
    <3> QED
      BY <2>2, <3>1, <3>2
  <2> QED
    BY <2>3, <2>4, <2>5, <2>6, <2>7, <2>8 DEF Legal, LegalInst
<1> QED
  BY <1>4, <1>5, <1>6, <1>7, <1>8

(* The lane, whoever moves. *)
LEMMA LaneKept ==
  ASSUME IInv, NEW i \in Instances, Legal(i)
  PROVE  Lane'
<1> DEFINE P(k) ==
      /\ ~pendingSecurity'
      /\ inst'[k].pc \in Fresh => db'.task[inst'[k].run[1]].status = "RUNNING"
      /\ \A r \in Active' :
           /\ Owns(db', r)
           /\ \A j \in Instances :
                r \notin inst'[j].todo /\ (inst'[j].run = r => inst'[j].pc \in {"send", "starting"})
<1>1. ASSUME NEW k \in Instances, inst'[k] = inst[k], inst'[k].pc \in Admitting, epoch' = inst'[k].expected
      PROVE  P(k)
  BY <1>1, LaneStill
<1>2. ASSUME Admits(i)
      PROVE  P(i)
  <2>1. ~pendingSecurity' /\ Active' = {}
    BY <1>2 DEF Admits, pendingSecurity, Active
  <2> QED
    BY <1>2, <2>1 DEF Admits, Fresh
<1>3. ASSUME Claims(i)
      PROVE  P(i)
  <2>1. ~pendingSecurity /\ ~Running(db) /\ \A r \in Active : Owns(db, r)
    BY <1>3 DEF Claims, Incident, IInv, Lane, Admitting
  <2>2. Active = {}
    <3>1. \A r \in Active : r[1] \in Tasks
      BY DEF Active, Runs
    <3> QED
      BY <2>1, <3>1 DEF Owns, Running
  <2>3. ~pendingSecurity' /\ Active' = {}
    BY <1>3, <2>1, <2>2 DEF Claims, pendingSecurity, Active
  <2>4. db'.task[inst'[i].run[1]].status = "RUNNING"
    BY <1>3, ClaimIsFresh
  <2> QED
    BY <2>3, <2>4
<1>4. ASSUME Keeps(i), inst'[i].pc \in Admitting
      PROVE  P(i)
  <2>1. inst[i].pc = "intent" /\ inst'[i].pc = "send"
    BY <1>4 DEF Keeps, Admitting, Late
  <2>2. ~Incident(i) /\ epoch' = epoch /\ epoch \in Nat
    BY <2>1, OpenedIsOwned DEF IInv, TypeOK
  <2>3. ~pendingSecurity'
    BY <2>2, NothingLatched DEF Incident
  <2>4. Active = {}
    BY <2>1, <2>2, LaneIsEmpty
  <2>5. \A r \in Active' : r = inst[i].run
    BY <2>2, <2>4, ActiveRows
  <2>6. /\ Owns(db', inst[i].run) /\ inst'[i].run = inst[i].run
        /\ \A j \in Instances :
             /\ inst[i].run \notin inst'[j].todo
             /\ inst'[j].run = inst[i].run => inst'[j].pc \in {"send", "starting"}
    BY <2>1, OpenedIsOwned
  <2> QED
    BY <2>3, <2>5, <2>6 DEF Owns
<1>5. ASSUME Rests(i) \/ Picks(i)
      PROVE  inst'[i].pc \notin Admitting
  BY <1>5 DEF Rests, Picks, Admitting
<1> HIDE DEF P
<1>6. \A k \in Instances : inst'[k].pc \in Admitting /\ epoch' = inst'[k].expected => P(k)
  BY <1>1, <1>2, <1>3, <1>4, <1>5 DEF Legal, LegalInst
<1> QED
  BY <1>6 DEF P, Lane, Owns

(* Whatever is legal preserves the invariant. *)
LEMMA LegalKeeps ==
  ASSUME IInv, NEW i \in Instances, Legal(i)
  PROVE  IInv'
<1>1. TypeOK' /\ StopsLast(db)'
  BY DEF Legal, StopsLast
<1>2. OneRunning(db)'
  BY OneRunningKept DEF IInv, Legal, OneRunning
<1> QED
  BY <1>1, <1>2, TaintKept, InHandKept, FreshKept, RowsKept, LaneKept, AloneKept, UnsafeKept DEF IInv

-----------------------------------------------------------------------------
(* Every step is legal. A step is shown legal in five parts: the journal, the payloads, the *)
(* store, the instance and the rest.                                                        *)

Row == [status : {"none", "open", "closed", "latched", "interrupted"}, seen : BOOLEAN]

JournalPart(i) ==
  LegalRows(i) /\ journal' \in [Runs -> Row] /\ epoch' \in Nat /\ epoch' >= epoch
RemotePart(i) ==
  LegalRemotes(i) /\ remote' \in [Runs -> Alive \cup Terminal \cup {"absent", "never"}]
StorePart(i)  == LegalTasks(i) /\ db' \in Store /\ StopsLast(db')
InstPart(i)   == LegalInst(i) /\ inst' \in [Instances -> Instance]
RestPart ==
  /\ safe' = safe /\ suspended' \in BOOLEAN /\ leader' \in Instances \cup {None}
  /\ tainted' \subseteq Runs
  /\ \A r \in tainted' : r \in tainted \/ journal'[r].status = "latched"

(* The parts make a legal step. *)
LEMMA Parts ==
  ASSUME IInv, NEW i, JournalPart(i), RemotePart(i), StorePart(i), InstPart(i), RestPart
  PROVE  Legal(i)
<1>1. safe \in [Tasks -> BOOLEAN]
  BY DEF IInv, TypeOK
<1>2. TypeOK'
  BY <1>1 DEF TypeOK, JournalPart, RemotePart, StorePart, InstPart, RestPart, Row
<1> QED
  BY <1>2 DEF Legal, JournalPart, RemotePart, StorePart, InstPart, RestPart

(* A journal that is unchanged is legal. *)
LEMMA JournalStill ==
  ASSUME IInv, NEW i, journal' = journal, epoch' = epoch
  PROVE  JournalPart(i)
<1>1. journal \in [Runs -> Row] /\ epoch \in Nat
  BY DEF IInv, TypeOK, Row
<1> QED
  BY <1>1 DEF JournalPart, LegalRows, LegalRow

(* Payloads that are unchanged are legal. *)
LEMMA RemoteStill ==
  ASSUME IInv, NEW i, remote' = remote
  PROVE  RemotePart(i)
  BY DEF IInv, TypeOK, RemotePart, LegalRemotes, LegalRemote

(* A store that is unchanged is legal. *)
LEMMA StoreStill ==
  ASSUME IInv, NEW i, db' = db
  PROVE  StorePart(i)
  BY DEF IInv, TypeOK, StorePart, LegalTasks, LegalTask

(* Instances that are unchanged are legal. *)
LEMMA InstStill ==
  ASSUME IInv, NEW i, inst' = inst
  PROVE  InstPart(i)
  BY DEF IInv, TypeOK, InstPart, LegalInst

(* The rest, unchanged, is legal. *)
LEMMA RestStill ==
  ASSUME IInv, UNCHANGED <<safe, suspended, leader, tainted>>
  PROVE  RestPart
  BY DEF IInv, TypeOK, RestPart

(* The points of a tick that await the worker wait for claimOne (Prompt). *)
LEMMA Prompts ==
  ASSUME Stalls = FALSE, Prompt
  PROVE  NoneAdmits
  BY DEF Prompt, NoneAdmits, Admitting

(* One instance's new state. *)
LEMMA InstOne ==
  ASSUME IInv, NEW i \in Instances, NEW v \in Instance, inst' = [inst EXCEPT ![i] = v]
  PROVE  /\ inst' \in [Instances -> Instance] /\ inst'[i] = v
         /\ \A j \in Instances \ {i} : inst'[j] = inst[j]
  BY DEF IInv, TypeOK

(* The runs are finite. *)
LEMMA RunsFinite == IsFiniteSet(Runs)
<1>1. IsFiniteSet(Tasks) /\ IsFiniteSet(1 .. MaxAttempts)
  BY GameFactoryConstants, FS_Interval
<1> QED
  BY <1>1, FS_Product DEF Runs

(* writeSecurityLatch: a new latch is a new epoch, and a row on record ends up latched. *)
LEMMA LatchPart ==
  ASSUME IInv, NEW i, NEW rows \in SUBSET Runs, securityLatch(rows)
  PROVE  /\ JournalPart(i)
         /\ \A r \in rows : journal[r].status # "none" => journal'[r].status \in {"latched", "interrupted"}
         /\ \A r \in rows : journal[r].status = "open" => journal'[r].status = "latched"
<1> DEFINE new == { r \in rows : journal[r].status \in {"open", "closed"} }
<1>1. /\ journal' = [r \in Runs |-> IF r \in new THEN [journal[r] EXCEPT !.status = "latched"] ELSE journal[r]]
      /\ epoch' = epoch + Cardinality(new)
  BY DEF securityLatch
<1>2. journal \in [Runs -> Row] /\ epoch \in Nat
  BY DEF IInv, TypeOK, Row
<1>3. IsFiniteSet(new) /\ Cardinality(new) \in Nat /\ (new # {} => Cardinality(new) > 0)
  <2>1. IsFiniteSet(new)
    BY RunsFinite, FS_Subset
  <2> QED
    BY <2>1, FS_CardinalityType, FS_EmptySet
<1>4. ASSUME NEW r \in Runs
      PROVE  /\ journal'[r] \in Row
             /\ r \in new => journal'[r].status = "latched"
             /\ r \notin new => journal'[r] = journal[r]
  <2>1. journal[r] \in Row
    BY <1>2
  <2>2. [journal[r] EXCEPT !.status = "latched"] \in Row /\ [journal[r] EXCEPT !.status = "latched"].status = "latched"
    BY <2>1 DEF Row
  <2> QED
    BY <1>1, <2>1, <2>2
<1>5. \A r \in new : journal[r].status \in {"open", "closed"}
  OBVIOUS
<1>6. \A r \in rows : r \in Runs /\ (r \notin new => journal[r].status \notin {"open", "closed"})
  OBVIOUS
<1>7. \A r \in Runs : journal[r].status \in {"none", "open", "closed", "latched", "interrupted"}
  BY <1>2 DEF Row
<1> HIDE DEF new
<1>8. journal' \in [Runs -> Row]
  BY <1>1, <1>4
<1>9. epoch' \in Nat /\ epoch' >= epoch /\ (new # {} => epoch' > epoch)
  BY <1>1, <1>2, <1>3
<1>10. LegalRows(i)
  BY <1>4, <1>5, <1>9 DEF LegalRows, LegalRow
<1> QED
  BY <1>4, <1>6, <1>7, <1>8, <1>9, <1>10 DEF JournalPart

(* The journal's update with an answer of the worker keeps every status. *)
LEMMA SeenPart ==
  ASSUME IInv, NEW i, NEW r \in Runs, Seen(r), epoch' = epoch
  PROVE  JournalPart(i)
<1>1. journal \in [Runs -> Row] /\ epoch \in Nat
  BY DEF IInv, TypeOK, Row
<1> DEFINE a == [journal[r] EXCEPT !.seen = @ \/ Open(r)]
<1>2. journal' = [journal EXCEPT ![r] = a]
  BY DEF Seen
<1>3. a \in Row /\ a.status = journal[r].status
  BY <1>1 DEF Row, Open
<1> HIDE DEF a
<1>4. journal' \in [Runs -> Row] /\ \A x \in Runs : journal'[x].status = journal[x].status
  BY <1>1, <1>2, <1>3
<1> QED
  BY <1>1, <1>4 DEF JournalPart, LegalRows, LegalRow

(* An instance drops what it had in hand: Idle, or the next dispatch. *)
LEMMA IdlePart ==
  ASSUME IInv, NEW i \in Instances, inst' = [inst EXCEPT ![i] = Idle], epoch' \in Nat
  PROVE  InstPart(i) /\ inst'[i].pc = "idle"
<1>1. Idle \in Instance
  BY DEF Idle, Instance
<1>2. /\ inst' \in [Instances -> Instance] /\ inst'[i] = Idle
      /\ \A j \in Instances \ {i} : inst'[j] = inst[j]
  BY <1>1, InstOne
<1>3. Rests(i)
  BY <1>2 DEF Rests, Idle
<1> QED
  BY <1>2, <1>3 DEF InstPart, LegalInst, Idle

(* The end of a dispatch: the next one, or the end of the tick. *)
LEMMA DonePart ==
  ASSUME IInv, NEW i \in Instances, Done(i), epoch' \in Nat, epoch' >= epoch
  PROVE  InstPart(i)
<1> DEFINE b == [inst[i] EXCEPT !.pc = "next", !.run = <<None, 0>>, !.got = "none", !.witness = FALSE]
           v == IF inst[i].claims THEN Idle ELSE b
<1>1. inst[i] \in Instance
  BY DEF IInv, TypeOK
<1>2. inst' = [inst EXCEPT ![i] = v]
  BY DEF Done
<1>3. b \in Instance /\ b.pc = "next" /\ b.run = <<None, 0>> /\ b.todo = inst[i].todo /\ b.expected = inst[i].expected
  BY <1>1 DEF Instance
<1>4. Idle \in Instance /\ Idle.pc = "idle" /\ Idle.run = <<None, 0>> /\ Idle.todo = {} /\ Idle.expected = 0
  BY DEF Idle, Instance
<1> HIDE DEF b
<1>5. v \in Instance
  BY <1>3, <1>4
<1>6. /\ inst' \in [Instances -> Instance] /\ inst'[i] = v
      /\ \A j \in Instances \ {i} : inst'[j] = inst[j]
  BY <1>2, <1>5, InstOne
<1>7. inst[i].expected <= epoch' /\ 0 <= epoch'
  <2>1. inst[i].expected \in Nat /\ inst[i].expected <= epoch /\ epoch \in Nat
    BY <1>1 DEF Instance, IInv, InHand, TypeOK
  <2> QED
    BY <2>1
<1>8. Rests(i)
  BY <1>3, <1>4, <1>6, <1>7 DEF Rests
<1> QED
  BY <1>6, <1>8 DEF InstPart, LegalInst

(* An instance goes on to another point with what it has in hand. *)
LEMMA GoFacts ==
  ASSUME IInv, NEW i \in Instances, NEW pc, Go(i, pc),
         pc \in {"idle", "probe", "observe", "next", "status", "start", "cancel", "terminal",
                 "collect", "complete", "finish", "stop", "ask", "claim", "intent", "send", "starting"}
  PROVE  /\ inst' \in [Instances -> Instance]
         /\ inst'[i].pc = pc /\ inst'[i].run = inst[i].run /\ inst'[i].todo = inst[i].todo
         /\ inst'[i].expected = inst[i].expected /\ inst'[i].got = inst[i].got
         /\ \A j \in Instances \ {i} : inst'[j] = inst[j]
<1> DEFINE v == [inst[i] EXCEPT !.pc = pc]
<1>1. inst[i] \in Instance
  BY DEF IInv, TypeOK
<1>2. inst' = [inst EXCEPT ![i] = v]
  BY DEF Go
<1>3. v \in Instance /\ v.pc = pc /\ v.run = inst[i].run /\ v.todo = inst[i].todo
      /\ v.expected = inst[i].expected /\ v.got = inst[i].got
  BY <1>1 DEF Instance
<1> HIDE DEF v
<1> QED
  BY <1>2, <1>3, InstOne

(* securityLatch and the way to interruptForProofLoss. *)
LEMMA InterruptPart ==
  ASSUME IInv, NEW i \in Instances, NEW w \in BOOLEAN, Interrupt(i, w),
         inst[i].pc \in Working \ Fresh, inst[i].pc = "starting" => NoneAdmits
  PROVE  JournalPart(i) /\ InstPart(i)
<1> DEFINE r == inst[i].run
           v == [inst[i] EXCEPT !.pc = "stop", !.witness = w]
<1>1. inst[i] \in Instance /\ r \in Runs /\ journal[r].status # "none"
  BY DEF IInv, TypeOK, InHand, Fresh
<1>2. securityLatch({r})
  BY DEF Interrupt, Mine
<1>3. JournalPart(i) /\ journal'[r].status \in {"latched", "interrupted"}
  BY <1>1, <1>2, LatchPart
<1>4. inst' = [inst EXCEPT ![i] = v]
  BY DEF Interrupt
<1>5. v \in Instance /\ v.pc = "stop" /\ v.run = r /\ v.todo = inst[i].todo /\ v.expected = inst[i].expected
  BY <1>1 DEF Instance
<1> HIDE DEF v
<1>6. /\ inst' \in [Instances -> Instance] /\ inst'[i] = v
      /\ \A j \in Instances \ {i} : inst'[j] = inst[j]
  BY <1>4, <1>5, InstOne
<1>7. Keeps(i)
  BY <1>3, <1>5, <1>6 DEF Keeps, Latched
<1> QED
  BY <1>3, <1>6, <1>7 DEF InstPart, LegalInst

(* worker.start, where it is awaited. *)
LEMMA StartedPart ==
  ASSUME IInv, NEW i \in Instances, inst[i].pc \in Starting, NoneAdmits,
         Started(inst[i].run) \/ UNCHANGED remote
  PROVE  RemotePart(i)
<1> DEFINE r == inst[i].run
<1>1. r \in Runs /\ remote \in [Runs -> Alive \cup Terminal \cup {"absent", "never"}]
  BY DEF IInv, TypeOK, InHand, Working, Starting
<1>2. CASE Started(r)
  BY <1>1, <1>2 DEF Started, RemotePart, LegalRemotes, LegalRemote, Alive
<1>3. CASE UNCHANGED remote
  BY <1>3, RemoteStill
<1> QED
  BY <1>2, <1>3

(* A store that is only calmed is legal. *)
LEMMA StoreCalm ==
  ASSUME IInv, NEW i, db' \in Store, Calm(db', db)
  PROVE  StorePart(i)
<1>1. StopsLast(db')
  BY CalmKeepsStops DEF IInv
<1> QED
  BY <1>1 DEF StorePart, LegalTasks, LegalTask, Calm

(* The owner's commands. *)
LEMMA CommandLegal ==
  ASSUME IInv, NEW i, Pause \/ Stop \/ Resume \/ Retry \/ Block \/ Transition
  PROVE  Legal(i)
<1>0. db \in Store /\ db.task \in [Tasks -> Task]
      /\ db.state \in Hold \cup {"LIVE"} /\ db.resume \in Hold \cup {"LIVE", ""}
  BY DEF IInv, TypeOK, Store
<1>1. UNCHANGED <<safe, journal, epoch, suspended, leader, inst, remote, tainted>>
  BY DEF Pause, Stop, Resume, Retry, Block, Transition, Command, Sets
<1>2. ASSUME NEW o \in Asked
      PROVE  /\ Cancelling([db EXCEPT !.op = o]) \in Store
             /\ Calm(Cancelling([db EXCEPT !.op = o]), db)
  <2> DEFINE d == [db EXCEPT !.op = o]
             f == [t \in Tasks |-> [d.task[t] EXCEPT !.cancel = @ \/ d.task[t].status = "RUNNING"]]
  <2>1. d \in Store /\ d.task = db.task /\ d.checkpoints = db.checkpoints
    BY <1>0, <1>2 DEF Store, Asked
  <2> HIDE DEF d
  <2>2. ASSUME NEW t \in Tasks
        PROVE  /\ f[t] \in Task /\ f[t].attempt = db.task[t].attempt
               /\ f[t].stopped = db.task[t].stopped /\ f[t].status = db.task[t].status
    <3>1. d.task[t] \in Task
      BY <1>0, <2>1
    <3> QED
      BY <2>1, <3>1 DEF Task
  <2>3. f \in [Tasks -> Task] /\ Cancelling(d) = [d EXCEPT !.task = f]
    BY <2>2 DEF Cancelling
  <2> HIDE DEF f
  <2>4. Cancelling(d) \in Store /\ Cancelling(d).task = f /\ Cancelling(d).checkpoints = db.checkpoints
    BY <2>1, <2>3, StoreWithTasks
  <2>5. Calm(Cancelling(d), db)
    BY <2>2, <2>4 DEF Calm
  <2> QED
    BY <2>4, <2>5 DEF d
<1>3. CASE Pause
  <2> DEFINE c == Cancelling([db EXCEPT !.op = "PAUSE_REQUESTED"])
  <2>1. c \in Store /\ Calm(c, db)
    BY <1>2 DEF Asked
  <2>2. db' = Finalized(c)
    BY <1>3 DEF Pause, Command, Sets
  <2> HIDE DEF c
  <2> QED
    BY <2>1, <2>2, FinalizedCalm, CalmChain, StoreCalm, <1>1, JournalStill, RemoteStill, InstStill, RestStill, Parts
<1>4. CASE Stop
  <2> DEFINE c == Cancelling([db EXCEPT !.op = "STOP_REQUESTED"])
             e == Retasked(c, {"QUEUED"}, "CANCELLED")
  <2>1. c \in Store /\ Calm(c, db)
    BY <1>2 DEF Asked
  <2>2. db' = Finalized(e)
    BY <1>4 DEF Stop, Command, Sets
  <2> HIDE DEF c
  <2>3. e \in Store /\ Calm(e, c)
    BY <2>1, RetaskedCalm DEF Waiting
  <2> HIDE DEF e
  <2>4. Finalized(e) \in Store /\ Calm(Finalized(e), e)
    BY <2>3, FinalizedCalm
  <2>5. Calm(Finalized(e), db)
    BY <2>1, <2>3, <2>4, CalmChain
  <2> QED
    BY <2>2, <2>4, <2>5, StoreCalm, <1>1, JournalStill, RemoteStill, InstStill, RestStill, Parts
<1>5. CASE Resume
  <2> DEFINE f == [t \in Tasks |-> IF db.task[t].status = "PAUSED"
                                   THEN [db.task[t] EXCEPT !.status = "QUEUED", !.cancel = FALSE, !.ended = 0]
                                   ELSE db.task[t]]
             d == [db EXCEPT !.task = f]
  <2>1. db' = [db EXCEPT !.state = "LIVE", !.resume = "", !.op = "", !.task = f]
    BY <1>5 DEF Resume, Sets
  <2>2. ASSUME NEW t \in Tasks
        PROVE  /\ f[t] \in Task /\ f[t].attempt = db.task[t].attempt
               /\ f[t].stopped = db.task[t].stopped
               /\ f[t].status = IF db.task[t].status = "PAUSED" THEN "QUEUED" ELSE db.task[t].status
    <3>1. db.task[t] \in Task
      BY <1>0
    <3> QED
      BY <3>1 DEF Task
  <2>3. f \in [Tasks -> Task]
    BY <2>2
  <2> HIDE DEF f
  <2>4. db' \in Store /\ db'.task = f /\ db'.checkpoints = db.checkpoints
    BY <1>0, <2>1, <2>3 DEF Store
  <2>5. Calm(db', db)
    BY <2>2, <2>4 DEF Calm, Waiting
  <2> QED
    BY <2>4, <2>5, StoreCalm, <1>1, JournalStill, RemoteStill, InstStill, RestStill, Parts
<1>6. CASE Retry \/ Transition \/ Block
  <2>1. PICK st \in {"LIVE", "BLOCKED"}, res \in Hold \cup {"LIVE", ""} :
           db' = [db EXCEPT !.state = st, !.resume = res, !.op = ""]
    BY <1>0, <1>6 DEF Retry, Transition, Block, Command, Sets
  <2>2. db' \in Store /\ Calm(db', db)
    BY <1>0, <2>1, RowCalm DEF Hold
  <2> QED
    BY <2>2, StoreCalm, <1>1, JournalStill, RemoteStill, InstStill, RestStill, Parts
<1> QED
  BY <1>3, <1>4, <1>5, <1>6

(* The steps around the orchestrator. *)
LEMMA AroundLegal ==
  ASSUME IInv, NEW i \in Instances, LeaderLapses \/ Crash(i) \/ \E r \in Runs : PayloadEnds(r)
  PROVE  Legal(i)
<1>0. TypeOK
  BY DEF IInv
<1>1. CASE LeaderLapses
  <2>1. UNCHANGED <<safe, db, journal, epoch, suspended, inst, remote, tainted>> /\ leader' = None
    BY <1>1 DEF LeaderLapses
  <2>2. RestPart
    BY <1>0, <2>1 DEF TypeOK, RestPart
  <2> QED
    BY <2>1, <2>2, JournalStill, RemoteStill, StoreStill, InstStill, Parts
<1>2. CASE Crash(i)
  <2>1. UNCHANGED <<safe, db, journal, epoch, suspended, remote, tainted>>
    BY <1>2 DEF Crash
  <2>2. RestPart
    BY <1>0, <1>2, <2>1 DEF TypeOK, RestPart, Crash
  <2>3. InstPart(i)
    BY <1>0, <1>2, <2>1, IdlePart DEF Crash, TypeOK
  <2> QED
    BY <2>1, <2>2, <2>3, JournalStill, RemoteStill, StoreStill, Parts
<1>3. CASE \E r \in Runs : PayloadEnds(r)
  <2>1. PICK r \in Runs : PayloadEnds(r)
    BY <1>3
  <2>2. UNCHANGED <<safe, db, journal, epoch, suspended, leader, inst, tainted>>
    BY <2>1 DEF PayloadEnds
  <2>3. PICK end \in Terminal : remote[r] \in Alive /\ remote' = [remote EXCEPT ![r] = end]
    BY <2>1 DEF PayloadEnds, Terminal
  <2>4. RemotePart(i)
    BY <1>0, <2>3 DEF TypeOK, RemotePart, LegalRemotes, LegalRemote
  <2> QED
    BY <2>2, <2>4, JournalStill, StoreStill, InstStill, RestStill, Parts
<1> QED
  BY <1>1, <1>2, <1>3

(* runTick, up to its list of dispatches. *)
LEMMA ProbeLegal ==
  ASSUME IInv, Stalls = FALSE, NEW i \in Instances,
         acquireLeadership(i) \/ ProbeSecure(i) \/ ProbeOffline(i) \/ ProbeInsecure(i)
  PROVE  Legal(i)
<1>0. TypeOK /\ inst[i] \in Instance /\ epoch \in Nat
  BY DEF IInv, TypeOK
<1>1. inst[i].todo \in SUBSET Runs /\ inst[i].expected \in Nat /\ inst[i].expected <= epoch
      /\ inst[i].before \in Nat
  BY <1>0 DEF Instance, IInv, InHand
<1>2. inst[i].pc \notin Working => inst[i].run = <<None, 0>>
  BY DEF IInv, InHand
<1>3. ASSUME NEW v \in Instance, inst' = [inst EXCEPT ![i] = v],
             v.pc \in {"idle", "probe", "observe", "next"}, v.run = <<None, 0>>,
             \A r \in v.todo : r \in inst[i].todo \/ (inst[i].pc = "probe" /\ NoneAdmits /\ r \in Active),
             v.expected <= epoch'
      PROVE  InstPart(i)
  <2>1. /\ inst' \in [Instances -> Instance] /\ inst'[i] = v
        /\ \A j \in Instances \ {i} : inst'[j] = inst[j]
    BY <1>3, InstOne
  <2>2. Rests(i)
    BY <1>3, <2>1 DEF Rests
  <2> QED
    BY <2>1, <2>2 DEF InstPart, LegalInst
<1>4. CASE acquireLeadership(i)
  <2> DEFINE v == [Idle EXCEPT !.pc = "probe", !.before = epoch]
  <2>1. UNCHANGED <<safe, db, journal, epoch, suspended, remote, tainted>> /\ leader' = i
        /\ inst' = [inst EXCEPT ![i] = v]
    BY <1>4 DEF acquireLeadership
  <2>2. v \in Instance /\ v.pc = "probe" /\ v.run = <<None, 0>> /\ v.todo = {} /\ v.expected = 0
    BY <1>0 DEF Idle, Instance
  <2> HIDE DEF v
  <2>3. InstPart(i)
    <3>1. v.expected <= epoch' /\ \A r \in v.todo : r \in inst[i].todo
      BY <1>0, <2>1, <2>2
    <3> QED
      BY <1>3, <2>1, <2>2, <3>1
  <2>4. RestPart
    BY <1>0, <2>1 DEF TypeOK, RestPart
  <2> QED
    BY <2>1, <2>3, <2>4, JournalStill, RemoteStill, StoreStill, Parts
<1>5. ASSUME At(i, "probe")
      PROVE  NoneAdmits /\ inst[i].pc = "probe" /\ inst[i].run = <<None, 0>>
  BY <1>2, <1>5, Prompts DEF At, Calls, Working
<1>6. ASSUME At(i, "probe"), NEW secure \in BOOLEAN, Observes(i, secure), UNCHANGED <<safe, db, leader, remote>>
      PROVE  Legal(i)
  <2> DEFINE v == [inst[i] EXCEPT !.pc = "observe", !.secure = secure]
  <2>1. UNCHANGED <<journal, epoch, tainted>> /\ suspended' = FALSE /\ inst' = [inst EXCEPT ![i] = v]
    BY <1>6 DEF Observes
  <2>2. v \in Instance /\ v.pc = "observe" /\ v.run = inst[i].run /\ v.todo = inst[i].todo
        /\ v.expected = inst[i].expected
    BY <1>0, <1>6 DEF Instance
  <2> HIDE DEF v
  <2>3. InstPart(i)
    BY <1>1, <1>3, <1>5, <1>6, <2>1, <2>2
  <2>4. RestPart
    BY <1>0, <1>6, <2>1 DEF TypeOK, RestPart
  <2> QED
    BY <1>6, <2>1, <2>3, <2>4, JournalStill, RemoteStill, StoreStill, Parts
<1>7. ASSUME At(i, "probe"), Listed(i, TRUE, pendingSecurity), suspended' = FALSE,
             UNCHANGED <<safe, db, leader, remote>>
      PROVE  Legal(i)
  <2> DEFINE adm == TRUE /\ ~pendingSecurity /\ epoch = inst[i].before
             v == [inst[i] EXCEPT !.pc = "next", !.secure = TRUE, !.todo = Active,
                                  !.before = 0, !.expected = epoch, !.admit = adm]
  <2>1. UNCHANGED tainted /\ inst' = [inst EXCEPT ![i] = v]
    BY <1>7 DEF Listed
  <2>2. Active \in SUBSET Runs /\ adm \in BOOLEAN
    BY DEF Active
  <2> HIDE DEF adm
  <2>3. v \in Instance /\ v.pc = "next" /\ v.run = inst[i].run /\ v.todo = Active /\ v.expected = epoch
    BY <1>0, <2>2 DEF Instance
  <2> HIDE DEF v
  <2>4. JournalPart(i)
    <3>1. CASE pendingSecurity
      BY <1>7, <2>2, <3>1, LatchPart DEF Listed
    <3>2. CASE ~pendingSecurity
      BY <1>7, <3>2, JournalStill DEF Listed
    <3> QED
      BY <3>1, <3>2
  <2>5. epoch' >= epoch /\ epoch' \in Nat
    BY <2>4 DEF JournalPart
  <2>6. InstPart(i)
    BY <1>0, <1>3, <1>5, <1>7, <2>1, <2>3, <2>5
  <2>7. RestPart
    BY <1>0, <1>7, <2>1 DEF TypeOK, RestPart
  <2> QED
    BY <1>7, <2>4, <2>6, <2>7, RemoteStill, StoreStill, Parts
<1>8. CASE ProbeSecure(i)
  BY <1>6, <1>7, <1>8 DEF ProbeSecure
<1>9. CASE ProbeInsecure(i)
  BY <1>6, <1>9 DEF ProbeInsecure
<1>10. CASE ProbeOffline(i)
  <2>1. CASE Observes(i, FALSE)
    BY <1>6, <1>10, <2>1 DEF ProbeOffline
  <2>2. CASE suspended' = TRUE /\ inst' = [inst EXCEPT ![i].pc = "next"] /\ UNCHANGED <<journal, epoch, tainted>>
    <3> DEFINE v == [inst[i] EXCEPT !.pc = "next"]
    <3>1. inst' = [inst EXCEPT ![i] = v] /\ At(i, "probe") /\ UNCHANGED <<safe, db, leader, remote>>
      BY <1>10, <2>2 DEF ProbeOffline
    <3>2. v \in Instance /\ v.pc = "next" /\ v.run = inst[i].run /\ v.todo = inst[i].todo
          /\ v.expected = inst[i].expected
      BY <1>0 DEF Instance
    <3> HIDE DEF v
    <3>3. InstPart(i)
      BY <1>1, <1>3, <1>5, <2>2, <3>1, <3>2
    <3>4. RestPart
      BY <1>0, <2>2, <3>1 DEF TypeOK, RestPart
    <3> QED
      BY <2>2, <3>1, <3>3, <3>4, JournalStill, RemoteStill, StoreStill, Parts
  <2> QED
    BY <1>10, <2>1, <2>2 DEF ProbeOffline
<1> QED
  BY <1>4, <1>8, <1>9, <1>10

(* observeProofLoss. *)
LEMMA ObserveLegal ==
  ASSUME IInv, NEW i \in Instances, observeProofLoss(i)
  PROVE  Legal(i)
<1> DEFINE open == { r \in Runs : Open(r) }
           v == [inst[i] EXCEPT !.pc = "next", !.admit = FALSE, !.todo = Active, !.expected = epoch']
<1>1. /\ inst[i].pc = "observe"
      /\ journal' = [r \in Runs |-> IF Open(r) THEN [journal[r] EXCEPT !.status = "latched"] ELSE journal[r]]
      /\ epoch' = epoch + Cardinality(open) + 1
      /\ tainted' = tainted \cup open
      /\ inst' = [inst EXCEPT ![i] = v]
      /\ UNCHANGED <<safe, db, suspended, leader, remote>>
  BY DEF observeProofLoss, At
<1>2. TypeOK /\ inst[i] \in Instance /\ epoch \in Nat /\ journal \in [Runs -> Row]
      /\ inst[i].run = <<None, 0>>
  BY <1>1 DEF IInv, TypeOK, Row, InHand, Working
<1>3. epoch' \in Nat /\ epoch' > epoch
  <2>1. IsFiniteSet(open)
    BY RunsFinite, FS_Subset
  <2>2. Cardinality(open) \in Nat
    BY <2>1, FS_CardinalityType
  <2> HIDE DEF open
  <2> QED
    BY <1>1, <1>2, <2>2
<1>4. ASSUME NEW r \in Runs
      PROVE  /\ journal'[r] \in Row
             /\ Open(r) => journal'[r].status = "latched"
             /\ ~Open(r) => journal'[r] = journal[r]
  <2>1. journal[r] \in Row
    BY <1>2
  <2>2. [journal[r] EXCEPT !.status = "latched"] \in Row /\ [journal[r] EXCEPT !.status = "latched"].status = "latched"
    BY <2>1 DEF Row
  <2> QED
    BY <1>1, <2>1, <2>2
<1>5. JournalPart(i)
  <2>1. journal' \in [Runs -> Row]
    BY <1>1, <1>4
  <2>2. LegalRows(i)
    BY <1>3, <1>4 DEF LegalRows, LegalRow, Open
  <2> QED
    BY <1>2, <1>3, <2>1, <2>2 DEF JournalPart
<1>6. RestPart
  BY <1>1, <1>2, <1>4 DEF RestPart, TypeOK
<1>7. Active \in SUBSET Runs /\ \A r \in Active : Latched(r)'
  BY <1>4 DEF Active, Latched, Open
<1>8. v \in Instance /\ v.pc = "next" /\ v.run = inst[i].run /\ v.todo = Active /\ v.expected = epoch'
  BY <1>2, <1>3, <1>7 DEF Instance
<1> HIDE DEF v
<1>9. /\ inst' \in [Instances -> Instance] /\ inst'[i] = v
      /\ \A j \in Instances \ {i} : inst'[j] = inst[j]
  BY <1>1, <1>8, InstOne
<1>10. Rests(i)
  <2>1. inst'[i].expected <= epoch'
    BY <1>3, <1>8, <1>9
  <2>2. \A r \in inst'[i].todo : r \in Active /\ Latched(r)'
    BY <1>7, <1>8, <1>9 DEF Latched
  <2> QED
    BY <1>1, <1>2, <1>3, <1>8, <1>9, <2>1, <2>2 DEF Rests, Latched
<1>11. InstPart(i)
  BY <1>9, <1>10 DEF InstPart, LegalInst
<1> QED
  BY <1>1, <1>5, <1>6, <1>11, RemoteStill, StoreStill, Parts

(* A task that leaves, for one of the reasons it may. *)
LEMMA StoreLeaves ==
  ASSUME IInv, NEW i \in Instances, NEW t \in Tasks, Leaves(db', db, t),
         \/ inst[i].pc \in {"terminal", "complete"} /\ Owns(db, inst[i].run) /\ t = inst[i].run[1]
         \/ /\ inst[i].pc = "intent" /\ Owns(db, inst[i].run) /\ t = inst[i].run[1]
            /\ inst'[i].pc = "idle"
         \/ NoneAdmits,
         db'.task[t].status \in Waiting =>
           \/ safe[t]
           \/ /\ inst[i].pc = "complete" /\ Owns(db, inst[i].run) /\ t = inst[i].run[1]
              /\ inst[i].got # "SUCCEEDED"
  PROVE  StorePart(i)
<1>1. ASSUME NEW u \in Tasks
      PROVE  LegalTask(i, u)
  <2>1. CASE u = t
    BY <2>1 DEF Leaves, LegalTask
  <2>2. CASE u # t
    BY <2>2 DEF Leaves, LegalTask
  <2> QED
    BY <2>1, <2>2
<1> QED
  BY <1>1 DEF StorePart, LegalTasks, Leaves

(* A task that is stopped for good, for one of the reasons it may be. *)
LEMMA StoreStops ==
  ASSUME IInv, NEW i \in Instances, NEW t \in Tasks, Stopped(db', db, t),
         \/ inst[i].pc = "stop" /\ inst[i].run[1] = t /\ journal[inst[i].run].status # "interrupted"
         \/ /\ inst[i].pc \in Fresh /\ inst[i].run[1] = t /\ Incident(i)
            /\ inst'[i].pc = "idle"
            /\ inst[i].pc = "send" => journal'[inst[i].run].status = "interrupted"
  PROVE  StorePart(i)
<1>1. ASSUME NEW u \in Tasks
      PROVE  LegalTask(i, u)
  <2>1. CASE u = t
    BY <2>1 DEF Stopped, LegalTask, Waiting
  <2>2. CASE u # t
    BY <2>2 DEF Stopped, LegalTask
  <2> QED
    BY <2>1, <2>2
<1> QED
  BY <1>1 DEF StorePart, LegalTasks, Stopped

(* Going on to a later point, in the cases that need nothing else to change. *)
LEMMA GoPart ==
  ASSUME IInv, NEW i \in Instances, NEW pc, Go(i, pc),
         \/ pc = "cancel" /\ inst[i].pc \in {"status", "start"}
         \/ pc = "start" /\ inst[i].pc = "status" /\ ~Latched(inst[i].run) /\ journal' = journal
         \/ pc \in Late \ {"terminal"} /\ inst[i].pc \in Late
         \/ pc = "ask" /\ inst[i].pc = "stop" /\ db'.task[inst[i].run[1]].stopped
         \/ /\ pc = "send" /\ inst[i].pc = "intent" /\ ~Incident(i)
            /\ journal'[inst[i].run].status = "open" /\ db' = db /\ epoch' = epoch
         \/ pc = "starting" /\ inst[i].pc = "send" /\ ~Incident(i) /\ journal' = journal
  PROVE  InstPart(i)
<1>1. pc \in {"cancel", "start", "collect", "complete", "finish", "ask", "send", "starting"}
  BY DEF Late
<1>2. /\ inst' \in [Instances -> Instance]
      /\ inst'[i].pc = pc /\ inst'[i].run = inst[i].run /\ inst'[i].todo = inst[i].todo
      /\ inst'[i].expected = inst[i].expected /\ inst'[i].got = inst[i].got
      /\ \A j \in Instances \ {i} : inst'[j] = inst[j]
  BY <1>1, GoFacts
<1>3. inst[i].pc \in Working
  BY DEF Working, Late
<1>4. Keeps(i)
  BY <1>2, <1>3 DEF Keeps
<1> QED
  BY <1>2, <1>4 DEF InstPart, LegalInst

(* A dispatch that goes on, and one that gives no answer. *)
LEMMA StillRunningPart ==
  ASSUME IInv, NEW i \in Instances, inst[i].pc \in {"status", "start"}, StillRunning(i)
  PROVE  JournalPart(i) /\ InstPart(i)
<1>1. inst[i].run \in Runs /\ inst[i].pc \in Working \ Fresh /\ inst[i].pc # "starting" /\ epoch \in Nat
  BY DEF IInv, TypeOK, InHand, Working, Fresh
<1>2. CASE Owns(db, inst[i].run)
  <2>1. Seen(inst[i].run) /\ epoch' = epoch /\ (Go(i, "cancel") \/ Done(i))
    BY <1>2 DEF StillRunning, Mine
  <2>2. Go(i, "cancel") => InstPart(i)
    BY GoPart
  <2>3. Done(i) => InstPart(i)
    BY <1>1, <2>1, DonePart
  <2> QED
    BY <1>1, <2>1, <2>2, <2>3, SeenPart
<1>3. CASE ~Owns(db, inst[i].run)
  BY <1>1, <1>3, InterruptPart DEF StillRunning, Mine
<1> QED
  BY <1>2, <1>3

(* The recovery window: the lease is kept, or the dispatch is cut. *)
LEMMA NoAnswerPart ==
  ASSUME IInv, NEW i \in Instances, inst[i].pc \in {"status", "start"}, NoAnswer(i)
  PROVE  JournalPart(i) /\ InstPart(i)
<1>1. inst[i].pc \in Working \ Fresh /\ inst[i].pc # "starting" /\ epoch \in Nat
  BY DEF IInv, TypeOK, Working, Fresh
<1>2. CASE Interrupt(i, FALSE)
  BY <1>1, <1>2, InterruptPart
<1>3. CASE Done(i) /\ UNCHANGED <<journal, epoch>>
  BY <1>1, <1>3, DonePart, JournalStill
<1> QED
  BY <1>2, <1>3 DEF NoAnswer

(* reconcileOne, up to the worker's answer. *)
LEMMA StatusLegal ==
  ASSUME IInv, NEW i \in Instances,
         StatusActive(i) \/ Unanswered(i) \/ StatusAbsent(i) \/ StatusTerminal(i)
  PROVE  Legal(i)
<1>0. UNCHANGED <<safe, db, suspended, leader, remote, tainted>> /\ inst[i].pc = "status"
  BY DEF StatusActive, Unanswered, StatusAbsent, StatusTerminal, At
<1>1. inst[i] \in Instance /\ inst[i].run \in Runs /\ inst[i].pc \in Working \ Fresh
      /\ inst[i].pc # "starting" /\ epoch \in Nat
  BY <1>0 DEF IInv, TypeOK, InHand, Working, Fresh
<1>2. SUFFICES JournalPart(i) /\ InstPart(i)
  BY <1>0, <1>2, RemoteStill, StoreStill, RestStill, Parts
<1>3. CASE Interrupt(i, FALSE)
  BY <1>1, <1>3, InterruptPart
<1>4. CASE StillRunning(i)
  BY <1>0, <1>4, StillRunningPart
<1>5. CASE NoAnswer(i)
  BY <1>0, <1>5, NoAnswerPart
<1>6. CASE ~Fenced(i) /\ Go(i, "start") /\ UNCHANGED <<journal, epoch>>
  BY <1>0, <1>6, GoPart, JournalStill DEF Fenced, Mine
<1>7. CASE StatusTerminal(i) /\ ~Fenced(i)
  <2> DEFINE r == inst[i].run
             v == [inst[i] EXCEPT !.pc = "terminal", !.got = remote[r]]
  <2>1. /\ remote[r] \in Terminal /\ Seen(r) /\ epoch' = epoch
        /\ inst' = [inst EXCEPT ![i].pc = "terminal", ![i].got = remote[r]]
    BY <1>7 DEF StatusTerminal, Mine
  <2>2. inst' = [inst EXCEPT ![i] = v]
    BY <1>1, <2>1 DEF IInv, TypeOK
  <2>3. v \in Instance /\ v.pc = "terminal" /\ v.run = r /\ v.todo = inst[i].todo
        /\ v.expected = inst[i].expected /\ v.got = remote[r]
    BY <1>1, <2>1 DEF Instance
  <2> HIDE DEF v
  <2>4. /\ inst' \in [Instances -> Instance] /\ inst'[i] = v
        /\ \A j \in Instances \ {i} : inst'[j] = inst[j]
    BY <2>2, <2>3, InstOne
  <2>5. Keeps(i)
    BY <1>0, <1>1, <2>1, <2>3, <2>4 DEF Keeps
  <2> QED
    BY <1>1, <2>1, <2>4, <2>5, SeenPart DEF InstPart, LegalInst
<1> QED
  BY <1>3, <1>4, <1>5, <1>6, <1>7 DEF StatusActive, Unanswered, StatusAbsent, StatusTerminal

(* The next dispatch of the list. *)
LEMMA NextLegal ==
  ASSUME IInv, NEW i \in Instances, NextDispatch(i)
  PROVE  Legal(i)
<1>0. UNCHANGED <<safe, db, suspended, leader, remote, tainted>> /\ inst[i].pc = "next"
  BY DEF NextDispatch, At
<1>1. inst[i] \in Instance /\ epoch \in Nat /\ inst[i].todo \in SUBSET Runs
      /\ inst[i].expected \in Nat /\ inst[i].expected <= epoch /\ inst[i].secure \in BOOLEAN
      /\ \A r \in inst[i].todo : journal[r].status # "none"
  BY DEF IInv, TypeOK, Instance, InHand
<1>2. SUFFICES JournalPart(i) /\ InstPart(i)
  BY <1>0, <1>2, RemoteStill, StoreStill, RestStill, Parts
<1>3. PICK r \in inst[i].todo :
        LET me == [inst[i] EXCEPT !.todo = @ \ {r}, !.run = r]
        IN IF ~inst[i].secure \/ pendingSecurity
           THEN /\ securityLatch({r})
                /\ inst' = [inst EXCEPT ![i] = [me EXCEPT !.pc = "stop", !.witness = inst[i].secure]]
           ELSE /\ inst' = [inst EXCEPT ![i] = IF Latched(r) THEN [me EXCEPT !.run = <<None, 0>>]
                                              ELSE [me EXCEPT !.pc = "status"]]
                /\ UNCHANGED <<journal, epoch>>
  BY DEF NextDispatch
<1> DEFINE me == [inst[i] EXCEPT !.todo = @ \ {r}, !.run = r]
           a == [me EXCEPT !.pc = "stop", !.witness = inst[i].secure]
           b == [me EXCEPT !.run = <<None, 0>>]
           c == [me EXCEPT !.pc = "status"]
<1>4. r \in Runs /\ inst[i].todo \ {r} \in SUBSET Runs
  BY <1>1
<1>5. me \in Instance /\ me.pc = "next" /\ me.todo = inst[i].todo \ {r} /\ me.run = r /\ me.expected = inst[i].expected
  BY <1>0, <1>1, <1>4 DEF Instance
<1>6. CASE ~inst[i].secure \/ pendingSecurity
  <2>1. securityLatch({r}) /\ inst' = [inst EXCEPT ![i] = a]
    BY <1>3, <1>6
  <2> HIDE DEF me
  <2>2. a \in Instance /\ a.pc = "stop" /\ a.run = r /\ a.todo = inst[i].todo \ {r} /\ a.expected = inst[i].expected
    BY <1>1, <1>5 DEF Instance
  <2> HIDE DEF a
  <2>3. JournalPart(i) /\ journal'[r].status \in {"latched", "interrupted"}
    BY <1>1, <1>4, <2>1, LatchPart
  <2>4. /\ inst' \in [Instances -> Instance] /\ inst'[i] = a
        /\ \A j \in Instances \ {i} : inst'[j] = inst[j]
    BY <2>1, <2>2, InstOne
  <2>5. Picks(i)
    BY <1>0, <2>2, <2>3, <2>4 DEF Picks, Latched
  <2> QED
    BY <2>3, <2>4, <2>5 DEF InstPart, LegalInst
<1>7. CASE ~(~inst[i].secure \/ pendingSecurity) /\ Latched(r)
  <2>1. inst' = [inst EXCEPT ![i] = b] /\ UNCHANGED <<journal, epoch>>
    BY <1>3, <1>7
  <2> HIDE DEF me
  <2>2. b \in Instance /\ b.pc = "next" /\ b.run = <<None, 0>> /\ b.todo = inst[i].todo \ {r}
        /\ b.expected = inst[i].expected
    BY <1>1, <1>5 DEF Instance
  <2> HIDE DEF b
  <2>4. /\ inst' \in [Instances -> Instance] /\ inst'[i] = b
        /\ \A j \in Instances \ {i} : inst'[j] = inst[j]
    BY <2>1, <2>2, InstOne
  <2>5. Rests(i)
    BY <1>1, <2>1, <2>2, <2>4 DEF Rests
  <2> QED
    BY <2>1, <2>4, <2>5, JournalStill DEF InstPart, LegalInst
<1>8. CASE ~(~inst[i].secure \/ pendingSecurity) /\ ~Latched(r)
  <2>1. inst' = [inst EXCEPT ![i] = c] /\ UNCHANGED <<journal, epoch>>
    BY <1>3, <1>8
  <2> HIDE DEF me
  <2>2. c \in Instance /\ c.pc = "status" /\ c.run = r /\ c.todo = inst[i].todo \ {r}
        /\ c.expected = inst[i].expected
    BY <1>1, <1>5 DEF Instance
  <2> HIDE DEF c
  <2>4. /\ inst' \in [Instances -> Instance] /\ inst'[i] = c
        /\ \A j \in Instances \ {i} : inst'[j] = inst[j]
    BY <2>1, <2>2, InstOne
  <2>5. Picks(i)
    BY <1>0, <1>8, <2>1, <2>2, <2>4 DEF Picks
  <2> QED
    BY <2>1, <2>4, <2>5, JournalStill DEF InstPart, LegalInst
<1> QED
  BY <1>6, <1>7, <1>8

(* worker.start, awaited by reconcileOne and by claimOne. *)
LEMMA StartLegal ==
  ASSUME IInv, Stalls = FALSE, NEW i \in Instances,
         StartAgain(i) \/ StartAnswered(i) \/ StartLost(i)
  PROVE  Legal(i)
<1>0. /\ UNCHANGED <<safe, db, suspended, leader, tainted>> /\ inst[i].pc \in Starting
      /\ Started(inst[i].run) \/ UNCHANGED remote
      /\ NoneAdmits
  <2>1. CASE StartAgain(i)
    BY <2>1, Prompts DEF StartAgain, At, Calls, Starting, Mine
  <2>2. CASE StartAnswered(i)
    BY <2>2, Prompts DEF StartAnswered, At, Calls, Starting, Mine
  <2>3. CASE StartLost(i)
    BY <2>3, Prompts DEF StartLost, At, Calls, Starting, Mine
  <2> QED
    BY <2>1, <2>2, <2>3
<1>1. inst[i].pc \in Working \ Fresh /\ inst[i].run \in Runs /\ epoch \in Nat
  BY <1>0 DEF IInv, TypeOK, InHand, Working, Fresh, Starting
<1>2. SUFFICES JournalPart(i) /\ InstPart(i)
  BY <1>0, <1>2, StartedPart, StoreStill, RestStill, Parts
<1>3. CASE Interrupt(i, TRUE)
  BY <1>0, <1>1, <1>3, InterruptPart
<1>4. CASE inst[i].pc = "start" /\ StillRunning(i)
  BY <1>4, StillRunningPart
<1>5. CASE inst[i].pc = "start" /\ NoAnswer(i)
  BY <1>5, NoAnswerPart
<1>6. CASE Done(i) /\ UNCHANGED <<journal, epoch>>
  BY <1>1, <1>6, DonePart, JournalStill
<1>7. CASE Seen(inst[i].run) /\ Done(i) /\ UNCHANGED epoch
  BY <1>1, <1>7, DonePart, SeenPart
<1>8. CASE StartAgain(i)
  BY <1>3, <1>4, <1>5, <1>8 DEF StartAgain, At
<1>9. CASE StartAnswered(i)
  BY <1>3, <1>7, <1>9 DEF StartAnswered, Mine
<1>10. CASE StartLost(i)
  BY <1>3, <1>6, <1>10 DEF StartLost
<1> QED
  BY <1>8, <1>9, <1>10

(* terminal and the commit of the result in the store. *)
LEMMA TerminalLegal ==
  ASSUME IInv, NEW i \in Instances, terminal(i) \/ Complete(i)
  PROVE  Legal(i)
<1> DEFINE r == inst[i].run
<1>0. UNCHANGED <<safe, suspended, leader, remote, tainted>> /\ inst[i].pc \in {"terminal", "complete"}
  BY DEF terminal, Complete, At
<1>1. inst[i].pc \in Working \ Fresh /\ inst[i].pc \in Late /\ inst[i].pc # "starting"
      /\ r \in Runs /\ r[1] \in Tasks /\ inst[i].got \in Terminal
  BY <1>0 DEF IInv, TypeOK, InHand, Working, Fresh, Late, Runs
<1>2. db \in Store /\ StopsLast(db)
  BY DEF IInv, TypeOK
<1>3. CASE Interrupt(i, FALSE) /\ UNCHANGED db
  BY <1>0, <1>1, <1>3, InterruptPart, RemoteStill, StoreStill, RestStill, Parts
<1>4. CASE Go(i, "collect") /\ UNCHANGED <<db, journal, epoch>>
  <2>1. InstPart(i)
    BY <1>1, <1>4, GoPart DEF Late
  <2> QED
    BY <1>0, <1>4, <2>1, JournalStill, RemoteStill, StoreStill, RestStill, Parts
<1>5. ASSUME Go(i, "finish"), UNCHANGED <<journal, epoch>>, StorePart(i)
      PROVE  Legal(i)
  <2>1. InstPart(i)
    BY <1>1, <1>5, GoPart DEF Late
  <2> QED
    BY <1>0, <1>5, <2>1, JournalStill, RemoteStill, RestStill, Parts
<1>6. ASSUME NEW retryable \in BOOLEAN, db' = failTask(db, r, retryable)
      PROVE  StorePart(i)
  <2>1. CASE ~Owns(db, r)
    BY <1>6, <2>1, StoreStill DEF failTask
  <2>2. CASE Owns(db, r)
    <3>1. Leaves(db', db, r[1]) /\ (db'.task[r[1]].status \in Waiting => safe[r[1]])
      BY <1>1, <1>2, <1>6, <2>2, FailLeaves
    <3> QED
      BY <1>0, <1>1, <2>2, <3>1, StoreLeaves
  <2> QED
    BY <2>1, <2>2
<1>7. CASE terminal(i)
  <2>1. CASE db' = failTask(db, r, inst[i].got = "FAILED") /\ Go(i, "finish") /\ UNCHANGED <<journal, epoch>>
    BY <1>5, <1>6, <2>1
  <2> QED
    BY <1>3, <1>4, <1>7, <2>1 DEF terminal, Mine
<1>8. CASE Complete(i)
  <2>1. /\ db' = completeTask(db, r, inst[i].got) /\ Go(i, "finish") /\ UNCHANGED <<journal, epoch>>
        /\ inst[i].pc = "complete"
    BY <1>8 DEF Complete, Mine, At
  <2>2. CASE ~Owns(db, r)
    BY <1>5, <2>1, <2>2, StoreStill DEF completeTask
  <2>3. CASE Owns(db, r)
    <3>1. Leaves(db', db, r[1]) /\ (db'.task[r[1]].status \in Waiting => inst[i].got # "SUCCEEDED")
      BY <1>1, <1>2, <2>1, <2>3, CompleteLeaves
    <3>2. StorePart(i)
      BY <1>1, <2>1, <2>3, <3>1, StoreLeaves
    <3> QED
      BY <1>5, <2>1, <3>2
  <2> QED
    BY <2>2, <2>3
<1> QED
  BY <1>7, <1>8

(* The collection of the artifacts, and finishNormally. *)
LEMMA FinishLegal ==
  ASSUME IInv, NEW i \in Instances, Collected(i) \/ CollectFails(i) \/ finishNormally(i)
  PROVE  Legal(i)
<1> DEFINE r == inst[i].run
<1>0. UNCHANGED <<safe, db, suspended, leader, remote, tainted>> /\ inst[i].pc \in {"collect", "finish"}
  BY DEF Collected, CollectFails, finishNormally, At
<1>1. inst[i].pc \in Working \ Fresh /\ inst[i].pc \in Late /\ inst[i].pc # "starting"
      /\ r \in Runs /\ epoch \in Nat /\ journal \in [Runs -> Row]
  BY <1>0 DEF IInv, TypeOK, InHand, Working, Fresh, Late, Row
<1>2. SUFFICES JournalPart(i) /\ InstPart(i)
  BY <1>0, <1>2, RemoteStill, StoreStill, RestStill, Parts
<1>3. CASE Interrupt(i, FALSE)
  BY <1>1, <1>3, InterruptPart
<1>4. CASE Go(i, "complete") /\ UNCHANGED <<journal, epoch>>
  <2>1. InstPart(i)
    BY <1>1, <1>4, GoPart DEF Late
  <2> QED
    BY <1>4, <2>1, JournalStill
<1>5. CASE Done(i) /\ UNCHANGED <<journal, epoch>>
  BY <1>1, <1>5, DonePart, JournalStill
<1>6. CASE /\ inst[i].pc = "finish" /\ FinishIn(i) /\ Done(i) /\ UNCHANGED epoch
           /\ journal' = [journal EXCEPT ![r].status = "closed"]
  <2> DEFINE a == [journal[r] EXCEPT !.status = "closed"]
  <2>1. journal' = [journal EXCEPT ![r] = a] /\ ~Latched(r)
    BY <1>6 DEF FinishIn, Mine
  <2>2. a \in Row /\ a.status = "closed"
    BY <1>1 DEF Row
  <2> HIDE DEF a
  <2>3. journal' \in [Runs -> Row] /\ journal'[r].status = "closed" /\ \A x \in Runs \ {r} : journal'[x] = journal[x]
    BY <1>1, <2>1, <2>2
  <2>4. JournalPart(i)
    BY <1>1, <1>6, <2>1, <2>3 DEF JournalPart, LegalRows, LegalRow
  <2> QED
    BY <1>1, <1>6, <2>4, DonePart
<1> QED
  BY <1>3, <1>4, <1>5, <1>6 DEF Collected, CollectFails, finishNormally, Mine, At

(* worker.cancel for the owner. *)
LEMMA CancelLegal ==
  ASSUME IInv, NEW i \in Instances, Cancel(i)
  PROVE  Legal(i)
<1> DEFINE r == inst[i].run
<1>0. UNCHANGED <<safe, db, suspended, leader, tainted>> /\ inst[i].pc = "cancel"
  BY DEF Cancel, At
<1>1. inst[i].pc \in Working \ Fresh /\ inst[i].pc # "starting" /\ r \in Runs /\ epoch \in Nat
      /\ remote \in [Runs -> Alive \cup Terminal \cup {"absent", "never"}]
  BY <1>0 DEF IInv, TypeOK, InHand, Working, Fresh
<1>2. JournalPart(i) /\ InstPart(i)
  <2>1. CASE Interrupt(i, FALSE)
    BY <1>1, <2>1, InterruptPart
  <2>2. CASE Done(i) /\ UNCHANGED <<journal, epoch>>
    BY <1>1, <2>2, DonePart, JournalStill
  <2> QED
    BY <2>1, <2>2 DEF Cancel
<1>3. RemotePart(i)
  <2>1. CASE UNCHANGED remote
    BY <2>1, RemoteStill
  <2>2. CASE ~UNCHANGED remote
    <3>1. PICK x \in {"CANCELLED", "stopping"} : remote' = [remote EXCEPT ![r] = IF @ \notin Alive THEN @ ELSE x]
      BY <2>2 DEF Cancel, Mine
    <3> QED
      BY <1>1, <3>1 DEF RemotePart, LegalRemotes, LegalRemote, Alive, Terminal
  <2> QED
    BY <2>1, <2>2
<1> QED
  BY <1>0, <1>2, <1>3, StoreStill, RestStill, Parts

(* The end of the list. *)
LEMMA TickEndsLegal ==
  ASSUME IInv, Stalls = FALSE, NEW i \in Instances, NEW t \in Tasks \cup {None}, TickEnds(i, t)
  PROVE  Legal(i)
<1> DEFINE cond == inst[i].admit /\ ~pendingSecurity /\ epoch = inst[i].expected /\ Active = {}
           v == [inst[i] EXCEPT !.pc = "claim", !.claims = TRUE]
<1>0. /\ UNCHANGED <<safe, journal, epoch, suspended, leader, remote, tainted>>
      /\ inst[i].pc = "next" /\ inst[i].todo = {} /\ db' = reconcile(db, t)
      /\ t # None => db.task[t].status = "RUNNING" /\ Prompt
      /\ inst' = [inst EXCEPT ![i] = IF cond THEN v ELSE Idle]
  BY DEF TickEnds, At
<1>1. inst[i] \in Instance /\ epoch \in Nat /\ inst[i].run = <<None, 0>> /\ db \in Store /\ StopsLast(db)
  BY <1>0 DEF IInv, TypeOK, InHand, Working
<1>2. StorePart(i)
  <2>1. CASE t = None
    <3>1. db' = Finalized(db)
      BY <1>0, <2>1 DEF reconcile
    <3> QED
      BY <1>1, <3>1, FinalizedCalm, StoreCalm
  <2>2. CASE t \in Tasks
    <3>1. t # None
      BY <2>2, GameFactoryConstants
    <3>2. Leaves(db', db, t) /\ (db'.task[t].status \in Waiting => safe[t])
      BY <1>0, <1>1, <2>2, <3>1, ExpireLeaves
    <3>3. NoneAdmits
      BY <1>0, <3>1, Prompts
    <3> QED
      BY <2>2, <3>2, <3>3, StoreLeaves
  <2> QED
    BY <2>1, <2>2
<1>3. InstPart(i)
  <2>1. CASE cond
    <3>1. v \in Instance /\ v.pc = "claim" /\ v.run = <<None, 0>> /\ v.todo = {} /\ v.expected = inst[i].expected
      BY <1>0, <1>1 DEF Instance
    <3> HIDE DEF v
    <3>2. /\ inst' \in [Instances -> Instance] /\ inst'[i] = v
          /\ \A j \in Instances \ {i} : inst'[j] = inst[j]
      BY <1>0, <2>1, <3>1, InstOne
    <3>3. Admits(i)
      BY <1>0, <2>1, <3>1, <3>2 DEF Admits
    <3> QED
      BY <3>2, <3>3 DEF InstPart, LegalInst
  <2>2. CASE ~cond
    BY <1>0, <1>1, <2>2, IdlePart
  <2> QED
    BY <2>1, <2>2
<1> QED
  BY <1>0, <1>2, <1>3, JournalStill, RemoteStill, RestStill, Parts

(* A run is its task and its attempt. *)
LEMMA RunIsPair ==
  ASSUME NEW r \in Runs
  PROVE  r = <<r[1], r[2]>> /\ r[1] \in Tasks /\ r[2] \in 1 .. MaxAttempts
  BY DEF Runs

(* The store's repair. *)
LEMMA StopStoreLegal ==
  ASSUME IInv, NEW i \in Instances, StopStore(i)
  PROVE  Legal(i)
<1> DEFINE r == inst[i].run
           t == r[1]
           n == db.task[t].attempt
<1>0. UNCHANGED <<safe, suspended, leader, remote, tainted>> /\ inst[i].pc = "stop"
  BY DEF StopStore, At
<1>1. r \in Runs /\ t \in Tasks /\ journal[r].status # "none" /\ epoch \in Nat
      /\ db \in Store /\ StopsLast(db)
  BY <1>0 DEF IInv, TypeOK, InHand, Working, Runs
<1>2. CASE Done(i) /\ UNCHANGED <<db, journal, epoch>>
  BY <1>0, <1>1, <1>2, DonePart, JournalStill, RemoteStill, StoreStill, RestStill, Parts
<1>3. CASE /\ journal[r].status # "interrupted" /\ Go(i, "ask")
           /\ db' = securityStopTask(db, <<t, n>>) /\ securityLatch({<<t, n>>})
  <2>1. <<t, n>> \in Runs
    <3>1. r[2] <= n /\ r[2] \in 1 .. MaxAttempts
      BY <1>1, RunIsPair DEF IInv, Rows
    <3>2. n \in Nat /\ n <= MaxAttempts
      BY <1>1, StoreTasks
    <3> QED
      BY <1>1, <3>1, <3>2, GameFactoryConstants DEF Runs
  <2>2. Stopped(db', db, t)
    BY <1>1, <1>3, StopStops
  <2>3. StorePart(i)
    BY <1>0, <1>1, <1>3, <2>2, StoreStops
  <2>4. JournalPart(i)
    BY <1>3, <2>1, LatchPart
  <2>5. InstPart(i)
    BY <1>0, <1>3, <2>2, GoPart DEF Stopped
  <2> QED
    BY <1>0, <2>3, <2>4, <2>5, RemoteStill, RestStill, Parts
<1> QED
  BY <1>2, <1>3 DEF StopStore, Mine

(* The question whether the payload is dead. *)
LEMMA AskLegal ==
  ASSUME IInv, Stalls = FALSE, NEW i \in Instances, AskDead(i) \/ AskLost(i)
  PROVE  Legal(i)
<1> DEFINE r == inst[i].run
<1>0. UNCHANGED <<safe, db, epoch, suspended, leader, tainted>> /\ inst[i].pc = "ask" /\ NoneAdmits /\ Done(i)
  BY Prompts DEF AskDead, AskLost, At, Calls
<1>1. r \in Runs /\ epoch \in Nat /\ journal \in [Runs -> Row]
      /\ remote \in [Runs -> Alive \cup Terminal \cup {"absent", "never"}]
  BY <1>0 DEF IInv, TypeOK, InHand, Working, Row
<1>2. InstPart(i)
  BY <1>0, <1>1, DonePart
<1>3. SUFFICES JournalPart(i) /\ RemotePart(i)
  BY <1>0, <1>2, <1>3, StoreStill, RestStill, Parts
<1>4. ASSUME securityFinish(r), remote'[r] \in Terminal \cup {"never"}
      PROVE  JournalPart(i)
  <2> DEFINE a == [journal[r] EXCEPT !.status = IF @ = "latched" THEN "interrupted" ELSE @]
  <2>1. journal' = [journal EXCEPT ![r] = a]
    BY <1>4 DEF securityFinish
  <2>2. a \in Row /\ a.status = IF journal[r].status = "latched" THEN "interrupted" ELSE journal[r].status
    <3>1. journal[r] \in Row
      BY <1>1
    <3> QED
      BY <3>1 DEF Row
  <2> HIDE DEF a
  <2>3. journal' \in [Runs -> Row] /\ journal'[r] = a /\ \A x \in Runs \ {r} : journal'[x] = journal[x]
    BY <1>1, <2>1, <2>2
  <2>4. LegalRows(i)
    BY <1>0, <1>4, <2>2, <2>3 DEF LegalRows, LegalRow
  <2> QED
    BY <1>0, <1>1, <2>3, <2>4 DEF JournalPart
<1>5. CASE UNCHANGED <<remote, journal>>
  BY <1>0, <1>5, JournalStill, RemoteStill
<1>6. CASE /\ remote[r] \in {"absent", "never"} /\ remote' = [remote EXCEPT ![r] = "never"]
           /\ securityFinish(r)
  <2>1. remote'[r] = "never"
    BY <1>1, <1>6
  <2>2. RemotePart(i)
    BY <1>0, <1>1, <1>6 DEF RemotePart, LegalRemotes, LegalRemote
  <2> QED
    BY <1>4, <1>6, <2>1, <2>2
<1>7. CASE /\ remote[r] \notin {"absent", "never"} /\ securityFinish(r)
           /\ remote' = [remote EXCEPT ![r] = IF @ \in Alive THEN "CANCELLED" ELSE @]
  <2>1. remote'[r] \in Terminal
    BY <1>1, <1>7 DEF Terminal
  <2>2. RemotePart(i)
    BY <1>1, <1>7 DEF RemotePart, LegalRemotes, LegalRemote, Terminal
  <2> QED
    BY <1>4, <1>7, <2>1, <2>2
<1>8. CASE remote[r] \in Alive /\ remote' = [remote EXCEPT ![r] = "CANCELLED"] /\ UNCHANGED journal
  <2>1. RemotePart(i)
    BY <1>1, <1>8 DEF RemotePart, LegalRemotes, LegalRemote, Terminal
  <2> QED
    BY <1>0, <1>8, <2>1, JournalStill
<1>9. CASE AskDead(i)
  BY <1>5, <1>6, <1>7, <1>9 DEF AskDead, Mine
<1>10. CASE AskLost(i)
  BY <1>5, <1>8, <1>10 DEF AskLost, Mine
<1> QED
  BY <1>9, <1>10

(* claimNextTask. *)
LEMMA ClaimLegal ==
  ASSUME IInv, NEW i \in Instances, claimNextTask(i)
  PROVE  Legal(i)
<1>0. UNCHANGED <<safe, journal, epoch, suspended, leader, remote, tainted>> /\ inst[i].pc = "claim"
  BY DEF claimNextTask, At
<1>1. inst[i] \in Instance /\ epoch \in Nat /\ db \in Store /\ StopsLast(db) /\ db.task \in [Tasks -> Task]
  BY DEF IInv, TypeOK, Store
<1>2. SUFFICES StorePart(i) /\ InstPart(i)
  BY <1>0, <1>2, JournalStill, RemoteStill, RestStill, Parts
<1>3. CASE Incident(i) \/ ~\E t \in Tasks : Claimable(t)
  <2>1. inst' = [inst EXCEPT ![i] = Idle] /\ UNCHANGED db
    BY <1>3 DEF claimNextTask
  <2> QED
    BY <1>0, <1>1, <2>1, IdlePart, StoreStill
<1>4. CASE ~(Incident(i) \/ ~\E t \in Tasks : Claimable(t))
  <2>1. PICK t \in Tasks :
          /\ Claimable(t)
          /\ db' = [db EXCEPT !.task[t].status = "RUNNING", !.task[t].attempt = @ + 1]
          /\ inst' = [inst EXCEPT ![i].pc = "intent", ![i].run = <<t, db.task[t].attempt + 1>>]
    BY <1>4 DEF claimNextTask
  <2> DEFINE n == db.task[t].attempt + 1
             a == [db.task[t] EXCEPT !.status = "RUNNING", !.attempt = n]
             f == [db.task EXCEPT ![t] = a]
             v == [inst[i] EXCEPT !.pc = "intent", !.run = <<t, n>>]
  <2>2. /\ db.task[t] \in Task /\ db.task[t].attempt \in Nat /\ db.task[t].attempt < MaxAttempts
        /\ db.task[t].status = "QUEUED" /\ ~Running(db) /\ ~db.task[t].stopped
    BY <1>1, <2>1, StoreTasks DEF Claimable, StopsLast
  <2>3. n \in 1 .. MaxAttempts /\ n \in 0 .. MaxAttempts /\ <<t, n>> \in Runs
    BY <2>2, GameFactoryConstants DEF Runs
  <2>4. db' = [db EXCEPT !.task = f]
    BY <1>1, <2>1, <2>2 DEF Store, Task
  <2>5. inst' = [inst EXCEPT ![i] = v]
    BY <1>1, <2>1 DEF IInv, TypeOK
  <2> HIDE DEF n
  <2>6. a \in Task /\ a.status = "RUNNING" /\ a.attempt = n /\ a.stopped = db.task[t].stopped
    BY <2>2, <2>3 DEF Task
  <2>7. v \in Instance /\ v.pc = "intent" /\ v.run = <<t, n>> /\ v.todo = inst[i].todo
        /\ v.expected = inst[i].expected
    BY <1>1, <2>3 DEF Instance
  <2> HIDE DEF a, v
  <2>8. f \in [Tasks -> Task] /\ f[t] = a /\ \A u \in Tasks \ {t} : f[u] = db.task[u]
    BY <1>1, <2>6
  <2> HIDE DEF f
  <2>9. db' \in Store /\ db'.task = f /\ db'.checkpoints = db.checkpoints
    BY <1>1, <2>4, <2>8, StoreWithTasks
  <2>10. /\ inst' \in [Instances -> Instance] /\ inst'[i] = v
         /\ \A j \in Instances \ {i} : inst'[j] = inst[j]
    BY <2>5, <2>7, InstOne
  <2>11. StopsLast(db')
    BY <1>1, <2>2, <2>6, <2>8, <2>9 DEF StopsLast
  <2>12. ASSUME NEW u \in Tasks
         PROVE  LegalTask(i, u)
    <3>1. CASE u = t
      BY <1>0, <1>4, <2>2, <2>6, <2>7, <2>8, <2>9, <2>10, <3>1 DEF LegalTask, n
    <3>2. CASE u # t
      BY <2>8, <2>9, <3>2 DEF LegalTask
    <3> QED
      BY <3>1, <3>2
  <2>13. Claims(i)
    <3>1. /\ inst'[i].run = <<t, db'.task[t].attempt>> /\ inst'[i].run \in Runs
          /\ db'.task[t].attempt = db.task[t].attempt + 1 /\ db'.task[t].status = "RUNNING"
      BY <2>3, <2>6, <2>7, <2>8, <2>9, <2>10 DEF n
    <3> QED
      BY <1>0, <1>4, <2>2, <2>7, <2>10, <3>1 DEF Claims
  <2> QED
    BY <2>9, <2>10, <2>11, <2>12, <2>13 DEF StorePart, LegalTasks, InstPart, LegalInst
<1> QED
  BY <1>3, <1>4

(* recordIntent. *)
LEMMA IntentLegal ==
  ASSUME IInv, NEW i \in Instances, recordIntent(i)
  PROVE  Legal(i)
<1> DEFINE r == inst[i].run
           t == r[1]
<1>0. UNCHANGED <<safe, epoch, suspended, leader, remote, tainted>> /\ inst[i].pc = "intent"
  BY DEF recordIntent, At
<1>1. r \in Runs /\ t \in Tasks /\ r = <<t, r[2]>> /\ db.task[t].attempt = r[2] /\ epoch \in Nat
      /\ db \in Store /\ StopsLast(db) /\ journal \in [Runs -> Row]
  BY <1>0, RunIsPair DEF IInv, TypeOK, InHand, Working, FreshRuns, Fresh, Row
<1>2. CASE Incident(i) /\ db' = securityStopTask(db, r) /\ inst' = [inst EXCEPT ![i] = Idle] /\ UNCHANGED journal
  <2>1. InstPart(i) /\ inst'[i].pc = "idle"
    BY <1>0, <1>1, <1>2, IdlePart
  <2>2. Stopped(db', db, t)
    BY <1>1, <1>2, StopStops
  <2>3. StorePart(i)
    BY <1>0, <1>1, <1>2, <2>1, <2>2, StoreStops DEF Fresh
  <2> QED
    BY <1>0, <1>2, <2>1, <2>3, JournalStill, RemoteStill, RestStill, Parts
<1>3. CASE ~Incident(i) /\ journal' = [journal EXCEPT ![r].status = "open"] /\ Go(i, "send") /\ UNCHANGED db
  <2> DEFINE a == [journal[r] EXCEPT !.status = "open"]
  <2>1. journal' = [journal EXCEPT ![r] = a] /\ a \in Row /\ a.status = "open"
    <3>1. journal[r] \in Row
      BY <1>1
    <3> QED
      BY <1>3, <3>1 DEF Row
  <2> HIDE DEF a
  <2>2. journal' \in [Runs -> Row] /\ journal'[r] = a /\ \A x \in Runs \ {r} : journal'[x] = journal[x]
    BY <1>1, <2>1
  <2>3. InstPart(i) /\ inst'[i].pc = "send"
    BY <1>0, <1>3, <2>1, <2>2, GoPart, GoFacts
  <2>4. LegalRows(i)
    BY <1>0, <1>3, <2>1, <2>2, <2>3 DEF LegalRows, LegalRow
  <2>5. JournalPart(i)
    BY <1>0, <1>1, <2>2, <2>4 DEF JournalPart
  <2> QED
    BY <1>0, <1>3, <2>3, <2>5, RemoteStill, StoreStill, RestStill, Parts
<1>4. CASE db' = failTask(db, r, FALSE) /\ inst' = [inst EXCEPT ![i] = Idle] /\ UNCHANGED journal
  <2>1. InstPart(i) /\ inst'[i].pc = "idle"
    BY <1>0, <1>1, <1>4, IdlePart
  <2>2. CASE ~Owns(db, r)
    <3>1. db' = db
      BY <1>4, <2>2 DEF failTask
    <3> QED
      BY <1>0, <1>4, <2>1, <3>1, StoreStill, JournalStill, RemoteStill, RestStill, Parts
  <2>3. CASE Owns(db, r)
    <3>1. Leaves(db', db, t) /\ (db'.task[t].status \in Waiting => safe[t])
      BY <1>1, <1>4, <2>3, FailLeaves
    <3>2. StorePart(i)
      BY <1>0, <1>1, <2>1, <2>3, <3>1, StoreLeaves
    <3> QED
      BY <1>0, <1>4, <2>1, <3>2, JournalStill, RemoteStill, RestStill, Parts
  <2> QED
    BY <2>2, <2>3
<1> QED
  BY <1>2, <1>3, <1>4 DEF recordIntent, Mine

(* The last check before worker.start. *)
LEMMA SendLegal ==
  ASSUME IInv, NEW i \in Instances, Send(i)
  PROVE  Legal(i)
<1> DEFINE r == inst[i].run
           t == r[1]
<1>0. UNCHANGED <<safe, suspended, leader, remote, tainted>> /\ inst[i].pc = "send"
  BY DEF Send, At
<1>1. r \in Runs /\ t \in Tasks /\ r = <<t, r[2]>> /\ db.task[t].attempt = r[2] /\ epoch \in Nat
      /\ db \in Store /\ StopsLast(db) /\ journal \in [Runs -> Row]
      /\ journal[r].status \in {"open", "latched"}
  BY <1>0, RunIsPair DEF IInv, TypeOK, InHand, Working, FreshRuns, Fresh, Row
<1>2. CASE Incident(i)
  <2> DEFINE a == [journal[r] EXCEPT !.status = "interrupted"]
  <2>1. /\ journal' = [journal EXCEPT ![r] = a]
        /\ epoch' = epoch + (IF Latched(r) THEN 0 ELSE 1)
        /\ db' = securityStopTask(db, r) /\ inst' = [inst EXCEPT ![i] = Idle]
    BY <1>2 DEF Send, Mine
  <2>2. a \in Row /\ a.status = "interrupted"
    <3>1. journal[r] \in Row
      BY <1>1
    <3> QED
      BY <3>1 DEF Row
  <2> HIDE DEF a
  <2>3. journal' \in [Runs -> Row] /\ journal'[r] = a /\ \A x \in Runs \ {r} : journal'[x] = journal[x]
    BY <1>1, <2>1, <2>2
  <2>4. epoch' \in Nat /\ epoch' >= epoch /\ (journal[r].status = "latched" \/ epoch' > epoch)
    BY <1>1, <2>1 DEF Latched
  <2>5. InstPart(i) /\ inst'[i].pc = "idle"
    BY <2>1, <2>4, IdlePart
  <2>6. Stopped(db', db, t)
    BY <1>1, <2>1, StopStops
  <2>7. StorePart(i)
    BY <1>0, <1>1, <1>2, <2>2, <2>3, <2>5, <2>6, StoreStops DEF Fresh
  <2>8. LegalRows(i)
    BY <1>0, <2>2, <2>3, <2>4, <2>5, <2>6 DEF LegalRows, LegalRow, Stopped
  <2>9. JournalPart(i)
    BY <2>3, <2>4, <2>8 DEF JournalPart
  <2> QED
    BY <1>0, <2>5, <2>7, <2>9, RemoteStill, RestStill, Parts
<1>3. CASE ~Incident(i)
  <2>1. Go(i, "starting") /\ UNCHANGED <<db, journal, epoch>>
    BY <1>3 DEF Send
  <2>2. InstPart(i)
    BY <1>0, <1>3, <2>1, GoPart
  <2> QED
    BY <1>0, <2>1, <2>2, JournalStill, RemoteStill, StoreStill, RestStill, Parts
<1> QED
  BY <1>2, <1>3

-----------------------------------------------------------------------------
(* The initial states satisfy the invariant. *)
LEMMA InitInv ==
  ASSUME Init
  PROVE  IInv
<1>1. /\ safe \in [Tasks -> BOOLEAN] /\ epoch = 0 /\ suspended = FALSE /\ leader = None /\ tainted = {}
      /\ \A r \in Runs : journal[r].status = "none" /\ remote[r] = "absent"
      /\ \A i \in Instances : inst[i] = Idle
      /\ Active = {}
  BY DEF Init, Active
<1>2. db \in Store /\ \A t \in Tasks : ~db.task[t].stopped /\ db.task[t].status = "QUEUED" /\ db.task[t].attempt = 0
  <2> DEFINE a == [status |-> "QUEUED", attempt |-> 0, cancel |-> FALSE, stopped |-> FALSE, ended |-> 0]
             f == [t \in Tasks |-> a]
  <2>1. a \in Task
    BY GameFactoryConstants DEF Task
  <2>2. f \in [Tasks -> Task]
    BY <2>1
  <2>3. db = [state |-> "LIVE", resume |-> "", op |-> "", checkpoints |-> {}, stamp |-> 0, task |-> f]
    BY DEF Init
  <2> HIDE DEF f
  <2>4. db \in Store
    BY <2>2, <2>3 DEF Store
  <2>5. db.task = f
    BY <2>3
  <2> QED
    BY <2>4, <2>5 DEF f
<1>3. TypeOK
  <2>1. Idle \in Instance
    BY DEF Idle, Instance
  <2>2. inst \in [Instances -> Instance]
    BY <2>1 DEF Init
  <2>3. journal \in [Runs -> Row] /\ remote \in [Runs -> Alive \cup Terminal \cup {"absent", "never"}]
    BY DEF Init, Row
  <2> QED
    BY <1>1, <1>2, <2>2, <2>3 DEF TypeOK, Row
<1>4. \A i \in Instances : /\ inst[i].pc = "idle" /\ inst[i].run = <<None, 0>> /\ inst[i].todo = {}
                           /\ inst[i].expected = 0
  BY <1>1 DEF Idle
<1>5. StopsLast(db) /\ OneRunning(db) /\ TaintHolds
  BY <1>1, <1>2 DEF StopsLast, OneRunning, TaintHolds
<1>6. InHand
  BY <1>1, <1>4 DEF InHand, Working, Late, Starting
<1>7. FreshRuns /\ Lane
  BY <1>4 DEF FreshRuns, Lane, Fresh, Admitting
<1>8. Rows /\ Alone
  BY <1>1 DEF Rows, Alone
<1>9. UnsafeOnce
  <2>1. \A r \in Runs : r[1] \in Tasks /\ r[2] \in Int /\ r[2] > 0
    BY GameFactoryConstants, RunIsPair
  <2> QED
    BY <1>2, <2>1 DEF UnsafeOnce
<1> QED
  BY <1>3, <1>5, <1>6, <1>7, <1>8, <1>9 DEF IInv

(* Every step of the system is legal for some instance. *)
LEMMA StepLegal ==
  ASSUME IInv, Stalls = FALSE, Next
  PROVE  \E i \in Instances : Legal(i)
<1>0. PICK k \in Instances : TRUE
  BY GameFactoryConstants
<1>1. CASE Pause \/ Stop \/ Resume \/ Retry \/ Block \/ Transition
  BY <1>0, <1>1, CommandLegal
<1>2. CASE LeaderLapses \/ \E r \in Runs : PayloadEnds(r)
  BY <1>0, <1>2, AroundLegal
<1>3. ASSUME NEW i \in Instances, Crash(i)
      PROVE  Legal(i)
  BY <1>3, AroundLegal
<1>4. ASSUME NEW i \in Instances, Tick(i)
      PROVE  Legal(i)
  BY <1>4, ProbeLegal, ObserveLegal, NextLegal, TickEndsLegal, StatusLegal, StartLegal, TerminalLegal,
     FinishLegal, CancelLegal, StopStoreLegal, AskLegal, ClaimLegal, IntentLegal, SendLegal DEF Tick
<1> QED
  BY <1>1, <1>2, <1>3, <1>4 DEF Next

(* A step that changes nothing keeps the invariant. *)
LEMMA StutterInv ==
  ASSUME IInv, UNCHANGED vars
  PROVE  IInv'
  BY DEF IInv, vars, TypeOK, StopsLast, OneRunning, TaintHolds, InHand, FreshRuns, Rows, Lane, Alone,
     UnsafeOnce, Latched, Active, pendingSecurity, Owns

(* The inductive invariant holds in every reachable state, when no process freezes between *)
(* two transactions that no await separates.                                               *)
THEOREM Invariant ==
  ASSUME Stalls = FALSE
  PROVE  Spec => []IInv
<1>1. Init => IInv
  BY InitInv
<1>2. IInv /\ [Next]_vars => IInv'
  BY StepLegal, LegalKeeps, StutterInv
<1> QED
  BY <1>1, <1>2, PTL DEF Spec

(* Every variable keeps its type. *)
THEOREM Typing ==
  ASSUME Stalls = FALSE
  PROVE  Spec => []TypeOK
<1>1. IInv => TypeOK
  BY DEF IInv
<1> QED
  BY <1>1, Invariant, PTL

(* A loss of isolation is final: whatever stale leaders, crashes and lapsed leases do, a run that *)
(* was open then never ends as ordinary work (writeSecurityLatch), and a row that is interrupted  *)
(* is of a task that is stopped for good, with no checkpoint to resume from (securityStopTask).   *)
THEOREM IsolationLossIsFinal ==
  ASSUME Stalls = FALSE
  PROVE  Spec => []SecurityWins
<1>1. IInv => SecurityWins
  <2>1. SUFFICES ASSUME IInv
                 PROVE  SecurityWins
    OBVIOUS
  <2>2. \A r \in tainted : Latched(r)
    BY <2>1 DEF IInv, TaintHolds
  <2>3. ASSUME NEW r \in Runs, journal[r].status = "interrupted"
        PROVE  /\ db.task[r[1]].stopped /\ db.task[r[1]].status = "FAILED"
               /\ \A c \in db.checkpoints : c.owner # r[1]
    <3>1. r[1] \in Tasks /\ db.task[r[1]].stopped
      BY <2>1, <2>3, RunIsPair DEF IInv, Rows
    <3> QED
      BY <2>1, <3>1 DEF IInv, StopsLast
  <2> QED
    BY <2>2, <2>3 DEF SecurityWins
<1> QED
  BY <1>1, Invariant, PTL

(* A row that has ended (finishNormally, securityFinish, the intent that was never sent) stands *)
(* for a payload that is not running, and cannot start any more.                                *)
THEOREM EndedRowsAreDead ==
  ASSUME Stalls = FALSE
  PROVE  Spec => []EndedIsDead
<1>1. IInv => EndedIsDead
  BY DEF IInv, Rows, EndedIsDead, Terminal, Alive
<1> QED
  BY <1>1, Invariant, PTL

(* No two payloads are at work at once, and a task that is not safe to retry is not run again *)
(* after a success (reconcile, failTask, claimOne's admission).                               *)
THEOREM EffectsHappenOnce ==
  ASSUME Stalls = FALSE
  PROVE  Spec => []EffectOnce
<1>1. IInv => EffectOnce
  <2>1. SUFFICES ASSUME IInv, NEW r \in Runs, NEW s \in Runs, r # s, remote[s] \in Alive
                 PROVE  /\ remote[r] \notin Alive
                        /\ ~(r[1] = s[1] /\ ~safe[r[1]] /\ remote[r] = "SUCCEEDED")
    BY DEF EffectOnce
  <2>2. ASSUME NEW x \in Runs, remote[x] \in Alive
        PROVE  x \in Active /\ remote[x] \notin Terminal \cup {"absent", "never"}
    <3>1. journal[x] \in Row
      BY <2>1 DEF IInv, TypeOK, Row
    <3>2. remote[x] \notin Terminal \cup {"absent", "never"}
      BY <2>2 DEF Alive, Terminal
    <3> QED
      BY <2>1, <2>2, <3>1, <3>2 DEF IInv, Rows, Active, Row
  <2>3. remote[r] \notin Alive
    BY <2>1, <2>2 DEF IInv, Alone
  <2>4. ASSUME r[1] = s[1], ~safe[r[1]], remote[r] = "SUCCEEDED"
        PROVE  FALSE
    <3> DEFINE n == db.task[r[1]].attempt
    <3>1. r[2] <= n /\ s[2] <= n
      BY <2>1, <2>2, <2>4 DEF IInv, Rows, Active
    <3>2. r[2] \in Int /\ s[2] \in Int /\ n \in Int /\ r[2] # s[2]
      <4>1. r[2] # s[2]
        BY <2>1, <2>4, SameRun
      <4>2. n \in Nat
        BY <2>1, StoreTasks, RunIsPair DEF IInv, TypeOK
      <4> QED
        BY <4>1, <4>2, RunIsPair
    <3>3. r[2] < n \/ s[2] < n
      BY <3>1, <3>2
    <3>4. r[2] < n => remote[r] # "SUCCEEDED"
      BY <2>1, <2>4 DEF IInv, UnsafeOnce
    <3>5. s[2] < n => remote[s] \in Terminal
      BY <2>1, <2>4 DEF IInv, UnsafeOnce
    <3> QED
      BY <2>1, <2>2, <2>4, <3>3, <3>4, <3>5
  <2> QED
    BY <2>3, <2>4
<1> QED
  BY <1>1, Invariant, PTL

=============================================================================
