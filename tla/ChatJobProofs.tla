----------------------------- MODULE ChatJobProofs -----------------------------
(***************************************************************************)
(* For every value of the constants: the rows of the events table stay       *)
(* faithful to what the turn emitted (RowsFaithful), a sealed record never    *)
(* changes (SealedFinal), a crash loses at most one flush batch (LossBounded) *)
(* and a done the reader was shown is in the record (DoneIsDurable); and, as  *)
(* long as nothing disturbs the turn, the text on screen is the text below    *)
(* the reader's cursor (TextExact), a stop arrives with its explanation       *)
(* (ExplainedStop) and the whole transport implements Answer.                 *)
(*                                                                           *)
(* None is inductive. What makes the first two so is the accounting between   *)
(* the live half and the durable half of a job (Inv): while the job is not    *)
(* sealed, the pending buffer is exactly the suffix of the emitted events     *)
(* that starts at or after the durable count, and a sealed job has nothing    *)
(* pending. The next two also need what is on the wire and in the RAM tail    *)
(* (WInv): a done that is still to be read is already owed to the record, and *)
(* a job whose handler still runs is sealed only by a drain that wrote a stop.*)
(* The last three need to know of every frame on the wire which piece of the  *)
(* log it stands for (Following): the frames not yet read lead, position by   *)
(* position, from what the screen shows to what the server has emitted.       *)
(***************************************************************************)
EXTENDS ChatJobAnswer, FiniteSetTheorems, SequenceTheorems, WellFoundedInduction, TLAPS

ServerStates == [log : Seq(Event), job : JobRecord, db : Store]

(* A token event carries its own position. *)
Positioned(events, start) ==
  \A i \in 1 .. Len(events) :
    events[i].type = "token" => events[i].data = <<start + i - 1>>

(* A row written from events at positions start .. start + n - 1. *)
Within(r, start, n) == start <= r.seq /\ RowEnd(r) <= start + n

Apart(r, q) == RowEnd(r) <= q.seq \/ RowEnd(q) <= r.seq

DeltaExact(r) == r.ev.type = "token" => r.ev.data = [k \in 1 .. r.span |-> r.seq + k - 1]

-----------------------------------------------------------------------------
(* coalesceEvents, lemma by lemma. *)

(* The row of a token run is well typed and spans exactly the run.            *)
LEMMA RunRowShape ==
  ASSUME NEW events \in Seq(Event), NEW start \in Nat,
         NEW run \in TokenRuns(events)
  PROVE  /\ run[1] \in 1 .. Len(events) /\ run[2] \in 1 .. Len(events)
         /\ run[1] <= run[2]
         /\ \A i \in run[1] .. run[2] : events[i].type = "token"
         /\ RunRow(events, start, run).seq = start + run[1] - 1
         /\ RunRow(events, start, run).span = run[2] - run[1] + 1
         /\ RowEnd(RunRow(events, start, run)) = start + run[2]
         /\ RunRow(events, start, run).ev.type = "token"
<1>1. run \in (1 .. Len(events)) \X (1 .. Len(events)) /\ run[1] <= run[2]
  BY DEF TokenRuns
<1>2. \A i \in run[1] .. run[2] : events[i].type = "token"
  BY DEF TokenRuns, IsToken
<1> QED
  BY <1>1, <1>2 DEF RunRow, RowEnd

(* The row of a structural event is well typed and spans that event alone.    *)
LEMMA PlainRowShape ==
  ASSUME NEW events \in Seq(Event), NEW start \in Nat, NEW i \in 1 .. Len(events)
  PROVE  /\ PlainRow(events, start, i).seq = start + i - 1
         /\ PlainRow(events, start, i).span = 1
         /\ RowEnd(PlainRow(events, start, i)) = start + i
         /\ PlainRow(events, start, i).ev = events[i]
BY DEF PlainRow, RowEnd

(* Two maximal token runs that share an event are the same run. *)
LEMMA RunsDisjoint ==
  ASSUME NEW events \in Seq(Event), NEW a \in TokenRuns(events), NEW b \in TokenRuns(events),
         a # b
  PROVE  a[2] < b[1] \/ b[2] < a[1]
<1>1. /\ a \in (1 .. Len(events)) \X (1 .. Len(events)) /\ a[1] <= a[2]
      /\ b \in (1 .. Len(events)) \X (1 .. Len(events)) /\ b[1] <= b[2]
  BY DEF TokenRuns
<1>2. /\ \A i \in a[1] .. a[2] : events[i].type = "token"
      /\ \A i \in b[1] .. b[2] : events[i].type = "token"
      /\ a[1] - 1 \in 1 .. Len(events) => events[a[1] - 1].type # "token"
      /\ a[2] + 1 \in 1 .. Len(events) => events[a[2] + 1].type # "token"
      /\ b[1] - 1 \in 1 .. Len(events) => events[b[1] - 1].type # "token"
      /\ b[2] + 1 \in 1 .. Len(events) => events[b[2] + 1].type # "token"
  BY DEF TokenRuns, IsToken
<1>3. SUFFICES ASSUME ~(a[2] < b[1]), ~(b[2] < a[1]) PROVE FALSE
  OBVIOUS
<1>4. a[1] = b[1]
  <2>1. ~(a[1] < b[1])
    <3>1. SUFFICES ASSUME a[1] < b[1] PROVE FALSE
      OBVIOUS
    <3>2. b[1] - 1 \in a[1] .. a[2] /\ b[1] - 1 \in 1 .. Len(events)
      BY <1>1, <1>3, <3>1
    <3> QED
      BY <1>2, <3>2
  <2>2. ~(b[1] < a[1])
    <3>1. SUFFICES ASSUME b[1] < a[1] PROVE FALSE
      OBVIOUS
    <3>2. a[1] - 1 \in b[1] .. b[2] /\ a[1] - 1 \in 1 .. Len(events)
      BY <1>1, <1>3, <3>1
    <3> QED
      BY <1>2, <3>2
  <2> QED
    BY <1>1, <2>1, <2>2
<1>5. a[2] = b[2]
  <2>1. ~(a[2] < b[2])
    <3>1. SUFFICES ASSUME a[2] < b[2] PROVE FALSE
      OBVIOUS
    <3>2. a[2] + 1 \in b[1] .. b[2] /\ a[2] + 1 \in 1 .. Len(events)
      BY <1>1, <1>3, <3>1
    <3> QED
      BY <1>2, <3>2
  <2>2. ~(b[2] < a[2])
    <3>1. SUFFICES ASSUME b[2] < a[2] PROVE FALSE
      OBVIOUS
    <3>2. b[2] + 1 \in a[1] .. a[2] /\ b[2] + 1 \in 1 .. Len(events)
      BY <1>1, <1>3, <3>1
    <3> QED
      BY <1>2, <3>2
  <2> QED
    BY <1>1, <2>1, <2>2
<1> QED
  BY <1>1, <1>4, <1>5

(* The rows of one flush: each a row inside the batch, each token row with     *)
(* exactly the positions it spans, over events that are all tokens.            *)
LEMMA CoalescedRows ==
  ASSUME NEW events \in Seq(Event), NEW start \in Nat, Positioned(events, start),
         NEW r \in coalesceEvents(events, start)
  PROVE  /\ r \in Row /\ Within(r, start, Len(events)) /\ DeltaExact(r)
         /\ r.ev.type = "token" =>
              \A k \in 1 .. r.span : events[r.seq - start + k].type = "token"
<1>1. CASE \E run \in TokenRuns(events) : r = RunRow(events, start, run)
  <2>1. PICK run \in TokenRuns(events) : r = RunRow(events, start, run)
    BY <1>1
  <2>2. /\ run[1] \in 1 .. Len(events) /\ run[2] \in 1 .. Len(events) /\ run[1] <= run[2]
        /\ \A i \in run[1] .. run[2] : events[i].type = "token"
        /\ r.seq = start + run[1] - 1 /\ r.span = run[2] - run[1] + 1
        /\ RowEnd(r) = start + run[2] /\ r.ev.type = "token"
    BY <2>1, RunRowShape
  <2>3. r.seq \in Nat /\ r.span \in Nat \ {0}
    BY <2>2
  <2>4. \A k \in 1 .. r.span : events[run[1] + k - 1].data[1] = r.seq + k - 1
    <3>1. SUFFICES ASSUME NEW k \in 1 .. r.span
                   PROVE  events[run[1] + k - 1].data[1] = r.seq + k - 1
      OBVIOUS
    <3>2. run[1] + k - 1 \in run[1] .. run[2] /\ run[1] + k - 1 \in 1 .. Len(events)
      BY <2>2
    <3>3. events[run[1] + k - 1].data = <<start + (run[1] + k - 1) - 1>>
      BY <2>2, <3>2 DEF Positioned
    <3> QED
      BY <2>2, <3>3
  <2>5. r.ev.data = [k \in 1 .. r.span |-> r.seq + k - 1]
    BY <2>1, <2>2, <2>4 DEF RunRow
  <2>6. r \in Row
    <3>1. r.ev.data \in Seq(Nat)
      BY <2>3, <2>5
    <3>2. r.ev = [type |-> "token", data |-> r.ev.data]
      BY <2>1 DEF RunRow
    <3>3. r.ev \in Event
      BY <3>1, <3>2 DEF Event, LiveTypes
    <3>4. r = [seq |-> r.seq, span |-> r.span, ev |-> r.ev]
      BY <2>1 DEF RunRow
    <3> QED
      BY <2>3, <3>3, <3>4 DEF Row
  <2>7. \A k \in 1 .. r.span : events[r.seq - start + k].type = "token"
    <3>1. SUFFICES ASSUME NEW k \in 1 .. r.span PROVE events[r.seq - start + k].type = "token"
      OBVIOUS
    <3>2. r.seq - start + k \in run[1] .. run[2]
      BY <2>2
    <3> QED
      BY <2>2, <3>2
  <2> QED
    BY <2>2, <2>5, <2>6, <2>7 DEF Within, DeltaExact
<1>2. CASE \E i \in DOMAIN events :
             events[i].type \notin {"token", "working"} /\ r = PlainRow(events, start, i)
  <2>1. PICK i \in 1 .. Len(events) :
               events[i].type \notin {"token", "working"} /\ r = PlainRow(events, start, i)
    BY <1>2
  <2>2. r.seq = start + i - 1 /\ r.span = 1 /\ RowEnd(r) = start + i /\ r.ev = events[i]
    BY <2>1, PlainRowShape
  <2>3. r \in Row
    BY <2>1, <2>2 DEF Row, PlainRow
  <2> QED
    BY <2>1, <2>2, <2>3 DEF Within, DeltaExact
<1> QED
  BY <1>1, <1>2 DEF coalesceEvents

(* Two different rows of one flush never overlap.                             *)
LEMMA CoalescedApart ==
  ASSUME NEW events \in Seq(Event), NEW start \in Nat,
         NEW r \in coalesceEvents(events, start), NEW q \in coalesceEvents(events, start),
         r # q
  PROVE  Apart(r, q)
<1> DEFINE IsRun(x, run) == run \in TokenRuns(events) /\ x = RunRow(events, start, run)
           IsPlain(x, i) == /\ i \in 1 .. Len(events) /\ events[i].type # "token"
                            /\ x = PlainRow(events, start, i)
<1>1. \A x \in coalesceEvents(events, start) :
        (\E run : IsRun(x, run)) \/ (\E i : IsPlain(x, i))
  BY DEF coalesceEvents
<1>2. ASSUME NEW x, NEW y, NEW run, NEW i, IsRun(x, run), IsPlain(y, i)
      PROVE  Apart(x, y)
  <2>1. /\ run[1] \in 1 .. Len(events) /\ run[2] \in 1 .. Len(events) /\ run[1] <= run[2]
        /\ \A k \in run[1] .. run[2] : events[k].type = "token"
        /\ x.seq = start + run[1] - 1 /\ RowEnd(x) = start + run[2]
    BY <1>2, RunRowShape
  <2>2. y.seq = start + i - 1 /\ RowEnd(y) = start + i /\ i \in 1 .. Len(events)
    BY <1>2, PlainRowShape
  <2>3. i \notin run[1] .. run[2]
    BY <1>2, <2>1
  <2> QED
    BY <2>1, <2>2, <2>3 DEF Apart
<1>3. CASE \E a, b : IsRun(r, a) /\ IsRun(q, b)
  <2>1. PICK a, b : IsRun(r, a) /\ IsRun(q, b)
    BY <1>3
  <2>2. a[2] < b[1] \/ b[2] < a[1]
    BY <2>1, RunsDisjoint
  <2>3. /\ a[1] \in 1 .. Len(events) /\ a[2] \in 1 .. Len(events)
        /\ r.seq = start + a[1] - 1 /\ RowEnd(r) = start + a[2]
    BY <2>1, RunRowShape
  <2>4. /\ b[1] \in 1 .. Len(events) /\ b[2] \in 1 .. Len(events)
        /\ q.seq = start + b[1] - 1 /\ RowEnd(q) = start + b[2]
    BY <2>1, RunRowShape
  <2> QED
    BY <2>2, <2>3, <2>4 DEF Apart
<1>4. CASE \E i, j : IsPlain(r, i) /\ IsPlain(q, j)
  <2>1. PICK i, j : IsPlain(r, i) /\ IsPlain(q, j)
    BY <1>4
  <2>2. i # j
    BY <2>1
  <2>3. i \in 1 .. Len(events) /\ r.seq = start + i - 1 /\ RowEnd(r) = start + i
    BY <2>1, PlainRowShape
  <2>4. j \in 1 .. Len(events) /\ q.seq = start + j - 1 /\ RowEnd(q) = start + j
    BY <2>1, PlainRowShape
  <2> QED
    BY <2>2, <2>3, <2>4 DEF Apart
<1>5. CASE \E run, i : IsRun(r, run) /\ IsPlain(q, i)
  BY <1>2, <1>5
<1>6. CASE \E run, i : IsRun(q, run) /\ IsPlain(r, i)
  BY <1>2, <1>6 DEF Apart
<1> QED
  BY <1>1, <1>3, <1>4, <1>5, <1>6

-----------------------------------------------------------------------------
(* The invariant, on a server state s = [log, job, db]. *)

(* RowsFaithful, as a predicate of a log and a store. *)
RowsOK(l, d) ==
  /\ \A r \in d.rows : RowEnd(r) <= d.eventCount
  /\ \A r, q \in d.rows : r # q => Apart(r, q)
  /\ \A r \in d.rows : DeltaExact(r)
  /\ \A r \in d.rows : r.ev.type = "token" =>
       RowEnd(r) <= Len(l) /\ \A k \in 1 .. r.span : l[r.seq + k].type = "token"

(* What is pending is the end of the log, past everything durable. *)
Counted(s) ==
  /\ s.job.eventCount = Len(s.log)
  /\ s.db.eventCount + Len(s.job.pending) <= Len(s.log)
  /\ \A k \in 1 .. Len(s.job.pending) :
       s.job.pending[k] = s.log[Len(s.log) - Len(s.job.pending) + k]

Sound(s) == s \in ServerStates /\ Positioned(s.log, 0) /\ RowsOK(s.log, s.db)

SInv(s) ==
  /\ Sound(s)
  /\ s.job.done => s.job.pending = <<>>
  /\ ~s.job.done => s.job.inRam /\ s.db.status = "running" /\ Counted(s)

(* The numbers of a row: it is never empty.                                   *)
LEMMA RowFields ==
  ASSUME NEW r \in Row
  PROVE  r.seq \in Nat /\ r.span \in Nat \ {0} /\ RowEnd(r) \in Nat /\ r.seq < RowEnd(r)
BY DEF Row, RowEnd

(* Clearing the pending buffer leaves the rest of the job record alone.       *)
LEMMA NoPending ==
  ASSUME NEW j \in JobRecord
  PROVE  LET e == [j EXCEPT !.pending = <<>>]
         IN e \in JobRecord /\ e.pending = <<>> /\ e.eventCount = j.eventCount
              /\ e.done = j.done /\ e.inRam = j.inRam
<1>1. <<>> \in Seq(Event)
  OBVIOUS
<1> QED
  BY <1>1 DEF JobRecord

(* A flush, successful or refused by the store, keeps the rows faithful. *)
LEMMA FlushSound ==
  ASSUME NEW s, Sound(s), Counted(s), NEW ok \in BOOLEAN
  PROVE  /\ Sound(flushJob(s, ok))
         /\ flushJob(s, ok).log = s.log
         /\ flushJob(s, ok).job = [s.job EXCEPT !.pending = <<>>]
         /\ flushJob(s, ok).db.status = s.db.status
         /\ Counted(flushJob(s, ok))
<1> DEFINE f == flushJob(s, ok)
           p == s.job.pending
           start == s.job.eventCount - Len(p)
           new == coalesceEvents(p, start)
<1>1. /\ s.log \in Seq(Event) /\ s.job \in JobRecord /\ s.db \in Store
      /\ p \in Seq(Event) /\ s.job.eventCount \in Nat
      /\ s.db.rows \subseteq Row /\ s.db.eventCount \in Nat
      /\ s = [log |-> s.log, job |-> s.job, db |-> s.db]
  BY DEF Sound, ServerStates, JobRecord, Store
<1>2. /\ start \in Nat /\ s.db.eventCount <= start
      /\ start = Len(s.log) - Len(p) /\ start + Len(p) = Len(s.log)
  BY <1>1 DEF Counted
<1>3. Positioned(p, start)
  <2>1. SUFFICES ASSUME NEW i \in 1 .. Len(p), p[i].type = "token"
                 PROVE  p[i].data = <<start + i - 1>>
    BY DEF Positioned
  <2>2. p[i] = s.log[start + i] /\ start + i \in 1 .. Len(s.log)
    BY <1>1, <1>2 DEF Counted
  <2>3. s.log[start + i].data = <<0 + (start + i) - 1>>
    BY <2>1, <2>2 DEF Sound, Positioned
  <2> QED
    BY <1>2, <2>2, <2>3
<1>4. CASE p = <<>>
  <2>1. f = s
    BY <1>4 DEF flushJob
  <2>2. s.job = [s.job EXCEPT !.pending = <<>>]
    BY <1>1, <1>4 DEF JobRecord
  <2> QED
    BY <2>1, <2>2
<1>5. CASE p # <<>>
  <2> DEFINE j == [s.job EXCEPT !.pending = <<>>]
             d == appendRows(s.db, new, s.job.eventCount, ok)
  <2>1. f = [log |-> s.log, job |-> j, db |-> d]
    BY <1>1, <1>5 DEF flushJob
  <2>2. j \in JobRecord /\ j.pending = <<>> /\ j.eventCount = s.job.eventCount
    BY <1>1, NoPending
  <2>3. new \subseteq Row
    BY <1>1, <1>2, <1>3, CoalescedRows
  <2>4. s.job.eventCount = Len(s.log) /\ Len(s.log) \in Nat /\ s.db.eventCount <= Len(s.log)
    BY <1>1, <1>2 DEF Counted
  <2>8. ok => /\ d \in Store /\ d.status = s.db.status
              /\ d.rows = s.db.rows \cup new /\ d.eventCount = s.job.eventCount
    <3>1. SUFFICES ASSUME ok
                   PROVE  /\ d \in Store /\ d.status = s.db.status
                          /\ d.rows = s.db.rows \cup new /\ d.eventCount = s.job.eventCount
      OBVIOUS
    <3>2. d = [s.db EXCEPT !.rows = @ \cup new, !.eventCount = s.job.eventCount]
      BY <3>1 DEF appendRows
    <3>3. new \in SUBSET Row
      BY <2>3
    <3> HIDE DEF d, new
    <3> QED
      BY <1>1, <3>2, <3>3 DEF Store
  <2>9. ~ok => d = s.db
    BY DEF appendRows
  <2>10. d \in Store /\ d.status = s.db.status /\ d.eventCount <= Len(s.log)
    <3> HIDE DEF d
    <3>1. CASE ok
      BY <2>4, <2>8, <3>1
    <3>2. CASE ~ok
      BY <1>1, <2>4, <2>9, <3>2
    <3> QED
      BY <3>1, <3>2
  <2>5. RowsOK(s.log, d)
    <3>1. CASE ~ok
      BY <3>1 DEF appendRows, Sound
    <3>2. CASE ok
      <4>1. d.rows = s.db.rows \cup new /\ d.eventCount = Len(s.log)
        BY <2>4, <2>8, <3>2
      <4>2. \A r \in s.db.rows : r \in Row /\ RowEnd(r) <= start
        BY <1>1, <1>2, RowFields DEF Sound, RowsOK
      <4>3. \A r \in new : r \in Row /\ start <= r.seq /\ RowEnd(r) <= Len(s.log) /\ DeltaExact(r)
        BY <1>1, <1>2, <1>3, CoalescedRows DEF Within
      <4>4. \A r \in new : r.ev.type = "token" =>
              \A k \in 1 .. r.span : s.log[r.seq + k].type = "token"
        <5>1. SUFFICES ASSUME NEW r \in new, r.ev.type = "token", NEW k \in 1 .. r.span
                       PROVE  s.log[r.seq + k].type = "token"
          OBVIOUS
        <5>2. p[r.seq - start + k].type = "token"
          BY <1>1, <1>2, <1>3, <5>1, CoalescedRows
        <5>3. r.seq - start + k \in 1 .. Len(p)
          <6>1. /\ r.seq \in Nat /\ r.span \in Nat /\ RowEnd(r) = r.seq + r.span
                /\ start <= r.seq /\ RowEnd(r) <= Len(s.log)
            BY <4>3, RowFields DEF RowEnd
          <6>2. Len(p) \in Nat /\ Len(s.log) \in Nat
            BY <1>1
          <6> QED
            BY <1>2, <5>1, <6>1, <6>2, SMTT(30)
        <5>4. p[r.seq - start + k] = s.log[start + (r.seq - start + k)]
          BY <1>1, <1>2, <5>3 DEF Counted
        <5>5. start + (r.seq - start + k) = r.seq + k
          BY <1>2, <4>3, RowFields
        <5> QED
          BY <5>2, <5>4, <5>5
      <4>5. \A r \in d.rows : RowEnd(r) <= d.eventCount
        BY <1>1, <1>2, <4>1, <4>2, <4>3, RowFields
      <4>6. \A r, q \in d.rows : r # q => Apart(r, q)
        <5>1. SUFFICES ASSUME NEW r \in d.rows, NEW q \in d.rows, r # q PROVE Apart(r, q)
          OBVIOUS
        <5>2. CASE r \in s.db.rows /\ q \in s.db.rows
          BY <5>1, <5>2 DEF Sound, RowsOK
        <5>3. CASE r \in new /\ q \in new
          BY <1>1, <1>2, <5>1, <5>3, CoalescedApart
        <5>4. CASE r \in s.db.rows /\ q \in new
          BY <1>2, <4>2, <4>3, <5>4, RowFields DEF Apart
        <5>5. CASE r \in new /\ q \in s.db.rows
          BY <1>2, <4>2, <4>3, <5>5, RowFields DEF Apart
        <5> QED
          BY <4>1, <5>1, <5>2, <5>3, <5>4, <5>5
      <4>7. \A r \in d.rows : DeltaExact(r)
        BY <4>1, <4>3 DEF Sound, RowsOK
      <4>8. \A r \in d.rows : r.ev.type = "token" =>
              RowEnd(r) <= Len(s.log) /\ \A k \in 1 .. r.span : s.log[r.seq + k].type = "token"
        BY <4>1, <4>3, <4>4 DEF Sound, RowsOK
      <4> QED
        BY <4>5, <4>6, <4>7, <4>8 DEF RowsOK
    <3> QED
      BY <3>1, <3>2
  <2>6. Sound(f)
    BY <1>1, <2>1, <2>2, <2>5, <2>10 DEF Sound, ServerStates
  <2>7. Counted(f)
    <3>1. /\ f.job.pending = <<>> /\ f.job.eventCount = s.job.eventCount
          /\ f.log = s.log /\ f.db.eventCount = d.eventCount /\ d.eventCount \in Nat
      <4>1. d.eventCount \in Nat
        BY <2>10 DEF Store
      <4>2. f.job = j /\ f.log = s.log /\ f.db = d
        BY <2>1
      <4> QED
        BY <2>2, <4>1, <4>2
    <3>2. Len(<<>>) = 0 /\ 1 .. Len(<<>>) = {}
      OBVIOUS
    <3> QED
      BY <1>1, <2>4, <2>10, <3>1, <3>2 DEF Counted
  <2> QED
    BY <2>1, <2>6, <2>7, <2>10
<1> QED
  BY <1>4, <1>5

(* Appending an event to the log disturbs no row. *)
LEMMA RowsKept ==
  ASSUME NEW l \in Seq(Event), NEW o \in Event, NEW d \in Store, RowsOK(l, d)
  PROVE  RowsOK(Append(l, o), d)
<1>1. ASSUME NEW r \in d.rows, r.ev.type = "token"
      PROVE  /\ RowEnd(r) <= Len(Append(l, o))
             /\ \A k \in 1 .. r.span : Append(l, o)[r.seq + k].type = "token"
  <2>1. r \in Row /\ RowEnd(r) <= Len(l) /\ \A k \in 1 .. r.span : l[r.seq + k].type = "token"
    BY <1>1 DEF RowsOK, Store
  <2>2. r.seq \in Nat /\ r.span \in Nat /\ RowEnd(r) = r.seq + r.span
    BY <2>1, RowFields DEF RowEnd
  <2>3. Len(l) \in Nat /\ Len(Append(l, o)) = Len(l) + 1
    OBVIOUS
  <2>4. \A i \in 1 .. Len(l) : Append(l, o)[i] = l[i]
    OBVIOUS
  <2>5. \A k \in 1 .. r.span : r.seq + k \in 1 .. Len(l)
    BY <2>1, <2>2, <2>3
  <2> QED
    BY <2>1, <2>2, <2>3, <2>4, <2>5
<1> QED
  BY <1>1 DEF RowsOK

(* jobEmit's bookkeeping: the event joins the log and the pending buffer. *)
LEMMA BufferedJob ==
  ASSUME NEW s, s.job \in JobRecord, NEW o \in Event
  PROVE  /\ Buffered(s, o).job \in JobRecord
         /\ Buffered(s, o).job.eventCount = s.job.eventCount + 1
         /\ Buffered(s, o).job.pending = Append(s.job.pending, o)
         /\ Buffered(s, o).job.done = s.job.done
         /\ Buffered(s, o).job.inRam = s.job.inRam
<1>1. Spill(Append(s.job.tail, o)) \in Seq(Event)
  <2>1. Append(s.job.tail, o) \in Seq(Event) /\ Append(s.job.tail, o) # <<>>
    BY DEF JobRecord
  <2> QED
    BY <2>1 DEF Spill
<1>2. Append(s.job.pending, o) \in Seq(Event) /\ s.job.eventCount + 1 \in Nat
  BY DEF JobRecord
<1>3. (IF Len(s.job.tail) + 1 > TailCap THEN s.job.tailStart + 1 ELSE s.job.tailStart) \in Nat
  BY DEF JobRecord
<1>4. (s.job.sawDone \/ o.type = "done") \in BOOLEAN
  OBVIOUS
<1> QED
  BY <1>1, <1>2, <1>3, <1>4 DEF Buffered, JobRecord

(* Buffering an event of an unsealed job keeps the accounting of the two halves. *)
LEMMA BufferSound ==
  ASSUME NEW s, Sound(s), Counted(s), NEW o \in Event,
         o.type = "token" => o.data = <<Len(s.log)>>
  PROVE  /\ Sound(Buffered(s, o)) /\ Counted(Buffered(s, o))
         /\ Buffered(s, o).db = s.db
         /\ Buffered(s, o).job.done = s.job.done
         /\ Buffered(s, o).job.inRam = s.job.inRam
<1> DEFINE b == Buffered(s, o)
           l == Append(s.log, o)
           p == Append(s.job.pending, o)
           m == Len(s.log)
           n == Len(s.job.pending)
<1>1. /\ s.log \in Seq(Event) /\ s.job \in JobRecord /\ s.db \in Store
      /\ s.job.pending \in Seq(Event) /\ s.job.eventCount \in Nat /\ s.db.eventCount \in Nat
  BY DEF Sound, ServerStates, JobRecord, Store
<1>2. /\ b.log = l /\ b.db = s.db /\ b.job.pending = p
      /\ b.job.eventCount = s.job.eventCount + 1 /\ b.job \in JobRecord
      /\ b.job.done = s.job.done /\ b.job.inRam = s.job.inRam
      /\ b = [log |-> b.log, job |-> b.job, db |-> b.db]
  <2>1. b.log = l /\ b.db = s.db /\ b = [log |-> b.log, job |-> b.job, db |-> b.db]
    BY DEF Buffered
  <2> QED
    BY <1>1, <2>1, BufferedJob
<1>3. /\ m \in Nat /\ n \in Nat /\ l \in Seq(Event) /\ p \in Seq(Event)
      /\ Len(l) = m + 1 /\ Len(p) = n + 1
      /\ l[m + 1] = o /\ p[n + 1] = o
      /\ \A i \in 1 .. m : l[i] = s.log[i]
      /\ \A i \in 1 .. n : p[i] = s.job.pending[i]
  BY <1>1
<1>4. /\ s.job.eventCount = m /\ s.db.eventCount + n <= m
      /\ \A k \in 1 .. n : s.job.pending[k] = s.log[m - n + k]
  BY DEF Counted
<1>5. \A i \in 1 .. m : s.log[i].type = "token" => s.log[i].data = <<0 + i - 1>>
  BY DEF Sound, Positioned
<1>6. RowsOK(l, s.db)
  BY <1>1, RowsKept DEF Sound
<1> HIDE DEF b, l, p, m, n
<1>7. Positioned(l, 0)
  <2>1. <<m>> = <<0 + (m + 1) - 1>>
    BY <1>3
  <2>2. SUFFICES ASSUME NEW i \in 1 .. m + 1, l[i].type = "token" PROVE l[i].data = <<0 + i - 1>>
    BY <1>3 DEF Positioned
  <2>3. CASE i \in 1 .. m
    BY <1>3, <1>5, <2>2, <2>3
  <2>4. CASE i = m + 1
    BY <1>3, <2>1, <2>2, <2>4 DEF m
  <2> QED
    BY <1>3, <2>3, <2>4
<1>8. Counted(b)
  <2>1. ASSUME NEW k \in 1 .. n + 1 PROVE p[k] = l[(m + 1) - (n + 1) + k]
    <3>1. CASE k = n + 1
      <4>1. (m + 1) - (n + 1) + k = m + 1
        BY <1>3, <3>1
      <4> QED
        BY <1>3, <3>1, <4>1
    <3>2. CASE k \in 1 .. n
      <4>1. (m + 1) - (n + 1) + k = m - n + k /\ m - n + k \in 1 .. m
        BY <1>1, <1>3, <1>4, <3>2
      <4> QED
        BY <1>3, <1>4, <3>2, <4>1
    <3> QED
      BY <1>3, <3>1, <3>2
  <2>2. s.db.eventCount + (n + 1) <= m + 1 /\ s.job.eventCount + 1 = m + 1
    BY <1>1, <1>3, <1>4
  <2> QED
    BY <1>2, <1>3, <2>1, <2>2 DEF Counted
<1>9. Sound(b)
  BY <1>1, <1>2, <1>3, <1>6, <1>7 DEF Sound, ServerStates
<1> QED
  BY <1>2, <1>8, <1>9 DEF b

(* jobEmit keeps the invariant, and drops every event of a sealed job. *)
LEMMA EmitSound ==
  ASSUME NEW s, SInv(s), NEW o \in Event, NEW ok \in BOOLEAN,
         o.type = "token" /\ ~s.job.done => o.data = <<Len(s.log)>>
  PROVE  /\ SInv(jobEmit(s, o, ok))
         /\ jobEmit(s, o, ok).job.done = s.job.done
         /\ s.job.done => jobEmit(s, o, ok) = s
<1> DEFINE e == jobEmit(s, o, ok)
           b == Buffered(s, o)
<1>1. CASE s.job.done
  BY <1>1 DEF jobEmit
<1>2. CASE ~s.job.done
  <2>1. /\ Sound(b) /\ Counted(b) /\ b.db = s.db
        /\ b.job.done = s.job.done /\ b.job.inRam = s.job.inRam
    BY <1>2, BufferSound DEF SInv
  <2>2. e = b \/ e = flushJob(b, ok)
    BY <1>2 DEF jobEmit
  <2>3. CASE e = b
    BY <1>2, <2>1, <2>3 DEF SInv
  <2>4. CASE e = flushJob(b, ok)
    <3>1. /\ Sound(e) /\ Counted(e) /\ e.job = [b.job EXCEPT !.pending = <<>>]
          /\ e.db.status = b.db.status
      BY <2>1, <2>4, FlushSound
    <3>2. b.job \in JobRecord
      BY <2>1 DEF Sound, ServerStates
    <3>3. e.job.done = b.job.done /\ e.job.inRam = b.job.inRam
      BY <3>1, <3>2, NoPending
    <3> QED
      BY <1>2, <2>1, <3>1, <3>3 DEF SInv
  <2> QED
    BY <2>2, <2>3, <2>4
<1> QED
  BY <1>1, <1>2

(* finishJob seals with nothing pending, whatever the store answers. *)
LEMMA FinishSound ==
  ASSUME NEW s, SInv(s), NEW ok \in BOOLEAN, NEW okStatus \in BOOLEAN
  PROVE  /\ SInv(finishJob(s, ok, okStatus))
         /\ s.job.done => finishJob(s, ok, okStatus) = s
<1>1. CASE s.job.done
  BY <1>1 DEF finishJob
<1>2. CASE ~s.job.done
  <2> DEFINE t == [s EXCEPT !.job.done = TRUE]
             f == flushJob(t, ok)
             d == finish(f.db, FinalStatus(f.job), okStatus)
             g == finishJob(s, ok, okStatus)
  <2>1. /\ s \in ServerStates /\ s.job \in JobRecord /\ s.job.pending \in Seq(Event)
        /\ s = [log |-> s.log, job |-> s.job, db |-> s.db]
    BY DEF SInv, Sound, ServerStates, JobRecord
  <2>2. /\ t = [log |-> s.log, job |-> [s.job EXCEPT !.done = TRUE], db |-> s.db]
        /\ t.log = s.log /\ t.db = s.db /\ t.job = [s.job EXCEPT !.done = TRUE]
    <3>1. t = [s EXCEPT !.job = [s.job EXCEPT !.done = TRUE]]
      BY Zenon
    <3> HIDE DEF t
    <3> QED
      BY <2>1, <3>1 DEF ServerStates
  <2>3. /\ t.job \in JobRecord /\ t.job.done /\ t.job.pending = s.job.pending
        /\ t.job.eventCount = s.job.eventCount
    BY <2>1, <2>2 DEF JobRecord
  <2> HIDE DEF t
  <2>4. Sound(t)
    BY <2>1, <2>2, <2>3 DEF SInv, Sound, ServerStates
  <2>5. Counted(t)
    <3>1. Counted(s)
      BY <1>2 DEF SInv
    <3>2. /\ t.log = s.log /\ t.db = s.db /\ t.job.pending = s.job.pending
          /\ t.job.eventCount = s.job.eventCount
      BY <2>2, <2>3
    <3> QED
      BY <3>1, <3>2 DEF Counted
  <2>6. Sound(f) /\ f.job = [t.job EXCEPT !.pending = <<>>]
    BY <2>4, <2>5, FlushSound
  <2>7. f.job.done /\ f.job.pending = <<>>
    BY <2>3, <2>6, NoPending
  <2>8. /\ f.log \in Seq(Event) /\ f.job \in JobRecord /\ f.db \in Store
        /\ f = [log |-> f.log, job |-> f.job, db |-> f.db]
    BY <2>6 DEF Sound, ServerStates
  <2>9. g = [f EXCEPT !.db = d]
    BY <1>2 DEF finishJob, t
  <2> HIDE DEF f
  <2>10. d \in Store /\ d.rows = f.db.rows /\ d.eventCount = f.db.eventCount
    BY <2>8 DEF finish, FinalStatus, Store, Statuses
  <2> HIDE DEF d
  <2>11. g = [log |-> f.log, job |-> f.job, db |-> d]
    BY <2>8, <2>9
  <2> HIDE DEF g
  <2>12. RowsOK(f.log, d)
    BY <2>6, <2>10 DEF Sound, RowsOK
  <2>13. Sound(g)
    BY <2>6, <2>8, <2>10, <2>11, <2>12 DEF Sound, ServerStates
  <2> QED
    BY <1>2, <2>7, <2>11, <2>13 DEF SInv, g
<1> QED
  BY <1>1, <1>2

-----------------------------------------------------------------------------
(* The inductive invariant of the specification. *)
Inv == SInv(ServerState) /\ (server = "down" => job.done)

(* What SealedFinal asks of a step. *)
SealedStep == db.status # "running" => db' = db \/ db'.status = "gone"

(* The components of the server state are the variables.                      *)
LEMMA ServerFields ==
  /\ ServerState.log = log /\ ServerState.job = job /\ ServerState.db = db
BY DEF ServerState

(* Structural events are events, and none of them is a token.                 *)
LEMMA PlainEvents ==
  \A t \in LiveTypes \ {"token"} : Plain(t) \in Event /\ Plain(t).type # "token"
<1>1. <<>> \in Seq(Nat)
  OBVIOUS
<1> QED
  BY <1>1 DEF Plain, Event

(* A tick that commits a sound server state keeps the invariant. *)
LEMMA CommitKeeps ==
  ASSUME Inv, NEW x, SInv(x), job.done => x = ServerState, Commit(x), server # "down",
         server' # "down"
  PROVE  Inv' /\ SealedStep
<1>1. x = [log |-> log', job |-> job', db |-> db']
  BY DEF SInv, Sound, ServerStates, Commit
<1>2. SInv(ServerState')
  BY <1>1 DEF ServerState
<1>3. SealedStep
  <2>1. SUFFICES ASSUME db.status # "running" PROVE db' = db
    BY DEF SealedStep
  <2>2. job.done
    BY <2>1, ServerFields DEF Inv, SInv
  <2> QED
    BY <2>2, ServerFields DEF Commit
<1> QED
  BY <1>2, <1>3 DEF Inv

(* The RAM record of a process that died. *)
Dead == [FreshJob EXCEPT !.inRam = FALSE, !.done = TRUE]

(* A process that died keeps the durable half sound: only RAM is lost.        *)
LEMMA DeadKeeps ==
  ASSUME NEW x, SInv(x)
  PROVE  SInv([log |-> x.log, job |-> Dead, db |-> x.db])
<1>1. Dead \in JobRecord /\ Dead.done /\ Dead.pending = <<>>
  <2>1. <<>> \in Seq(Event)
    OBVIOUS
  <2> QED
    BY <2>1 DEF Dead, FreshJob, JobRecord
<1> HIDE DEF Dead
<1> QED
  BY <1>1 DEF SInv, Sound, ServerStates

(* The boot sweep's two rows go past everything durable. *)
LEMMA SweepKeeps ==
  ASSUME NEW l \in Seq(Event), NEW d \in Store, RowsOK(l, d)
  PROVE  /\ sweepOrphans(d) \in Store /\ RowsOK(l, sweepOrphans(d))
         /\ d.status # "running" => sweepOrphans(d) = d
<1>1. CASE d.status # "running"
  BY <1>1 DEF sweepOrphans
<1>2. CASE d.status = "running"
  <2> DEFINE n == d.eventCount
             r1 == [seq |-> n, span |-> 1, ev |-> Plain("error")]
             r2 == [seq |-> n + 1, span |-> 1, ev |-> Plain("stopped")]
             e == sweepOrphans(d)
  <2>1. n \in Nat /\ d.rows \subseteq Row
    BY DEF Store
  <2>2. e = [status |-> "orphaned", eventCount |-> n + 2, rows |-> d.rows \cup {r1, r2}]
    BY <1>2 DEF sweepOrphans, OrphanTail
  <2>3. /\ Plain("error") \in Event /\ Plain("error").type # "token"
        /\ Plain("stopped") \in Event /\ Plain("stopped").type # "token"
    BY PlainEvents DEF LiveTypes
  <2>4. /\ r1 \in Row /\ r1.seq = n /\ RowEnd(r1) = n + 1 /\ r1.ev.type # "token"
        /\ r2 \in Row /\ r2.seq = n + 1 /\ RowEnd(r2) = n + 2 /\ r2.ev.type # "token"
    BY <2>1, <2>3 DEF Row, RowEnd
  <2> HIDE DEF r1, r2, n
  <2>5. e \in Store
    BY <2>1, <2>2, <2>4 DEF Store, Statuses
  <2>6. e.rows = d.rows \cup {r1, r2} /\ e.eventCount = n + 2
    BY <2>2
  <2> HIDE DEF e
  <2>7. \A r \in d.rows : r \in Row /\ RowEnd(r) \in Nat /\ RowEnd(r) <= n
    BY <2>1, RowFields DEF RowsOK, n
  <2>8. \A r \in e.rows : RowEnd(r) <= e.eventCount
    BY <2>1, <2>4, <2>6, <2>7
  <2>9. \A r, q \in e.rows : r # q => Apart(r, q)
    <3>1. SUFFICES ASSUME NEW r \in e.rows, NEW q \in e.rows, r # q PROVE Apart(r, q)
      OBVIOUS
    <3>2. CASE r \in d.rows /\ q \in d.rows
      BY <3>1, <3>2 DEF RowsOK
    <3>3. CASE r \in d.rows /\ q \in {r1, r2}
      BY <2>1, <2>4, <2>7, <3>3 DEF Apart
    <3>4. CASE r \in {r1, r2} /\ q \in d.rows
      BY <2>1, <2>4, <2>7, <3>4 DEF Apart
    <3>5. CASE r \in {r1, r2} /\ q \in {r1, r2}
      BY <2>1, <2>4, <3>1, <3>5 DEF Apart
    <3> QED
      BY <2>6, <3>1, <3>2, <3>3, <3>4, <3>5
  <2>10. RowsOK(l, e)
    BY <2>4, <2>6, <2>8, <2>9 DEF RowsOK, DeltaExact
  <2> QED
    BY <1>2, <2>5, <2>10 DEF e
<1> QED
  BY <1>1, <1>2

(* createChatJob establishes the invariant.                                   *)
LEMMA InitInv == Init => Inv
<1>1. SUFFICES ASSUME Init PROVE Inv
  OBVIOUS
<1>2. <<>> \in Seq(Event) /\ Len(<<>>) = 0 /\ 1 .. 0 = {}
  OBVIOUS
<1>3. FreshJob \in JobRecord /\ FreshStore \in Store
  BY <1>2 DEF FreshJob, FreshStore, JobRecord, Store, Statuses
<1>4. Sound(ServerState)
  BY <1>1, <1>2, <1>3 DEF Init, ServerState, Sound, ServerStates, Positioned, RowsOK, FreshStore
<1>5. Counted(ServerState)
  BY <1>1, <1>2 DEF Init, ServerState, Counted, FreshStore, FreshJob
<1> QED
  BY <1>1, <1>4, <1>5 DEF Init, Inv, SInv, ServerState, FreshJob, FreshStore

(* Emitting a structural event, possibly none, any number of times. *)
LEMMA EmitPlain ==
  ASSUME NEW x, SInv(x), NEW t \in LiveTypes \ {"token"}, NEW ok \in BOOLEAN
  PROVE  /\ SInv(jobEmit(x, Plain(t), ok))
         /\ jobEmit(x, Plain(t), ok).job.done = x.job.done
         /\ x.job.done => jobEmit(x, Plain(t), ok) = x
BY PlainEvents, EmitSound

(* The ticks of the /chat handler, one step per exit.                         *)
LEMMA HandlerSteps ==
  ASSUME Inv, NEW ok \in BOOLEAN, NEW okStatus \in BOOLEAN
  PROVE  /\ StartTurn(ok) => Inv' /\ SealedStep
         /\ \A type \in {"token", "working", "tool"} : EmitBody(type, ok) => Inv' /\ SealedStep
         /\ CompleteTurn(ok, okStatus) => Inv' /\ SealedStep
         /\ \A why \in {"aborted", "error", "tool"} : HaltTurn(why, ok) => Inv' /\ SealedStep
         /\ SettleEvent(ok) => Inv' /\ SealedStep
         /\ EndStream(ok, okStatus) => Inv' /\ SealedStep
<1> DEFINE s == ServerState
<1>1. SInv(s) /\ s.job = job /\ s.log = log
  BY ServerFields DEF Inv
<1> HIDE DEF s
<1>2. \A t \in {"job", "working", "tool", "error", "stopped", "done"} : t \in LiveTypes \ {"token"}
  BY DEF LiveTypes
<1>3. ASSUME StartTurn(ok) PROVE Inv' /\ SealedStep
  <2> DEFINE x == jobEmit(s, Plain("job"), ok)
  <2>1. SInv(x) /\ (job.done => x = s)
    <3>1. "job" \in LiveTypes \ {"token"}
      BY <1>2
    <3> QED
      BY <1>1, <3>1, EmitPlain
  <2>2. Commit(x) /\ server # "down" /\ server' = server
    BY <1>3 DEF StartTurn, s
  <2> HIDE DEF x
  <2> QED
    BY <2>1, <2>2, CommitKeeps DEF s
<1>4. ASSUME NEW type \in {"token", "working", "tool"}, EmitBody(type, ok)
      PROVE  Inv' /\ SealedStep
  <2> DEFINE o == IF type = "token" THEN Token(job.eventCount) ELSE Plain(type)
             x == jobEmit(s, o, ok)
  <2>1. ~job.done /\ Commit(x) /\ server # "down" /\ server' = server
    BY <1>4 DEF EmitBody, s
  <2>2. job.eventCount = Len(log) /\ job.eventCount \in Nat
    BY <1>1, <2>1 DEF SInv, Sound, ServerStates, JobRecord, Counted
  <2>3. o \in Event /\ (o.type = "token" => o.data = <<Len(log)>>)
    <3>1. CASE type = "token"
      <4>1. o = [type |-> "token", data |-> <<job.eventCount>>]
        BY <3>1 DEF Token
      <4>2. <<job.eventCount>> \in Seq(Nat)
        BY <2>2
      <4> HIDE DEF o
      <4> QED
        BY <2>2, <4>1, <4>2 DEF Event, LiveTypes
    <3>2. CASE type # "token"
      <4>1. o = Plain(type) /\ type \in LiveTypes \ {"token"}
        BY <1>2, <1>4, <3>2
      <4> HIDE DEF o
      <4> QED
        BY <4>1, PlainEvents
    <3> QED
      BY <3>1, <3>2
  <2> HIDE DEF o
  <2>4. SInv(x)
    BY <1>1, <2>3, EmitSound
  <2> QED
    BY <2>1, <2>4, CommitKeeps
<1>5. ASSUME CompleteTurn(ok, okStatus) PROVE Inv' /\ SealedStep
  <2> DEFINE e == jobEmit(s, Plain("done"), ok)
             x == finishJob(e, ok, okStatus)
  <2>1. SInv(e) /\ (job.done => e = s)
    <3>1. "done" \in LiveTypes \ {"token"}
      BY <1>2
    <3> QED
      BY <1>1, <3>1, EmitPlain
  <2>2. Commit(x) /\ server # "down" /\ server' = server
    BY <1>5 DEF CompleteTurn, s
  <2> HIDE DEF e
  <2>3. SInv(x) /\ (job.done => x = s)
    BY <1>1, <2>1, FinishSound
  <2> HIDE DEF x
  <2> QED
    BY <2>2, <2>3, CommitKeeps DEF s
<1>6. ASSUME NEW why \in {"aborted", "error", "tool"}, HaltTurn(why, ok)
      PROVE  Inv' /\ SealedStep
  <2> DEFINE e == IF why = "aborted" THEN s ELSE jobEmit(s, Plain(why), ok)
             x == jobEmit(e, Plain("stopped"), ok)
  <2>1. Commit(x) /\ server # "down" /\ server' = server
    BY <1>6 DEF HaltTurn, s
  <2>2. SInv(e) /\ (job.done => e = s)
    <3>1. CASE why = "aborted"
      BY <1>1, <3>1
    <3>2. CASE why # "aborted"
      <4>1. why \in LiveTypes \ {"token"}
        BY <1>2, <1>6, <3>2
      <4>2. e = jobEmit(s, Plain(why), ok)
        BY <3>2
      <4> HIDE DEF e
      <4> QED
        BY <1>1, <4>1, <4>2, EmitPlain
    <3> QED
      BY <3>1, <3>2
  <2> HIDE DEF e
  <2>3. SInv(x) /\ (job.done => x = s)
    <3>1. "stopped" \in LiveTypes \ {"token"}
      BY <1>2
    <3>2. SInv(x) /\ (e.job.done => x = e)
      BY <2>2, <3>1, EmitPlain
    <3> QED
      BY <1>1, <2>2, <3>2
  <2> HIDE DEF x
  <2> QED
    BY <2>1, <2>3, CommitKeeps DEF s
<1>7. ASSUME SettleEvent(ok) PROVE Inv' /\ SealedStep
  <2> DEFINE x == jobEmit(s, Plain("tool"), ok)
  <2>1. SInv(x) /\ (job.done => x = s)
    <3>1. "tool" \in LiveTypes \ {"token"}
      BY <1>2
    <3> QED
      BY <1>1, <3>1, EmitPlain
  <2>2. Commit(x) /\ server # "down" /\ server' = server
    BY <1>7 DEF SettleEvent, s
  <2> HIDE DEF x
  <2> QED
    BY <2>1, <2>2, CommitKeeps DEF s
<1>8. ASSUME EndStream(ok, okStatus) PROVE Inv' /\ SealedStep
  <2> DEFINE x == finishJob(s, ok, okStatus)
  <2>1. SInv(x) /\ (job.done => x = s)
    BY <1>1, FinishSound
  <2>2. Commit(x) /\ server # "down" /\ server' = server
    BY <1>8 DEF EndStream, s
  <2> HIDE DEF x
  <2> QED
    BY <2>1, <2>2, CommitKeeps DEF s
<1> QED
  BY <1>3, <1>4, <1>5, <1>6, <1>7, <1>8

(* The flush timer.                                                           *)
LEMMA TimerStep ==
  ASSUME Inv, NEW ok \in BOOLEAN, FlushTimer(ok)
  PROVE  Inv' /\ SealedStep
<1> DEFINE s == ServerState
           x == flushJob(s, ok)
<1>1. SInv(s) /\ s.job = job /\ s.db = db
  BY ServerFields DEF Inv
<1>2. Commit(x) /\ server # "down" /\ server' = server /\ job.pending # <<>>
  BY DEF FlushTimer
<1> HIDE DEF s
<1>3. ~job.done
  BY <1>1, <1>2 DEF SInv
<1>4. Sound(s) /\ Counted(s) /\ job.inRam /\ db.status = "running" /\ job \in JobRecord
  BY <1>1, <1>3 DEF SInv, Sound, ServerStates
<1>5. /\ Sound(x) /\ Counted(x) /\ x.job = [job EXCEPT !.pending = <<>>]
      /\ x.db.status = "running"
  BY <1>1, <1>4, FlushSound
<1> HIDE DEF x
<1>6. SInv(x)
  BY <1>3, <1>4, <1>5, NoPending DEF SInv
<1> QED
  BY <1>2, <1>3, <1>6, CommitKeeps

(* Steps that leave the server state alone. *)
LEMMA QuietStep ==
  ASSUME Inv, UNCHANGED <<log, job, db>>, server' = "down" => job.done
  PROVE  Inv' /\ SealedStep
BY DEF Inv, ServerState, SealedStep

(* handleChatStop and the two collectors. *)
LEMMA UpkeepSteps ==
  ASSUME Inv
  PROVE  /\ handleChatStop => Inv' /\ SealedStep
         /\ gcChatJobs => Inv' /\ SealedStep
         /\ gcRetention => Inv' /\ SealedStep
<1>1. SInv(ServerState) /\ ServerState.job = job /\ ServerState.log = log /\ ServerState.db = db
  BY ServerFields DEF Inv
<1>2. /\ log \in Seq(Event) /\ job \in JobRecord /\ db \in Store /\ db.eventCount \in Nat
      /\ Positioned(log, 0) /\ RowsOK(log, db)
      /\ job.done => job.pending = <<>>
      /\ ~job.done => job.inRam /\ db.status = "running" /\ Counted(ServerState)
  BY <1>1 DEF SInv, Sound, ServerStates, Store
<1>3. ASSUME handleChatStop PROVE Inv' /\ SealedStep
  <2> DEFINE x == [log |-> log, job |-> [job EXCEPT !.stopped = TRUE], db |-> db]
  <2>1. /\ job' = [job EXCEPT !.stopped = TRUE] /\ log' = log /\ db' = db
        /\ server = "up" /\ server' = server /\ ~job.done
    BY <1>3 DEF handleChatStop
  <2>2. /\ x.job \in JobRecord /\ x.job.done = job.done /\ x.job.inRam = job.inRam
        /\ x.job.pending = job.pending /\ x.job.eventCount = job.eventCount
        /\ x.log = log /\ x.db = db /\ Commit(x)
        /\ x = [log |-> x.log, job |-> x.job, db |-> x.db]
    BY <1>2, <2>1 DEF JobRecord, Commit
  <2> HIDE DEF x
  <2>3. Sound(x)
    BY <1>2, <2>2 DEF Sound, ServerStates
  <2>4. Counted(x)
    BY <1>1, <1>2, <2>1, <2>2 DEF Counted
  <2>5. SInv(x)
    BY <1>2, <2>1, <2>2, <2>3, <2>4 DEF SInv
  <2> QED
    BY <2>1, <2>2, <2>5, CommitKeeps
<1>4. ASSUME gcChatJobs PROVE Inv' /\ SealedStep
  <2> DEFINE j == [job EXCEPT !.inRam = FALSE, !.tail = <<>>, !.tailStart = 0]
  <2>1. job.done /\ job' = j /\ log' = log /\ db' = db /\ server' = server
    BY <1>4 DEF gcChatJobs
  <2>2. <<>> \in Seq(Event)
    OBVIOUS
  <2>3. j \in JobRecord /\ j.done = job.done /\ j.pending = job.pending
    BY <1>2, <2>2 DEF JobRecord
  <2> HIDE DEF j
  <2>4. ServerState' = [log |-> log, job |-> j, db |-> db]
    BY <2>1 DEF ServerState
  <2>5. SInv([log |-> log, job |-> j, db |-> db])
    BY <1>2, <2>1, <2>3 DEF SInv, Sound, ServerStates
  <2> QED
    BY <2>1, <2>3, <2>4, <2>5 DEF Inv, SealedStep
<1>5. ASSUME gcRetention PROVE Inv' /\ SealedStep
  <2> DEFINE d == [db EXCEPT !.status = "gone", !.rows = {}]
  <2>1. ~job.inRam /\ db' = d /\ log' = log /\ job' = job /\ server' = server
    BY <1>5 DEF gcRetention
  <2>2. d \in Store /\ d.status = "gone" /\ d.rows = {}
    BY <1>2 DEF Store, Statuses
  <2> HIDE DEF d
  <2>3. job.done
    BY <1>2, <2>1
  <2>4. RowsOK(log, d)
    BY <2>2 DEF RowsOK
  <2>5. ServerState' = [log |-> log, job |-> job, db |-> d]
    BY <2>1 DEF ServerState
  <2>6. SInv([log |-> log, job |-> job, db |-> d])
    BY <1>2, <2>2, <2>3, <2>4 DEF SInv, Sound, ServerStates
  <2> QED
    BY <2>1, <2>2, <2>3, <2>5, <2>6 DEF Inv, SealedStep
<1> QED
  BY <1>3, <1>4, <1>5

(* The drain, the two kills, process.exit and the boot sweep.                 *)
LEMMA ProcessSteps ==
  ASSUME Inv
  PROVE  /\ \A ok, okStatus \in BOOLEAN : Drain(ok, okStatus) => Inv' /\ SealedStep
         /\ \A n : Kill(n) => Inv' /\ SealedStep
         /\ \A n : Exit(n) => Inv' /\ SealedStep
         /\ \A n : KillBeforeStatus(n) => Inv' /\ SealedStep
         /\ Boot => Inv' /\ SealedStep
<1> DEFINE s == ServerState
<1>1. SInv(s) /\ s.job = job /\ s.log = log /\ s.db = db
  BY ServerFields DEF Inv
<1> HIDE DEF s
<1>2. /\ "error" \in LiveTypes \ {"token"} /\ "tool" \in LiveTypes \ {"token"}
      /\ "stopped" \in LiveTypes \ {"token"} /\ "done" \in LiveTypes \ {"token"}
  BY DEF LiveTypes
<1>3. ASSUME NEW ok \in BOOLEAN, NEW okStatus \in BOOLEAN, Drain(ok, okStatus)
      PROVE  Inv' /\ SealedStep
  <2> DEFINE s1 == jobEmit(s, Plain("error"), ok)
             s2 == jobEmit(s1, Plain("tool"), ok)
             s3 == jobEmit(s2, Plain("stopped"), ok)
             x == finishJob(s3, ok, okStatus)
  <2>1. server = "up" /\ server' = "draining"
    BY <1>3 DEF Drain
  <2>2. \/ ~job.done /\ Commit(x)
        \/ UNCHANGED <<log, job, db>>
    BY <1>3 DEF Drain, s
  <2>3. SInv(s1)
    BY <1>1, <1>2, EmitPlain
  <2> HIDE DEF s1
  <2>4. SInv(s2)
    BY <1>2, <2>3, EmitPlain
  <2> HIDE DEF s2
  <2>5. SInv(s3)
    BY <1>2, <2>4, EmitPlain
  <2> HIDE DEF s3
  <2>6. SInv(x)
    BY <2>5, FinishSound
  <2> HIDE DEF x
  <2>7. CASE ~job.done /\ Commit(x)
    BY <2>1, <2>6, <2>7, CommitKeeps
  <2>8. CASE UNCHANGED <<log, job, db>>
    BY <2>1, <2>8, QuietStep
  <2> QED
    BY <2>2, <2>7, <2>8
<1>4. ASSUME NEW n, Kill(n) \/ Exit(n) PROVE Inv' /\ SealedStep
  <2>1. log' = log /\ db' = db /\ job' = Dead
    BY <1>4 DEF Kill, Exit, Die, Dead
  <2>2. SInv([log |-> log, job |-> Dead, db |-> db]) /\ Dead.done
    <3>1. SInv([log |-> s.log, job |-> Dead, db |-> s.db])
      BY <1>1, DeadKeeps
    <3>2. Dead.done
      BY DEF Dead, FreshJob
    <3> QED
      BY <1>1, <3>1, <3>2
  <2>3. ServerState' = [log |-> log, job |-> Dead, db |-> db]
    BY <2>1 DEF ServerState
  <2> QED
    BY <2>1, <2>2, <2>3 DEF Inv, SealedStep
<1>5. ASSUME NEW n, KillBeforeStatus(n) PROVE Inv' /\ SealedStep
  <2> DEFINE x == jobEmit(s, Plain("done"), TRUE)
  <2>1. log' = x.log /\ db' = x.db /\ job' = Dead
    BY <1>5 DEF KillBeforeStatus, Die, Dead, s
  <2>2. SInv(x) /\ (job.done => x = s)
    BY <1>1, <1>2, EmitPlain
  <2> HIDE DEF x
  <2>3. SInv([log |-> x.log, job |-> Dead, db |-> x.db]) /\ Dead.done
    <3>1. Dead.done
      BY DEF Dead, FreshJob
    <3> QED
      BY <2>2, <3>1, DeadKeeps
  <2>4. ServerState' = [log |-> x.log, job |-> Dead, db |-> x.db]
    BY <2>1 DEF ServerState
  <2>5. SealedStep
    <3>1. SUFFICES ASSUME db.status # "running" PROVE db' = db
      BY DEF SealedStep
    <3>2. job.done
      BY <1>1, <3>1 DEF SInv
    <3> QED
      BY <1>1, <2>1, <2>2, <3>2
  <2> QED
    BY <2>1, <2>3, <2>4, <2>5 DEF Inv
<1>6. ASSUME Boot PROVE Inv' /\ SealedStep
  <2>1. /\ server = "down" /\ server' = "up" /\ db' = sweepOrphans(db)
        /\ log' = log /\ job' = job
    BY <1>6 DEF Boot
  <2>2. job.done
    BY <2>1 DEF Inv
  <2>3. /\ log \in Seq(Event) /\ job \in JobRecord /\ db \in Store
        /\ Positioned(log, 0) /\ RowsOK(log, db) /\ job.pending = <<>>
    BY <1>1, <2>2 DEF SInv, Sound, ServerStates
  <2>4. /\ db' \in Store /\ RowsOK(log, db')
        /\ db.status # "running" => db' = db
    BY <2>1, <2>3, SweepKeeps
  <2>5. ServerState' = [log |-> log, job |-> job, db |-> db']
    BY <2>1 DEF ServerState
  <2>6. SInv([log |-> log, job |-> job, db |-> db'])
    BY <2>2, <2>3, <2>4 DEF SInv, Sound, ServerStates
  <2> QED
    BY <2>1, <2>4, <2>5, <2>6 DEF Inv, SealedStep
<1> QED
  BY <1>3, <1>4, <1>5, <1>6

(* The reader and the late writes of a handler touch no server state. *)
LEMMA ReaderSteps ==
  ASSUME Inv, EmitLate \/ Reader \/ CutSocket \/ Reload
  PROVE  Inv' /\ SealedStep
<1>1. UNCHANGED <<log, job, db, server>>
  BY DEF EmitLate, Reader, CutSocket, Reload, readSse, GiveUp, attemptReattach, AdoptRun,
         deliverResult, finalizeSession
<1> QED
  BY <1>1, QuietStep DEF Inv

(* Every step of the system keeps the invariant and a sealed record.          *)
LEMMA NextStep ==
  ASSUME Inv, [Next]_vars
  PROVE  Inv' /\ SealedStep
<1>1. CASE TurnStep
  BY <1>1, HandlerSteps, ReaderSteps DEF TurnStep
<1>2. CASE EndTurn
  BY <1>2, HandlerSteps DEF EndTurn
<1>3. CASE \E ok \in BOOLEAN : FlushTimer(ok)
  BY <1>3, TimerStep
<1>4. CASE handleChatStop \/ gcChatJobs \/ gcRetention
  BY <1>4, UpkeepSteps
<1>5. CASE Process
  BY <1>5, ProcessSteps DEF Process
<1>6. CASE Reader \/ CutSocket \/ Reload
  BY <1>6, ReaderSteps
<1>7. CASE UNCHANGED vars
  BY <1>7, QuietStep DEF vars, Inv
<1> QED
  BY <1>1, <1>2, <1>3, <1>4, <1>5, <1>6, <1>7 DEF Next

(* The invariant implies both properties the runs check.                      *)
LEMMA InvFaithful == Inv => RowsFaithful /\ Accounting
<1>1. SUFFICES ASSUME Inv PROVE RowsFaithful /\ Accounting
  OBVIOUS
<1>2. SInv(ServerState) /\ ServerState.job = job /\ ServerState.log = log /\ ServerState.db = db
  BY <1>1, ServerFields DEF Inv
<1>3. RowsOK(log, db) /\ Positioned(log, 0)
  BY <1>2 DEF SInv, Sound
<1>4. RowsFaithful
  BY <1>3 DEF RowsOK, RowsFaithful, Apart, DeltaExact
<1>5. \A i \in 1 .. Len(log) : log[i].type = "token" => log[i].data = <<i - 1>>
  BY <1>3 DEF Positioned
<1> QED
  BY <1>2, <1>4, <1>5 DEF Accounting, SInv, Counted

(* However the batches of a turn were coalesced, flushed, refused by the     *)
(* store, cut short by a kill or completed by the boot sweep, the stored rows *)
(* are disjoint, lie below the durable count, and a token row's delta is      *)
(* exactly the deltas of the positions it spans; and what is not durable is   *)
(* pending.                                                                   *)
THEOREM StoreIsFaithful == Spec => [](RowsFaithful /\ Accounting)
<1>1. Init => Inv
  BY InitInv
<1>2. Inv /\ [Next]_vars => Inv'
  BY NextStep
<1>3. Inv => RowsFaithful /\ Accounting
  BY InvFaithful
<1> QED
  BY <1>1, <1>2, <1>3, PTL DEF Spec

(* A record that reached a terminal status is never rewritten: no late emit,  *)
(* second finish or boot sweep touches it; only retention deletes it.         *)
THEOREM SealedForGood == Spec => SealedFinal
<1>1. Init => Inv
  BY InitInv
<1>2. Inv /\ [Next]_vars => Inv'
  BY NextStep
<1>3. Inv /\ [Next]_vars =>
        [db.status # "running" => db' = db \/ db'.status = "gone"]_vars
  BY NextStep DEF SealedStep
<1> QED
  BY <1>1, <1>2, <1>3, PTL DEF Spec, SealedFinal

-----------------------------------------------------------------------------
(* What a replay reads back. *)

(* Among the parts of a finite set there is one that contains no other of its kind. *)
LEMMA MinimalSubset ==
  ASSUME NEW D, IsFiniteSet(D), NEW T \in SUBSET (SUBSET D), T # {}
  PROVE  \E U \in T : \A V \in T : V \subseteq U => V = U
<1>1. IsWellFoundedOn(StrictSubsetOrdering(D), SUBSET D)
  BY FS_StrictSubsetOrderingWellFounded, FS_FiniteSubsetsOfFinite
<1>2. PICK U \in T : \A V \in T : <<V, U>> \notin StrictSubsetOrdering(D)
  BY <1>1, WFMin
<1>3. ASSUME NEW V \in T, V \subseteq U
      PROVE  V = U
  BY <1>2, <1>3 DEF StrictSubsetOrdering
<1> QED
  BY <1>3

(* A number given to each element of a finite set is highest somewhere. *)
LEMMA HasHighest ==
  ASSUME NEW S, IsFiniteSet(S), S # {}, NEW f \in [S -> Int]
  PROVE  \E x \in S : \A y \in S : f[y] <= f[x]
<1> DEFINE T == { V \in SUBSET S : V # {} /\ ~ \E x \in V : \A y \in V : f[y] <= f[x] }
<1>1. SUFFICES ASSUME T # {}
               PROVE  FALSE
  BY <1>1
<1>2. PICK V \in T : \A W \in T : W \subseteq V => W = V
  <2>1. T \in SUBSET (SUBSET S)
    OBVIOUS
  <2> HIDE DEF T
  <2> QED
    BY <1>1, <2>1, MinimalSubset
<1>3. PICK x \in V : TRUE
  BY <1>2
<1>4. V \in SUBSET S /\ V \ {x} \in SUBSET S /\ V \ {x} # V /\ V \ {x} \notin T
  BY <1>2
<1>5. \A y \in V : f[y] \in Int
  BY <1>4
<1>6. CASE V \ {x} = {}
  BY <1>2, <1>5, <1>6
<1>7. CASE V \ {x} # {}
  <2>1. PICK m \in V \ {x} : \A y \in V \ {x} : f[y] <= f[m]
    BY <1>4, <1>7
  <2>2. CASE f[x] <= f[m]
    BY <1>2, <2>1, <2>2
  <2>3. CASE f[m] <= f[x]
    <3>1. \A y \in V : f[y] <= f[x]
      BY <1>5, <2>1, <2>3
    <3> QED
      BY <1>2, <3>1
  <2> QED
    BY <1>5, <2>1, <2>2, <2>3
<1> QED
  BY <1>6, <1>7

(* A row of a set covers position p of the log. *)
Covers(R, p) == \E r \in R : r.seq <= p /\ p < RowEnd(r)

(* Every token of a batch lies in a maximal run (coalesceEvents). *)
LEMMA RunThrough ==
  ASSUME NEW events \in Seq(Event), NEW i \in 1 .. Len(events), events[i].type = "token"
  PROVE  \E run \in TokenRuns(events) : run[1] <= i /\ i <= run[2]
<1> DEFINE A == { a \in 1 .. i : \A k \in a .. i : events[k].type = "token" }
           B == { b \in i .. Len(events) : \A k \in i .. b : events[k].type = "token" }
           f == [x \in A |-> -x]
           g == [x \in B |-> x]
<1>1. /\ A \subseteq 1 .. i /\ B \subseteq i .. Len(events) /\ i \in A /\ i \in B
      /\ f \in [A -> Int] /\ g \in [B -> Int] /\ Len(events) \in Nat
  OBVIOUS
<1>2. IsFiniteSet(A) /\ IsFiniteSet(B)
  <2>1. IsFiniteSet(1 .. i) /\ IsFiniteSet(i .. Len(events))
    BY <1>1, FS_Interval
  <2> QED
    BY <1>1, <2>1, FS_Subset
<1>3. PICK a \in A : \A x \in A : f[x] <= f[a]
  BY <1>1, <1>2, HasHighest
<1>4. PICK b \in B : \A x \in B : g[x] <= g[b]
  BY <1>1, <1>2, HasHighest
<1>5. \A x \in A : a <= x
  <2>1. \A x \in A : x \in Int /\ f[x] = -x
    BY <1>1
  <2> HIDE DEF A, f
  <2>2. SUFFICES ASSUME NEW x \in A PROVE a <= x
    OBVIOUS
  <2>3. -x <= -a /\ x \in Int /\ a \in Int
    BY <1>3, <2>1
  <2> QED
    BY <2>3
<1>6. \A x \in B : x <= b
  BY <1>1, <1>4
<1>7. a - 1 \in 1 .. Len(events) => events[a - 1].type # "token"
  <2>1. SUFFICES ASSUME a - 1 \in 1 .. Len(events), events[a - 1].type = "token" PROVE FALSE
    OBVIOUS
  <2>2. a - 1 \in A
    <3>1. \A k \in a - 1 .. i : k = a - 1 \/ k \in a .. i
      BY <1>1
    <3> QED
      BY <1>1, <2>1, <3>1
  <2>3. a \in Int
    BY <1>1
  <2>4. a <= a - 1
    BY <1>5, <2>2
  <2> HIDE DEF A
  <2> QED
    BY <2>3, <2>4
<1>8. b + 1 \in 1 .. Len(events) => events[b + 1].type # "token"
  <2>1. SUFFICES ASSUME b + 1 \in 1 .. Len(events), events[b + 1].type = "token" PROVE FALSE
    OBVIOUS
  <2>2. b + 1 \in B
    <3>1. \A k \in i .. b + 1 : k = b + 1 \/ k \in i .. b
      BY <1>1
    <3> QED
      BY <1>1, <2>1, <3>1
  <2> QED
    BY <1>1, <1>6, <2>2
<1>9. \A k \in a .. b : events[k].type = "token"
  <2>1. \A k \in a .. b : k \in a .. i \/ k \in i .. b
    BY <1>1
  <2> QED
    BY <2>1
<1>10. <<a, b>> \in TokenRuns(events)
  BY <1>1, <1>7, <1>8, <1>9 DEF TokenRuns, IsToken
<1> QED
  BY <1>1, <1>10

(* Everything but a heartbeat is in a row of its flush. *)
LEMMA CoalesceCovers ==
  ASSUME NEW events \in Seq(Event), NEW start \in Nat, NEW i \in 1 .. Len(events)
  PROVE  events[i].type = "working" \/ Covers(coalesceEvents(events, start), start + i - 1)
<1>1. CASE events[i].type = "token"
  <2>1. PICK run \in TokenRuns(events) : run[1] <= i /\ i <= run[2]
    BY <1>1, RunThrough
  <2> DEFINE r == RunRow(events, start, run)
  <2>2. /\ run[1] \in 1 .. Len(events) /\ run[2] \in 1 .. Len(events)
        /\ r.seq = start + run[1] - 1 /\ RowEnd(r) = start + run[2]
    BY RunRowShape
  <2>3. r \in coalesceEvents(events, start)
    BY DEF coalesceEvents
  <2> HIDE DEF r
  <2>4. r.seq <= start + i - 1 /\ start + i - 1 < RowEnd(r)
    <3> DEFINE a == run[1]
               b == run[2]
               x == r.seq
               y == RowEnd(r)
    <3>1. a \in Int /\ b \in Int /\ a <= i /\ i <= b /\ x = start + a - 1 /\ y = start + b
      BY <2>1, <2>2
    <3> HIDE DEF a, b, x, y
    <3>2. x <= start + i - 1 /\ start + i - 1 < y
      BY <3>1
    <3> QED
      BY <3>2 DEF x, y
  <2> QED
    BY <2>3, <2>4 DEF Covers
<1>2. CASE events[i].type \notin {"token", "working"}
  <2> DEFINE r == PlainRow(events, start, i)
  <2>1. r.seq = start + i - 1 /\ RowEnd(r) = start + i
    BY PlainRowShape
  <2>2. r \in coalesceEvents(events, start)
    BY <1>2 DEF coalesceEvents
  <2> HIDE DEF r
  <2>3. r.seq <= start + i - 1 /\ start + i - 1 < RowEnd(r)
    BY <2>1
  <2> QED
    BY <2>2, <2>3 DEF Covers
<1> QED
  BY <1>1, <1>2

(* The values of a function on a finite set are finitely many. *)
LEMMA FiniteImage ==
  ASSUME NEW S, IsFiniteSet(S), NEW f, DOMAIN f = S
  PROVE  IsFiniteSet({f[x] : x \in S})
<1> DEFINE T == {f[x] : x \in S}
           g == [x \in S |-> f[x]]
<1>1. g \in Surjection(S, T)
  BY DEF Surjection
<1> QED
  BY <1>1, FS_Surjection

(* One flush writes finitely many rows. *)
LEMMA CoalesceFinite ==
  ASSUME NEW events \in Seq(Event), NEW start
  PROVE  IsFiniteSet(coalesceEvents(events, start))
<1> DEFINE D == 1 .. Len(events)
           P == { k \in D : events[k].type \notin {"token", "working"} }
           f == [run \in TokenRuns(events) |-> RunRow(events, start, run)]
           g == [i \in P |-> PlainRow(events, start, i)]
<1>1. IsFiniteSet(D)
  BY FS_Interval
<1>2. IsFiniteSet(D \X D)
  BY <1>1, FS_Product
<1>3. TokenRuns(events) \in SUBSET (D \X D) /\ P \in SUBSET D
  BY DEF TokenRuns
<1>4. IsFiniteSet(TokenRuns(events)) /\ IsFiniteSet(P)
  BY <1>1, <1>2, <1>3, FS_Subset
<1> DEFINE F == {f[run] : run \in TokenRuns(events)}
           G == {g[i] : i \in P}
<1>5. coalesceEvents(events, start) = F \cup G
  <2>1. F = {RunRow(events, start, run) : run \in TokenRuns(events)}
    OBVIOUS
  <2>2. G = {PlainRow(events, start, i) : i \in P}
    OBVIOUS
  <2>3. P = {k \in DOMAIN events : events[k].type \notin {"token", "working"}}
    OBVIOUS
  <2> HIDE DEF F, G, P
  <2> QED
    BY <2>1, <2>2, <2>3 DEF coalesceEvents
<1>6. DOMAIN f = TokenRuns(events) /\ DOMAIN g = P
  OBVIOUS
<1> HIDE DEF f, g, P
<1>7. IsFiniteSet(F) /\ IsFiniteSet(G)
  BY <1>4, <1>6, FiniteImage
<1> HIDE DEF F, G
<1> QED
  BY <1>5, <1>7, FS_Union

(* The rows below r in a set. *)
Below(U, r) == {q \in U : q.seq < r.seq}

(* Rows that can be put in the order of their sequence numbers. *)
Sortable(R) ==
  IsFiniteSet(R) /\ R \subseteq Row /\ \A r, q \in R : r # q => r.seq # q.seq

(* Every rank of a set of rows is taken: ORDER BY seq finds a row for each place. *)
LEMMA RankExists ==
  ASSUME NEW R, Sortable(R), NEW i \in 1 .. Cardinality(R)
  PROVE  \E r \in R : Cardinality(Below(R, r)) = i - 1
<1> DEFINE Ranked(U) == \A k \in 1 .. Cardinality(U) : \E r \in U : Cardinality(Below(U, r)) = k - 1
           T == { U \in SUBSET R : ~Ranked(U) }
<1>1. SUFFICES ASSUME T # {}
               PROVE  FALSE
  <2>1. R \notin T
    BY <1>1
  <2> QED
    BY <2>1
<1>2. PICK U \in T : \A V \in T : V \subseteq U => V = U
  <2>1. T \in SUBSET (SUBSET R)
    OBVIOUS
  <2> HIDE DEF T
  <2> QED
    BY <1>1, <2>1, MinimalSubset DEF Sortable
<1>3. U \in SUBSET R /\ ~Ranked(U)
  BY <1>2
<1>4. IsFiniteSet(U) /\ Cardinality(U) \in Nat
  BY <1>3, FS_Subset, FS_CardinalityType DEF Sortable
<1>5. PICK k \in 1 .. Cardinality(U) : \A r \in U : Cardinality(Below(U, r)) # k - 1
  BY <1>3
<1>6. U # {}
  BY <1>4, <1>5, FS_EmptySet
<1>7. \A r \in U : r.seq \in Nat
  BY <1>3, RowFields DEF Sortable
<1>8. PICK x \in U : \A y \in U : y.seq <= x.seq
  <2> DEFINE f == [r \in U |-> r.seq]
  <2>1. f \in [U -> Int]
    BY <1>7
  <2>2. PICK x \in U : \A y \in U : f[y] <= f[x]
    BY <1>4, <1>6, <2>1, HasHighest
  <2> QED
    BY <2>2
<1> DEFINE V == U \ {x}
<1>9. V \in SUBSET R /\ V # U /\ V \subseteq U
  BY <1>3
<1>10. Ranked(V)
  BY <1>2, <1>9
<1>11. Cardinality(V) = Cardinality(U) - 1
  BY <1>4, FS_RemoveElement
<1>12. Below(U, x) = V
  <2>1. \A y \in V : y.seq < x.seq
    BY <1>3, <1>7, <1>8 DEF Sortable
  <2> QED
    BY <1>7, <2>1 DEF Below
<1>13. \A r \in V : Below(U, r) = Below(V, r)
  BY <1>7, <1>8 DEF Below
<1>14. k # Cardinality(U)
  BY <1>5, <1>8, <1>11, <1>12
<1>15. k \in 1 .. Cardinality(V)
  BY <1>4, <1>11, <1>14
<1>16. PICK r \in V : Cardinality(Below(V, r)) = k - 1
  BY <1>10, <1>15
<1> QED
  BY <1>5, <1>13, <1>16

(* A sorted set of rows holds rows of the set, and nothing else. *)
LEMMA SortedRows ==
  ASSUME NEW R, Sortable(R)
  PROVE  /\ Cardinality(R) \in Nat
         /\ DOMAIN InSeqOrder(R) = 1 .. Cardinality(R)
         /\ InSeqOrder(R) \in Seq(Row)
         /\ \A i \in 1 .. Cardinality(R) : InSeqOrder(R)[i] \in R
<1>1. Cardinality(R) \in Nat
  BY FS_CardinalityType DEF Sortable
<1>2. \A i \in 1 .. Cardinality(R) : InSeqOrder(R)[i] \in R
  <2>1. SUFFICES ASSUME NEW i \in 1 .. Cardinality(R) PROVE InSeqOrder(R)[i] \in R
    OBVIOUS
  <2>2. \E r \in R : Cardinality({q \in R : q.seq < r.seq}) = i - 1
    BY RankExists DEF Below
  <2>3. InSeqOrder(R)[i] = CHOOSE r \in R : Cardinality({q \in R : q.seq < r.seq}) = i - 1
    BY DEF InSeqOrder
  <2> QED
    BY <2>2, <2>3
<1>3. DOMAIN InSeqOrder(R) = 1 .. Cardinality(R)
  BY DEF InSeqOrder
<1>4. InSeqOrder(R) \in [1 .. Cardinality(R) -> Row]
  BY <1>2, <1>3 DEF Sortable, InSeqOrder
<1> QED
  BY <1>1, <1>2, <1>3, <1>4

(* The events of sorted rows: a sequence of events, each the event of a row. *)
LEMMA SortedEvents ==
  ASSUME NEW R, Sortable(R)
  PROVE  /\ EventsOf(InSeqOrder(R)) \in Seq(Event)
         /\ \A i \in 1 .. Len(EventsOf(InSeqOrder(R))) :
              \E r \in R : EventsOf(InSeqOrder(R))[i] = r.ev
<1> DEFINE s == InSeqOrder(R)
           e == EventsOf(s)
<1>1. /\ Cardinality(R) \in Nat /\ DOMAIN s = 1 .. Cardinality(R)
      /\ \A i \in 1 .. Cardinality(R) : s[i] \in R
  BY SortedRows
<1>2. e = [i \in 1 .. Cardinality(R) |-> s[i].ev]
  BY <1>1 DEF EventsOf
<1>3. \A r \in R : r.ev \in Event
  BY DEF Sortable, Row
<1> HIDE DEF e, s
<1>4. e \in [1 .. Cardinality(R) -> Event]
  BY <1>1, <1>2, <1>3
<1>5. e \in Seq(Event) /\ Len(e) = Cardinality(R)
  BY <1>1, <1>2, <1>4
<1>6. \A i \in 1 .. Cardinality(R) : \E r \in R : e[i] = r.ev
  BY <1>1, <1>2
<1> QED
  BY <1>5, <1>6 DEF e, s

(* The same of a replay, from any cursor (replayRows). *)
LEMMA ReplayedEvents ==
  ASSUME NEW R, Sortable(R), NEW from \in Nat
  PROVE  /\ EventsOf(replayRows(R, from)) \in Seq(Event)
         /\ \A i \in 1 .. Len(EventsOf(replayRows(R, from))) :
              \E r \in R : EventsOf(replayRows(R, from))[i] = r.ev
<1> DEFINE Q == IF from > 0 THEN {r \in R : RowEnd(r) > from} ELSE R
<1>1. Q \in SUBSET R
  OBVIOUS
<1>2. Sortable(Q)
  BY <1>1, FS_Subset DEF Sortable
<1>3. replayRows(R, from) = InSeqOrder(Q)
  BY DEF replayRows
<1> HIDE DEF Q
<1>4. /\ EventsOf(InSeqOrder(Q)) \in Seq(Event)
      /\ \A i \in 1 .. Len(EventsOf(InSeqOrder(Q))) :
           \E r \in Q : EventsOf(InSeqOrder(Q))[i] = r.ev
  BY <1>2, SortedEvents
<1> QED
  BY <1>1, <1>3, <1>4

-----------------------------------------------------------------------------
(* What a flush loses: nothing, unless the store refuses it. *)

(* The record has an event of type t, or retention has taken it. *)
Has(d, t) == d.status = "gone" \/ \E r \in d.rows : r.ev.type = t

Grows(d, e) == \A t \in LiveTypes : Has(d, t) => Has(e, t)

(* A record has finitely many rows, and only tokens and heartbeats wait for the timer. *)
Tidy(s) ==
  /\ IsFiniteSet(s.db.rows)
  /\ \A k \in 1 .. Len(s.job.pending) : s.job.pending[k].type \in {"token", "working"}

(* Below the durable count, everything but a heartbeat is in a row. *)
Stored(s) ==
  \A p \in 0 .. s.db.eventCount - 1 :
    p < Len(s.log) => s.log[p + 1].type = "working" \/ Covers(s.db.rows, p)

(* Of a server no write of which was refused: LossBounded, and what the tail shows of the end. *)
Whole(s) ==
  s.db.status # "gone" =>
    /\ Stored(s)
    /\ Len(s.log) - s.db.eventCount < FlushMax
    /\ s.job.inRam => s.db.eventCount + Len(s.job.pending) = Len(s.log)

Good(s) ==
  /\ Whole(s)
  /\ \A k \in 1 .. Len(s.job.tail) : s.job.tail[k].type = "done" => Has(s.db, "done")

(* The components of a sound server state. *)
LEMMA SoundParts ==
  ASSUME NEW s, Sound(s)
  PROVE  /\ s.log \in Seq(Event) /\ Len(s.log) \in Nat
         /\ s.job \in JobRecord /\ s.job.pending \in Seq(Event) /\ Len(s.job.pending) \in Nat
         /\ s.job.tail \in Seq(Event) /\ s.job.done \in BOOLEAN
         /\ s.db \in Store /\ s.db.rows \subseteq Row /\ s.db.eventCount \in Nat
BY DEF Sound, ServerStates, JobRecord, Store

(* A record whose rows are a part of another's has no event the other lacks. *)
LEMMA RowsGrow ==
  ASSUME NEW d, NEW e, d.rows \subseteq e.rows, d.status = "gone" => e.status = "gone"
  PROVE  Grows(d, e)
BY DEF Grows, Has

(* What flushJob leaves behind. *)
LEMMA FlushResult ==
  ASSUME NEW s, Sound(s), Counted(s), NEW ok \in BOOLEAN
  PROVE  LET f == flushJob(s, ok)
             n == Len(s.log) - Len(s.job.pending)
         IN /\ f.log = s.log /\ f.db.status = s.db.status
            /\ f.job = [s.job EXCEPT !.pending = <<>>]
            /\ f.db.rows = IF ok THEN s.db.rows \cup coalesceEvents(s.job.pending, n)
                           ELSE s.db.rows
            /\ f.db.eventCount = IF ok /\ s.job.pending # <<>> THEN Len(s.log)
                                 ELSE s.db.eventCount
<1> DEFINE f == flushJob(s, ok)
           p == s.job.pending
           n == Len(s.log) - Len(p)
<1>1. /\ f.log = s.log /\ f.db.status = s.db.status
      /\ f.job = [s.job EXCEPT !.pending = <<>>]
  BY FlushSound
<1>2. /\ s.log \in Seq(Event) /\ s.job \in JobRecord /\ s.db \in Store /\ p \in Seq(Event)
      /\ s = [log |-> s.log, job |-> s.job, db |-> s.db]
  BY DEF Sound, ServerStates, JobRecord
<1>3. s.job.eventCount = Len(s.log)
  BY DEF Counted
<1>4. CASE p = <<>>
  <2>1. f = s
    BY <1>4 DEF flushJob
  <2>2. coalesceEvents(p, n) = {}
    <3>1. DOMAIN p = {}
      BY <1>4
    <3>2. TokenRuns(p) = {}
      BY <3>1 DEF TokenRuns
    <3> HIDE DEF p, n
    <3> QED
      BY <3>1, <3>2 DEF coalesceEvents
  <2> HIDE DEF f, p, n
  <2>3. s.db.rows = IF ok THEN s.db.rows \cup coalesceEvents(p, n) ELSE s.db.rows
    BY <2>2
  <2> QED
    BY <1>1, <1>4, <2>1, <2>3 DEF f, p, n
<1>5. CASE p # <<>>
  <2> DEFINE new == coalesceEvents(p, n)
  <2>1. f.db = appendRows(s.db, new, Len(s.log), ok)
    BY <1>2, <1>3, <1>5 DEF flushJob
  <2> HIDE DEF new, f, p, n
  <2>2. /\ f.db.rows = IF ok THEN s.db.rows \cup new ELSE s.db.rows
        /\ f.db.eventCount = IF ok THEN Len(s.log) ELSE s.db.eventCount
    BY <1>2, <2>1 DEF appendRows, Store
  <2> QED
    BY <1>1, <1>5, <2>2 DEF new, f, p, n
<1> QED
  BY <1>4, <1>5

(* A flush leaves nothing pending and finitely many rows, and takes no row away. *)
LEMMA FlushTidy ==
  ASSUME NEW s, Sound(s), Counted(s), IsFiniteSet(s.db.rows), NEW ok \in BOOLEAN
  PROVE  /\ Tidy(flushJob(s, ok)) /\ s.db.rows \subseteq flushJob(s, ok).db.rows
         /\ Grows(s.db, flushJob(s, ok).db)
<1> DEFINE f == flushJob(s, ok)
           new == coalesceEvents(s.job.pending, Len(s.log) - Len(s.job.pending))
<1>1. /\ f.job = [s.job EXCEPT !.pending = <<>>] /\ f.db.status = s.db.status
      /\ f.db.rows = IF ok THEN s.db.rows \cup new ELSE s.db.rows
  BY FlushResult
<1>2. IsFiniteSet(new)
  BY SoundParts, CoalesceFinite
<1>3. f.job.pending = <<>>
  BY <1>1, SoundParts, NoPending
<1> HIDE DEF f, new
<1>4. IsFiniteSet(f.db.rows) /\ s.db.rows \subseteq f.db.rows
  <2>1. IsFiniteSet(s.db.rows \cup new)
    BY <1>2, FS_Union
  <2> QED
    BY <1>1, <2>1
<1>5. Tidy(f)
  BY <1>3, <1>4 DEF Tidy
<1>6. Grows(s.db, f.db)
  BY <1>1, <1>4, RowsGrow
<1> QED
  BY <1>4, <1>5, <1>6 DEF f

(* A flush the store accepts makes every event durable. *)
LEMMA FlushStores ==
  ASSUME NEW s, Sound(s), Counted(s), Stored(s),
         s.db.eventCount + Len(s.job.pending) = Len(s.log)
  PROVE  /\ Stored(flushJob(s, TRUE)) /\ flushJob(s, TRUE).db.eventCount = Len(s.log)
         /\ \A k \in 1 .. Len(s.job.pending) :
              s.job.pending[k].type \notin {"token", "working"}
                => \E r \in flushJob(s, TRUE).db.rows : r.ev.type = s.job.pending[k].type
<1> DEFINE f == flushJob(s, TRUE)
           p == s.job.pending
           n == Len(s.log) - Len(p)
           new == coalesceEvents(p, n)
<1>1. /\ f.log = s.log /\ f.db.rows = s.db.rows \cup new
      /\ f.db.eventCount = IF p # <<>> THEN Len(s.log) ELSE s.db.eventCount
  BY FlushResult
<1>2. /\ Len(s.log) \in Nat /\ p \in Seq(Event) /\ Len(p) \in Nat /\ s.db.eventCount \in Nat
      /\ n = s.db.eventCount
  <2>1. /\ Len(s.log) \in Nat /\ p \in Seq(Event) /\ Len(p) \in Nat /\ s.db.eventCount \in Nat
    BY SoundParts
  <2>2. \A a, b, c \in Nat : a + b = c => c - b = a
    OBVIOUS
  <2>3. s.db.eventCount + Len(p) = Len(s.log)
    OBVIOUS
  <2> HIDE DEF p
  <2>4. Len(s.log) - Len(p) = s.db.eventCount
    BY <2>1, <2>2, <2>3
  <2> QED
    BY <2>1, <2>4 DEF p
<1>3. f.db.eventCount = Len(s.log)
  <2>1. p = <<>> => Len(p) = 0
    BY <1>2
  <2> HIDE DEF f, p, n, new
  <2> QED
    BY <1>1, <1>2, <2>1 DEF n, p
<1>4. \A k \in 1 .. Len(p) : p[k] = s.log[n + k]
  BY DEF Counted
<1>5. ASSUME NEW q \in 0 .. Len(s.log) - 1
      PROVE  s.log[q + 1].type = "working" \/ Covers(f.db.rows, q)
  <2>1. CASE q < s.db.eventCount
    <3>1. s.log[q + 1].type = "working" \/ Covers(s.db.rows, q)
      BY <1>2, <2>1 DEF Stored
    <3> HIDE DEF f, new
    <3> QED
      BY <1>1, <3>1 DEF Covers
  <2>2. CASE q >= s.db.eventCount
    <3> DEFINE i == q - n + 1
    <3>1. i \in 1 .. Len(p) /\ n + i = q + 1 /\ n + i - 1 = q /\ n \in Nat
      <4>1. /\ n \in Nat /\ n <= q /\ q \in Nat /\ q < Len(s.log)
            /\ Len(s.log) = n + Len(p) /\ Len(p) \in Nat
        <5>1. s.db.eventCount + Len(p) = Len(s.log)
          OBVIOUS
        <5> HIDE DEF n, p
        <5> QED
          BY <1>2, <2>2, <5>1
      <4> HIDE DEF n, p
      <4> QED
        BY <4>1
    <3> HIDE DEF i, f, p, n
    <3>2. p[i].type = "working" \/ Covers(new, n + i - 1)
      BY <1>2, <3>1, CoalesceCovers
    <3> HIDE DEF new
    <3>3. p[i].type = "working" \/ Covers(f.db.rows, n + i - 1)
      BY <1>1, <3>2 DEF Covers
    <3> QED
      BY <1>4, <3>1, <3>3
  <2> HIDE DEF f
  <2> QED
    BY <1>2, <2>1, <2>2
<1>6. ASSUME NEW k \in 1 .. Len(p), p[k].type \notin {"token", "working"}
      PROVE  \E r \in f.db.rows : r.ev.type = p[k].type
  <2>1. PlainRow(p, n, k) \in new
    <3>1. k \in DOMAIN p
      BY <1>2
    <3> HIDE DEF p, n
    <3> QED
      BY <1>6, <3>1 DEF coalesceEvents
  <2>2. PlainRow(p, n, k).ev = p[k]
    BY DEF PlainRow
  <2> HIDE DEF f, new, p, n
  <2> QED
    BY <1>1, <2>1, <2>2
<1> HIDE DEF f, p, n, new
<1>7. Stored(f)
  BY <1>1, <1>3, <1>5 DEF Stored
<1> QED
  BY <1>3, <1>6, <1>7 DEF f, p

(* The RAM tail after an event: that event, and events it held before. *)
LEMMA BufferedTail ==
  ASSUME NEW s, Sound(s), NEW o \in Event
  PROVE  \A k \in 1 .. Len(Buffered(s, o).job.tail) :
           \/ Buffered(s, o).job.tail[k] = o
           \/ \E i \in 1 .. Len(s.job.tail) : Buffered(s, o).job.tail[k] = s.job.tail[i]
<1> DEFINE t == s.job.tail
           u == Append(t, o)
           v == Spill(u)
<1>1. t \in Seq(Event) /\ s.job \in JobRecord
  BY SoundParts
<1>2. Buffered(s, o).job.tail = v
  BY <1>1 DEF Buffered, JobRecord
<1>3. /\ u \in Seq(Event) /\ Len(u) = Len(t) + 1 /\ u[Len(t) + 1] = o
      /\ \A i \in 1 .. Len(t) : u[i] = t[i]
  BY <1>1
<1>4. \A k \in 1 .. Len(v) : \E i \in 1 .. Len(u) : v[k] = u[i]
  <2>1. CASE v = u
    BY <2>1
  <2>2. CASE v = Tail(u)
    <3> HIDE DEF u, t
    <3>1. u # <<>>
      BY <1>1, <1>3
    <3>2. Len(v) = Len(u) - 1 /\ \A k \in 1 .. Len(v) : v[k] = u[k + 1]
      BY <1>3, <2>2, <3>1
    <3> HIDE DEF v
    <3> QED
      BY <1>3, <3>2
  <2> QED
    BY <2>1, <2>2 DEF Spill
<1>5. \A i \in 1 .. Len(u) : u[i] = o \/ \E j \in 1 .. Len(t) : u[i] = t[j]
  BY <1>1, <1>3
<1> HIDE DEF u, v, t
<1>6. \A k \in 1 .. Len(v) : v[k] = o \/ \E j \in 1 .. Len(t) : v[k] = t[j]
  BY <1>4, <1>5
<1> QED
  BY <1>2, <1>6 DEF t

(* Buffering an event leaves the durable part durable. *)
LEMMA BufferStored ==
  ASSUME NEW s, Sound(s), Counted(s), NEW o \in Event, Stored(s)
  PROVE  /\ Stored(Buffered(s, o)) /\ Len(Buffered(s, o).log) = Len(s.log) + 1
         /\ s.db.eventCount + Len(s.job.pending) = Len(s.log)
              => Buffered(s, o).db.eventCount + Len(Buffered(s, o).job.pending)
                   = Len(Buffered(s, o).log)
<1> DEFINE b == Buffered(s, o)
<1>1. /\ s.log \in Seq(Event) /\ Len(s.log) \in Nat /\ s.job.pending \in Seq(Event)
      /\ Len(s.job.pending) \in Nat /\ s.db.eventCount \in Nat /\ s.job \in JobRecord
  BY SoundParts
<1>2. b.log = Append(s.log, o) /\ b.db = s.db /\ b.job.pending = Append(s.job.pending, o)
  <2>1. b.log = Append(s.log, o) /\ b.db = s.db
    BY DEF Buffered
  <2>2. b.job.pending = Append(s.job.pending, o)
    BY <1>1, BufferedJob
  <2> QED
    BY <2>1, <2>2
<1>3. /\ Len(b.log) = Len(s.log) + 1 /\ Len(b.job.pending) = Len(s.job.pending) + 1
      /\ \A i \in 1 .. Len(s.log) : b.log[i] = s.log[i]
  BY <1>1, <1>2
<1>4. s.db.eventCount <= Len(s.log)
  BY <1>1 DEF Counted
<1> HIDE DEF b
<1>5. Stored(b)
  <2>1. SUFFICES ASSUME NEW p \in 0 .. s.db.eventCount - 1
                 PROVE  b.log[p + 1].type = "working" \/ Covers(s.db.rows, p)
    BY <1>2 DEF Stored
  <2>2. p < Len(s.log) /\ p + 1 \in 1 .. Len(s.log)
    BY <1>1, <1>4
  <2> QED
    BY <1>3, <2>2 DEF Stored
<1>6. s.db.eventCount + Len(s.job.pending) = Len(s.log)
        => b.db.eventCount + Len(b.job.pending) = Len(b.log)
  <2>1. \A x, y, z \in Nat : x + y = z => x + (y + 1) = z + 1
    OBVIOUS
  <2> DEFINE u == Len(b.job.pending)
             v == Len(s.job.pending)
             m == Len(b.log)
             n == Len(s.log)
             c == s.db.eventCount
  <2>2. b.db.eventCount = c
    BY <1>2
  <2>3. u = v + 1 /\ m = n + 1 /\ v \in Nat /\ n \in Nat /\ c \in Nat
    BY <1>1, <1>3
  <2> HIDE DEF u, v, m, n, c
  <2>4. c + v = n => c + u = m
    BY <2>1, <2>3
  <2> QED
    BY <2>2, <2>4 DEF u, v, m, n, c
<1> QED
  BY <1>3, <1>5, <1>6 DEF b

(* jobEmit takes no row away, keeps only tokens and heartbeats waiting, and, unless the store      *)
(* refuses the flush, loses no event: what it waits to flush is less than a batch, and a           *)
(* structural event is durable before the tick ends.                                               *)
LEMMA EmitGood ==
  ASSUME NEW s, SInv(s), Tidy(s), NEW o \in Event, NEW ok \in BOOLEAN,
         o.type = "token" /\ ~s.job.done => o.data = <<Len(s.log)>>
  PROVE  /\ Tidy(jobEmit(s, o, ok)) /\ Grows(s.db, jobEmit(s, o, ok).db)
         /\ ok /\ Good(s) => Good(jobEmit(s, o, ok))
         /\ ok /\ Good(s) /\ ~s.job.done /\ o.type \notin {"token", "working"}
              => Has(jobEmit(s, o, ok).db, o.type)
<1> DEFINE e == jobEmit(s, o, ok)
           b == Buffered(s, o)
<1>1. CASE s.job.done
  <2>1. e = s
    BY <1>1 DEF jobEmit
  <2> QED
    BY <1>1, <2>1 DEF Grows
<1>2. CASE ~s.job.done
  <2>1. Sound(s) /\ Counted(s) /\ s.job.inRam /\ s.db.status = "running"
    BY <1>2 DEF SInv
  <2>2. /\ Sound(b) /\ Counted(b) /\ b.db = s.db
        /\ b.job.done = s.job.done /\ b.job.inRam = s.job.inRam
    BY <1>2, <2>1, BufferSound
  <2>3. /\ b.job.pending = Append(s.job.pending, o) /\ s.job.pending \in Seq(Event)
        /\ Len(b.job.pending) = Len(s.job.pending) + 1 /\ Len(s.job.pending) \in Nat
        /\ b.job.pending[Len(s.job.pending) + 1] = o
        /\ \A k \in 1 .. Len(s.job.pending) : b.job.pending[k] = s.job.pending[k]
    <3>1. s.job.pending \in Seq(Event) /\ s.job \in JobRecord /\ Len(s.job.pending) \in Nat
      BY <2>1, SoundParts
    <3>2. b.job.pending = Append(s.job.pending, o)
      BY <3>1, BufferedJob
    <3> HIDE DEF b
    <3> QED
      BY <3>1, <3>2
  <2>4. \A k \in 1 .. Len(b.job.tail) :
           b.job.tail[k] = o \/ \E i \in 1 .. Len(s.job.tail) : b.job.tail[k] = s.job.tail[i]
    BY <2>1, BufferedTail
  <2>5. Good(s) => /\ Stored(b) /\ b.db.eventCount + Len(b.job.pending) = Len(b.log)
    BY <2>1, BufferStored DEF Good, Whole
  <2>6. FlushMax \in Nat \ {0}
    BY ChatJobConstants
  <2>7. e = IF o.type \notin {"token", "working"} \/ Len(b.job.pending) >= FlushMax
            THEN flushJob(b, ok) ELSE b
    BY <1>2 DEF jobEmit, IsStructural
  <2>8. /\ Len(b.log) \in Nat /\ b.db.eventCount \in Nat /\ b.job \in JobRecord
        /\ Len(b.job.pending) \in Nat
    BY <2>2, SoundParts
  <2> HIDE DEF b
  <2>9. CASE o.type \notin {"token", "working"} \/ Len(b.job.pending) >= FlushMax
    <3>1. e = flushJob(b, ok)
      BY <2>7, <2>9
    <3>2. Tidy(e) /\ Grows(s.db, e.db)
      BY <2>2, <3>1, FlushTidy DEF Tidy
    <3>3. e.job = [b.job EXCEPT !.pending = <<>>] /\ e.log = b.log /\ e.db.status = "running"
      BY <2>1, <2>2, <3>1, FlushSound
    <3>4. e.job.tail = b.job.tail /\ e.job.pending = <<>>
      BY <2>8, <3>3 DEF JobRecord
    <3>5. ASSUME ok, Good(s)
          PROVE  /\ Good(e)
                 /\ o.type \notin {"token", "working"} => Has(e.db, o.type)
      <4>1. ok = TRUE
        BY <3>5
      <4>2. /\ Stored(e) /\ e.db.eventCount = Len(b.log)
            /\ \A k \in 1 .. Len(b.job.pending) :
                 b.job.pending[k].type \notin {"token", "working"}
                   => \E r \in e.db.rows : r.ev.type = b.job.pending[k].type
        BY <2>2, <2>5, <3>1, <3>5, <4>1, FlushStores
      <4> HIDE DEF e
      <4>3. o.type \notin {"token", "working"} => Has(e.db, o.type)
        <5>1. Len(s.job.pending) + 1 \in 1 .. Len(b.job.pending)
          BY <2>3
        <5> QED
          BY <2>3, <4>2, <5>1 DEF Has
      <4>4. Whole(e)
        <5>1. Len(e.log) = e.db.eventCount /\ Len(e.log) \in Nat /\ Len(e.job.pending) = 0
          BY <2>8, <3>3, <3>4, <4>2
        <5>2. Len(e.log) - e.db.eventCount < FlushMax
          BY <2>6, <5>1
        <5>3. e.db.eventCount + Len(e.job.pending) = Len(e.log)
          BY <5>1
        <5> QED
          BY <4>2, <5>2, <5>3 DEF Whole
      <4>5. ASSUME NEW k \in 1 .. Len(e.job.tail), e.job.tail[k].type = "done"
            PROVE  Has(e.db, "done")
        <5>1. CASE e.job.tail[k] = o
          BY <4>3, <4>5, <5>1
        <5>2. CASE \E i \in 1 .. Len(s.job.tail) : e.job.tail[k] = s.job.tail[i]
          BY <3>2, <3>5, <4>5, <5>2 DEF Good, Grows, LiveTypes
        <5> QED
          BY <2>4, <3>4, <4>5, <5>1, <5>2
      <4> QED
        BY <4>3, <4>4, <4>5 DEF Good
    <3>6. /\ ok /\ Good(s) => Good(e)
          /\ ok /\ Good(s) /\ o.type \notin {"token", "working"} => Has(e.db, o.type)
      BY <3>5
    <3> HIDE DEF e
    <3> QED
      BY <3>2, <3>6 DEF e
  <2>10. CASE o.type \in {"token", "working"} /\ Len(b.job.pending) < FlushMax
    <3>1. e = b
      BY <2>6, <2>7, <2>8, <2>10
    <3>2. Tidy(b)
      <4>1. ASSUME NEW k \in 1 .. Len(b.job.pending)
            PROVE  b.job.pending[k].type \in {"token", "working"}
        <5>1. k = Len(s.job.pending) + 1 \/ k \in 1 .. Len(s.job.pending)
          BY <2>3
        <5> QED
          BY <2>3, <2>10, <5>1 DEF Tidy
      <4> QED
        BY <2>2, <4>1 DEF Tidy
    <3>3. ASSUME Good(s)
          PROVE  Good(b)
      <4>1. Len(b.log) - b.db.eventCount < FlushMax
        <5>1. b.db.eventCount + Len(b.job.pending) = Len(b.log)
          BY <2>5, <3>3
        <5> QED
          BY <2>6, <2>8, <2>10, <5>1
      <4>2. Whole(b)
        BY <2>5, <3>3, <4>1 DEF Whole
      <4>3. \A k \in 1 .. Len(b.job.tail) : b.job.tail[k].type = "done" => Has(b.db, "done")
        BY <2>2, <2>4, <2>10, <3>3 DEF Good
      <4> QED
        BY <4>2, <4>3 DEF Good
    <3>4. Grows(s.db, b.db)
      BY <2>2 DEF Grows
    <3> QED
      BY <2>10, <3>1, <3>2, <3>3, <3>4
  <2>11. \/ o.type \notin {"token", "working"} \/ Len(b.job.pending) >= FlushMax
         \/ o.type \in {"token", "working"} /\ Len(b.job.pending) < FlushMax
    BY <2>6, <2>8
  <2> QED
    BY <2>9, <2>10, <2>11
<1> QED
  BY <1>1, <1>2 DEF SInv

(* finishJob likewise: the last window goes to the store before the record is sealed. *)
LEMMA FinishGood ==
  ASSUME NEW s, SInv(s), Tidy(s), NEW ok \in BOOLEAN, NEW okStatus \in BOOLEAN
  PROVE  /\ Tidy(finishJob(s, ok, okStatus)) /\ Grows(s.db, finishJob(s, ok, okStatus).db)
         /\ ok /\ Good(s) => Good(finishJob(s, ok, okStatus))
<1>1. CASE s.job.done
  <2>1. finishJob(s, ok, okStatus) = s
    BY <1>1 DEF finishJob
  <2> QED
    BY <2>1 DEF Grows
<1>2. CASE ~s.job.done
  <2> DEFINE t == [s EXCEPT !.job.done = TRUE]
             f == flushJob(t, ok)
             d == finish(f.db, FinalStatus(f.job), okStatus)
             g == finishJob(s, ok, okStatus)
  <2>1. /\ s \in ServerStates /\ s.job \in JobRecord /\ Sound(s) /\ Counted(s) /\ s.job.inRam
        /\ s.db.status = "running" /\ s = [log |-> s.log, job |-> s.job, db |-> s.db]
    BY <1>2 DEF SInv, Sound, ServerStates
  <2>2. t.log = s.log /\ t.db = s.db /\ t.job = [s.job EXCEPT !.done = TRUE]
    <3>1. t = [s EXCEPT !.job = [s.job EXCEPT !.done = TRUE]]
      BY Zenon
    <3> HIDE DEF t
    <3> QED
      BY <2>1, <3>1 DEF ServerStates
  <2>3. /\ t.job \in JobRecord /\ t.job.pending = s.job.pending /\ t.job.tail = s.job.tail
        /\ t.job.eventCount = s.job.eventCount /\ t.job.inRam = s.job.inRam
    BY <2>1, <2>2 DEF JobRecord
  <2>4. t = [log |-> t.log, job |-> t.job, db |-> t.db]
    <3>1. t = [s EXCEPT !.job = [s.job EXCEPT !.done = TRUE]]
      BY Zenon
    <3> HIDE DEF t
    <3> QED
      BY <2>1, <2>2, <3>1 DEF ServerStates
  <2> HIDE DEF t
  <2>5. Sound(t) /\ Counted(t)
    <3>1. Sound(t)
      BY <2>1, <2>2, <2>3, <2>4 DEF Sound, ServerStates
    <3>2. Counted(t)
      BY <2>1, <2>2, <2>3 DEF Counted
    <3> QED
      BY <3>1, <3>2
  <2>6. Tidy(f) /\ Grows(s.db, f.db)
    BY <2>2, <2>5, FlushTidy DEF Tidy
  <2>7. /\ f.log = s.log /\ f.job = [t.job EXCEPT !.pending = <<>>] /\ f.db.status = "running"
    <3>1. f.log = t.log /\ f.job = [t.job EXCEPT !.pending = <<>>] /\ f.db.status = t.db.status
      BY <2>5, FlushSound
    <3> HIDE DEF f
    <3> QED
      BY <2>1, <2>2, <3>1
  <2>8. f.job.tail = s.job.tail /\ f.job.pending = <<>>
    BY <2>3, <2>7 DEF JobRecord
  <2>9. Sound(f)
    BY <2>5, FlushSound
  <2>10. /\ f.db \in Store /\ f = [log |-> f.log, job |-> f.job, db |-> f.db]
    BY <2>9 DEF Sound, ServerStates
  <2>11. g = [f EXCEPT !.db = d]
    BY <1>2 DEF finishJob, t
  <2>12. ok /\ Good(s) => Stored(f) /\ f.db.eventCount = Len(s.log)
    <3>1. SUFFICES ASSUME ok, Good(s)
                   PROVE  Stored(f) /\ f.db.eventCount = Len(s.log)
      OBVIOUS
    <3>2. Stored(t) /\ t.db.eventCount + Len(t.job.pending) = Len(t.log)
      BY <2>1, <2>2, <2>3, <3>1 DEF Good, Whole, Stored
    <3>3. ok = TRUE
      BY <3>1
    <3> QED
      BY <2>2, <2>5, <3>2, <3>3, FlushStores
  <2> HIDE DEF f
  <2>13. /\ d.rows = f.db.rows /\ d.eventCount = f.db.eventCount /\ d.status # "gone"
    BY <2>7, <2>10 DEF finish, FinalStatus, Store, Statuses
  <2> HIDE DEF d
  <2>14. g.log = f.log /\ g.job = f.job /\ g.db = d
    BY <2>10, <2>11
  <2> HIDE DEF g
  <2>15. Tidy(g)
    BY <2>6, <2>13, <2>14 DEF Tidy
  <2>16. Grows(s.db, g.db)
    <3>1. Grows(f.db, g.db)
      BY <2>7, <2>13, <2>14, RowsGrow
    <3> QED
      BY <2>6, <3>1 DEF Grows
  <2>17. ASSUME ok, Good(s)
         PROVE  Good(g)
    <3>1. Stored(g) /\ g.db.eventCount = Len(g.log) /\ Len(g.job.pending) = 0
      BY <2>7, <2>8, <2>12, <2>13, <2>14, <2>17 DEF Stored
    <3>2. Len(g.log) \in Nat /\ FlushMax \in Nat \ {0}
      BY <2>1, <2>7, <2>14, SoundParts, ChatJobConstants
    <3>3. Whole(g)
      <4>1. Len(g.log) - g.db.eventCount < FlushMax /\ g.db.eventCount + Len(g.job.pending) = Len(g.log)
        BY <3>1, <3>2
      <4> QED
        BY <3>1, <4>1 DEF Whole
    <3>4. \A k \in 1 .. Len(g.job.tail) : g.job.tail[k].type = "done" => Has(g.db, "done")
      BY <2>8, <2>14, <2>16, <2>17 DEF Good, Grows, LiveTypes
    <3> QED
      BY <3>3, <3>4 DEF Good
  <2> QED
    BY <2>15, <2>16, <2>17 DEF g
<1> QED
  BY <1>1, <1>2 DEF SInv

-----------------------------------------------------------------------------
(* The text of a replay. *)

(* f holds the text of the first i events of e, for every i up to n. *)
IsText(f, e, n) ==
  f = [i \in 0 .. n |->
         IF i = 0 THEN <<>>
         ELSE IF e[i].type = "token" THEN f[i - 1] \o e[i].data
         ELSE f[i - 1]]

(* The first number of an interval that has a property has none before it. *)
LEMMA HasLowest ==
  ASSUME NEW n \in Nat, NEW S \in SUBSET (0 .. n), S # {}
  PROVE  \E x \in S : \A y \in S : x <= y
<1> DEFINE f == [x \in S |-> -x]
<1>1. IsFiniteSet(S)
  <2>1. IsFiniteSet(0 .. n)
    BY FS_Interval
  <2> QED
    BY <2>1, FS_Subset
<1>2. f \in [S -> Int] /\ \A x \in S : x \in Int /\ f[x] = -x
  OBVIOUS
<1>3. PICK x \in S : \A y \in S : f[y] <= f[x]
  BY <1>1, <1>2, HasHighest
<1> HIDE DEF f
<1>4. ASSUME NEW y \in S PROVE x <= y
  <2>1. x \in Int /\ y \in Int /\ -y <= -x
    BY <1>2, <1>3
  <2> QED
    BY <2>1
<1> QED
  BY <1>4

(* Such a function exists for every list of events. *)
LEMMA TextExists ==
  ASSUME NEW e, NEW n \in Nat
  PROVE  \E f : IsText(f, e, n)
<1> DEFINE T == { k \in 0 .. n : ~ \E f : IsText(f, e, k) }
<1>1. SUFFICES ASSUME T # {} PROVE FALSE
  <2>1. n \notin T
    BY <1>1
  <2> QED
    BY <2>1
<1>2. PICK k \in T : \A j \in T : k <= j
  BY <1>1, HasLowest
<1>3. k \in 0 .. n /\ ~ \E f : IsText(f, e, k)
  BY <1>2
<1>4. CASE k = 0
  <2> DEFINE f == [i \in 0 .. 0 |-> <<>>]
  <2>1. IsText(f, e, 0)
    BY DEF IsText
  <2> QED
    BY <1>3, <1>4, <2>1
<1>5. CASE k # 0
  <2>1. k - 1 \in 0 .. n /\ k - 1 \notin T
    BY <1>2, <1>3, <1>5
  <2>2. PICK g : IsText(g, e, k - 1)
    BY <2>1
  <2> DEFINE last == IF e[k].type = "token" THEN g[k - 1] \o e[k].data ELSE g[k - 1]
             f == [i \in 0 .. k |-> IF i = k THEN last ELSE g[i]]
  <2>3. \A i \in 0 .. k - 1 :
          g[i] = IF i = 0 THEN <<>>
                 ELSE IF e[i].type = "token" THEN g[i - 1] \o e[i].data ELSE g[i - 1]
    BY <2>2 DEF IsText
  <2>4. \A i \in 0 .. k - 1 : f[i] = g[i]
    BY <1>3
  <2>5. f[k] = last
    BY <1>3
  <2>6. \A i \in 0 .. k :
          f[i] = IF i = 0 THEN <<>>
                 ELSE IF e[i].type = "token" THEN f[i - 1] \o e[i].data ELSE f[i - 1]
    <3>1. SUFFICES ASSUME NEW i \in 0 .. k
                   PROVE  f[i] = IF i = 0 THEN <<>>
                                 ELSE IF e[i].type = "token" THEN f[i - 1] \o e[i].data
                                 ELSE f[i - 1]
      OBVIOUS
    <3>2. CASE i = k
      <4>1. f[k - 1] = g[k - 1]
        BY <1>3, <1>5, <2>4
      <4> HIDE DEF f
      <4> QED
        BY <1>5, <2>5, <3>2, <4>1
    <3>3. CASE i = 0
      BY <1>3, <1>5, <2>3, <2>4, <3>3
    <3>4. CASE i \in 1 .. k - 1
      <4>1. i - 1 \in 0 .. k - 1 /\ i \in 0 .. k - 1 /\ i # 0
        BY <1>3, <3>4
      <4>2. f[i] = g[i] /\ f[i - 1] = g[i - 1]
        BY <2>4, <4>1
      <4>3. g[i] = IF e[i].type = "token" THEN g[i - 1] \o e[i].data ELSE g[i - 1]
        BY <2>3, <4>1
      <4> HIDE DEF f
      <4> QED
        BY <4>1, <4>2, <4>3
    <3> QED
      BY <1>3, <3>2, <3>3, <3>4
  <2>7. DOMAIN f = 0 .. k /\ f = [i \in 0 .. k |-> f[i]]
    OBVIOUS
  <2> HIDE DEF f
  <2>8. IsText(f, e, k)
    BY <2>6, <2>7 DEF IsText
  <2> QED
    BY <1>3, <2>8
<1> QED
  BY <1>4, <1>5

(* The text of a list of events is a sequence of positions. *)
LEMMA TextType ==
  ASSUME NEW e \in Seq(Event)
  PROVE  TextOf(e) \in Seq(Nat)
<1> DEFINE n == Len(e)
           f == CHOOSE g : IsText(g, e, n)
<1>1. n \in Nat
  OBVIOUS
<1>2. TextOf(e) = f[n]
  BY DEF TextOf, TextUpTo, IsText
<1>3. IsText(f, e, n)
  BY <1>1, TextExists
<1>4. \A i \in 0 .. n :
        f[i] = IF i = 0 THEN <<>>
               ELSE IF e[i].type = "token" THEN f[i - 1] \o e[i].data ELSE f[i - 1]
  <2> HIDE DEF f, n
  <2> QED
    BY <1>3 DEF IsText
<1> HIDE DEF f
<1> DEFINE T == { i \in 0 .. n : f[i] \notin Seq(Nat) }
<1>5. SUFFICES ASSUME T # {} PROVE FALSE
  BY <1>1, <1>2, <1>5
<1>6. PICK i \in T : \A j \in T : i <= j
  BY <1>1, <1>5, HasLowest
<1>7. i \in 0 .. n /\ f[i] \notin Seq(Nat)
  BY <1>6
<1>8. i # 0
  <2>1. f[0] = <<>> /\ <<>> \in Seq(Nat)
    BY <1>1, <1>4
  <2> QED
    BY <1>7, <2>1
<1>9. f[i - 1] \in Seq(Nat) /\ i \in 1 .. n
  <2>1. i - 1 \in 0 .. n /\ i - 1 \notin T /\ i \in 1 .. n
    BY <1>1, <1>6, <1>7, <1>8
  <2> QED
    BY <2>1
<1>10. e[i].data \in Seq(Nat)
  <2>1. e[i] \in Event
    BY <1>9
  <2> QED
    BY <2>1 DEF Event
<1>11. f[i] = f[i - 1] \o e[i].data \/ f[i] = f[i - 1]
  BY <1>4, <1>7, <1>8
<1>12. f[i - 1] \o e[i].data \in Seq(Nat)
  BY <1>9, <1>10
<1> QED
  BY <1>7, <1>9, <1>11, <1>12

-----------------------------------------------------------------------------
(* What may be on the wire: a cursor names its position, and a done is owed to the record. *)

Fit(f, owed) ==
  /\ f \in Frame
  /\ f.type = "cursor" => Len(f.data) = 1
  /\ f.type = "done" => owed

FitSeq(q, owed) == q \in Seq(Frame) /\ \A i \in 1 .. Len(q) : Fit(q[i], owed)

(* Fitting frames stay so when they are joined, cut short or read. *)
LEMMA FitJoin ==
  ASSUME NEW a, NEW b, NEW owed, FitSeq(a, owed), FitSeq(b, owed)
  PROVE  FitSeq(a \o b, owed)
<1>1. a \in Seq(Frame) /\ b \in Seq(Frame) /\ Len(a) \in Nat /\ Len(b) \in Nat
  BY DEF FitSeq
<1>2. a \o b \in Seq(Frame) /\ Len(a \o b) = Len(a) + Len(b)
  BY <1>1
<1>3. ASSUME NEW i \in 1 .. Len(a \o b)
      PROVE  Fit((a \o b)[i], owed)
  <2>1. CASE i <= Len(a)
    <3>1. (a \o b)[i] = a[i] /\ i \in 1 .. Len(a)
      BY <1>1, <1>2, <2>1
    <3> QED
      BY <3>1 DEF FitSeq
  <2>2. CASE i > Len(a)
    <3>1. (a \o b)[i] = b[i - Len(a)] /\ i - Len(a) \in 1 .. Len(b)
      BY <1>1, <1>2, <2>2
    <3> QED
      BY <3>1 DEF FitSeq
  <2> QED
    BY <1>1, <1>2, <2>1, <2>2
<1> QED
  BY <1>2, <1>3 DEF FitSeq

(* A part of a fitting sequence of frames is fitting. *)
LEMMA FitPart ==
  ASSUME NEW q, NEW owed, FitSeq(q, owed), NEW m \in Nat \ {0}, NEW n \in Nat, n <= Len(q)
  PROVE  FitSeq(SubSeq(q, m, n), owed)
<1> DEFINE s == SubSeq(q, m, n)
<1>1. q \in Seq(Frame) /\ Len(q) \in Nat /\ \A i \in 1 .. Len(q) : Fit(q[i], owed)
  BY DEF FitSeq
<1>2. /\ s = [i \in 1 .. n - m + 1 |-> q[i + m - 1]]
      /\ \A i \in 1 .. n - m + 1 : i + m - 1 \in 1 .. Len(q)
  BY <1>1
<1>3. s \in Seq(Frame) /\ DOMAIN s = 1 .. Len(s) /\ DOMAIN s = 1 .. n - m + 1
  <2>1. \A i \in 1 .. n - m + 1 : q[i + m - 1] \in Frame
    BY <1>1, <1>2
  <2>2. s \in Seq(Frame)
    <3>1. CASE m > n
      <4>1. 1 .. n - m + 1 = {}
        BY <3>1
      <4> QED
        BY <1>2, <4>1
    <3>2. CASE m <= n
      <4>1. n - m + 1 \in Nat
        BY <3>2
      <4> QED
        BY <1>2, <2>1, <4>1
    <3> QED
      BY <3>1, <3>2
  <2>3. DOMAIN s = 1 .. n - m + 1
    BY <1>2
  <2> HIDE DEF s
  <2> QED
    BY <2>2, <2>3
<1> HIDE DEF s
<1>4. \A i \in 1 .. Len(s) : s[i] = q[i + m - 1] /\ i + m - 1 \in 1 .. Len(q)
  BY <1>2, <1>3
<1> QED
  BY <1>1, <1>3, <1>4 DEF FitSeq, s

(* One frame that is neither a cursor nor a done always fits. *)
LEMMA FitOne ==
  ASSUME NEW f, NEW owed, Fit(f, owed)
  PROVE  FitSeq(<<f>>, owed)
BY DEF FitSeq, Fit

(* The empty stream fits, and so does what waited for a promise that is kept. *)
LEMMA FitEmpty ==
  ASSUME NEW owed
  PROVE  FitSeq(<<>>, owed)
BY DEF FitSeq

(* A record only comes to owe less. *)
LEMMA FitLater ==
  ASSUME NEW q, NEW owed, NEW later, owed => later, FitSeq(q, owed)
  PROVE  FitSeq(q, later)
BY DEF FitSeq, Fit

(* The frames of a tick fit, a done only with its promise. *)
LEMMA FitEvents ==
  ASSUME NEW owed
  PROVE  /\ \A e \in Event : e.type # "done" => Fit(e, owed)
         /\ \A e \in Event : owed => Fit(e, owed)
         /\ \A t \in {"reset", "gone"} : Fit(Plain(t), owed)
         /\ \A n \in Nat : Fit(Cursor(n), owed)
<1>1. \A e \in Event : e \in Frame /\ e.type # "cursor"
  BY DEF Event, Frame, LiveTypes, FrameTypes
<1>2. ASSUME NEW t \in {"reset", "gone"} PROVE Fit(Plain(t), owed)
  <2>1. <<>> \in Seq(Nat)
    OBVIOUS
  <2> QED
    BY <2>1 DEF Fit, Plain, Frame, FrameTypes
<1>3. ASSUME NEW n \in Nat PROVE Fit(Cursor(n), owed)
  <2>1. <<n>> \in Seq(Nat) /\ Len(<<n>>) = 1
    OBVIOUS
  <2> QED
    BY <2>1 DEF Fit, Cursor, Frame, FrameTypes
<1> QED
  BY <1>1, <1>2, <1>3 DEF Fit

-----------------------------------------------------------------------------
(* The invariant of the whole turn. *)

(* The record shows the end the reader saw, or the stop a drain wrote in its place. *)
Told == Has(db, "done") \/ (used.drains > 0 /\ Has(db, "stopped"))
Owed == used.fails > 0 \/ Told

(* A job is sealed under its handler only by a drain, which wrote a stop. *)
DrainSealed ==
  job.done /\ turn \in {"start", "running"} => used.drains > 0 /\ Has(db, "stopped")

WInv ==
  /\ TypeOK /\ Tidy(ServerState)
  /\ server = "down" => ~job.inRam
  /\ FitSeq(net, Owed)
  /\ client.done => Owed
  /\ used.fails = 0 => Good(ServerState) /\ DrainSealed

(* What every step does on the server's side. *)
ServerKept ==
  /\ Tidy(ServerState') /\ Grows(db, db')
  /\ used' \in Bounds /\ used'.drains >= used.drains /\ (used'.fails = 0 => used.fails = 0)
  /\ turn' \in {"start", "running", "closing", "over"}
  /\ server' \in {"up", "draining", "down"} /\ (server' = "down" => ~job'.inRam)
  /\ used'.fails = 0 => Good(ServerState') /\ DrainSealed'

(* What it does on the reader's. *)
ReaderKept ==
  conn' \in Connections /\ FitSeq(net', Owed') /\ client' \in Client /\ (client'.done => Owed')

(* What was owed to the record is still there after a step. *)
LEMMA OwedStays ==
  ASSUME WInv, ServerKept
  PROVE  Owed => Owed'
<1>1. used \in Bounds /\ used' \in Bounds
  BY DEF WInv, TypeOK, ServerKept
<1>2. /\ used.fails \in Nat /\ used'.fails \in Nat /\ used.drains \in Nat /\ used'.drains \in Nat
      /\ used'.drains >= used.drains /\ (used'.fails = 0 => used.fails = 0)
  BY <1>1 DEF Bounds, ServerKept
<1>3. (Has(db, "done") => Has(db', "done")) /\ (Has(db, "stopped") => Has(db', "stopped"))
  BY DEF ServerKept, Grows, LiveTypes
<1>4. Told => Told'
  BY <1>2, <1>3 DEF Told, Has
<1> QED
  BY <1>2, <1>4 DEF Owed

(* The two sides together keep the invariant. *)
LEMMA KeptInv ==
  ASSUME Inv', ServerKept, ReaderKept
  PROVE  WInv'
<1>1. SInv(ServerState')
  BY DEF Inv
<1>2. log' \in Seq(Event) /\ job' \in JobRecord /\ db' \in Store
  BY <1>1 DEF SInv, Sound, ServerStates, ServerState
<1>3. FitSeq(net', Owed') /\ net' \in Seq(Frame)
  BY DEF ReaderKept, FitSeq
<1>4. TypeOK'
  BY <1>2, <1>3 DEF TypeOK, ServerKept, ReaderKept
<1> QED
  BY <1>3, <1>4 DEF WInv, ServerKept, ReaderKept

(* Nothing happened on the server. *)
LEMMA ServerQuiet ==
  ASSUME WInv, UNCHANGED <<log, job, db, turn, server, used>>
  PROVE  ServerKept
<1>1. ServerState' = ServerState /\ db' = db /\ used' = used /\ turn' = turn
      /\ server' = server /\ job' = job
  BY DEF ServerState
<1>2. DrainSealed' = DrainSealed
  BY <1>1 DEF DrainSealed, Has
<1>3. used.drains \in Nat /\ Grows(db, db)
  BY DEF WInv, TypeOK, Bounds, Grows
<1> QED
  BY <1>1, <1>2, <1>3 DEF WInv, ServerKept, TypeOK

(* Nothing happened to the reader, or its socket died. *)
LEMMA ReaderQuiet ==
  ASSUME WInv, ServerKept, client' = client,
         net' = net \/ net' = <<>>, conn' \in Connections
  PROVE  ReaderKept
<1>1. Owed => Owed'
  BY OwedStays
<1>2. FitSeq(net, Owed) /\ client \in Client /\ (client.done => Owed)
  BY DEF WInv, TypeOK
<1>3. FitSeq(net, Owed') /\ FitSeq(<<>>, Owed')
  BY <1>1, <1>2, FitLater, FitEmpty
<1> QED
  BY <1>1, <1>2, <1>3 DEF ReaderKept

(* processEvent keeps the session's type, and reports a done only when it read one. *)
LEMMA ProcessType ==
  ASSUME NEW c \in Client, NEW owed, NEW ev, Fit(ev, owed)
  PROVE  /\ processEvent(c, ev) \in Client
         /\ processEvent(c, ev).done => c.done \/ owed
<1> DEFINE raw == CASE ev.type = "reset" -> <<>>
                    [] ev.type = "token" -> c.raw \o ev.data
                    [] OTHER -> c.raw
           index == CASE ev.type = "job" -> 1
                      [] ev.type = "cursor" -> ev.data[1]
                      [] ev.type = "reset" -> c.eventIndex
                      [] OTHER -> IF c.known THEN c.eventIndex + 1 ELSE c.eventIndex
           p == processEvent(c, ev)
<1>1. /\ ev.data \in Seq(Nat) /\ c.raw \in Seq(Nat) /\ c.eventIndex \in Nat
      /\ c.known \in BOOLEAN /\ c.done \in BOOLEAN /\ c.stopped \in BOOLEAN
      /\ c.gone \in BOOLEAN /\ c.err \in BOOLEAN
  BY DEF Fit, Frame, Client
<1>2. raw \in Seq(Nat)
  <2>1. <<>> \in Seq(Nat) /\ c.raw \o ev.data \in Seq(Nat)
    BY <1>1
  <2> QED
    BY <1>1, <2>1
<1>3. index \in Nat
  <2>1. ev.type = "cursor" => ev.data[1] \in Nat
    BY <1>1 DEF Fit
  <2>2. c.eventIndex + 1 \in Nat
    BY <1>1
  <2>3. (IF c.known THEN c.eventIndex + 1 ELSE c.eventIndex) \in Nat
    BY <1>1, <2>2
  <2> QED
    BY <1>1, <2>1, <2>3
<1> DEFINE k == c.known \/ ev.type = "job"
           d == c.done \/ ev.type = "done"
           s == c.stopped \/ ev.type = "stopped"
           g == c.gone \/ ev.type = "gone"
           x == c.err \/ ev.type = "error"
<1>4. p = [c EXCEPT !.started = TRUE, !.known = k, !.raw = raw, !.done = d, !.stopped = s,
                    !.gone = g, !.err = x, !.eventIndex = index]
  BY DEF processEvent
<1>5. k \in BOOLEAN /\ d \in BOOLEAN /\ s \in BOOLEAN /\ g \in BOOLEAN /\ x \in BOOLEAN
  OBVIOUS
<1> HIDE DEF raw, index, p, k, d, s, g, x
<1>6. p \in Client /\ p.done = d
  <2>1. c.session \in BOOLEAN /\ c.final \in BOOLEAN
    BY DEF Client
  <2>2. p = [known |-> k, session |-> c.session, eventIndex |-> index, raw |-> raw, done |-> d,
             stopped |-> s, gone |-> g, err |-> x, started |-> TRUE, final |-> c.final]
    BY <1>4 DEF Client
  <2>3. p.done = d
    BY <2>2
  <2>4. p \in Client
    BY <1>2, <1>3, <1>5, <2>1, <2>2 DEF Client
  <2> QED
    BY <2>3, <2>4
<1> QED
  BY <1>6 DEF Fit, p, d

(* A fresh session, with its text gone. *)
LEMMA FreshType ==
  ASSUME NEW k \in BOOLEAN
  PROVE  /\ FreshSession(k) \in Client /\ ~FreshSession(k).done /\ FreshSession(k).eventIndex = 0
         /\ [FreshSession(k) EXCEPT !.session = FALSE] \in Client
         /\ ~[FreshSession(k) EXCEPT !.session = FALSE].done
<1>1. <<>> \in Seq(Nat)
  OBVIOUS
<1> QED
  BY <1>1 DEF FreshSession, Client

-----------------------------------------------------------------------------
(* The catch-up of /chat/attach. *)

(* Rows that never overlap have different sequence numbers. *)
LEMMA ApartSorts ==
  ASSUME NEW R, IsFiniteSet(R), R \subseteq Row, \A r, q \in R : r # q => Apart(r, q)
  PROVE  Sortable(R)
<1>1. ASSUME NEW r \in R, NEW q \in R, r # q
      PROVE  r.seq # q.seq
  <2>1. /\ r.seq \in Nat /\ RowEnd(r) \in Nat /\ r.seq < RowEnd(r)
        /\ q.seq \in Nat /\ RowEnd(q) \in Nat /\ q.seq < RowEnd(q)
    BY RowFields
  <2>2. RowEnd(r) <= q.seq \/ RowEnd(q) <= r.seq
    BY <1>1 DEF Apart
  <2> QED
    BY <2>1, <2>2
<1> QED
  BY <1>1 DEF Sortable

(* What a batch of tokens and heartbeats coalesces to: rows of tokens, in any position. *)
LEMMA ChatterRows ==
  ASSUME NEW events \in Seq(Event),
         \A i \in 1 .. Len(events) : events[i].type \in {"token", "working"},
         \A i \in 1 .. Len(events) : events[i].type = "token" => events[i].data[1] \in Nat
  PROVE  /\ Sortable(coalesceEvents(events, 0))
         /\ \A r \in coalesceEvents(events, 0) : r.ev.type = "token"
<1> DEFINE R == coalesceEvents(events, 0)
<1>1. ASSUME NEW r \in R
      PROVE  r \in Row /\ r.ev.type = "token"
  <2>1. PICK run \in TokenRuns(events) : r = RunRow(events, 0, run)
    BY DEF coalesceEvents
  <2>2. /\ run[1] \in 1 .. Len(events) /\ run[2] \in 1 .. Len(events) /\ run[1] <= run[2]
        /\ \A i \in run[1] .. run[2] : events[i].type = "token"
        /\ r.seq = 0 + run[1] - 1 /\ r.span = run[2] - run[1] + 1 /\ r.ev.type = "token"
    <3> DEFINE zero == 0
    <3>1. zero \in Nat /\ r = RunRow(events, zero, run)
      BY <2>1
    <3> HIDE DEF zero
    <3>2. /\ run[1] \in 1 .. Len(events) /\ run[2] \in 1 .. Len(events) /\ run[1] <= run[2]
          /\ \A i \in run[1] .. run[2] : events[i].type = "token"
          /\ r.seq = zero + run[1] - 1 /\ r.span = run[2] - run[1] + 1 /\ r.ev.type = "token"
      BY <3>1, RunRowShape
    <3> QED
      BY <3>2 DEF zero
  <2> DEFINE a == run[1]
             b == run[2]
             d == [k \in 1 .. (b - a + 1) |-> events[a + k - 1].data[1]]
  <2>3. r.ev = [type |-> "token", data |-> d] /\ r = [seq |-> r.seq, span |-> r.span, ev |-> r.ev]
    BY <2>1 DEF RunRow
  <2>4. /\ a \in 1 .. Len(events) /\ b \in 1 .. Len(events) /\ a <= b
        /\ \A i \in a .. b : events[i].type = "token" /\ i \in 1 .. Len(events)
        /\ r.seq = a - 1 /\ r.span = b - a + 1
    BY <2>2
  <2>5. d \in Seq(Nat)
    <3> HIDE DEF a, b
    <3>1. \A k \in 1 .. (b - a + 1) : a + k - 1 \in a .. b
      BY <2>4
    <3>2. \A k \in 1 .. (b - a + 1) : events[a + k - 1].data[1] \in Nat
      BY <2>4, <3>1
    <3>3. b - a + 1 \in Nat
      BY <2>4
    <3> QED
      BY <3>2, <3>3
  <2>6. r.seq \in Nat /\ r.span \in Nat \ {0}
    <3> HIDE DEF a, b, d
    <3> QED
      BY <2>4
  <2> HIDE DEF d
  <2>7. r.ev \in Event
    BY <2>3, <2>5 DEF Event, LiveTypes
  <2> QED
    BY <2>2, <2>3, <2>6, <2>7 DEF Row
<1>2. \A r, q \in R : r # q => Apart(r, q)
  BY CoalescedApart
<1>3. IsFiniteSet(R)
  BY CoalesceFinite
<1> HIDE DEF R
<1>4. Sortable(R)
  BY <1>1, <1>2, <1>3, ApartSorts
<1> QED
  BY <1>1, <1>4 DEF R

(* A sequence of events fits when each of its dones is owed. *)
LEMMA EventsFit ==
  ASSUME NEW q \in Seq(Event), NEW owed, \A i \in 1 .. Len(q) : q[i].type = "done" => owed
  PROVE  FitSeq(q, owed)
<1>1. Event \subseteq Frame
  BY DEF Event, Frame, FrameTypes
<1>2. q \in Seq(Frame)
  BY <1>1
<1>3. ASSUME NEW i \in 1 .. Len(q) PROVE Fit(q[i], owed)
  <2>1. q[i] \in Event
    OBVIOUS
  <2> QED
    BY <2>1, FitEvents
<1> QED
  BY <1>2, <1>3 DEF FitSeq

(* Whatever the mode of the attach, what it writes fits: a done it replays is in the record. *)
LEMMA AttachFits ==
  ASSUME Inv, WInv, NEW from \in Nat
  PROVE  /\ job.inRam => FitSeq(RamReplay(from), Owed)
         /\ FitSeq(DbReplay(from), Owed)
<1>1. /\ SInv(ServerState) /\ ServerState.job = job /\ ServerState.log = log /\ ServerState.db = db
  BY ServerFields DEF Inv
<1>2. /\ log \in Seq(Event) /\ job \in JobRecord /\ db \in Store /\ RowsOK(log, db)
      /\ Positioned(log, 0) /\ used.fails \in Nat /\ IsFiniteSet(db.rows) /\ db.rows \subseteq Row
      /\ job.pending \in Seq(Event) /\ job.tail \in Seq(Event) /\ job.tailStart \in Nat
      /\ job.eventCount \in Nat
  BY <1>1 DEF SInv, Sound, ServerStates, WInv, TypeOK, Bounds, Tidy, Store, JobRecord
<1>3. Sortable(db.rows)
  BY <1>2, ApartSorts DEF RowsOK
<1>4. \A r \in db.rows : r.ev.type = "done" => Owed
  BY DEF Owed, Told, Has
<1>5. ASSUME NEW n \in Nat PROVE FitSeq(EventsOf(replayRows(db.rows, n)), Owed)
  <2> DEFINE e == EventsOf(replayRows(db.rows, n))
  <2>1. e \in Seq(Event) /\ \A i \in 1 .. Len(e) : \E r \in db.rows : e[i] = r.ev
    BY <1>3, ReplayedEvents
  <2> HIDE DEF e
  <2>2. \A i \in 1 .. Len(e) : e[i].type = "done" => Owed
    BY <1>4, <2>1
  <2>3. FitSeq(e, Owed)
    BY <2>1, <2>2, EventsFit
  <2> QED
    BY <2>3 DEF e
<1>6. FitSeq(<<Plain("reset")>>, Owed) /\ FitSeq(<<Cursor(job.eventCount)>>, Owed)
  BY <1>2, FitEvents, FitOne
<1>7. FitSeq(DbReplay(from), Owed)
  <2>1. FitSeq(<<Plain("reset")>> \o EventsOf(replayRows(db.rows, 0)), Owed)
    BY <1>5, <1>6, FitJoin
  <2> QED
    BY <1>5, <2>1 DEF DbReplay
<1>8. ASSUME job.inRam PROVE FitSeq(RamReplay(from), Owed)
  <2>1. CASE from >= job.tailStart
    <3> DEFINE t == job.tail
               m == from - job.tailStart + 1
    <3>1. RamReplay(from) = SubSeq(t, m, Len(t))
      BY <2>1 DEF RamReplay
    <3>2. m \in Nat \ {0} /\ Len(t) \in Nat
      <4>1. job.tailStart \in Nat /\ job.tail \in Seq(Event)
        BY <1>2
      <4>2. Len(t) \in Nat
        BY <4>1
      <4>3. \A k \in Nat : from >= k => from - k + 1 \in Nat \ {0}
        OBVIOUS
      <4> QED
        BY <2>1, <4>1, <4>2, <4>3
    <3>3. \A i \in 1 .. Len(t) : t[i].type = "done" => Owed
      <4>1. CASE used.fails = 0
        BY <1>1, <4>1 DEF WInv, Good, Owed, Told
      <4>2. CASE used.fails # 0
        BY <1>2, <4>2 DEF Owed
      <4> QED
        BY <4>1, <4>2
    <3> HIDE DEF t, m
    <3>4. FitSeq(t, Owed)
      BY <1>2, <3>3, EventsFit DEF t
    <3>5. FitSeq(SubSeq(t, m, Len(t)), Owed)
      BY <3>2, <3>4, FitPart
    <3> QED
      BY <3>1, <3>5
  <2>2. CASE ~(from >= job.tailStart)
    <3> DEFINE c == coalesceEvents(job.pending, 0)
               e == EventsOf(InSeqOrder(c))
    <3>1. \A i \in 1 .. Len(job.pending) : job.pending[i].type \in {"token", "working"}
      BY <1>1 DEF WInv, Tidy
    <3>2. ASSUME NEW i \in 1 .. Len(job.pending), job.pending[i].type = "token"
          PROVE  job.pending[i].data[1] \in Nat
      <4>1. ~job.done
        BY <1>1, <3>2 DEF SInv
      <4> DEFINE k == Len(log) - Len(job.pending) + i
      <4>2. Counted(ServerState)
        BY <1>1, <4>1 DEF SInv
      <4>3. job.pending[i] = log[k] /\ db.eventCount + Len(job.pending) <= Len(log)
        BY <1>1, <4>2 DEF Counted
      <4>4. k \in 1 .. Len(log)
        <5>1. db.eventCount \in Nat /\ Len(job.pending) \in Nat /\ Len(log) \in Nat
          BY <1>2 DEF Store
        <5> QED
          BY <4>3, <5>1
      <4> HIDE DEF k
      <4>5. log[k].data = <<0 + k - 1>>
        BY <1>2, <3>2, <4>3, <4>4 DEF Positioned
      <4> QED
        BY <4>3, <4>4, <4>5
    <3>3. Sortable(c) /\ \A r \in c : r.ev.type = "token"
      BY <1>2, <3>1, <3>2, ChatterRows
    <3> HIDE DEF c
    <3>4. e \in Seq(Event) /\ \A i \in 1 .. Len(e) : \E r \in c : e[i] = r.ev
      BY <3>3, SortedEvents
    <3> HIDE DEF e
    <3>5. \A i \in 1 .. Len(e) : e[i].type = "done" => Owed
      BY <3>3, <3>4
    <3>6. FitSeq(e, Owed)
      BY <3>4, <3>5, EventsFit
    <3> DEFINE x == <<Plain("reset")>>
               y == EventsOf(replayRows(db.rows, 0))
               z == <<Cursor(job.eventCount)>>
    <3>7. FitSeq(x, Owed) /\ FitSeq(y, Owed) /\ FitSeq(z, Owed)
      BY <1>5, <1>6
    <3>8. RamReplay(from) = x \o y \o e \o z
      BY <2>2 DEF RamReplay, e, c
    <3> HIDE DEF x, y, z
    <3>9. FitSeq(x \o y, Owed)
      BY <3>7, FitJoin
    <3>10. FitSeq(x \o y \o e, Owed)
      BY <3>6, <3>9, FitJoin
    <3>11. FitSeq(x \o y \o e \o z, Owed)
      BY <3>7, <3>10, FitJoin
    <3> QED
      BY <3>8, <3>11
  <2> QED
    BY <2>1, <2>2
<1> QED
  BY <1>7, <1>8

(* The reader's own steps: whatever it is shown of the end of a turn, the record shows too. *)
LEMMA ReaderKeeps ==
  ASSUME Inv, WInv, Reader \/ CutSocket \/ Reload
  PROVE  ServerKept /\ ReaderKept
<1>1. UNCHANGED <<log, job, db, turn, server>>
  BY DEF Reader, CutSocket, Reload, readSse, GiveUp, attemptReattach, AdoptRun,
         deliverResult, finalizeSession
<1>2. /\ client \in Client /\ net \in Seq(Frame) /\ conn \in Connections /\ used \in Bounds
      /\ FitSeq(net, Owed) /\ (client.done => Owed) /\ client.known \in BOOLEAN
      /\ db \in Store /\ db.eventCount \in Nat
  BY DEF WInv, TypeOK, Client, Store
<1>3. CASE CutSocket \/ Reload
  <2>1. /\ used' \in Bounds /\ used'.fails = used.fails /\ used'.drains = used.drains
        /\ used.drains \in Nat
    BY <1>2, <1>3 DEF CutSocket, Reload, Bounds
  <2>2. ServerKept
    <3>1. ServerState' = ServerState
      BY <1>1 DEF ServerState
    <3>2. DrainSealed' = DrainSealed
      BY <1>1, <2>1 DEF DrainSealed, Has
    <3>3. Grows(db, db)
      BY DEF Grows
    <3> QED
      BY <1>1, <2>1, <3>1, <3>2, <3>3 DEF WInv, ServerKept, TypeOK
  <2>3. Owed' = Owed
    BY <1>1, <2>1 DEF Owed, Told, Has
  <2>4. net' = <<>> /\ conn' = "none" /\ FitSeq(<<>>, Owed')
    BY <1>3, FitEmpty DEF CutSocket, Reload
  <2>5. client' \in Client /\ (client'.done => Owed')
    <3>1. CASE client' = client
      BY <1>2, <2>3, <3>1
    <3>2. CASE client' = [FreshSession(client.known) EXCEPT !.session = FALSE]
      BY <1>2, <3>2, FreshType
    <3> QED
      BY <1>3, <3>1, <3>2 DEF CutSocket, Reload
  <2> QED
    BY <2>2, <2>4, <2>5 DEF ReaderKept, Connections
<1>4. CASE Reader
  <2>1. used' = used
    BY <1>4 DEF Reader, readSse, GiveUp, attemptReattach, AdoptRun, deliverResult,
         finalizeSession
  <2>2. ServerKept
    BY <1>1, <2>1, ServerQuiet
  <2>3. Owed' = Owed
    BY <1>1, <2>1 DEF Owed, Told, Has
  <2>4. CASE readSse
    <3>1. net # <<>> /\ client' = processEvent(client, Head(net)) /\ net' = Tail(net) /\ conn' = conn
      BY <2>4 DEF readSse
    <3>2. 1 \in 1 .. Len(net) /\ Head(net) = net[1] /\ Len(net) \in Nat
      BY <1>2, <3>1
    <3>3. Fit(Head(net), Owed)
      BY <1>2, <3>2 DEF FitSeq
    <3>4. client' \in Client /\ (client'.done => client.done \/ Owed)
      BY <1>2, <3>1, <3>3, ProcessType
    <3>5. FitSeq(Tail(net), Owed)
      <4>1. Tail(net) = SubSeq(net, 2, Len(net))
        BY <1>2, <3>1
      <4>2. FitSeq(SubSeq(net, 2, Len(net)), Owed)
        BY <1>2, <3>2, FitPart
      <4> QED
        BY <4>1, <4>2
    <3> QED
      BY <1>2, <2>2, <2>3, <3>1, <3>4, <3>5 DEF ReaderKept
  <2>5. CASE attemptReattach
    <3>1. /\ client' = IF client.session THEN [client EXCEPT !.started = FALSE]
                       ELSE FreshSession(TRUE)
          /\ handleChatAttach(client'.eventIndex)
      BY <2>5 DEF attemptReattach
    <3>2. client' \in Client /\ client'.eventIndex \in Nat /\ (client'.done => Owed)
      <4>1. CASE client.session
        <5>1. client' = [client EXCEPT !.started = FALSE]
          BY <3>1, <4>1
        <5>2. client' \in Client /\ client'.done = client.done /\ client'.eventIndex \in Nat
          BY <1>2, <5>1 DEF Client
        <5> QED
          BY <1>2, <5>2
      <4>2. CASE ~client.session
        <5>1. client' = FreshSession(TRUE)
          BY <3>1, <4>2
        <5> DEFINE yes == TRUE
                   x == FreshSession(yes)
        <5>2. yes \in BOOLEAN /\ client' = x
          BY <5>1
        <5> HIDE DEF yes
        <5>3. x \in Client /\ ~x.done /\ x.eventIndex = 0
          BY <5>2, FreshType
        <5> QED
          BY <5>2, <5>3
      <4> QED
        BY <4>1, <4>2
    <3> DEFINE from == client'.eventIndex
    <3>3. /\ net' = IF job.inRam THEN RamReplay(from)
                    ELSE IF db.status = "gone" THEN <<Plain("gone")>>
                    ELSE Append(DbReplay(from), Cursor(db.eventCount))
          /\ conn' \in Connections
      BY <3>1 DEF handleChatAttach, Connections
    <3>4. (job.inRam => FitSeq(RamReplay(from), Owed)) /\ FitSeq(DbReplay(from), Owed)
      BY <3>2, AttachFits
    <3> HIDE DEF from
    <3>5. FitSeq(<<Plain("gone")>>, Owed) /\ FitSeq(<<Cursor(db.eventCount)>>, Owed)
      BY <1>2, FitEvents, FitOne
    <3>6. FitSeq(Append(DbReplay(from), Cursor(db.eventCount)), Owed)
      <4>1. DbReplay(from) \in Seq(Frame)
        BY <3>4 DEF FitSeq
      <4>2. Cursor(db.eventCount) \in Frame
        BY <1>2, FitEvents DEF Fit
      <4>3. Append(DbReplay(from), Cursor(db.eventCount))
              = DbReplay(from) \o <<Cursor(db.eventCount)>>
        BY <4>1, <4>2
      <4> QED
        BY <3>4, <3>5, <4>3, FitJoin
    <3>7. FitSeq(net', Owed)
      BY <3>3, <3>4, <3>5, <3>6
    <3> QED
      BY <2>2, <2>3, <3>2, <3>3, <3>7 DEF ReaderKept
  <2>6. CASE GiveUp \/ AdoptRun \/ deliverResult \/ finalizeSession
    <3>1. net' = net /\ conn' = conn
      BY <2>6 DEF GiveUp, AdoptRun, deliverResult, finalizeSession
    <3>2. client' \in Client /\ (client'.done => Owed)
      <4>1. CASE GiveUp
        <5>1. client' = [FreshSession(FALSE) EXCEPT !.session = FALSE]
          BY <4>1 DEF GiveUp
        <5> QED
          BY <5>1, FreshType
      <4>2. CASE AdoptRun
        <5>1. client' = [client EXCEPT !.known = TRUE]
          BY <4>2 DEF AdoptRun
        <5>2. client' \in Client /\ client'.done = client.done
          BY <1>2, <5>1 DEF Client
        <5> QED
          BY <1>2, <5>2
      <4>3. CASE deliverResult
        <5> DEFINE x == TextOf(EventsOf(replayRows(db.rows, 0)))
        <5>1. client' = [client EXCEPT !.raw = x, !.final = TRUE]
          BY <4>3 DEF deliverResult
        <5>2. SInv(ServerState) /\ ServerState.db = db
          BY ServerFields DEF Inv
        <5>3. IsFiniteSet(db.rows) /\ db.rows \subseteq Row /\ RowsOK(ServerState.log, db)
          BY <5>2, SoundParts DEF SInv, Sound, WInv, Tidy
        <5>4. Sortable(db.rows)
          BY <5>3, ApartSorts DEF RowsOK
        <5>5. x \in Seq(Nat)
          BY <5>4, ReplayedEvents, TextType
        <5> HIDE DEF x
        <5>6. client' \in Client /\ client'.done = client.done
          BY <1>2, <5>1, <5>5 DEF Client
        <5> QED
          BY <1>2, <5>6
      <4>4. CASE finalizeSession
        <5>1. client' = [client EXCEPT !.final = TRUE]
          BY <4>4 DEF finalizeSession
        <5>2. client' \in Client /\ client'.done = client.done
          BY <1>2, <5>1 DEF Client
        <5> QED
          BY <1>2, <5>2
      <4> QED
        BY <2>6, <4>1, <4>2, <4>3, <4>4
    <3> QED
      BY <1>2, <2>2, <2>3, <3>1, <3>2 DEF ReaderKept
  <2> QED
    BY <1>4, <2>4, <2>5, <2>6 DEF Reader
<1> QED
  BY <1>3, <1>4

-----------------------------------------------------------------------------
(* The server's steps. *)

(* A tick that commits x is as good as x. *)
LEMMA TickKeeps ==
  ASSUME WInv, NEW x, SInv(x), Tidy(x), Grows(db, x.db), Commit(x),
         used' \in Bounds, used'.drains >= used.drains,
         used'.fails = 0 => used.fails = 0 /\ Good(x) /\ DrainSealed',
         turn' \in {"start", "running", "closing", "over"}, server' \in {"up", "draining"}
  PROVE  ServerKept
<1>1. x = [log |-> log', job |-> job', db |-> db'] /\ db' = x.db
  BY DEF SInv, Sound, ServerStates, Commit
<1>2. ServerState' = x
  BY <1>1 DEF ServerState
<1> QED
  BY <1>1, <1>2 DEF ServerKept

(* A refused write is counted. *)
LEMMA OutcomeFacts ==
  ASSUME WInv, NEW ok \in BOOLEAN, StoreOutcome(ok)
  PROVE  /\ used' \in Bounds /\ used'.drains = used.drains /\ used'.drains >= used.drains
         /\ used'.fails = 0 => used.fails = 0 /\ ok
<1>1. used \in Bounds /\ used.fails \in Nat /\ used.drains \in Nat
  BY DEF WInv, TypeOK, Bounds
<1>2. CASE ok
  BY <1>1, <1>2 DEF StoreOutcome
<1>3. CASE ~ok
  <2>1. used' = [used EXCEPT !.fails = @ + 1]
    BY <1>3 DEF StoreOutcome
  <2>2. used' \in Bounds /\ used'.fails = used.fails + 1 /\ used'.drains = used.drains
    BY <1>1, <2>1 DEF Bounds
  <2> QED
    BY <1>1, <2>2
<1> QED
  BY <1>2, <1>3

(* The frames of a tick reach the reader, or not. *)
LEMMA StreamKeeps ==
  ASSUME WInv, ServerKept, NEW events, NEW end, Stream(events, end), FitSeq(events, Owed'),
         client' = client
  PROVE  ReaderKept
<1>1. Owed => Owed'
  BY OwedStays
<1>2. FitSeq(net, Owed) /\ client \in Client /\ (client.done => Owed) /\ conn \in Connections
  BY DEF WInv, TypeOK
<1>3. FitSeq(net, Owed')
  BY <1>1, <1>2, FitLater
<1>4. FitSeq(net \o events, Owed')
  BY <1>3, FitJoin
<1> QED
  BY <1>1, <1>2, <1>3, <1>4 DEF Stream, ReaderKept, Connections

(* EmitGood for a structural event. *)
LEMMA EmitPlainGood ==
  ASSUME NEW x, SInv(x), Tidy(x), NEW t \in LiveTypes \ {"token"}, NEW ok \in BOOLEAN
  PROVE  /\ Tidy(jobEmit(x, Plain(t), ok)) /\ Grows(x.db, jobEmit(x, Plain(t), ok).db)
         /\ ok /\ Good(x) => Good(jobEmit(x, Plain(t), ok))
         /\ ok /\ Good(x) /\ ~x.job.done /\ t # "working" => Has(jobEmit(x, Plain(t), ok).db, t)
<1>1. Plain(t) \in Event /\ Plain(t).type # "token"
  BY PlainEvents
<1>2. Plain(t).type = t
  BY DEF Plain
<1> HIDE DEF Plain
<1> QED
  BY <1>1, <1>2, EmitGood

(* One structural event of a job that is not sealed. *)
LEMMA PlainTick ==
  ASSUME NEW x, SInv(x), Tidy(x), ~x.job.done, NEW t \in LiveTypes \ {"token", "working"},
         NEW ok \in BOOLEAN, NEW y, y = jobEmit(x, Plain(t), ok)
  PROVE  /\ SInv(y) /\ ~y.job.done /\ Tidy(y) /\ Grows(x.db, y.db)
         /\ ok /\ Good(x) => Good(y) /\ Has(y.db, t)
<1>1. t \in LiveTypes \ {"token"} /\ t # "working"
  OBVIOUS
<1>2. SInv(y) /\ y.job.done = x.job.done
  BY <1>1, EmitPlain
<1>3. Tidy(y) /\ Grows(x.db, y.db)
  BY <1>1, EmitPlainGood
<1>4. ok /\ Good(x) => Good(y) /\ Has(y.db, t)
  BY <1>1, EmitPlainGood
<1> QED
  BY <1>2, <1>3, <1>4

(* A frame written behind others, and three at once. *)
LEMMA FitMore ==
  ASSUME NEW owed, NEW f, Fit(f, owed)
  PROVE  /\ \A q : FitSeq(q, owed) => FitSeq(Append(q, f), owed)
         /\ \A g, h : Fit(g, owed) /\ Fit(h, owed) => FitSeq(<<f, g, h>>, owed)
<1>1. ASSUME NEW q, FitSeq(q, owed) PROVE FitSeq(Append(q, f), owed)
  <2>1. q \in Seq(Frame) /\ f \in Frame /\ Len(q) \in Nat
    BY <1>1 DEF FitSeq, Fit
  <2>2. /\ Append(q, f) \in Seq(Frame) /\ Len(Append(q, f)) = Len(q) + 1
        /\ Append(q, f)[Len(q) + 1] = f
        /\ \A i \in 1 .. Len(q) : Append(q, f)[i] = q[i]
    BY <2>1
  <2>3. \A i \in 1 .. Len(q) + 1 : i \in 1 .. Len(q) \/ i = Len(q) + 1
    BY <2>1
  <2> QED
    BY <1>1, <2>2, <2>3 DEF FitSeq
<1>2. ASSUME NEW g, NEW h, Fit(g, owed), Fit(h, owed) PROVE FitSeq(<<f, g, h>>, owed)
  <2>1. f \in Frame /\ g \in Frame /\ h \in Frame
    BY <1>2 DEF Fit
  <2> DEFINE q == <<f, g, h>>
  <2>2. q \in Seq(Frame) /\ Len(q) = 3 /\ q[1] = f /\ q[2] = g /\ q[3] = h
    BY <2>1
  <2> HIDE DEF q
  <2>3. \A i \in 1 .. 3 : i = 1 \/ i = 2 \/ i = 3
    OBVIOUS
  <2>4. FitSeq(q, owed)
    BY <1>2, <2>2, <2>3 DEF FitSeq
  <2> QED
    BY <2>4 DEF q
<1> QED
  BY <1>1, <1>2

(* A structural frame that does not end the turn always fits. *)
LEMMA PlainFits ==
  ASSUME NEW owed, NEW t \in LiveTypes \ {"token", "done"}
  PROVE  Fit(Plain(t), owed) /\ FitSeq(<<Plain(t)>>, owed)
<1>1. Plain(t) \in Event
  BY PlainEvents
<1>2. Plain(t).type = t
  BY DEF Plain
<1>3. Fit(Plain(t), owed)
  BY <1>1, <1>2, FitEvents
<1> QED
  BY <1>3, FitOne

(* A done that leaves the server is in the record, or a drain's stop is in its place. *)
LEMMA DoneOwed ==
  ASSUME WInv, ServerKept, turn = "running",
         used'.fails = 0 /\ ~job.done => Has(db', "done")
  PROVE  Owed' /\ FitSeq(<<Plain("done")>>, Owed')
<1>1. Owed'
  <2>1. used' \in Bounds /\ used'.fails \in Nat /\ used'.drains \in Nat /\ used.drains \in Nat
    BY DEF ServerKept, Bounds, WInv, TypeOK
  <2>2. CASE used'.fails # 0
    BY <2>1, <2>2 DEF Owed
  <2>3. CASE used'.fails = 0 /\ ~job.done
    BY <2>3 DEF Owed, Told
  <2>4. CASE used'.fails = 0 /\ job.done
    <3>1. used.drains > 0 /\ Has(db, "stopped")
      BY <2>4 DEF ServerKept, WInv, DrainSealed
    <3>2. used'.drains > 0 /\ Has(db', "stopped")
      BY <2>1, <3>1 DEF ServerKept, Grows, LiveTypes
    <3> QED
      BY <3>2 DEF Owed, Told
  <2> QED
    BY <2>2, <2>3, <2>4
<1>2. Plain("done") \in Event
  BY PlainEvents DEF LiveTypes
<1> QED
  BY <1>1, <1>2, FitEvents, FitOne

(* The ticks of the /chat handler. *)
LEMMA HandlerKeeps ==
  ASSUME Inv, WInv, NEW ok \in BOOLEAN, NEW okStatus \in BOOLEAN
  PROVE  /\ StartTurn(ok) => ServerKept /\ ReaderKept
         /\ \A type \in {"token", "working", "tool"} : EmitBody(type, ok) => ServerKept /\ ReaderKept
         /\ CompleteTurn(ok, okStatus) => ServerKept /\ ReaderKept
         /\ \A why \in {"aborted", "error", "tool"} : HaltTurn(why, ok) => ServerKept /\ ReaderKept
         /\ SettleEvent(ok) => ServerKept /\ ReaderKept
         /\ EndStream(ok, okStatus) => ServerKept /\ ReaderKept
<1> DEFINE s == ServerState
<1>1. SInv(s) /\ s.job = job /\ s.log = log /\ s.db = db /\ Tidy(s)
  BY ServerFields DEF Inv, WInv
<1>2. used.fails = 0 => Good(s) /\ DrainSealed
  BY DEF WInv
<1> HIDE DEF s
<1>3. \A t \in {"job", "working", "tool", "error", "stopped", "done"} : t \in LiveTypes \ {"token"}
  BY DEF LiveTypes
<1>4. /\ turn \in {"start", "running", "closing", "over"} /\ server \in {"up", "draining", "down"}
      /\ (ok /\ okStatus) \in BOOLEAN
  BY DEF WInv, TypeOK
<1>5. ASSUME StartTurn(ok) PROVE ServerKept /\ ReaderKept
  <2> DEFINE t == "job"
             x == jobEmit(s, Plain(t), ok)
  <2>1. /\ StoreOutcome(ok) /\ Commit(x) /\ server # "down" /\ server' = server
        /\ turn = "start" /\ turn' = "running" /\ client' = client
        /\ Stream(<<Plain(t)>>, FALSE)
    BY <1>5 DEF StartTurn, s
  <2>2. t \in LiveTypes \ {"token", "done"}
    BY DEF LiveTypes
  <2> HIDE DEF t
  <2>3. /\ SInv(x) /\ x.job.done = job.done /\ Tidy(x) /\ Grows(db, x.db)
        /\ ok /\ Good(s) => Good(x)
    BY <1>1, <2>2, EmitPlain, EmitPlainGood
  <2>4. /\ used' \in Bounds /\ used'.drains = used.drains /\ used'.drains >= used.drains
        /\ used'.fails = 0 => used.fails = 0 /\ ok
    BY <2>1, OutcomeFacts
  <2> HIDE DEF x
  <2>5. used'.fails = 0 => DrainSealed'
    <3>1. job' = x.job /\ db' = x.db
      BY <2>1 DEF Commit
    <3> QED
      BY <1>2, <2>1, <2>3, <2>4, <3>1 DEF DrainSealed, Grows, LiveTypes, Has
  <2>6. ServerKept
    BY <1>2, <1>4, <2>1, <2>3, <2>4, <2>5, TickKeeps
  <2>7. FitSeq(<<Plain(t)>>, Owed')
    BY <2>2, PlainFits
  <2> QED
    BY <2>1, <2>6, <2>7, StreamKeeps
<1>6. ASSUME NEW type \in {"token", "working", "tool"}, EmitBody(type, ok)
      PROVE  ServerKept /\ ReaderKept
  <2> DEFINE o == IF type = "token" THEN Token(job.eventCount) ELSE Plain(type)
             x == jobEmit(s, o, ok)
  <2>1. /\ ~job.done /\ Commit(x) /\ server # "down" /\ server' = server /\ turn' = turn
        /\ StoreOutcome(ok) /\ Stream(<<o>>, FALSE) /\ client' = client
    BY <1>6 DEF EmitBody, s
  <2>2. job.eventCount = Len(log) /\ job.eventCount \in Nat
    BY <1>1, <2>1 DEF SInv, Sound, ServerStates, JobRecord, Counted
  <2>3. o \in Event /\ (o.type = "token" => o.data = <<Len(log)>>) /\ o.type # "done"
    <3>1. CASE type = "token"
      <4>1. o = [type |-> "token", data |-> <<job.eventCount>>]
        BY <3>1 DEF Token
      <4>2. <<job.eventCount>> \in Seq(Nat)
        BY <2>2
      <4> HIDE DEF o
      <4> QED
        BY <2>2, <4>1, <4>2 DEF Event, LiveTypes
    <3>2. CASE type # "token"
      <4>1. o = Plain(type) /\ type \in LiveTypes \ {"token"} /\ type # "done"
        BY <1>3, <1>6, <3>2
      <4>2. o.type = type
        BY <4>1 DEF Plain
      <4> HIDE DEF o
      <4> QED
        BY <4>1, <4>2, PlainEvents
    <3> QED
      BY <3>1, <3>2
  <2> HIDE DEF o
  <2>4. /\ SInv(x) /\ x.job.done = job.done /\ Tidy(x) /\ Grows(db, x.db)
        /\ ok /\ Good(s) => Good(x)
    BY <1>1, <2>3, EmitSound, EmitGood
  <2>5. /\ used' \in Bounds /\ used'.drains >= used.drains
        /\ used'.fails = 0 => used.fails = 0 /\ ok
    BY <2>1, OutcomeFacts
  <2> HIDE DEF x
  <2>6. DrainSealed'
    BY <2>1, <2>4 DEF DrainSealed, Commit
  <2>7. ServerKept
    BY <1>2, <1>4, <2>1, <2>4, <2>5, <2>6, TickKeeps
  <2>8. FitSeq(<<o>>, Owed')
    BY <2>3, FitEvents, FitOne
  <2> QED
    BY <2>1, <2>7, <2>8, StreamKeeps
<1>7. ASSUME CompleteTurn(ok, okStatus) PROVE ServerKept /\ ReaderKept
  <2> DEFINE t == "done"
             e == jobEmit(s, Plain(t), ok)
             x == finishJob(e, ok, okStatus)
  <2>1. /\ StoreOutcome(ok /\ okStatus) /\ Commit(x) /\ server # "down" /\ server' = server
        /\ turn = "running" /\ turn' = "over" /\ client' = client
        /\ Stream(<<Plain("done")>>, TRUE)
    BY <1>7 DEF CompleteTurn, s
  <2>2. t \in LiveTypes \ {"token"} /\ t # "working" /\ t = "done"
    BY DEF LiveTypes
  <2> HIDE DEF t
  <2>3. /\ SInv(e) /\ Tidy(e) /\ Grows(db, e.db)
        /\ ok /\ Good(s) => Good(e)
        /\ ok /\ Good(s) /\ ~job.done => Has(e.db, t)
    BY <1>1, <2>2, EmitPlain, EmitPlainGood
  <2> HIDE DEF e
  <2>4. /\ SInv(x) /\ Tidy(x) /\ Grows(e.db, x.db)
        /\ ok /\ Good(e) => Good(x)
    BY <2>3, FinishSound, FinishGood
  <2> HIDE DEF x
  <2>5. /\ used' \in Bounds /\ used'.drains >= used.drains
        /\ used'.fails = 0 => used.fails = 0 /\ ok
    BY <1>4, <2>1, OutcomeFacts
  <2>6. DrainSealed' /\ Grows(db, x.db)
    BY <2>1, <2>3, <2>4 DEF DrainSealed, Grows
  <2>7. ServerKept
    BY <1>2, <1>4, <2>1, <2>3, <2>4, <2>5, <2>6, TickKeeps
  <2>8. used'.fails = 0 /\ ~job.done => Has(db', "done")
    <3>1. db' = x.db
      BY <2>1 DEF Commit
    <3> QED
      BY <1>2, <2>2, <2>3, <2>4, <2>5, <3>1 DEF Grows, LiveTypes
  <2>9. FitSeq(<<Plain("done")>>, Owed')
    BY <2>1, <2>7, <2>8, DoneOwed
  <2> QED
    BY <2>1, <2>7, <2>9, StreamKeeps
<1>8. ASSUME NEW why \in {"aborted", "error", "tool"}, HaltTurn(why, ok)
      PROVE  ServerKept /\ ReaderKept
  <2> DEFINE t == "stopped"
             e == IF why = "aborted" THEN s ELSE jobEmit(s, Plain(why), ok)
             x == jobEmit(e, Plain(t), ok)
             q == IF why = "aborted" THEN <<>> ELSE <<Plain(why)>>
  <2>1. /\ StoreOutcome(ok) /\ Commit(x) /\ server # "down" /\ server' = server
        /\ turn' = "closing" /\ client' = client /\ Stream(Append(q, Plain(t)), FALSE)
    BY <1>8 DEF HaltTurn, s
  <2>2. t \in LiveTypes \ {"token", "done"} /\ (why # "aborted" => why \in LiveTypes \ {"token", "done"})
    BY <1>8 DEF LiveTypes
  <2> HIDE DEF t
  <2>3. /\ SInv(e) /\ Tidy(e) /\ Grows(db, e.db)
        /\ ok /\ Good(s) => Good(e)
    <3>1. CASE why = "aborted"
      BY <1>1, <3>1 DEF Grows
    <3>2. CASE why # "aborted"
      <4>1. e = jobEmit(s, Plain(why), ok)
        BY <3>2
      <4> HIDE DEF e
      <4> QED
        BY <1>1, <2>2, <3>2, <4>1, EmitPlain, EmitPlainGood
    <3> QED
      BY <3>1, <3>2
  <2>4. FitSeq(Append(q, Plain(t)), Owed')
    <3>1. CASE why = "aborted"
      BY <2>2, <3>1, FitEmpty, FitMore, PlainFits
    <3>2. CASE why # "aborted"
      BY <2>2, <3>2, FitMore, PlainFits
    <3> QED
      BY <3>1, <3>2
  <2> HIDE DEF e, q
  <2>5. /\ SInv(x) /\ Tidy(x) /\ Grows(e.db, x.db)
        /\ ok /\ Good(e) => Good(x)
    BY <2>2, <2>3, EmitPlain, EmitPlainGood
  <2> HIDE DEF x
  <2>6. /\ used' \in Bounds /\ used'.drains >= used.drains
        /\ used'.fails = 0 => used.fails = 0 /\ ok
    BY <2>1, OutcomeFacts
  <2>7. DrainSealed' /\ Grows(db, x.db)
    BY <2>1, <2>3, <2>5 DEF DrainSealed, Grows
  <2>8. ServerKept
    BY <1>2, <1>4, <2>1, <2>3, <2>5, <2>6, <2>7, TickKeeps
  <2> QED
    BY <2>1, <2>4, <2>8, StreamKeeps
<1>9. ASSUME SettleEvent(ok) PROVE ServerKept /\ ReaderKept
  <2> DEFINE t == "tool"
             x == jobEmit(s, Plain(t), ok)
  <2>1. /\ StoreOutcome(ok) /\ Commit(x) /\ server # "down" /\ server' = server
        /\ turn = "closing" /\ turn' = turn /\ client' = client
        /\ Stream(<<Plain(t)>>, FALSE)
    BY <1>9 DEF SettleEvent, s
  <2>2. t \in LiveTypes \ {"token", "done"}
    BY DEF LiveTypes
  <2> HIDE DEF t
  <2>3. /\ SInv(x) /\ Tidy(x) /\ Grows(db, x.db)
        /\ ok /\ Good(s) => Good(x)
    BY <1>1, <2>2, EmitPlain, EmitPlainGood
  <2>4. /\ used' \in Bounds /\ used'.drains >= used.drains
        /\ used'.fails = 0 => used.fails = 0 /\ ok
    BY <2>1, OutcomeFacts
  <2> HIDE DEF x
  <2>5. DrainSealed'
    BY <2>1 DEF DrainSealed
  <2>6. ServerKept
    BY <1>2, <1>4, <2>1, <2>3, <2>4, <2>5, TickKeeps
  <2>7. FitSeq(<<Plain(t)>>, Owed')
    BY <2>2, PlainFits
  <2> QED
    BY <2>1, <2>6, <2>7, StreamKeeps
<1>10. ASSUME EndStream(ok, okStatus) PROVE ServerKept /\ ReaderKept
  <2> DEFINE x == finishJob(s, ok, okStatus)
  <2>1. /\ StoreOutcome(ok /\ okStatus) /\ Commit(x) /\ server # "down" /\ server' = server
        /\ turn' = "over" /\ client' = client /\ Stream(<<>>, TRUE)
    BY <1>10 DEF EndStream, s
  <2>2. /\ SInv(x) /\ Tidy(x) /\ Grows(db, x.db)
        /\ ok /\ Good(s) => Good(x)
    BY <1>1, FinishSound, FinishGood
  <2>3. /\ used' \in Bounds /\ used'.drains >= used.drains
        /\ used'.fails = 0 => used.fails = 0 /\ ok
    BY <1>4, <2>1, OutcomeFacts
  <2> HIDE DEF x
  <2>4. DrainSealed'
    BY <2>1 DEF DrainSealed
  <2>5. ServerKept
    BY <1>2, <1>4, <2>1, <2>2, <2>3, <2>4, TickKeeps
  <2>6. FitSeq(<<>>, Owed')
    BY FitEmpty
  <2> QED
    BY <2>1, <2>5, <2>6, StreamKeeps
<1> QED
  BY <1>5, <1>6, <1>7, <1>8, <1>9, <1>10

(* A late write: the record is sealed, and a token promises nothing. *)
LEMMA LateKeeps ==
  ASSUME Inv, WInv, EmitLate
  PROVE  ServerKept /\ ReaderKept
<1> DEFINE o == Token(job.eventCount + used.late)
<1>1. /\ UNCHANGED <<log, job, db, turn, server, client>> /\ Stream(<<o>>, FALSE)
      /\ used' = [used EXCEPT !.late = @ + 1]
  BY DEF EmitLate
<1>2. used \in Bounds /\ used.late \in Nat /\ used.drains \in Nat /\ job.eventCount \in Nat
  BY DEF WInv, TypeOK, Bounds, JobRecord
<1>3. used' \in Bounds /\ used'.fails = used.fails /\ used'.drains = used.drains
  BY <1>1, <1>2 DEF Bounds
<1>4. ServerKept
  <2>1. ServerState' = ServerState /\ db' = db /\ Grows(db, db)
    BY <1>1 DEF ServerState, Grows
  <2>2. DrainSealed' = DrainSealed
    BY <1>1, <1>3 DEF DrainSealed, Has
  <2> QED
    BY <1>1, <1>2, <1>3, <2>1, <2>2 DEF WInv, ServerKept, TypeOK
<1>5. FitSeq(<<o>>, Owed')
  <2>1. <<job.eventCount + used.late>> \in Seq(Nat)
    BY <1>2
  <2>2. o \in Event /\ o.type # "done"
    BY <2>1 DEF Token, Event, LiveTypes
  <2> HIDE DEF o
  <2> QED
    BY <2>2, FitEvents, FitOne
<1> QED
  BY <1>1, <1>4, <1>5, StreamKeeps

(* The flush timer: an accepted batch is durable, a refused one is counted. *)
LEMMA TimerKeeps ==
  ASSUME Inv, WInv, NEW ok \in BOOLEAN, FlushTimer(ok)
  PROVE  ServerKept /\ ReaderKept
<1> DEFINE s == ServerState
           x == flushJob(s, ok)
<1>1. SInv(s) /\ s.job = job /\ s.log = log /\ s.db = db /\ Tidy(s) /\ IsFiniteSet(s.db.rows)
  BY ServerFields DEF Inv, WInv, Tidy
<1>2. /\ Commit(x) /\ server # "down" /\ server' = server /\ job.pending # <<>> /\ StoreOutcome(ok)
      /\ turn' = turn /\ client' = client /\ net' = net /\ conn' = conn
  BY DEF FlushTimer
<1>3. /\ used.fails = 0 => Good(s)
      /\ turn \in {"start", "running", "closing", "over"} /\ server \in {"up", "draining", "down"}
      /\ conn \in Connections
  BY DEF WInv, TypeOK
<1> HIDE DEF s
<1>4. ~job.done
  BY <1>1, <1>2 DEF SInv
<1>5. Sound(s) /\ Counted(s) /\ job.inRam /\ db.status = "running" /\ job \in JobRecord
  BY <1>1, <1>4 DEF SInv, Sound, ServerStates
<1>6. /\ Sound(x) /\ Counted(x) /\ x.job = [job EXCEPT !.pending = <<>>]
      /\ x.db.status = "running" /\ x.log = log
  BY <1>1, <1>5, FlushSound
<1>7. Tidy(x) /\ Grows(db, x.db)
  BY <1>1, <1>5, FlushTidy
<1>8. ASSUME ok, Good(s) PROVE Good(x)
  <2>1. Stored(s) /\ s.db.eventCount + Len(s.job.pending) = Len(s.log)
    BY <1>1, <1>5, <1>8 DEF Good, Whole
  <2>2. x = flushJob(s, TRUE)
    BY <1>8
  <2>3. Stored(x) /\ x.db.eventCount = Len(log)
    BY <1>1, <1>5, <2>1, <2>2, FlushStores
  <2> HIDE DEF x
  <2>4. x.job.pending = <<>> /\ x.job.tail = job.tail /\ Len(log) \in Nat /\ FlushMax \in Nat \ {0}
    BY <1>1, <1>5, <1>6, SoundParts, ChatJobConstants DEF JobRecord
  <2>5. Whole(x)
    BY <1>6, <2>3, <2>4 DEF Whole
  <2>6. \A k \in 1 .. Len(job.tail) : job.tail[k].type = "done" => Has(x.db, "done")
    BY <1>1, <1>7, <1>8 DEF Good, Grows, LiveTypes
  <2> QED
    BY <2>4, <2>5, <2>6 DEF Good
<1> HIDE DEF x
<1>9. SInv(x) /\ x.job.done = job.done
  BY <1>4, <1>5, <1>6, NoPending DEF SInv
<1>10. /\ used' \in Bounds /\ used'.drains >= used.drains
       /\ used'.fails = 0 => used.fails = 0 /\ ok
  BY <1>2, OutcomeFacts
<1>11. DrainSealed'
  BY <1>2, <1>4, <1>9 DEF DrainSealed, Commit
<1>12. ServerKept
  BY <1>2, <1>3, <1>7, <1>8, <1>9, <1>10, <1>11, TickKeeps
<1> QED
  BY <1>2, <1>3, <1>12, ReaderQuiet

(* RAM may forget what the record has. *)
LEMMA RamForgets ==
  ASSUME NEW s, NEW x, x.log = s.log, x.db = s.db,
         x.job.pending = s.job.pending \/ x.job.pending = <<>>,
         x.job.tail = s.job.tail \/ x.job.tail = <<>>,
         x.job.inRam => s.job.inRam /\ x.job.pending = s.job.pending
  PROVE  (Tidy(s) => Tidy(x)) /\ (Good(s) => Good(x))
<1>1. Tidy(s) => Tidy(x)
  BY DEF Tidy
<1>2. Stored(s) => Stored(x)
  BY DEF Stored
<1>3. Whole(s) => Whole(x)
  BY <1>2 DEF Whole
<1>4. Good(s) => Good(x)
  BY <1>3 DEF Good
<1> QED
  BY <1>1, <1>4

(* handleChatStop and the two collectors. *)
LEMMA UpkeepKeeps ==
  ASSUME Inv, WInv, handleChatStop \/ gcChatJobs \/ gcRetention
  PROVE  ServerKept /\ ReaderKept
<1> DEFINE s == ServerState
           x == ServerState'
<1>1. /\ log' = log /\ turn' = turn /\ server' = server /\ conn' = conn /\ net' = net
      /\ client' = client /\ used' = used
  BY DEF handleChatStop, gcChatJobs, gcRetention
<1>2. /\ job \in JobRecord /\ db \in Store /\ used \in Bounds /\ used.drains \in Nat
      /\ turn \in {"start", "running", "closing", "over"} /\ server \in {"up", "draining", "down"}
      /\ conn \in Connections /\ Tidy(s) /\ (used.fails = 0 => Good(s) /\ DrainSealed)
      /\ (server = "down" => ~job.inRam)
  BY DEF WInv, TypeOK, Bounds
<1>3. /\ s.log = log /\ s.job = job /\ s.db = db
      /\ x.log = log' /\ x.job = job' /\ x.db = db'
  BY DEF ServerState
<1> HIDE DEF s, x
<1>4. SUFFICES /\ Tidy(x) /\ Grows(db, db') /\ (Good(s) => Good(x))
               /\ (DrainSealed => DrainSealed') /\ (job'.inRam => job.inRam)
  <2>1. ServerKept
    BY <1>1, <1>2, <1>4 DEF ServerKept, x
  <2> QED
    BY <1>1, <1>2, <2>1, ReaderQuiet
<1>5. CASE handleChatStop \/ gcChatJobs
  <2>1. /\ db' = db /\ job'.done = job.done /\ job'.pending = job.pending
        /\ (job'.tail = job.tail \/ job'.tail = <<>>) /\ (job'.inRam => job.inRam)
    BY <1>2, <1>5 DEF handleChatStop, gcChatJobs, JobRecord
  <2>2. Tidy(x) /\ (Good(s) => Good(x))
    BY <1>1, <1>2, <1>3, <2>1, RamForgets
  <2>3. DrainSealed => DrainSealed'
    BY <1>1, <2>1 DEF DrainSealed, Has
  <2> QED
    BY <2>1, <2>2, <2>3 DEF Grows
<1>6. CASE gcRetention
  <2>1. job' = job /\ db'.status = "gone" /\ db'.rows = {}
    BY <1>2, <1>6 DEF gcRetention, Store
  <2>2. \A t : Has(db', t)
    BY <2>1 DEF Has
  <2>3. Tidy(x)
    BY <1>2, <1>3, <2>1, FS_EmptySet DEF Tidy
  <2>4. Good(x)
    BY <1>3, <2>1, <2>2 DEF Good, Whole
  <2>5. DrainSealed => DrainSealed'
    BY <1>1, <2>1, <2>2 DEF DrainSealed
  <2> QED
    BY <2>1, <2>2, <2>3, <2>4, <2>5 DEF Grows
<1> QED
  BY <1>5, <1>6

(* The drain: its three events go into the record and to whoever is attached. *)
LEMMA DrainKeeps ==
  ASSUME Inv, WInv, NEW ok \in BOOLEAN, NEW okStatus \in BOOLEAN, Drain(ok, okStatus)
  PROVE  ServerKept /\ ReaderKept
<1> DEFINE s == ServerState
           a == "error"
           b == "tool"
           c == "stopped"
           s1 == jobEmit(s, Plain(a), ok)
           s2 == jobEmit(s1, Plain(b), ok)
           s3 == jobEmit(s2, Plain(c), ok)
           x == finishJob(s3, ok, okStatus)
           told == <<Plain(a), Plain(b), Plain(c)>>
<1>1. SInv(s) /\ s.job = job /\ s.log = log /\ s.db = db /\ Tidy(s)
  BY ServerFields DEF Inv, WInv
<1>2. /\ used.fails = 0 => Good(s) /\ DrainSealed
      /\ used \in Bounds /\ used.fails \in Nat /\ used.drains \in Nat
      /\ turn \in {"start", "running", "closing", "over"} /\ client \in Client
      /\ conn \in Connections /\ FitSeq(net, Owed) /\ (client.done => Owed)
  BY DEF WInv, TypeOK, Bounds
<1>3. /\ server' = "draining" /\ turn' = turn /\ client' = client
      /\ used' = [used EXCEPT !.drains = @ + 1, !.fails = IF ok /\ okStatus THEN @ ELSE @ + 1]
  BY DEF Drain
<1>4. /\ used' \in Bounds /\ used'.drains = used.drains + 1 /\ used'.drains > 0
      /\ used'.drains >= used.drains
      /\ used'.fails = 0 => used.fails = 0 /\ ok
  <2> DEFINE f == IF ok /\ okStatus THEN used.fails ELSE used.fails + 1
             d == used.drains + 1
  <2>1. f \in Nat /\ d \in Nat /\ d > 0 /\ d >= used.drains /\ (f = 0 => used.fails = 0 /\ ok)
    BY <1>2
  <2>2. used' = [used EXCEPT !.drains = d, !.fails = f]
    BY <1>3
  <2>3. d = used.drains + 1
    OBVIOUS
  <2> HIDE DEF f, d
  <2>4. used' \in Bounds /\ used'.drains = d /\ used'.fails = f
    BY <1>2, <2>1, <2>2 DEF Bounds
  <2> QED
    BY <2>1, <2>3, <2>4
<1>5. \/ /\ ~job.done /\ Commit(x)
         /\ net' = (IF conn = "attach" THEN net \o told ELSE net)
         /\ conn' = (IF conn = "attach" THEN "none" ELSE conn)
      \/ UNCHANGED <<log, job, db, conn, net>>
  <2>1. CASE job.inRam /\ ~job.done
    BY <2>1 DEF Drain
  <2>2. CASE ~(job.inRam /\ ~job.done)
    BY <2>2 DEF Drain
  <2> QED
    BY <2>1, <2>2
<1>6. /\ a \in LiveTypes \ {"token", "done"} /\ b \in LiveTypes \ {"token", "done"}
      /\ c \in LiveTypes \ {"token", "done"} /\ c = "stopped"
      /\ a # "working" /\ b # "working" /\ c # "working"
  BY DEF LiveTypes
<1> HIDE DEF s, a, b, c
<1>7. CASE UNCHANGED <<log, job, db, conn, net>>
  <2>1. ServerState' = s /\ db' = db /\ Grows(db, db)
    BY <1>7 DEF ServerState, s, Grows
  <2>2. DrainSealed => DrainSealed'
    BY <1>3, <1>4, <1>7 DEF DrainSealed, Has
  <2>3. ServerKept
    BY <1>1, <1>2, <1>3, <1>4, <2>1, <2>2 DEF ServerKept
  <2> QED
    BY <1>2, <1>3, <1>7, <2>3, ReaderQuiet
<1>8. CASE /\ ~job.done /\ Commit(x)
           /\ net' = (IF conn = "attach" THEN net \o told ELSE net)
           /\ conn' = (IF conn = "attach" THEN "none" ELSE conn)
  <2>1. s1 = jobEmit(s, Plain(a), ok) /\ s2 = jobEmit(s1, Plain(b), ok)
        /\ s3 = jobEmit(s2, Plain(c), ok)
    OBVIOUS
  <2> HIDE DEF s1, s2, s3
  <2>2. /\ SInv(s1) /\ ~s1.job.done /\ Tidy(s1) /\ Grows(db, s1.db)
        /\ ok /\ Good(s) => Good(s1)
    BY <1>1, <1>6, <1>8, <2>1, PlainTick
  <2>3. /\ SInv(s2) /\ ~s2.job.done /\ Tidy(s2) /\ Grows(s1.db, s2.db)
        /\ ok /\ Good(s1) => Good(s2)
    BY <1>6, <2>1, <2>2, PlainTick
  <2>4. /\ SInv(s3) /\ Tidy(s3) /\ Grows(s2.db, s3.db)
        /\ ok /\ Good(s2) => Good(s3) /\ Has(s3.db, c)
    BY <1>6, <2>1, <2>3, PlainTick
  <2>5. /\ SInv(x) /\ Tidy(x) /\ Grows(s3.db, x.db)
        /\ ok /\ Good(s3) => Good(x)
    BY <2>4, FinishSound, FinishGood
  <2> HIDE DEF x
  <2>6. Grows(db, x.db)
    BY <2>2, <2>3, <2>4, <2>5 DEF Grows
  <2>7. ok /\ Good(s) => Good(x) /\ Has(x.db, "stopped")
    BY <1>6, <2>2, <2>3, <2>4, <2>5 DEF Grows
  <2>8. used'.fails = 0 => used.fails = 0 /\ Good(x) /\ DrainSealed'
    <3>1. db' = x.db
      BY <1>8 DEF Commit
    <3> QED
      BY <1>2, <1>4, <2>7, <3>1 DEF DrainSealed
  <2>9. ServerKept
    BY <1>2, <1>3, <1>4, <1>8, <2>5, <2>6, <2>8, TickKeeps
  <2>10. Owed => Owed'
    BY <2>9, OwedStays
  <2>11. FitSeq(net, Owed')
    BY <1>2, <2>10, FitLater
  <2>12. FitSeq(told, Owed')
    BY <1>6, PlainFits, FitMore
  <2> HIDE DEF told
  <2>13. FitSeq(net \o told, Owed')
    BY <2>11, <2>12, FitJoin
  <2> QED
    BY <1>2, <1>3, <1>8, <2>9, <2>10, <2>11, <2>13 DEF ReaderKept, Connections
<1> QED
  BY <1>5, <1>7, <1>8

(* A process that died: RAM is gone, what was written to the socket may still arrive. *)
LEMMA DeathKeeps ==
  ASSUME Inv, WInv, NEW x, SInv(x), Tidy(x), Grows(db, x.db), used.fails = 0 => Good(x),
         log' = x.log, db' = x.db, job' = Dead, server' = "down", turn' = "over",
         used' \in Bounds, used'.fails = used.fails, used'.drains = used.drains
  PROVE  ServerKept
<1> DEFINE y == ServerState'
<1>1. y.log = x.log /\ y.db = x.db /\ y.job = Dead
  BY DEF ServerState
<1>2. Dead.pending = <<>> /\ Dead.tail = <<>> /\ ~Dead.inRam
  BY DEF Dead, FreshJob
<1> HIDE DEF y, Dead
<1>3. Tidy(y) /\ (Good(x) => Good(y))
  BY <1>1, <1>2, RamForgets
<1>4. DrainSealed'
  BY DEF DrainSealed
<1>5. used.drains \in Nat
  BY DEF WInv, TypeOK, Bounds
<1> QED
  BY <1>2, <1>3, <1>4, <1>5 DEF ServerKept, y

(* A kill is counted, and spends nothing else. *)
LEMMA KillCounted ==
  ASSUME NEW u \in Bounds
  PROVE  LET v == [u EXCEPT !.kills = @ + 1]
         IN v \in Bounds /\ v.fails = u.fails /\ v.drains = u.drains
<1> DEFINE k == u.kills + 1
           v == [u EXCEPT !.kills = k]
<1>1. k \in Nat
  BY DEF Bounds
<1> HIDE DEF k
<1>2. v \in Bounds /\ v.fails = u.fails /\ v.drains = u.drains
  BY <1>1 DEF Bounds
<1> QED
  BY <1>2 DEF k

(* Kill and process.exit. *)
LEMMA KillKeeps ==
  ASSUME Inv, WInv, NEW n \in 0 .. Len(net), Kill(n) \/ Exit(n)
  PROVE  ServerKept /\ ReaderKept
<1> DEFINE s == ServerState
<1>1. SInv(s) /\ s.log = log /\ s.db = db /\ Tidy(s) /\ (used.fails = 0 => Good(s))
  BY ServerFields DEF Inv, WInv
<1>2. /\ log' = log /\ db' = db /\ job' = Dead /\ server' = "down" /\ turn' = "over"
      /\ conn' = "none" /\ net' = SubSeq(net, 1, n) /\ client' = client
      /\ (used' = used \/ used' = [used EXCEPT !.kills = @ + 1])
  BY DEF Kill, Exit, Die, Dead
<1>3. /\ used \in Bounds /\ used.kills \in Nat /\ client \in Client /\ FitSeq(net, Owed)
      /\ (client.done => Owed) /\ Len(net) \in Nat
  BY DEF WInv, TypeOK, Bounds
<1>4. used' \in Bounds /\ used'.fails = used.fails /\ used'.drains = used.drains
  <2>1. used \in Bounds
    BY <1>3
  <2> QED
    BY <1>2, <2>1, KillCounted
<1> HIDE DEF s
<1>5. Grows(db, s.db)
  BY <1>1 DEF Grows
<1>6. ServerKept
  BY <1>1, <1>2, <1>4, <1>5, DeathKeeps
<1>7. Owed => Owed'
  BY <1>6, OwedStays
<1>8. FitSeq(net, Owed')
  BY <1>3, <1>7, FitLater
<1>9. FitSeq(SubSeq(net, 1, n), Owed')
  <2> DEFINE one == 1
  <2>1. one \in Nat \ {0} /\ n \in Nat /\ n <= Len(net) /\ one = 1
    BY <1>3
  <2> HIDE DEF one
  <2>2. FitSeq(SubSeq(net, one, n), Owed')
    BY <1>8, <2>1, FitPart
  <2> QED
    BY <2>1, <2>2
<1> QED
  BY <1>2, <1>3, <1>6, <1>7, <1>9 DEF ReaderKept, Connections

(* A kill between the last event's rows and the final status: the done is in the record. *)
LEMMA KillBeforeStatusKeeps ==
  ASSUME Inv, WInv, NEW n \in 0 .. Len(net) + 1, KillBeforeStatus(n)
  PROVE  ServerKept /\ ReaderKept
<1> DEFINE s == ServerState
           t == "done"
           yes == TRUE
           o == Plain(t)
           x == jobEmit(s, o, yes)
           frames == IF conn = "post" \/ (conn = "attach" /\ ~job.done) THEN Append(net, o) ELSE net
<1>1. /\ SInv(s) /\ s.job = job /\ s.log = log /\ s.db = db /\ Tidy(s)
      /\ (used.fails = 0 => Good(s))
  BY ServerFields DEF Inv, WInv
<1>2. /\ log' = x.log /\ db' = x.db /\ job' = Dead /\ server' = "down" /\ turn' = "over"
      /\ conn' = "none" /\ net' = SubSeq(frames, 1, n) /\ client' = client
      /\ used' = [used EXCEPT !.kills = @ + 1] /\ turn = "running" /\ n <= Len(frames)
  BY DEF KillBeforeStatus, Die, Dead
<1>3. /\ used \in Bounds /\ used.kills \in Nat /\ client \in Client /\ FitSeq(net, Owed)
      /\ (client.done => Owed) /\ Len(net) \in Nat
  BY DEF WInv, TypeOK, Bounds
<1>4. used' \in Bounds /\ used'.fails = used.fails /\ used'.drains = used.drains
  <2>1. used \in Bounds
    BY <1>3
  <2> QED
    BY <1>2, <2>1, KillCounted
<1>5. t \in LiveTypes \ {"token"} /\ t # "working" /\ yes \in BOOLEAN /\ yes /\ t = "done"
  BY DEF LiveTypes
<1> HIDE DEF s, t, yes
<1>6. /\ SInv(x) /\ Tidy(x) /\ Grows(db, x.db)
      /\ Good(s) => Good(x)
      /\ Good(s) /\ ~job.done => Has(x.db, t)
  BY <1>1, <1>5, EmitPlain, EmitPlainGood
<1> HIDE DEF x
<1>7. ServerKept
  BY <1>1, <1>2, <1>4, <1>6, DeathKeeps
<1>8. Owed'
  BY <1>1, <1>2, <1>4, <1>5, <1>6, <1>7, DoneOwed
<1>9. FitSeq(net, Owed')
  BY <1>3, <1>8, FitLater
<1>10. Fit(o, Owed')
  <2>1. o \in Event
    BY <1>5, PlainEvents
  <2> QED
    BY <1>8, <2>1, FitEvents
<1> HIDE DEF o
<1>11. FitSeq(frames, Owed')
  BY <1>9, <1>10, FitMore
<1> HIDE DEF frames
<1>12. FitSeq(SubSeq(frames, 1, n), Owed')
  <2> DEFINE one == 1
  <2>1. one \in Nat \ {0} /\ n \in Nat /\ one = 1
    BY <1>3
  <2> HIDE DEF one
  <2>2. FitSeq(SubSeq(frames, one, n), Owed')
    BY <1>2, <1>11, <2>1, FitPart
  <2> QED
    BY <2>1, <2>2
<1> QED
  BY <1>2, <1>3, <1>7, <1>8, <1>12 DEF ReaderKept, Connections

(* The boot sweep: the rows it adds stand for the events the crash lost. *)
LEMMA BootKeeps ==
  ASSUME Inv, WInv, Boot
  PROVE  ServerKept /\ ReaderKept
<1> DEFINE s == ServerState
           x == ServerState'
<1>1. SInv(s) /\ s.job = job /\ s.log = log /\ s.db = db /\ Tidy(s)
  BY ServerFields DEF Inv, WInv
<1>2. /\ server = "down" /\ server' = "up" /\ db' = sweepOrphans(db) /\ log' = log /\ job' = job
      /\ turn' = turn /\ conn' = conn /\ net' = net /\ client' = client /\ used' = used
  BY DEF Boot
<1>3. /\ used.fails = 0 => Good(s) /\ DrainSealed
      /\ used \in Bounds /\ used.drains \in Nat /\ ~job.inRam /\ conn \in Connections
      /\ turn \in {"start", "running", "closing", "over"} /\ db \in Store
  BY <1>2 DEF WInv, TypeOK, Bounds
<1>4. x.job = job /\ x.log = log /\ x.db = db'
  BY <1>2 DEF ServerState
<1>5. db.eventCount \in Nat /\ Len(log) \in Nat /\ FlushMax \in Nat
  BY <1>1, SoundParts, ChatJobConstants DEF SInv
<1> HIDE DEF s, x
<1>6. IsFiniteSet(db.rows) /\ \A k \in 1 .. Len(job.pending) : job.pending[k].type \in {"token", "working"}
  BY <1>1 DEF Tidy
<1>7. CASE db.status # "running"
  <2>1. db' = db
    BY <1>2, <1>7 DEF sweepOrphans
  <2>2. Tidy(x) /\ (Good(s) => Good(x))
    BY <1>1, <1>3, <1>4, <2>1, RamForgets
  <2>3. DrainSealed => DrainSealed'
    BY <1>2, <2>1 DEF DrainSealed, Has
  <2>4. ServerKept
    BY <1>2, <1>3, <2>1, <2>2, <2>3 DEF ServerKept, Grows, x
  <2> QED
    BY <1>2, <1>3, <2>4, ReaderQuiet
<1>8. CASE db.status = "running"
  <2> DEFINE n == db.eventCount
             r1 == [seq |-> n, span |-> 1, ev |-> Plain("error")]
             r2 == [seq |-> n + 1, span |-> 1, ev |-> Plain("stopped")]
  <2>1. db' = [status |-> "orphaned", eventCount |-> n + 2, rows |-> db.rows \cup {r1, r2}]
    BY <1>2, <1>8 DEF sweepOrphans, OrphanTail
  <2>2. db'.status = "orphaned" /\ db'.eventCount = n + 2 /\ db'.rows = db.rows \cup {r1, r2}
    BY <2>1
  <2>3. r1.seq = n /\ RowEnd(r1) = n + 1 /\ r2.seq = n + 1 /\ RowEnd(r2) = n + 2
    BY <1>5 DEF RowEnd
  <2>4. n = db.eventCount
    OBVIOUS
  <2> HIDE DEF r1, r2, n
  <2>5. db.rows \subseteq db'.rows /\ IsFiniteSet(db'.rows) /\ Grows(db, db')
    <3>1. IsFiniteSet({r1}) /\ IsFiniteSet({r2})
      BY FS_Singleton
    <3>2. IsFiniteSet({r1} \cup {r2})
      BY <3>1, FS_Union
    <3>3. IsFiniteSet(db.rows \cup ({r1} \cup {r2}))
      BY <1>6, <3>2, FS_Union
    <3>4. db'.rows = db.rows \cup ({r1} \cup {r2})
      BY <2>2
    <3>5. Grows(db, db')
      BY <1>8, <2>2, RowsGrow
    <3> QED
      BY <3>3, <3>4, <3>5
  <2>6. Tidy(x)
    BY <1>4, <1>6, <2>5 DEF Tidy
  <2>7. ASSUME Good(s) PROVE Good(x)
    <3>1. Stored(s) /\ Len(log) - n < FlushMax
      BY <1>1, <1>8, <2>4, <2>7 DEF Good, Whole
    <3>2. Stored(x)
      <4>1. SUFFICES ASSUME NEW p \in 0 .. n + 1, p < Len(log)
                     PROVE  log[p + 1].type = "working" \/ Covers(db'.rows, p)
        <5>1. \A p \in 0 .. (n + 2) - 1 : p \in 0 .. n + 1
          BY <1>5, <2>4
        <5> QED
          BY <1>4, <2>2, <4>1, <5>1 DEF Stored
      <4>2. CASE p < n
        <5>1. p \in 0 .. n - 1
          BY <1>5, <2>4, <4>2
        <5>2. log[p + 1].type = "working" \/ Covers(db.rows, p)
          BY <1>1, <2>4, <3>1, <4>1, <5>1 DEF Stored
        <5> QED
          BY <2>5, <5>2 DEF Covers
      <4>3. CASE p = n
        <5>1. r1 \in db'.rows /\ r1.seq <= p /\ p < RowEnd(r1)
          BY <1>5, <2>2, <2>3, <2>4, <4>3
        <5> QED
          BY <5>1 DEF Covers
      <4>4. CASE p = n + 1
        <5>1. r2 \in db'.rows /\ r2.seq <= p /\ p < RowEnd(r2)
          BY <1>5, <2>2, <2>3, <2>4, <4>4
        <5> QED
          BY <5>1 DEF Covers
      <4> QED
        BY <1>5, <2>4, <4>2, <4>3, <4>4
    <3>3. Len(log) - (n + 2) < FlushMax
      BY <1>5, <2>4, <3>1
    <3>4. Whole(x)
      BY <1>3, <1>4, <2>2, <3>2, <3>3 DEF Whole
    <3>5. \A k \in 1 .. Len(job.tail) : job.tail[k].type = "done" => Has(db', "done")
      BY <1>1, <2>5, <2>7 DEF Good, Grows, LiveTypes
    <3> QED
      BY <1>4, <3>4, <3>5 DEF Good
  <2>8. DrainSealed => DrainSealed'
    <3>1. Has(db, "stopped") => Has(db', "stopped")
      BY <2>5 DEF Grows, LiveTypes
    <3> QED
      BY <1>2, <3>1 DEF DrainSealed
  <2>9. ServerKept
    BY <1>2, <1>3, <2>5, <2>6, <2>7, <2>8 DEF ServerKept, x
  <2> QED
    BY <1>2, <1>3, <2>9, ReaderQuiet
<1> QED
  BY <1>7, <1>8

-----------------------------------------------------------------------------
(* The theorems that need the whole turn. *)

(* createChatJob establishes the invariant. *)
LEMMA InitW == Init => WInv
<1>1. SUFFICES ASSUME Init PROVE WInv
  OBVIOUS
<1>2. /\ log = <<>> /\ job = FreshJob /\ db = FreshStore /\ turn = "start" /\ server = "up"
      /\ conn = "post" /\ net = <<>> /\ client = FreshSession(FALSE)
      /\ used = [late |-> 0, cuts |-> 0, reloads |-> 0, kills |-> 0, drains |-> 0, fails |-> 0]
  BY <1>1 DEF Init
<1>3. <<>> \in Seq(Event) /\ <<>> \in Seq(Frame) /\ Len(<<>>) = 0 /\ 1 .. 0 = {} /\ 0 .. 0 - 1 = {}
  OBVIOUS
<1>4. FreshJob \in JobRecord /\ FreshStore \in Store
  BY <1>3 DEF FreshJob, FreshStore, JobRecord, Store, Statuses
<1>5. /\ FreshJob.pending = <<>> /\ FreshJob.tail = <<>> /\ ~FreshJob.done
      /\ FreshStore.rows = {} /\ FreshStore.eventCount = 0
  BY DEF FreshJob, FreshStore
<1>6. FreshSession(FALSE) \in Client /\ ~FreshSession(FALSE).done
  <2> DEFINE no == FALSE
             c == FreshSession(no)
  <2>1. no \in BOOLEAN /\ c = FreshSession(FALSE)
    OBVIOUS
  <2> HIDE DEF no
  <2>2. c \in Client /\ ~c.done
    BY <2>1, FreshType
  <2> QED
    BY <2>1, <2>2
<1>7. used \in Bounds
  BY <1>2 DEF Bounds
<1> HIDE DEF FreshJob, FreshStore, FreshSession
<1>8. TypeOK
  BY <1>2, <1>3, <1>4, <1>6, <1>7 DEF TypeOK, Connections
<1>9. ServerState.log = <<>> /\ ServerState.job = FreshJob /\ ServerState.db = FreshStore
  BY <1>2 DEF ServerState
<1>10. Tidy(ServerState)
  BY <1>3, <1>5, <1>9, FS_EmptySet DEF Tidy
<1>11. Good(ServerState)
  <2>1. FlushMax \in Nat \ {0}
    BY ChatJobConstants
  <2>2. Stored(ServerState)
    BY <1>3, <1>5, <1>9 DEF Stored
  <2>3. Whole(ServerState)
    BY <1>3, <1>5, <1>9, <2>1, <2>2 DEF Whole
  <2> QED
    BY <1>3, <1>5, <1>9, <2>3 DEF Good
<1>12. DrainSealed
  BY <1>2, <1>5 DEF DrainSealed
<1>13. FitSeq(net, Owed)
  BY <1>2, FitEmpty
<1> QED
  BY <1>2, <1>6, <1>8, <1>10, <1>11, <1>12, <1>13 DEF WInv

(* Every step of the system keeps the invariant. *)
LEMMA NextKeeps ==
  ASSUME Inv, WInv, [Next]_vars
  PROVE  Inv' /\ WInv'
<1>1. Inv'
  BY NextStep
<1>2. CASE TurnStep
  <2>1. ServerKept /\ ReaderKept
    BY <1>2, HandlerKeeps, LateKeeps DEF TurnStep
  <2> QED
    BY <1>1, <2>1, KeptInv
<1>3. CASE EndTurn
  <2>1. ServerKept /\ ReaderKept
    BY <1>3, HandlerKeeps DEF EndTurn
  <2> QED
    BY <1>1, <2>1, KeptInv
<1>4. CASE \E ok \in BOOLEAN : FlushTimer(ok)
  BY <1>1, <1>4, TimerKeeps, KeptInv
<1>5. CASE handleChatStop \/ gcChatJobs \/ gcRetention
  BY <1>1, <1>5, UpkeepKeeps, KeptInv
<1>6. CASE Process
  <2>1. ServerKept /\ ReaderKept
    BY <1>6, DrainKeeps, KillKeeps, KillBeforeStatusKeeps, BootKeeps DEF Process
  <2> QED
    BY <1>1, <2>1, KeptInv
<1>7. CASE Reader \/ CutSocket \/ Reload
  BY <1>1, <1>7, ReaderKeeps, KeptInv
<1>8. CASE UNCHANGED vars
  <2>1. ServerKept
    BY <1>8, ServerQuiet DEF vars
  <2>2. ReaderKept
    BY <1>8, <2>1, ReaderQuiet DEF vars, WInv, TypeOK
  <2> QED
    BY <1>1, <2>1, <2>2, KeptInv
<1> QED
  BY <1>1, <1>2, <1>3, <1>4, <1>5, <1>6, <1>7, <1>8 DEF Next

(* The invariant gives LossBounded and DoneIsDurable. *)
LEMMA WInvKeepsPromises ==
  ASSUME WInv
  PROVE  LossBounded /\ DoneIsDurable
<1>1. ServerState.log = log /\ ServerState.job = job /\ ServerState.db = db
  BY ServerFields
<1>2. used.fails \in Nat
  BY DEF WInv, TypeOK, Bounds
<1>3. LossBounded
  <2>1. SUFFICES ASSUME used.fails = 0, db.status # "gone"
                 PROVE  /\ \A p \in 0 .. db.eventCount - 1 :
                             p < Len(log) => log[p + 1].type = "working" \/ Durable(p)
                        /\ Len(log) - db.eventCount < FlushMax
                        /\ job.inRam => db.eventCount + Len(job.pending) = Len(log)
    BY DEF LossBounded
  <2>2. Whole(ServerState)
    BY <2>1 DEF WInv, Good
  <2>3. /\ Stored(ServerState) /\ Len(log) - db.eventCount < FlushMax
        /\ job.inRam => db.eventCount + Len(job.pending) = Len(log)
    BY <1>1, <2>1, <2>2 DEF Whole
  <2>4. \A p : Covers(db.rows, p) => Durable(p)
    BY DEF Covers, Durable
  <2> QED
    BY <1>1, <2>3, <2>4 DEF Stored
<1>4. DoneIsDurable
  BY <1>2 DEF DoneIsDurable, WInv, Owed, Told, Has
<1> QED
  BY <1>3, <1>4

(* Every variable of a turn stays in its type, whatever is cut, killed or     *)
(* replayed: the text a replay concatenates is text, and a cursor a number.   *)
THEOREM Typing == Spec => []TypeOK
<1>1. Init => Inv /\ WInv
  BY InitInv, InitW
<1>2. (Inv /\ WInv) /\ [Next]_vars => (Inv /\ WInv)'
  BY NextKeeps
<1>3. Inv /\ WInv => TypeOK
  BY DEF WInv
<1> QED
  BY <1>1, <1>2, <1>3, PTL DEF Spec

(* As long as SQLite refused no write, everything but heartbeats below the    *)
(* durable count is in a row, and what is above it is less than one flush     *)
(* batch: whenever the process dies, at most that batch is lost.              *)
THEOREM CrashLosesOneBatch == Spec => []LossBounded
<1>1. Init => Inv /\ WInv
  BY InitInv, InitW
<1>2. (Inv /\ WInv) /\ [Next]_vars => (Inv /\ WInv)'
  BY NextKeeps
<1>3. Inv /\ WInv => LossBounded
  BY WInvKeepsPromises
<1> QED
  BY <1>1, <1>2, <1>3, PTL DEF Spec

(* A done the reader was shown, by the POST response, a listener or a replay, *)
(* is in the record, unless a write was refused, retention took the job, or a *)
(* drain had closed the record with stopped.                                  *)
THEOREM ShownIsStored == Spec => []DoneIsDurable
<1>1. Init => Inv /\ WInv
  BY InitInv, InitW
<1>2. (Inv /\ WInv) /\ [Next]_vars => (Inv /\ WInv)'
  BY NextKeeps
<1>3. Inv /\ WInv => DoneIsDurable
  BY WInvKeepsPromises
<1> QED
  BY <1>1, <1>2, <1>3, PTL DEF Spec

-----------------------------------------------------------------------------
(* The turn that nothing disturbs. *)

(* No process died and SQLite refused nothing so far. *)
Undisturbed == used.kills = 0 /\ used.drains = 0 /\ used.fails = 0

(* The types of the events that end a turn. *)
Ends == {"done", "stopped", "error"}
Ended == turn \in {"closing", "over"}

(* What the handler writes: the job first, then the body; nothing of the text after an end, *)
(* and the explanation before the stop.                                                      *)
Script ==
  /\ turn = "start" <=> log = <<>>
  /\ \A i \in 1 .. Len(log) : log[i].type = "job" <=> i = 1
  /\ \A i \in 1 .. Len(log) : log[i].type \in Ends =>
       Ended /\ \A k \in i .. Len(log) : log[k].type # "token"
  /\ \A i, k \in 1 .. Len(log) : log[i].type = "error" /\ log[k].type = "stopped" => i < k

(* A row that is not text is the event it was written from. *)
PlainExact(l, r) ==
  r.ev.type # "token" => r.span = 1 /\ r.seq < Len(l) /\ r.ev = l[r.seq + 1]

(* The RAM tail is the end of the log. *)
TailExact(l, j) ==
  /\ j.tailStart + Len(j.tail) = Len(l)
  /\ \A k \in 1 .. Len(j.tail) : j.tail[k] = l[j.tailStart + k]

(* What the server s keeps of its log is the log. *)
Exact(s) ==
  /\ \A r \in s.db.rows : PlainExact(s.log, r)
  /\ s.job.inRam =>
       TailExact(s.log, s.job) /\ s.db.status # "gone" /\ s.job.eventCount = Len(s.log)
  /\ ~s.job.inRam => s.db.eventCount = Len(s.log)

(* The server of an undisturbed turn. *)
Settled ==
  /\ server = "up"
  /\ job.done <=> turn = "over"
  /\ Exact(ServerState)

NoCursor(i) == \A j \in i .. Len(net) : net[j].type # "cursor"

(* An explanation below position p is on the screen or among the first i frames. *)
Explained(p, i) ==
  \A q \in 1 .. p : log[q].type = "error" =>
    client.err \/ \E j \in 1 .. i : net[j].type = "error"

(* Frame i takes the screen from the text of the first a events to that of the first b. *)
Moves(i, a, b) ==
  /\ net[i].type = "token" => TextBelow(b) = TextBelow(a) \o net[i].data
  /\ net[i].type = "reset" => b = 0 /\ i = 1 /\ ~client.started /\ ~Verdict
  /\ net[i].type \notin {"token", "reset"} => TextBelow(b) = TextBelow(a)
  /\ net[i].type = "cursor" => b = net[i].data[1]
  /\ net[i].type = "gone" => Len(net) = 1 /\ conn = "none" /\ db.status = "gone"
  /\ net[i].type \in Ends => Ended /\ TextBelow(b) = TextBelow(Len(log))
  /\ net[i].type = "stopped" => Explained(Len(log), i - 1)
  /\ NoCursor(i) /\ net[i].type # "gone" => b = a + 1 /\ net[i] = log[b]
  /\ NoCursor(i + 1) => Explained(b, i)

(* The screen shows the text of the first p events. *)
Screen(p) ==
  /\ client.raw = TextBelow(p)
  /\ ~client.gone /\ NoCursor(1) => client.eventIndex = p
  /\ ~client.gone /\ (NoCursor(1) \/ ~client.started) =>
       /\ client.eventIndex <= Len(log) /\ client.raw = TextBelow(client.eventIndex)
       /\ Explained(client.eventIndex, 0)
  /\ client.done \/ client.stopped \/ client.err => Ended /\ client.raw = TextBelow(Len(log))
  /\ client.stopped => Explained(Len(log), 0)
  /\ ~client.known =>
       /\ client.eventIndex = 0 /\ ~Verdict /\ NoCursor(1)
       /\ net = <<>> \/ net[1].type = "job"

(* The reader, whatever it is doing, follows the log along positions pos. *)
Follows(pos) ==
  /\ pos \in [0 .. Len(net) -> 0 .. Len(log)]
  /\ Screen(pos[0])
  /\ \A i \in 1 .. Len(net) : Moves(i, pos[i - 1], pos[i])
  /\ conn # "none" => pos[Len(net)] = Len(log)

Watched ==
  /\ ReaderActive => client.session /\ ~client.final
  /\ client.gone => db.status = "gone" /\ ~ReaderActive
  /\ client.final /\ client.session => Verdict
  /\ client.session \/ ~client.final => \E pos \in [0 .. Len(net) -> 0 .. Len(log)] : Follows(pos)

-----------------------------------------------------------------------------
(* The text of the log, position by position. *)

(* What holds at the first position of an interval and moves on from each to the next holds at all. *)
LEMMA Upward ==
  ASSUME NEW m \in Nat, NEW n \in Nat, NEW S, m \in S,
         \A i \in m .. n - 1 : i \in S => i + 1 \in S
  PROVE  m .. n \subseteq S
<1> DEFINE B == {i \in 0 .. n : i >= m /\ i \notin S}
<1>1. SUFFICES ASSUME B # {} PROVE FALSE
  <2>1. \A i \in m .. n : i \in 0 .. n /\ i >= m
    OBVIOUS
  <2> QED
    BY <1>1, <2>1
<1>2. PICK x \in B : \A y \in B : x <= y
  BY <1>1, HasLowest
<1>3. x \in 0 .. n /\ x >= m /\ x \notin S
  BY <1>2
<1>4. x # m
  BY <1>3
<1>5. x - 1 \in m .. n - 1 /\ x - 1 \in 0 .. n /\ x - 1 >= m
  BY <1>3, <1>4
<1>6. x - 1 \notin B
  BY <1>2, <1>3
<1>7. x - 1 \in S
  BY <1>5, <1>6
<1>8. (x - 1) + 1 \in S
  BY <1>5, <1>7
<1>9. (x - 1) + 1 = x
  BY <1>3
<1> QED
  BY <1>3, <1>8, <1>9

(* Concatenating pieces of text. *)
LEMMA TextJoin ==
  ASSUME NEW x \in Seq(Nat), NEW y \in Seq(Nat)
  PROVE  /\ <<>> \in Seq(Nat) /\ x \o <<>> = x /\ <<>> \o x = x
         /\ x \o y \in Seq(Nat) /\ Len(x) \in Nat /\ Len(y) \in Nat
         /\ Len(x \o y) = Len(x) + Len(y)
         /\ \A i \in 1 .. Len(x) : (x \o y)[i] = x[i]
         /\ \A i \in 1 .. Len(y) : (x \o y)[Len(x) + i] = y[i]
         /\ x \o y = x => y = <<>>
<1>1. /\ <<>> \in Seq(Nat) /\ x \o <<>> = x /\ <<>> \o x = x
      /\ Len(x) \in Nat /\ Len(y) \in Nat
  OBVIOUS
<1>2. x \o y \in Seq(Nat) /\ Len(x \o y) = Len(x) + Len(y)
  OBVIOUS
<1>3. \A i \in 1 .. Len(x) + Len(y) : (x \o y)[i] = IF i <= Len(x) THEN x[i] ELSE y[i - Len(x)]
  OBVIOUS
<1>4. \A i \in 1 .. Len(x) : (x \o y)[i] = x[i]
  BY <1>1, <1>3
<1>5. \A i \in 1 .. Len(y) : (x \o y)[Len(x) + i] = y[i]
  BY <1>1, <1>3
<1>6. x \o y = x => y = <<>>
  <2>1. SUFFICES ASSUME x \o y = x PROVE y = <<>>
    OBVIOUS
  <2>2. Len(y) = 0
    BY <1>1, <1>2, <2>1
  <2> QED
    BY <2>2
<1> QED
  BY <1>1, <1>2, <1>4, <1>5, <1>6

(* The same of three pieces. *)
LEMMA TextAssoc ==
  ASSUME NEW x \in Seq(Nat), NEW y \in Seq(Nat), NEW z \in Seq(Nat)
  PROVE  (x \o y) \o z = x \o (y \o z)
BY ConcatAssociative, Z3

(* The recursion TextUpTo is written as. *)
LEMMA TextStep ==
  ASSUME NEW e \in Seq(Event)
  PROVE  /\ TextUpTo(e)[0] = <<>>
         /\ \A i \in 1 .. Len(e) :
              TextUpTo(e)[i] = IF e[i].type = "token" THEN TextUpTo(e)[i - 1] \o e[i].data
                               ELSE TextUpTo(e)[i - 1]
<1> DEFINE n == Len(e)
           f == CHOOSE g : IsText(g, e, n)
<1>1. n \in Nat
  OBVIOUS
<1>2. TextUpTo(e) = f
  BY DEF TextUpTo, IsText
<1>3. IsText(f, e, n)
  BY <1>1, TextExists
<1> HIDE DEF f, n
<1>4. \A i \in 0 .. n :
        f[i] = IF i = 0 THEN <<>>
               ELSE IF e[i].type = "token" THEN f[i - 1] \o e[i].data ELSE f[i - 1]
  BY <1>3 DEF IsText
<1>5. f[0] = <<>>
  BY <1>1, <1>4
<1>6. \A i \in 1 .. n : i \in 0 .. n /\ i # 0
  BY <1>1
<1> QED
  BY <1>2, <1>4, <1>5, <1>6 DEF n

(* Text is a sequence of positions. *)
LEMMA TextTyped ==
  ASSUME NEW e \in Seq(Event)
  PROVE  \A i \in 0 .. Len(e) : TextUpTo(e)[i] \in Seq(Nat)
<1> DEFINE T == TextUpTo(e)
           n == Len(e)
           S == {i \in 0 .. n : T[i] \in Seq(Nat)}
<1>1. n \in Nat /\ 0 \in Nat
  OBVIOUS
<1>2. 0 \in S
  <2>1. T[0] \in Seq(Nat)
    BY TextStep, EmptySeq
  <2>2. 0 \in 0 .. n
    BY <1>1
  <2> QED
    BY <2>1, <2>2
<1>3. ASSUME NEW i \in 0 .. n - 1, i \in S PROVE i + 1 \in S
  <2>1. i + 1 \in 1 .. n /\ (i + 1) - 1 = i /\ i + 1 \in 0 .. n
    BY <1>1
  <2>2. e[i + 1] \in Event
    BY <2>1
  <2>3. e[i + 1].data \in Seq(Nat) /\ T[i] \in Seq(Nat)
    BY <1>3, <2>2 DEF Event
  <2>4. T[i + 1] = T[i] \o e[i + 1].data \/ T[i + 1] = T[i]
    BY <2>1, TextStep
  <2>5. T[i] \o e[i + 1].data \in Seq(Nat)
    BY <2>3
  <2> QED
    BY <2>1, <2>3, <2>4, <2>5
<1> HIDE DEF S
<1>4. 0 .. n \subseteq S
  BY <1>1, <1>2, <1>3, Upward
<1> QED
  BY <1>4 DEF S

(* Events that are not tokens leave the text as it was. *)
LEMMA TextGap ==
  ASSUME NEW e \in Seq(Event), NEW a \in 0 .. Len(e), NEW b \in a .. Len(e),
         \A k \in a + 1 .. b : e[k].type # "token"
  PROVE  TextUpTo(e)[b] = TextUpTo(e)[a]
<1> DEFINE T == TextUpTo(e)
           S == {i \in a .. b : T[i] = T[a]}
<1>1. a \in Nat /\ b \in Nat /\ b <= Len(e) /\ a <= b /\ Len(e) \in Nat
  OBVIOUS
<1>2. a \in S
  BY <1>1
<1>3. ASSUME NEW i \in a .. b - 1, i \in S PROVE i + 1 \in S
  <2>1. i + 1 \in a + 1 .. b /\ i + 1 \in 1 .. Len(e) /\ (i + 1) - 1 = i /\ i + 1 \in a .. b
    BY <1>1
  <2>2. T[i + 1] = T[i]
    BY <2>1, TextStep
  <2> QED
    BY <1>3, <2>1, <2>2
<1> HIDE DEF S
<1>4. a .. b \subseteq S
  BY <1>1, <1>2, <1>3, Upward
<1>5. b \in S
  BY <1>1, <1>4
<1> QED
  BY <1>5 DEF S

(* A run of tokens adds the positions of the run, in order. *)
LEMMA TextRun ==
  ASSUME NEW e \in Seq(Event), NEW a \in 0 .. Len(e), NEW b \in a .. Len(e),
         \A k \in a + 1 .. b : e[k].type = "token" /\ e[k].data = <<k - 1>>
  PROVE  TextUpTo(e)[b] = TextUpTo(e)[a] \o [k \in 1 .. (b - a) |-> a + k - 1]
<1> DEFINE T == TextUpTo(e)
           R(i) == [k \in 1 .. (i - a) |-> a + k - 1]
           S == {i \in a .. b : T[i] = T[a] \o R(i)}
<1>1. a \in Nat /\ b \in Nat /\ b <= Len(e) /\ a <= b /\ Len(e) \in Nat
  OBVIOUS
<1>2. T[a] \in Seq(Nat)
  BY TextTyped
<1>3. a \in S
  <2>1. R(a) = <<>>
    BY <1>1
  <2>2. T[a] \o R(a) = T[a]
    BY <1>2, <2>1, TextJoin
  <2>3. a \in a .. b
    BY <1>1
  <2> HIDE DEF T, R
  <2> QED
    BY <2>2, <2>3
<1>4. ASSUME NEW i \in a .. b - 1, i \in S PROVE i + 1 \in S
  <2>1. i + 1 \in a + 1 .. b /\ i + 1 \in 1 .. Len(e) /\ (i + 1) - 1 = i /\ i + 1 \in a .. b
        /\ i \in Nat /\ i >= a
    BY <1>1
  <2>2. T[i + 1] = T[i] \o <<i>>
    BY <2>1, TextStep
  <2>3. T[i] = T[a] \o R(i)
    BY <1>4
  <2>4. R(i) \in Seq(Nat) /\ R(i + 1) = R(i) \o <<i>>
    <3> DEFINE n == i - a
    <3>1. n \in Nat /\ (i + 1) - a = n + 1 /\ i = a + n
      BY <1>1, <2>1
    <3>2. R(i) = [k \in 1 .. n |-> a + k - 1] /\ R(i + 1) = [k \in 1 .. n + 1 |-> a + k - 1]
      BY <3>1
    <3>3. R(i) \in Seq(Nat) /\ Len(R(i)) = n
      <4>1. \A k \in 1 .. n : a + k - 1 \in Nat
        BY <1>1, <3>1
      <4> QED
        BY <3>1, <3>2, <4>1
    <3> HIDE DEF R, n
    <3>4. R(i) \o <<i>> = [k \in 1 .. n + 1 |-> IF k <= n THEN R(i)[k] ELSE i]
      BY <3>1, <3>3
    <3>5. ASSUME NEW k \in 1 .. n + 1 PROVE (IF k <= n THEN R(i)[k] ELSE i) = a + k - 1
      <4>1. CASE k <= n
        <5>1. k \in 1 .. n
          BY <3>1, <4>1
        <5> QED
          BY <3>2, <4>1, <5>1
      <4>2. CASE ~(k <= n)
        <5>1. k = n + 1
          BY <3>1, <4>2
        <5>2. i = a + k - 1
          BY <1>1, <3>1, <5>1
        <5> QED
          BY <4>2, <5>2
      <4> QED
        BY <4>1, <4>2
    <3> QED
      BY <3>2, <3>3, <3>4, <3>5
  <2> HIDE DEF R
  <2>5. (T[a] \o R(i)) \o <<i>> = T[a] \o (R(i) \o <<i>>)
    <3>1. <<i>> \in Seq(Nat)
      BY <2>1
    <3> QED
      BY <1>2, <2>4, <3>1, TextAssoc
  <2> QED
    BY <2>1, <2>2, <2>3, <2>4, <2>5
<1> HIDE DEF S
<1>5. a .. b \subseteq S
  BY <1>1, <1>3, <1>4, Upward
<1>6. b \in S
  BY <1>1, <1>5
<1> QED
  BY <1>6 DEF S

(* The text only grows: an earlier text is a beginning of a later one. *)
LEMMA TextPrefix ==
  ASSUME NEW e \in Seq(Event), NEW a \in 0 .. Len(e), NEW b \in a .. Len(e)
  PROVE  /\ Len(TextUpTo(e)[a]) <= Len(TextUpTo(e)[b])
         /\ TextUpTo(e)[a] = SubSeq(TextUpTo(e)[b], 1, Len(TextUpTo(e)[a]))
<1> DEFINE T == TextUpTo(e)
           x == T[a]
           S == {i \in a .. b : \E z \in Seq(Nat) : T[i] = x \o z}
<1>1. a \in Nat /\ b \in Nat /\ b <= Len(e) /\ a <= b /\ Len(e) \in Nat
  OBVIOUS
<1>2. \A i \in 0 .. Len(e) : T[i] \in Seq(Nat)
  BY TextTyped
<1>3. x \in Seq(Nat)
  BY <1>2
<1> HIDE DEF x
<1>4. a \in S
  <2>1. <<>> \in Seq(Nat) /\ x \o <<>> = x
    BY <1>3, TextJoin
  <2>2. T[a] = x /\ a \in a .. b
    BY <1>1 DEF x
  <2>3. \E z \in Seq(Nat) : T[a] = x \o z
    BY <2>1, <2>2
  <2> QED
    BY <2>2, <2>3
<1>5. ASSUME NEW i \in a .. b - 1, i \in S PROVE i + 1 \in S
  <2>1. i + 1 \in 1 .. Len(e) /\ (i + 1) - 1 = i /\ i + 1 \in a .. b
    BY <1>1
  <2>2. PICK z \in Seq(Nat) : T[i] = x \o z
    BY <1>5
  <2>3. CASE T[i + 1] = T[i]
    BY <2>1, <2>2, <2>3
  <2>4. CASE T[i + 1] = T[i] \o e[i + 1].data
    <3>1. e[i + 1] \in Event
      BY <2>1
    <3>2. e[i + 1].data \in Seq(Nat)
      BY <3>1 DEF Event
    <3> DEFINE y == e[i + 1].data
    <3>3. y \in Seq(Nat) /\ T[i + 1] = (x \o z) \o y
      BY <2>2, <2>4, <3>2
    <3> HIDE DEF y
    <3>4. (x \o z) \o y = x \o (z \o y) /\ z \o y \in Seq(Nat)
      <4>1. z \o y \in Seq(Nat)
        BY <2>2, <3>3, TextJoin
      <4>2. (x \o z) \o y = x \o (z \o y)
        BY <1>3, <2>2, <3>3, TextAssoc
      <4> QED
        BY <4>1, <4>2
    <3> QED
      BY <2>1, <3>3, <3>4
  <2> QED
    BY <2>1, <2>3, <2>4, TextStep
<1> HIDE DEF S
<1>6. a .. b \subseteq S
  BY <1>1, <1>4, <1>5, Upward
<1>7. b \in S
  BY <1>1, <1>6
<1>8. PICK z \in Seq(Nat) : T[b] = x \o z
  BY <1>7 DEF S
<1>9. Len(x) \in Nat /\ Len(x \o z) = Len(x) + Len(z) /\ Len(z) \in Nat
  BY <1>3, <1>8
<1>10. x = SubSeq(x \o z, 1, Len(x))
  <2> DEFINE w == x \o z
  <2>1. w \in Seq(Nat) /\ \A i \in 1 .. Len(x) : w[i] = x[i]
    BY <1>3, <1>8, TextJoin
  <2>2. Len(w) = Len(x) + Len(z)
    BY <1>9
  <2> HIDE DEF w
  <2>3. SubSeq(w, 1, Len(x)) = [i \in 1 .. Len(x) |-> w[i]]
    BY <1>9, <2>1, <2>2
  <2>4. x = [i \in 1 .. Len(x) |-> x[i]]
    BY <1>3
  <2> QED
    BY <2>1, <2>3, <2>4 DEF w
<1> QED
  BY <1>8, <1>9, <1>10 DEF x

(* What is appended to a log does not touch the text below it. *)
LEMMA TextExtend ==
  ASSUME NEW e \in Seq(Event), NEW g \in Seq(Event), NEW i \in 0 .. Len(e)
  PROVE  TextUpTo(e \o g)[i] = TextUpTo(e)[i]
<1> DEFINE h == e \o g
           n == Len(e)
           T == TextUpTo(e)
           U == TextUpTo(h)
           S == {k \in 0 .. n : U[k] = T[k]}
<1>1. h \in Seq(Event) /\ n \in Nat /\ 0 \in Nat /\ Len(h) \in Nat /\ n <= Len(h)
      /\ \A k \in 1 .. n : h[k] = e[k]
  OBVIOUS
<1> HIDE DEF h
<1>2. 0 \in S
  BY <1>1, TextStep
<1>3. ASSUME NEW k \in 0 .. n - 1, k \in S PROVE k + 1 \in S
  <2>1. k + 1 \in 1 .. n /\ k + 1 \in 1 .. Len(h) /\ (k + 1) - 1 = k /\ k + 1 \in 0 .. n
    BY <1>1
  <2>2. U[k + 1] = IF h[k + 1].type = "token" THEN U[k] \o h[k + 1].data ELSE U[k]
    BY <1>1, <2>1, TextStep
  <2>3. T[k + 1] = IF e[k + 1].type = "token" THEN T[k] \o e[k + 1].data ELSE T[k]
    BY <2>1, TextStep
  <2>4. h[k + 1] = e[k + 1] /\ U[k] = T[k]
    BY <1>1, <1>3, <2>1
  <2> QED
    BY <2>1, <2>2, <2>3, <2>4
<1> HIDE DEF S
<1>4. 0 .. n \subseteq S
  BY <1>1, <1>2, <1>3, Upward
<1> QED
  BY <1>4 DEF S, h

-----------------------------------------------------------------------------
(* What a replay adds up to. *)

(* ORDER BY seq: every row has its place, and the sequence numbers increase. *)
LEMMA SortedOrder ==
  ASSUME NEW R, Sortable(R)
  PROVE  /\ \A i, j \in 1 .. Cardinality(R) :
              i < j => InSeqOrder(R)[i].seq < InSeqOrder(R)[j].seq
         /\ \A r \in R : \E i \in 1 .. Cardinality(R) : InSeqOrder(R)[i] = r
<1> DEFINE s == InSeqOrder(R)
           n == Cardinality(R)
           C(r) == Cardinality(Below(R, r))
<1>1. n \in Nat /\ \A i \in 1 .. n : s[i] \in R
  BY SortedRows
<1>2. \A r \in R : r.seq \in Nat
  BY RowFields DEF Sortable
<1>3. ASSUME NEW r \in R
      PROVE  IsFiniteSet(Below(R, r)) /\ C(r) \in Nat /\ C(r) < n
  <2>1. Below(R, r) \in SUBSET R /\ r \in R /\ r \notin Below(R, r)
    BY <1>2 DEF Below
  <2>2. IsFiniteSet(R)
    BY DEF Sortable
  <2>3. IsFiniteSet(Below(R, r)) /\ C(r) <= n /\ C(r) # n
    BY <2>1, <2>2, FS_Subset
  <2>4. C(r) \in Nat
    BY <2>3, FS_CardinalityType
  <2> QED
    BY <1>1, <2>3, <2>4
<1>4. \A i \in 1 .. n : C(s[i]) = i - 1
  <2>1. SUFFICES ASSUME NEW i \in 1 .. n PROVE C(s[i]) = i - 1
    OBVIOUS
  <2>2. \E r \in R : Cardinality({q \in R : q.seq < r.seq}) = i - 1
    BY RankExists DEF Below
  <2>3. s[i] = CHOOSE r \in R : Cardinality({q \in R : q.seq < r.seq}) = i - 1
    BY DEF InSeqOrder
  <2>4. Cardinality({q \in R : q.seq < s[i].seq}) = i - 1
    BY <2>2, <2>3
  <2> QED
    BY <2>4 DEF Below
<1> HIDE DEF s
<1>5. ASSUME NEW r \in R, NEW q \in R, q.seq <= r.seq
      PROVE  C(q) <= C(r) /\ (C(q) = C(r) => q.seq = r.seq)
  <2>1. Below(R, q) \in SUBSET Below(R, r)
    BY <1>2, <1>5 DEF Below
  <2>2. C(q) <= C(r) /\ (C(r) = C(q) => Below(R, r) = Below(R, q))
    BY <1>3, <2>1, FS_Subset
  <2>3. q.seq # r.seq => q \in Below(R, r) /\ q \notin Below(R, q)
    BY <1>2, <1>5 DEF Below
  <2> QED
    BY <2>2, <2>3
<1>6. ASSUME NEW i \in 1 .. n, NEW j \in 1 .. n, i < j
      PROVE  s[i].seq < s[j].seq
  <2>1. s[i] \in R /\ s[j] \in R /\ C(s[i]) = i - 1 /\ C(s[j]) = j - 1
    BY <1>1, <1>4
  <2>2. ~(C(s[j]) <= C(s[i]))
    <3> HIDE DEF C
    <3>1. i \in Nat /\ j \in Nat
      BY <1>1
    <3> QED
      BY <1>6, <2>1, <3>1
  <2>3. ~(s[j].seq <= s[i].seq)
    BY <1>5, <2>1, <2>2
  <2>4. s[i].seq \in Nat /\ s[j].seq \in Nat
    BY <1>2, <2>1
  <2> QED
    BY <2>3, <2>4
<1>7. ASSUME NEW r \in R PROVE \E i \in 1 .. n : s[i] = r
  <2> DEFINE i == C(r) + 1
  <2>1. i \in 1 .. n /\ i - 1 = C(r)
    BY <1>1, <1>3
  <2>2. s[i] \in R /\ C(s[i]) = C(r)
    BY <1>1, <1>4, <2>1
  <2>3. s[i].seq <= r.seq \/ r.seq <= s[i].seq
    BY <1>2, <2>2
  <2>4. s[i].seq = r.seq
    BY <1>5, <2>2, <2>3
  <2>5. s[i] = r
    BY <2>2, <2>4 DEF Sortable
  <2> QED
    BY <2>1, <2>5
<1> QED
  BY <1>6, <1>7 DEF s

(* The rows of R, shifted by d, hold everything but heartbeats of the events lo + 1 .. hi of l. *)
Piece(l, R, d, lo, hi) ==
  /\ Sortable(R) /\ \A r, q \in R : r # q => Apart(r, q)
  /\ \A r \in R : lo <= d + r.seq /\ d + RowEnd(r) <= hi
  /\ \A r \in R : r.ev.type = "token" =>
       /\ r.ev.data = [k \in 1 .. r.span |-> d + r.seq + k - 1]
       /\ \A k \in 1 .. r.span : l[d + r.seq + k].type = "token"
  /\ \A r \in R : r.ev.type # "token" => r.span = 1 /\ r.ev = l[d + r.seq + 1]
  /\ \A p \in lo .. hi - 1 : l[p + 1].type = "working" \/ Covers(R, p - d)

(* Read in order, the events e take the text from the first lo events of l to the first hi, by way *)
(* of the positions pos, and leave out no structural event.                                         *)
Along(l, e, pos, lo, hi) ==
  /\ e \in Seq(Event) /\ pos \in [0 .. Len(e) -> lo .. hi]
  /\ pos[0] = lo /\ TextUpTo(l)[pos[Len(e)]] = TextUpTo(l)[hi]
  /\ \A i \in 1 .. Len(e) : e[i].type = "token" =>
       TextUpTo(l)[pos[i]] = TextUpTo(l)[pos[i - 1]] \o e[i].data
  /\ \A i \in 1 .. Len(e) : e[i].type # "token" =>
       TextUpTo(l)[pos[i]] = TextUpTo(l)[pos[i - 1]] /\ e[i] = l[pos[i]]
  /\ \A i, j \in 0 .. Len(e) : i < j => pos[i] < pos[j]
  /\ \A q \in lo + 1 .. hi : l[q].type \notin {"token", "working"} =>
       \E i \in 1 .. Len(e) : pos[i] = q /\ e[i] = l[q]

(* A replay of such rows in the order of their sequence numbers takes the text from lo to hi. *)
LEMMA PieceReads ==
  ASSUME NEW l \in Seq(Event), Positioned(l, 0), NEW R, NEW d \in Nat,
         NEW lo \in Nat, NEW hi \in lo .. Len(l), Piece(l, R, d, lo, hi)
  PROVE  \E pos : Along(l, EventsOf(InSeqOrder(R)), pos, lo, hi)
<1> DEFINE s == InSeqOrder(R)
           n == Cardinality(R)
           e == EventsOf(s)
           T == TextUpTo(l)
           A == [i \in 1 .. n |-> d + s[i].seq]
           B == [i \in 1 .. n |-> d + RowEnd(s[i])]
           pos == [i \in 0 .. n |-> IF i = 0 THEN lo ELSE B[i]]
<1>1. /\ Sortable(R) /\ R \subseteq Row /\ n \in Nat /\ DOMAIN s = 1 .. n
      /\ \A i \in 1 .. n : s[i] \in R
  BY SortedRows DEF Piece, Sortable
<1>2. /\ \A i, j \in 1 .. n : i < j => s[i].seq < s[j].seq
      /\ \A r \in R : \E i \in 1 .. n : s[i] = r
  BY <1>1, SortedOrder
<1>3. e \in Seq(Event) /\ Len(e) = n /\ \A i \in 1 .. n : e[i] = s[i].ev
  <2>1. e = [i \in 1 .. n |-> s[i].ev]
    BY <1>1 DEF EventsOf
  <2>2. \A r \in R : r.ev \in Event
    BY <1>1 DEF Row
  <2> HIDE DEF e, s, n
  <2>3. e \in [1 .. n -> Event]
    BY <1>1, <2>1, <2>2
  <2> QED
    BY <1>1, <2>1, <2>3
<1> HIDE DEF s, n, e
<1>4. \A i \in 1 .. n : /\ A[i] = d + s[i].seq /\ B[i] = d + RowEnd(s[i])
                        /\ RowEnd(s[i]) = s[i].seq + s[i].span
                        /\ s[i].seq \in Nat /\ s[i].span \in Nat \ {0}
  <2>1. \A i \in 1 .. n : s[i] \in Row
    BY <1>1
  <2> QED
    BY <2>1, RowFields DEF RowEnd
<1> HIDE DEF A, B
<1>5. \A i \in 1 .. n : /\ A[i] \in Nat /\ B[i] \in Nat /\ lo <= A[i] /\ A[i] < B[i] /\ B[i] <= hi
                        /\ B[i] = A[i] + s[i].span
  <2>1. SUFFICES ASSUME NEW i \in 1 .. n
                 PROVE  /\ A[i] \in Nat /\ B[i] \in Nat /\ lo <= A[i] /\ A[i] < B[i] /\ B[i] <= hi
                        /\ B[i] = A[i] + s[i].span
    OBVIOUS
  <2> DEFINE x == s[i].seq
             y == s[i].span
             a == A[i]
             b == B[i]
  <2>2. lo <= d + s[i].seq /\ d + RowEnd(s[i]) <= hi
    BY <1>1 DEF Piece
  <2>3. a = d + x /\ b = d + (x + y) /\ x \in Nat /\ y \in Nat \ {0} /\ lo <= a /\ b <= hi
    BY <1>4, <2>2
  <2> HIDE DEF x, y, a, b
  <2>4. a \in Nat /\ b \in Nat /\ a < b /\ b = a + y
    BY <2>3
  <2> QED
    BY <2>3, <2>4 DEF a, b, y
<1>6. \A i, j \in 1 .. n : i < j => B[i] <= A[j]
  <2>1. SUFFICES ASSUME NEW i \in 1 .. n, NEW j \in 1 .. n, i < j PROVE B[i] <= A[j]
    OBVIOUS
  <2>2. s[i].seq < s[j].seq /\ s[i] # s[j]
    <3>1. s[i].seq < s[j].seq /\ s[i].seq \in Nat /\ s[j].seq \in Nat
      BY <1>2, <1>4, <2>1
    <3> QED
      BY <3>1
  <2>3. RowEnd(s[i]) <= s[j].seq \/ RowEnd(s[j]) <= s[i].seq
    BY <1>1, <2>2 DEF Piece, Apart
  <2> DEFINE x == s[i].seq
             y == s[j].seq
             u == s[i].span
             v == s[j].span
             b == B[i]
             a == A[j]
  <2>4. /\ x \in Nat /\ y \in Nat /\ u \in Nat /\ v \in Nat /\ x < y
        /\ b = d + (x + u) /\ a = d + y /\ (x + u <= y \/ y + v <= x)
    BY <1>4, <2>2, <2>3
  <2> HIDE DEF x, y, u, v, a, b
  <2>5. b <= a
    BY <2>4
  <2> QED
    BY <2>5 DEF a, b
<1>7. /\ pos \in [0 .. n -> lo .. hi] /\ pos[0] = lo
      /\ \A i \in 1 .. n : pos[i] = B[i] /\ i - 1 \in 0 .. n
  <2>1. \A i \in 0 .. n : i # 0 => i \in 1 .. n
    BY <1>1
  <2>2. \A i \in 0 .. n : (IF i = 0 THEN lo ELSE B[i]) \in lo .. hi
    BY <1>5, <2>1
  <2>3. \A i \in 1 .. n : i \in 0 .. n /\ i # 0 /\ i - 1 \in 0 .. n
    BY <1>1
  <2>4. pos \in [0 .. n -> lo .. hi]
    BY <2>2
  <2>5. pos[0] = lo
    BY <1>1
  <2>6. \A i \in 1 .. n : pos[i] = B[i]
    BY <2>3
  <2> QED
    BY <2>3, <2>4, <2>5, <2>6
<1> HIDE DEF pos
<1>8. \A i \in 1 .. n : pos[i - 1] <= A[i] /\ pos[i - 1] \in lo .. hi /\ pos[i - 1] \in Nat
  <2>1. SUFFICES ASSUME NEW i \in 1 .. n PROVE pos[i - 1] <= A[i]
    BY <1>7
  <2>2. CASE i = 1
    BY <1>5, <1>7, <2>2
  <2>3. CASE i # 1
    <3>1. i - 1 \in 1 .. n /\ i - 1 < i
      BY <1>1, <2>3
    <3> QED
      BY <1>6, <1>7, <3>1
  <2> QED
    BY <2>2, <2>3
(* A position no row covers is a heartbeat's. *)
<1>9. \A p \in lo .. hi - 1 :
        (\A i \in 1 .. n : p < A[i] \/ B[i] <= p) => l[p + 1].type = "working"
  <2>1. SUFFICES ASSUME NEW p \in lo .. hi - 1, \A i \in 1 .. n : p < A[i] \/ B[i] <= p,
                        Covers(R, p - d)
                 PROVE  FALSE
    BY DEF Piece
  <2>2. PICK r \in R : r.seq <= p - d /\ p - d < RowEnd(r)
    BY <2>1 DEF Covers
  <2>3. PICK i \in 1 .. n : s[i] = r
    BY <1>2
  <2> DEFINE x == s[i].seq
             y == RowEnd(s[i])
             a == A[i]
             b == B[i]
  <2>4. /\ x \in Nat /\ y \in Nat /\ a = d + x /\ b = d + y /\ x <= p - d /\ p - d < y
        /\ (p < a \/ b <= p) /\ p \in Nat
    BY <1>4, <2>1, <2>2, <2>3
  <2> HIDE DEF x, y, a, b
  <2> QED
    BY <2>4
<1>10. \A i \in 1 .. n : T[A[i]] = T[pos[i - 1]]
  <2>1. SUFFICES ASSUME NEW i \in 1 .. n PROVE T[A[i]] = T[pos[i - 1]]
    OBVIOUS
  <2> DEFINE a == pos[i - 1]
             b == A[i]
  <2>2. a \in lo .. hi /\ a <= b /\ b \in Nat /\ b < hi /\ a \in Nat
    BY <1>5, <1>8
  <2>3. ASSUME NEW k \in a + 1 .. b PROVE l[k].type # "token"
    <3> DEFINE p == k - 1
    <3>1. p \in lo .. hi - 1 /\ p + 1 = k /\ p < b /\ a <= p /\ p \in Nat
      BY <2>2
    <3>2. ASSUME NEW j \in 1 .. n PROVE p < A[j] \/ B[j] <= p
      <4>1. CASE j = i
        BY <3>1, <4>1
      <4>2. CASE j < i
        <5>1. i - 1 \in 1 .. n /\ (j = i - 1 \/ j < i - 1)
          BY <1>1, <4>2
        <5>2. B[j] <= pos[i - 1]
          <6>1. CASE j = i - 1
            BY <1>5, <1>7, <6>1
          <6>2. CASE j < i - 1
            <7>1. B[j] <= A[i - 1] /\ A[i - 1] < B[i - 1] /\ pos[i - 1] = B[i - 1]
              BY <1>5, <1>6, <1>7, <5>1, <6>2
            <7>2. B[j] \in Nat /\ A[i - 1] \in Nat /\ B[i - 1] \in Nat
              BY <1>5, <5>1
            <7> QED
              BY <7>1, <7>2
          <6> QED
            BY <5>1, <6>1, <6>2
        <5>3. B[j] \in Nat
          BY <1>5
        <5> QED
          BY <2>2, <3>1, <5>2, <5>3
      <4>3. CASE i < j
        <5>1. B[i] <= A[j] /\ A[i] < B[i] /\ A[i] \in Nat /\ B[i] \in Nat /\ A[j] \in Nat
          BY <1>5, <1>6, <4>3
        <5> QED
          BY <3>1, <5>1
      <4> QED
        BY <1>1, <4>1, <4>2, <4>3
    <3>3. l[p + 1].type = "working"
      BY <1>9, <3>1, <3>2
    <3> QED
      BY <3>1, <3>3
  <2>4. a \in 0 .. Len(l) /\ b \in a .. Len(l)
    BY <2>2
  <2> HIDE DEF a, b
  <2>5. T[b] = T[a]
    BY <2>3, <2>4, TextGap
  <2> QED
    BY <2>5 DEF a, b
<1>11. T[pos[n]] = T[hi]
  <2> DEFINE a == pos[n]
  <2>1. n \in 0 .. n /\ a \in lo .. hi
    BY <1>1, <1>7
  <2>2. ASSUME NEW k \in a + 1 .. hi PROVE l[k].type # "token"
    <3> DEFINE p == k - 1
    <3>1. p \in lo .. hi - 1 /\ p + 1 = k /\ a <= p /\ p \in Nat /\ a \in Nat
      BY <2>1
    <3>2. ASSUME NEW j \in 1 .. n PROVE B[j] <= p
      <4>1. n \in 1 .. n /\ (j = n \/ j < n) /\ pos[n] = B[n]
        BY <1>1, <1>7
      <4>2. B[j] \in Nat /\ B[n] \in Nat /\ A[n] \in Nat /\ A[n] < B[n]
        BY <1>5, <4>1
      <4>3. j < n => B[j] <= A[n]
        BY <1>6, <4>1
      <4> QED
        BY <3>1, <4>1, <4>2, <4>3
    <3>3. l[p + 1].type = "working"
      BY <1>9, <3>1, <3>2
    <3> QED
      BY <3>1, <3>3
  <2>3. a \in 0 .. Len(l) /\ hi \in a .. Len(l)
    BY <2>1
  <2> HIDE DEF a
  <2>4. T[hi] = T[a]
    BY <2>2, <2>3, TextGap
  <2> QED
    BY <2>4 DEF a
<1>12. \A i \in 1 .. n : e[i].type = "token" => T[pos[i]] = T[pos[i - 1]] \o e[i].data
  <2>1. SUFFICES ASSUME NEW i \in 1 .. n, e[i].type = "token"
                 PROVE  T[B[i]] = T[A[i]] \o e[i].data
    BY <1>7, <1>10
  <2> DEFINE a == A[i]
             b == B[i]
             m == s[i].span
  <2>2. /\ e[i].data = [k \in 1 .. m |-> d + s[i].seq + k - 1]
        /\ \A k \in 1 .. m : l[d + s[i].seq + k].type = "token"
    BY <1>1, <1>3, <2>1 DEF Piece
  <2>3. /\ a \in Nat /\ b \in Nat /\ b = a + m /\ m \in Nat /\ b <= Len(l) /\ b - a = m
        /\ a = d + s[i].seq
    <3>1. a \in Nat /\ b \in Nat /\ b = a + m /\ m \in Nat /\ b <= hi /\ a = d + s[i].seq
      BY <1>4, <1>5
    <3> HIDE DEF a, b, m
    <3>2. b - a = m /\ b <= Len(l)
      BY <3>1
    <3> QED
      BY <3>1, <3>2
  <2>4. a \in 0 .. Len(l) /\ b \in a .. Len(l)
    BY <2>3
  <2>5. ASSUME NEW k \in a + 1 .. b PROVE l[k].type = "token" /\ l[k].data = <<k - 1>>
    <3>1. k - a \in 1 .. m /\ a + (k - a) = k /\ k \in 1 .. Len(l)
      <4> HIDE DEF a, b, m
      <4>1. Len(l) \in Nat /\ k \in Int /\ a + 1 <= k /\ k <= b
        BY <2>3
      <4>2. a \in Nat /\ m \in Nat /\ k <= a + m /\ a + m <= Len(l)
        BY <2>3, <4>1
      <4>3. k - a \in 1 .. m /\ a + (k - a) = k
        BY <4>1, <4>2
      <4>4. k \in 1 .. Len(l)
        BY <4>1, <4>2
      <4> QED
        BY <4>3, <4>4
    <3>2. l[a + (k - a)].type = "token"
      BY <2>2, <2>3, <3>1
    <3>3. l[k].type = "token" => l[k].data = <<0 + k - 1>>
      BY <3>1 DEF Positioned
    <3>4. 0 + k - 1 = k - 1
      BY <3>1
    <3> QED
      BY <3>1, <3>2, <3>3, <3>4
  <2>6. e[i].data = [k \in 1 .. (b - a) |-> a + k - 1]
    BY <2>2, <2>3
  <2> HIDE DEF a, b
  <2>7. T[b] = T[a] \o [k \in 1 .. (b - a) |-> a + k - 1]
    BY <2>4, <2>5, TextRun
  <2> QED
    BY <2>6, <2>7 DEF a, b
<1>13. \A i \in 1 .. n : e[i].type # "token" => T[pos[i]] = T[pos[i - 1]] /\ e[i] = l[pos[i]]
  <2>1. SUFFICES ASSUME NEW i \in 1 .. n, e[i].type # "token"
                 PROVE  T[B[i]] = T[A[i]] /\ e[i] = l[B[i]]
    BY <1>7, <1>10
  <2>2. s[i].span = 1 /\ e[i] = l[d + s[i].seq + 1]
    BY <1>1, <1>3, <2>1 DEF Piece
  <2>3. A[i] \in Nat /\ B[i] = A[i] + 1 /\ B[i] <= hi /\ A[i] = d + s[i].seq
    BY <1>4, <1>5, <2>2
  <2>4. B[i] \in 1 .. Len(l) /\ B[i] - 1 = A[i] /\ e[i] = l[B[i]]
    BY <2>2, <2>3
  <2>5. T[B[i]] = T[A[i]]
    BY <2>1, <2>4, TextStep
  <2> QED
    BY <2>4, <2>5
<1>14. \A i, j \in 0 .. n : i < j => pos[i] < pos[j]
  <2>1. SUFFICES ASSUME NEW i \in 0 .. n, NEW j \in 0 .. n, i < j PROVE pos[i] < pos[j]
    OBVIOUS
  <2>2. j \in 1 .. n /\ pos[j] = B[j] /\ A[j] < B[j] /\ lo <= A[j] /\ A[j] \in Nat /\ B[j] \in Nat
    BY <1>1, <1>5, <1>7, <2>1
  <2>3. CASE i = 0
    BY <1>7, <2>2, <2>3
  <2>4. CASE i # 0
    <3>1. i \in 1 .. n /\ pos[i] = B[i] /\ B[i] <= A[j] /\ B[i] \in Nat
      BY <1>1, <1>5, <1>6, <1>7, <2>1, <2>2, <2>4
    <3> QED
      BY <2>2, <3>1
  <2> QED
    BY <2>3, <2>4
<1>15. \A q \in lo + 1 .. hi : l[q].type \notin {"token", "working"} =>
         \E i \in 1 .. n : pos[i] = q /\ e[i] = l[q]
  <2>1. SUFFICES ASSUME NEW q \in lo + 1 .. hi, l[q].type \notin {"token", "working"}
                 PROVE  \E i \in 1 .. n : pos[i] = q /\ e[i] = l[q]
    OBVIOUS
  <2>2. q - 1 \in lo .. hi - 1 /\ (q - 1) + 1 = q /\ q - 1 \in Nat /\ q \in Nat
    BY <2>1
  <2>3. PICK i \in 1 .. n : ~(q - 1 < A[i]) /\ ~(B[i] <= q - 1)
    BY <1>9, <2>1, <2>2
  <2>4. A[i] \in Nat /\ B[i] \in Nat /\ B[i] = A[i] + s[i].span /\ s[i].span \in Nat
    BY <1>4, <1>5
  <2>5. e[i].type # "token"
    <3>1. SUFFICES ASSUME e[i].type = "token" PROVE FALSE
      OBVIOUS
    <3>2. \A k \in 1 .. s[i].span : l[d + s[i].seq + k].type = "token"
      BY <1>1, <1>3, <3>1 DEF Piece
    <3>3. q - A[i] \in 1 .. s[i].span /\ A[i] + (q - A[i]) = q
      <4> DEFINE a == A[i]
                 b == B[i]
                 m == s[i].span
      <4>1. a \in Nat /\ b \in Nat /\ b = a + m /\ m \in Nat /\ ~(q - 1 < a) /\ ~(b <= q - 1)
            /\ q \in Nat
        BY <2>2, <2>3, <2>4
      <4> HIDE DEF a, b, m
      <4>2. q - a \in 1 .. m /\ a + (q - a) = q
        BY <4>1
      <4> QED
        BY <4>2 DEF a, m
    <3>4. A[i] = d + s[i].seq
      BY <1>4
    <3>5. l[A[i] + (q - A[i])].type = "token"
      BY <3>2, <3>3, <3>4
    <3> QED
      BY <2>1, <3>3, <3>5
  <2>6. s[i].span = 1
    BY <1>1, <1>3, <2>5 DEF Piece
  <2>7. B[i] = q
    BY <2>2, <2>3, <2>4, <2>6
  <2> QED
    BY <1>7, <1>13, <2>5, <2>7
<1>16. Along(l, e, pos, lo, hi)
  BY <1>3, <1>7, <1>11, <1>12, <1>13, <1>14, <1>15 DEF Along
<1> QED
  BY <1>16 DEF e, s

(* Two such readings one after the other. *)
LEMMA AlongJoin ==
  ASSUME NEW l \in Seq(Event), NEW lo \in Nat, NEW mid \in lo .. Len(l), NEW hi \in mid .. Len(l),
         NEW e, NEW p, Along(l, e, p, lo, mid), NEW f, NEW q, Along(l, f, q, mid, hi)
  PROVE  \E pos : Along(l, e \o f, pos, lo, hi)
<1> DEFINE g == e \o f
           m == Len(e)
           n == Len(f)
           T == TextUpTo(l)
           pos == [i \in 0 .. m + n |-> IF i <= m THEN p[i] ELSE q[i - m]]
<1>1. /\ e \in Seq(Event) /\ f \in Seq(Event) /\ m \in Nat /\ n \in Nat
      /\ p \in [0 .. m -> lo .. mid] /\ q \in [0 .. n -> mid .. hi]
      /\ p[0] = lo /\ T[p[m]] = T[mid] /\ q[0] = mid /\ T[q[n]] = T[hi]
  BY DEF Along
<1>2. /\ g \in Seq(Event) /\ Len(g) = m + n
      /\ \A i \in 1 .. m : g[i] = e[i]
      /\ \A i \in 1 .. n : g[m + i] = f[i]
  BY <1>1
<1> HIDE DEF g, m, n
<1>3. /\ \A i \in 0 .. m : i \in 0 .. m + n /\ pos[i] = p[i]
      /\ \A i \in 1 .. n : m + i \in 0 .. m + n /\ pos[m + i] = q[i]
  <2>1. \A i \in 0 .. m : i \in 0 .. m + n /\ i <= m
    BY <1>1
  <2>2. \A i \in 1 .. n : m + i \in 0 .. m + n /\ ~(m + i <= m) /\ (m + i) - m = i
    BY <1>1
  <2> QED
    BY <2>1, <2>2
<1>4. pos \in [0 .. m + n -> lo .. hi]
  <2>1. ASSUME NEW i \in 0 .. m + n PROVE (IF i <= m THEN p[i] ELSE q[i - m]) \in lo .. hi
    <3>1. CASE i <= m
      <4>1. i \in 0 .. m
        BY <1>1, <3>1
      <4>2. p[i] \in lo .. mid
        BY <1>1, <4>1
      <4> QED
        BY <3>1, <4>2
    <3>2. CASE ~(i <= m)
      <4>1. i - m \in 0 .. n
        BY <1>1, <3>2
      <4>2. q[i - m] \in mid .. hi
        BY <1>1, <4>1
      <4> QED
        BY <3>2, <4>2
    <3> QED
      BY <3>1, <3>2
  <2> QED
    BY <2>1
<1> HIDE DEF pos
(* Every frame of g is one of e or one of f, and the text at its two ends is the same. *)
<1>5. \A i \in 1 .. m + n :
        \/ i \in 1 .. m
        \/ \E k \in 1 .. n : i = m + k
  <2>1. SUFFICES ASSUME NEW i \in 1 .. m + n, ~(i \in 1 .. m) PROVE \E k \in 1 .. n : i = m + k
    OBVIOUS
  <2>2. i - m \in 1 .. n /\ i = m + (i - m)
    BY <1>1, <2>1
  <2> QED
    BY <2>2
<1>6. \A k \in 1 .. n : T[pos[(m + k) - 1]] = T[q[k - 1]]
  <2>1. SUFFICES ASSUME NEW k \in 1 .. n PROVE T[pos[(m + k) - 1]] = T[q[k - 1]]
    OBVIOUS
  <2>2. CASE k = 1
    <3>1. (m + k) - 1 = m /\ k - 1 = 0 /\ m \in 0 .. m
      BY <1>1, <2>2
    <3>2. pos[m] = p[m]
      BY <1>3, <3>1
    <3> QED
      BY <1>1, <3>1, <3>2
  <2>3. CASE k # 1
    <3>1. (m + k) - 1 = m + (k - 1) /\ k - 1 \in 1 .. n
      BY <1>1, <2>3
    <3> QED
      BY <1>3, <3>1
  <2> QED
    BY <2>2, <2>3
<1>7. pos[0] = lo /\ T[pos[m + n]] = T[hi]
  <2>1. pos[0] = lo
    BY <1>1, <1>3
  <2>2. CASE n = 0
    <3>1. m + n = m /\ m \in 0 .. m
      BY <1>1, <2>2
    <3>2. q[0] = q[n] /\ T[mid] = T[hi]
      BY <1>1, <2>2
    <3> QED
      BY <1>1, <1>3, <2>1, <3>1, <3>2
  <2>3. CASE n # 0
    <3>1. n \in 1 .. n
      BY <1>1, <2>3
    <3> QED
      BY <1>1, <1>3, <2>1, <3>1
  <2> QED
    BY <2>2, <2>3
<1>8. ASSUME NEW i \in 1 .. m + n
      PROVE  /\ g[i].type = "token" => T[pos[i]] = T[pos[i - 1]] \o g[i].data
             /\ g[i].type # "token" => T[pos[i]] = T[pos[i - 1]] /\ g[i] = l[pos[i]]
  <2>1. CASE i \in 1 .. m
    <3>1. i \in 0 .. m /\ i - 1 \in 0 .. m
      BY <1>1, <2>1
    <3>2. pos[i] = p[i] /\ pos[i - 1] = p[i - 1] /\ g[i] = e[i]
      BY <1>2, <1>3, <2>1, <3>1
    <3>3. /\ e[i].type = "token" => T[p[i]] = T[p[i - 1]] \o e[i].data
          /\ e[i].type # "token" => T[p[i]] = T[p[i - 1]] /\ e[i] = l[p[i]]
      BY <2>1 DEF Along, m
    <3> QED
      BY <3>2, <3>3
  <2>2. ASSUME NEW k \in 1 .. n, i = m + k
        PROVE  /\ g[i].type = "token" => T[pos[i]] = T[pos[i - 1]] \o g[i].data
               /\ g[i].type # "token" => T[pos[i]] = T[pos[i - 1]] /\ g[i] = l[pos[i]]
    <3>1. pos[i] = q[k] /\ T[pos[i - 1]] = T[q[k - 1]] /\ g[i] = f[k]
      BY <1>2, <1>3, <1>6, <2>2
    <3>2. /\ f[k].type = "token" => T[q[k]] = T[q[k - 1]] \o f[k].data
          /\ f[k].type # "token" => T[q[k]] = T[q[k - 1]] /\ f[k] = l[q[k]]
      BY <2>2 DEF Along, n
    <3> QED
      BY <3>1, <3>2
  <2> QED
    BY <1>5, <2>1, <2>2
<1>9. \A i, j \in 0 .. m + n : i < j => pos[i] < pos[j]
  <2>1. SUFFICES ASSUME NEW i \in 0 .. m + n, NEW j \in 0 .. m + n, i < j PROVE pos[i] < pos[j]
    OBVIOUS
  <2>2. CASE j <= m
    <3>1. i \in 0 .. m /\ j \in 0 .. m
      BY <1>1, <2>1, <2>2
    <3>2. p[i] < p[j]
      BY <2>1, <3>1 DEF Along, m
    <3> QED
      BY <1>3, <3>1, <3>2
  <2>3. CASE m < j
    <3>1. j - m \in 1 .. n /\ j = m + (j - m) /\ 0 \in 0 .. n /\ j - m \in 0 .. n
      BY <1>1, <2>3
    <3>2. pos[j] = q[j - m]
      BY <1>3, <3>1
    <3>3. q[0] < q[j - m]
      BY <3>1 DEF Along, n
    <3>4. q[j - m] \in mid .. hi
      BY <1>1, <3>1
    <3>5. CASE i <= m
      <4>1. i \in 0 .. m
        BY <1>1, <3>5
      <4>2. pos[i] = p[i] /\ p[i] \in lo .. mid
        BY <1>1, <1>3, <4>1
      <4>3. p[i] <= mid /\ mid < q[j - m] /\ p[i] \in Nat /\ mid \in Nat /\ q[j - m] \in Nat
        BY <1>1, <3>3, <3>4, <4>2
      <4>4. p[i] < q[j - m]
        BY <4>3
      <4> QED
        BY <3>2, <4>2, <4>4
    <3>6. CASE m < i
      <4>1. i - m \in 1 .. n /\ i = m + (i - m) /\ i - m < j - m /\ i - m \in 0 .. n
        BY <1>1, <2>1, <3>6
      <4>2. q[i - m] < q[j - m]
        BY <3>1, <4>1 DEF Along, n
      <4>3. pos[i] = q[i - m]
        BY <1>3, <4>1
      <4> QED
        BY <3>2, <4>2, <4>3
    <3> QED
      BY <1>1, <3>5, <3>6
  <2> QED
    BY <1>1, <2>2, <2>3
<1>10. ASSUME NEW x \in lo + 1 .. hi, l[x].type \notin {"token", "working"}
       PROVE  \E i \in 1 .. m + n : pos[i] = x /\ g[i] = l[x]
  <2>1. CASE x <= mid
    <3>1. x \in lo + 1 .. mid
      BY <2>1
    <3>2. PICK i \in 1 .. m : p[i] = x /\ e[i] = l[x]
      BY <1>10, <3>1 DEF Along, m
    <3>3. i \in 0 .. m /\ i \in 1 .. m + n
      BY <1>1
    <3> QED
      BY <1>2, <1>3, <3>2, <3>3
  <2>2. CASE mid < x
    <3>1. x \in mid + 1 .. hi
      BY <2>2
    <3>2. PICK k \in 1 .. n : q[k] = x /\ f[k] = l[x]
      BY <1>10, <3>1 DEF Along, n
    <3>3. m + k \in 1 .. m + n
      BY <1>1
    <3> QED
      BY <1>2, <1>3, <3>2, <3>3
  <2> QED
    BY <2>1, <2>2
<1>11. Along(l, g, pos, lo, hi)
  BY <1>2, <1>4, <1>7, <1>8, <1>9, <1>10 DEF Along
<1> QED
  BY <1>11 DEF g

(* What such a reading adds up to, from the start: the text of the first hi events. *)
LEMMA AlongText ==
  ASSUME NEW l \in Seq(Event), NEW hi \in 0 .. Len(l), NEW e, NEW pos, Along(l, e, pos, 0, hi)
  PROVE  TextOf(e) = TextUpTo(l)[hi]
<1> DEFINE T == TextUpTo(l)
           U == TextUpTo(e)
           n == Len(e)
           S == {i \in 0 .. n : U[i] = T[pos[i]]}
<1>1. e \in Seq(Event) /\ n \in Nat /\ 0 \in Nat /\ pos[0] = 0 /\ T[pos[n]] = T[hi]
  BY DEF Along
<1>2. 0 \in S
  <2>1. U[0] = <<>> /\ T[0] = <<>>
    BY <1>1, TextStep
  <2> QED
    BY <1>1, <2>1
<1>3. ASSUME NEW i \in 0 .. n - 1, i \in S PROVE i + 1 \in S
  <2>1. i + 1 \in 1 .. n /\ (i + 1) - 1 = i /\ i + 1 \in 0 .. n
    BY <1>1
  <2>2. U[i + 1] = IF e[i + 1].type = "token" THEN U[i] \o e[i + 1].data ELSE U[i]
    BY <1>1, <2>1, TextStep
  <2>3. /\ e[i + 1].type = "token" => T[pos[i + 1]] = T[pos[i]] \o e[i + 1].data
        /\ e[i + 1].type # "token" => T[pos[i + 1]] = T[pos[i]]
    BY <2>1 DEF Along
  <2>4. U[i] = T[pos[i]]
    BY <1>3
  <2> QED
    BY <2>1, <2>2, <2>3, <2>4
<1> HIDE DEF S
<1>4. 0 .. n \subseteq S
  BY <1>1, <1>2, <1>3, Upward
<1>5. n \in S
  BY <1>1, <1>4
<1> QED
  BY <1>1, <1>5 DEF S, TextOf

-----------------------------------------------------------------------------
(* What the server keeps of the log. *)

(* A flush stores a structural event as it was emitted, and leaves the tail alone. *)
LEMMA FlushExact ==
  ASSUME NEW s, Sound(s), Counted(s), \A r \in s.db.rows : PlainExact(s.log, r),
         NEW ok \in BOOLEAN
  PROVE  /\ \A r \in flushJob(s, ok).db.rows : PlainExact(s.log, r)
         /\ flushJob(s, ok).job.tail = s.job.tail
         /\ flushJob(s, ok).job.tailStart = s.job.tailStart
         /\ flushJob(s, ok).job.inRam = s.job.inRam
         /\ flushJob(s, ok).job.eventCount = s.job.eventCount
<1> DEFINE f == flushJob(s, ok)
           p == s.job.pending
           n == Len(s.log) - Len(p)
           l == s.log
<1>1. /\ f.log = l /\ f.job = [s.job EXCEPT !.pending = <<>>]
      /\ f.db.rows = IF ok THEN s.db.rows \cup coalesceEvents(p, n) ELSE s.db.rows
  BY FlushResult
<1>2. /\ l \in Seq(Event) /\ Len(l) \in Nat /\ s.job \in JobRecord /\ p \in Seq(Event)
      /\ Len(p) \in Nat /\ s.db.eventCount \in Nat
  BY SoundParts
<1>3. n \in Nat /\ \A k \in 1 .. Len(p) : p[k] = l[n + k]
  <2>1. s.db.eventCount + Len(p) <= Len(l) /\ \A k \in 1 .. Len(p) : p[k] = l[Len(l) - Len(p) + k]
    BY DEF Counted
  <2>2. Len(l) - Len(p) \in Nat
    BY <1>2, <2>1
  <2> QED
    BY <2>1, <2>2
<1>4. n + Len(p) = Len(l)
  BY <1>2
<1>5. /\ f.job.tail = s.job.tail /\ f.job.tailStart = s.job.tailStart
      /\ f.job.inRam = s.job.inRam /\ f.job.eventCount = s.job.eventCount
  <2> HIDE DEF f
  <2> QED
    BY <1>1, <1>2 DEF JobRecord
<1> HIDE DEF f, p, n, l
<1>6. ASSUME NEW r \in coalesceEvents(p, n) PROVE PlainExact(l, r)
  <2>1. CASE \E run \in TokenRuns(p) : r = RunRow(p, n, run)
    <3>1. r.ev.type = "token"
      BY <2>1 DEF RunRow
    <3> QED
      BY <3>1 DEF PlainExact
  <2>2. CASE \E i \in DOMAIN p : r = PlainRow(p, n, i)
    <3>1. PICK i \in 1 .. Len(p) : r = PlainRow(p, n, i)
      BY <1>2, <2>2
    <3>2. r.seq = n + i - 1 /\ r.span = 1 /\ r.ev = p[i]
      BY <1>2, <1>3, <3>1, PlainRowShape
    <3> DEFINE x == r.seq
    <3>3. x = n + i - 1
      BY <3>2
    <3> HIDE DEF x
    <3>4. x < Len(l) /\ x + 1 = n + i
      BY <1>2, <1>3, <1>4, <3>3
    <3>5. r.ev = l[x + 1]
      BY <1>3, <3>2, <3>4
    <3> QED
      BY <3>2, <3>4, <3>5 DEF PlainExact, x
  <2> QED
    BY <2>1, <2>2 DEF coalesceEvents
<1>7. \A r \in f.db.rows : PlainExact(l, r)
  BY <1>1, <1>6 DEF l
<1> QED
  BY <1>5, <1>7 DEF f, l

(* A longer log keeps what a row was written from. *)
LEMMA ExactLonger ==
  ASSUME NEW l \in Seq(Event), NEW o \in Event, NEW r \in Row, PlainExact(l, r)
  PROVE  PlainExact(Append(l, o), r)
<1>1. Len(Append(l, o)) = Len(l) + 1 /\ Len(l) \in Nat /\ \A i \in 1 .. Len(l) : Append(l, o)[i] = l[i]
  OBVIOUS
<1>2. r.seq \in Nat
  BY RowFields
<1>3. r.seq < Len(l) => r.seq + 1 \in 1 .. Len(l) /\ r.seq < Len(l) + 1
  BY <1>1, <1>2
<1> QED
  BY <1>1, <1>3 DEF PlainExact

(* Buffering an event keeps the tail the end of the log, spilled or not (jobEmit). *)
LEMMA BufferExact ==
  ASSUME NEW s, Sound(s), NEW o \in Event, TailExact(s.log, s.job)
  PROVE  TailExact(Append(s.log, o), Buffered(s, o).job)
<1> DEFINE l == s.log
           m == Append(l, o)
           t == s.job.tail
           a == s.job.tailStart
           u == Append(t, o)
           j == Buffered(s, o).job
<1>1. l \in Seq(Event) /\ t \in Seq(Event) /\ s.job \in JobRecord /\ a \in Nat
  BY SoundParts DEF JobRecord
<1>2. /\ j.tail = Spill(u)
      /\ j.tailStart = IF Len(t) + 1 > TailCap THEN a + 1 ELSE a
  BY <1>1 DEF Buffered, JobRecord
<1>3. /\ m \in Seq(Event) /\ Len(m) = Len(l) + 1 /\ m[Len(l) + 1] = o
      /\ \A i \in 1 .. Len(l) : m[i] = l[i]
      /\ u \in Seq(Event) /\ Len(u) = Len(t) + 1 /\ u[Len(t) + 1] = o
      /\ \A i \in 1 .. Len(t) : u[i] = t[i]
      /\ Len(l) \in Nat /\ Len(t) \in Nat
  BY <1>1
<1>4. a + Len(t) = Len(l) /\ \A k \in 1 .. Len(t) : t[k] = l[a + k]
  BY DEF TailExact
<1> HIDE DEF l, m, t, a, u, j
<1>5. ASSUME NEW k \in 1 .. Len(u) PROVE u[k] = m[a + k]
  <2>1. CASE k \in 1 .. Len(t)
    <3>1. a + k \in 1 .. Len(l)
      BY <1>1, <1>3, <1>4, <2>1
    <3> QED
      BY <1>3, <1>4, <2>1, <3>1
  <2>2. CASE k = Len(t) + 1
    <3>1. a + k = Len(l) + 1
      <4> DEFINE x == Len(t)
                 y == Len(l)
      <4>1. x \in Nat /\ y \in Nat /\ a \in Nat /\ k = x + 1 /\ a + x = y
        BY <1>1, <1>3, <1>4, <2>2
      <4> HIDE DEF x, y
      <4>2. a + k = y + 1
        BY <4>1
      <4> QED
        BY <4>2 DEF y
    <3> QED
      BY <1>3, <2>2, <3>1
  <2> QED
    BY <1>3, <2>1, <2>2
<1>6. CASE Len(t) + 1 > TailCap
  <2>1. j.tail = Tail(u) /\ j.tailStart = a + 1
    BY <1>2, <1>3, <1>6 DEF Spill
  <2>2. u # <<>>
    BY <1>3
  <2>3. Len(j.tail) = Len(u) - 1 /\ \A k \in 1 .. Len(j.tail) : j.tail[k] = u[k + 1]
    BY <1>3, <2>1, <2>2
  <2>4. ASSUME NEW k \in 1 .. Len(j.tail) PROVE j.tail[k] = m[(a + 1) + k]
    <3>1. k + 1 \in 1 .. Len(u) /\ a + (k + 1) = (a + 1) + k
      BY <1>1, <1>3, <2>3
    <3> QED
      BY <1>5, <2>3, <3>1
  <2>5. (a + 1) + Len(j.tail) = Len(m)
    <3> DEFINE x == Len(t)
               y == Len(l)
               z == Len(j.tail)
    <3>1. x \in Nat /\ y \in Nat /\ a \in Nat /\ z = (x + 1) - 1 /\ a + x = y /\ Len(m) = y + 1
      BY <1>1, <1>3, <1>4, <2>3
    <3> HIDE DEF x, y, z
    <3>2. (a + 1) + z = y + 1
      BY <3>1
    <3> QED
      BY <3>1, <3>2 DEF z
  <2> QED
    BY <2>1, <2>4, <2>5 DEF TailExact, j, m, l
<1>7. CASE ~(Len(t) + 1 > TailCap)
  <2>1. j.tail = u /\ j.tailStart = a
    BY <1>2, <1>3, <1>7 DEF Spill
  <2>2. a + Len(u) = Len(m)
    BY <1>1, <1>3, <1>4
  <2> QED
    BY <1>5, <2>1, <2>2 DEF TailExact, j, m, l
<1> QED
  BY <1>6, <1>7

(* jobEmit, of a job that is not sealed: the log has one more event, and rows and tail are exact. *)
LEMMA EmitExact ==
  ASSUME NEW s, SInv(s), Exact(s), ~s.job.done, NEW o \in Event, NEW ok \in BOOLEAN,
         o.type = "token" => o.data = <<Len(s.log)>>
  PROVE  /\ Exact(jobEmit(s, o, ok)) /\ jobEmit(s, o, ok).log = Append(s.log, o)
         /\ jobEmit(s, o, ok).db.status = s.db.status
<1> DEFINE e == jobEmit(s, o, ok)
           b == Buffered(s, o)
<1>1. Sound(s) /\ Counted(s) /\ s.job.inRam /\ s.db.rows \subseteq Row /\ s.log \in Seq(Event)
  BY SoundParts DEF SInv
<1>2. /\ Sound(b) /\ Counted(b) /\ b.db = s.db /\ b.job.inRam = s.job.inRam
      /\ b.log = Append(s.log, o)
  BY <1>1, BufferSound DEF Buffered
<1>3. TailExact(b.log, b.job)
  BY <1>1, <1>2, BufferExact DEF Exact
<1>4. \A r \in b.db.rows : PlainExact(b.log, r)
  BY <1>1, <1>2, ExactLonger DEF Exact
<1>5. e = b \/ e = flushJob(b, ok)
  BY DEF jobEmit
<1> HIDE DEF b, e
<1>6. Exact(b)
  BY <1>1, <1>2, <1>3, <1>4 DEF Exact, Counted
<1>7. CASE e = b
  BY <1>2, <1>6, <1>7 DEF e
<1>8. CASE e = flushJob(b, ok)
  <2>1. /\ \A r \in e.db.rows : PlainExact(b.log, r)
        /\ e.job.tail = b.job.tail /\ e.job.tailStart = b.job.tailStart
        /\ e.job.inRam = b.job.inRam /\ e.job.eventCount = b.job.eventCount
    BY <1>2, <1>4, <1>8, FlushExact
  <2>2. e.log = b.log /\ e.db.status = b.db.status
    BY <1>2, <1>8, FlushResult
  <2>3. Exact(e)
    BY <1>1, <1>2, <1>6, <2>1, <2>2 DEF Exact, TailExact
  <2> QED
    BY <1>2, <2>2, <2>3 DEF e
<1> QED
  BY <1>5, <1>7, <1>8

(* finishJob emits nothing: the log, the tail and what the rows say stay. *)
LEMMA FinishExact ==
  ASSUME NEW s, SInv(s), Exact(s), ~s.job.done, NEW ok \in BOOLEAN, NEW okStatus \in BOOLEAN
  PROVE  /\ Exact(finishJob(s, ok, okStatus)) /\ finishJob(s, ok, okStatus).log = s.log
         /\ finishJob(s, ok, okStatus).job.done /\ finishJob(s, ok, okStatus).db.status # "gone"
<1> DEFINE t == [s EXCEPT !.job.done = TRUE]
           f == flushJob(t, ok)
           d == finish(f.db, FinalStatus(f.job), okStatus)
           g == finishJob(s, ok, okStatus)
<1>1. /\ Sound(s) /\ Counted(s) /\ s.job \in JobRecord /\ s.job.inRam /\ s.db.status = "running"
      /\ s = [log |-> s.log, job |-> s.job, db |-> s.db]
  BY DEF SInv, Sound, ServerStates
<1>2. /\ t = [log |-> s.log, job |-> [s.job EXCEPT !.done = TRUE], db |-> s.db]
      /\ t.log = s.log /\ t.db = s.db /\ t.job = [s.job EXCEPT !.done = TRUE]
  <2>1. t = [s EXCEPT !.job = [s.job EXCEPT !.done = TRUE]]
    BY Zenon
  <2> HIDE DEF t
  <2> QED
    BY <1>1, <2>1
<1> HIDE DEF t
<1>3. /\ t.job \in JobRecord /\ t.job.done /\ t.job.pending = s.job.pending
      /\ t.job.eventCount = s.job.eventCount /\ t.job.tail = s.job.tail
      /\ t.job.tailStart = s.job.tailStart /\ t.job.inRam = s.job.inRam
  BY <1>1, <1>2 DEF JobRecord
<1>4. Sound(t)
  BY <1>1, <1>2, <1>3 DEF Sound, ServerStates
<1>5. Counted(t)
  <2>1. /\ t.log = s.log /\ t.db = s.db /\ t.job.pending = s.job.pending
        /\ t.job.eventCount = s.job.eventCount
    BY <1>2, <1>3
  <2> QED
    BY <1>1, <2>1 DEF Counted
<1>6. /\ Sound(f) /\ f.log = s.log /\ f.db.status = "running"
      /\ f.job = [t.job EXCEPT !.pending = <<>>]
  BY <1>1, <1>2, <1>4, <1>5, FlushSound
<1>7. /\ \A r \in f.db.rows : PlainExact(s.log, r)
      /\ f.job.tail = s.job.tail /\ f.job.tailStart = s.job.tailStart /\ f.job.inRam
      /\ f.job.eventCount = Len(s.log)
  <2>1. s.job.eventCount = Len(s.log)
    BY <1>1 DEF Counted
  <2> QED
    BY <1>1, <1>2, <1>3, <1>4, <1>5, <2>1, FlushExact DEF Exact
<1>8. f.job.done
  BY <1>3, <1>6, NoPending
<1>9. /\ f.log \in Seq(Event) /\ f.job \in JobRecord /\ f.db \in Store
      /\ f = [log |-> f.log, job |-> f.job, db |-> f.db]
  BY <1>6 DEF Sound, ServerStates
<1>10. g = [f EXCEPT !.db = d]
  BY DEF finishJob, t
<1> HIDE DEF f
<1>11. d.rows = f.db.rows /\ d.status # "gone"
  BY <1>6, <1>9 DEF finish, FinalStatus, Store, Statuses
<1> HIDE DEF d
<1>12. g = [log |-> f.log, job |-> f.job, db |-> d]
  BY <1>9, <1>10
<1> HIDE DEF g
<1>13. g.log = s.log /\ g.job = f.job /\ g.db = d
  BY <1>6, <1>12
<1>14. TailExact(s.log, f.job)
  BY <1>1, <1>7 DEF Exact, TailExact
<1>15. Exact(g)
  BY <1>7, <1>11, <1>13, <1>14 DEF Exact
<1> QED
  BY <1>8, <1>11, <1>13, <1>15 DEF g

-----------------------------------------------------------------------------
(* The catch-up of an undisturbed turn. *)

(* The server's facts that a catch-up rests on. *)
LEMMA ServerFacts ==
  ASSUME Inv, WInv, Undisturbed, Settled
  PROVE  /\ log \in Seq(Event) /\ Len(log) \in Nat /\ Positioned(log, 0)
         /\ db.rows \subseteq Row /\ IsFiniteSet(db.rows) /\ RowsOK(log, db)
         /\ \A r \in db.rows : PlainExact(log, r)
         /\ db.eventCount \in Nat /\ job.eventCount \in Nat /\ job \in JobRecord
         /\ job.pending \in Seq(Event) /\ Len(job.pending) \in Nat
         /\ job.tail \in Seq(Event) /\ Len(job.tail) \in Nat /\ job.tailStart \in Nat
         /\ job.done => job.pending = <<>>
         /\ ~job.done => job.eventCount = Len(log) /\ job.inRam
         /\ ~job.done => \A k \in 1 .. Len(job.pending) :
                           job.pending[k] = log[Len(log) - Len(job.pending) + k]
         /\ \A k \in 1 .. Len(job.pending) : job.pending[k].type \in {"token", "working"}
         /\ job.inRam => TailExact(log, job) /\ db.status # "gone" /\ job.eventCount = Len(log)
         /\ db.status # "gone" =>
              /\ Stored(ServerState) /\ db.eventCount <= Len(log)
              /\ job.inRam => db.eventCount = Len(log) - Len(job.pending)
              /\ ~job.inRam => db.eventCount = Len(log)
<1>1. SInv(ServerState) /\ ServerState.log = log /\ ServerState.job = job /\ ServerState.db = db
  BY ServerFields DEF Inv
<1>2. Sound(ServerState) /\ Tidy(ServerState) /\ Whole(ServerState) /\ Exact(ServerState)
  BY <1>1 DEF SInv, WInv, Undisturbed, Good, Settled
<1>3. /\ log \in Seq(Event) /\ Len(log) \in Nat /\ job \in JobRecord /\ job.pending \in Seq(Event)
      /\ Len(job.pending) \in Nat /\ job.tail \in Seq(Event) /\ Len(job.tail) \in Nat
      /\ db.rows \subseteq Row /\ db.eventCount \in Nat /\ job.tailStart \in Nat
      /\ job.eventCount \in Nat
  BY <1>1, <1>2, SoundParts DEF JobRecord
<1>4. Positioned(log, 0) /\ RowsOK(log, db)
  BY <1>1, <1>2 DEF Sound
<1>5. /\ IsFiniteSet(db.rows)
      /\ \A k \in 1 .. Len(job.pending) : job.pending[k].type \in {"token", "working"}
  BY <1>1, <1>2 DEF Tidy
<1>6. /\ job.done => job.pending = <<>>
      /\ ~job.done => job.eventCount = Len(log) /\ job.inRam
      /\ ~job.done => \A k \in 1 .. Len(job.pending) :
                        job.pending[k] = log[Len(log) - Len(job.pending) + k]
  BY <1>1 DEF SInv, Counted
<1>7. /\ \A r \in db.rows : PlainExact(log, r)
      /\ job.inRam => TailExact(log, job) /\ db.status # "gone" /\ job.eventCount = Len(log)
      /\ ~job.inRam => db.eventCount = Len(log)
  BY <1>1, <1>2 DEF Exact
<1>8. db.status # "gone" =>
        /\ Stored(ServerState)
        /\ job.inRam => db.eventCount + Len(job.pending) = Len(log)
  BY <1>1, <1>2 DEF Whole
<1>9. db.eventCount + Len(job.pending) = Len(log)
        => db.eventCount = Len(log) - Len(job.pending) /\ db.eventCount <= Len(log)
  BY <1>3
<1>10. db.eventCount = Len(log) => db.eventCount <= Len(log)
  BY <1>3
<1> QED
  BY <1>3, <1>4, <1>5, <1>6, <1>7, <1>8, <1>9, <1>10

(* The stored rows from a cursor at which one of them begins, or from the start. *)
LEMMA StorePiece ==
  ASSUME Inv, WInv, Undisturbed, Settled, db.status # "gone", NEW from \in Nat,
         NEW Q, Q = {r \in db.rows : RowEnd(r) > from}, \A r \in Q : from <= r.seq
  PROVE  Piece(log, Q, 0, from, db.eventCount)
<1>1. /\ log \in Seq(Event) /\ Len(log) \in Nat /\ db.rows \subseteq Row /\ IsFiniteSet(db.rows)
      /\ RowsOK(log, db) /\ db.eventCount \in Nat /\ db.eventCount <= Len(log)
      /\ Stored(ServerState) /\ \A r \in db.rows : PlainExact(log, r)
  BY ServerFacts
<1>2. Q \in SUBSET db.rows /\ IsFiniteSet(Q)
  BY <1>1, FS_Subset
<1>3. \A r, q \in Q : r # q => Apart(r, q)
  BY <1>1, <1>2 DEF RowsOK
<1>4. Sortable(Q)
  BY <1>1, <1>2, <1>3, ApartSorts
<1>5. ASSUME NEW r \in Q PROVE from <= 0 + r.seq /\ 0 + RowEnd(r) <= db.eventCount
  <2>1. r.seq \in Nat /\ RowEnd(r) \in Nat /\ RowEnd(r) <= db.eventCount /\ from <= r.seq
    BY <1>1, <1>2, RowFields DEF RowsOK
  <2> QED
    BY <2>1
<1>6. ASSUME NEW r \in Q, r.ev.type = "token"
      PROVE  /\ r.ev.data = [k \in 1 .. r.span |-> 0 + r.seq + k - 1]
             /\ \A k \in 1 .. r.span : log[0 + r.seq + k].type = "token"
  <2>1. /\ r.ev.data = [k \in 1 .. r.span |-> r.seq + k - 1]
        /\ \A k \in 1 .. r.span : log[r.seq + k].type = "token"
    BY <1>1, <1>2, <1>6 DEF RowsOK, DeltaExact
  <2>2. r.seq \in Nat
    BY <1>1, <1>2, RowFields
  <2>3. 0 + r.seq = r.seq
    BY <2>2
  <2> QED
    BY <2>1, <2>3
<1>7. ASSUME NEW r \in Q, r.ev.type # "token" PROVE r.span = 1 /\ r.ev = log[0 + r.seq + 1]
  <2>1. r.span = 1 /\ r.ev = log[r.seq + 1]
    BY <1>1, <1>2, <1>7 DEF PlainExact
  <2>2. r.seq \in Nat
    BY <1>1, <1>2, RowFields
  <2>3. 0 + r.seq = r.seq
    BY <2>2
  <2> QED
    BY <2>1, <2>3
<1>8. ASSUME NEW p \in from .. db.eventCount - 1
      PROVE  log[p + 1].type = "working" \/ Covers(Q, p - 0)
  <2>1. p \in 0 .. db.eventCount - 1 /\ p < Len(log) /\ p - 0 = p /\ p \in Nat
    BY <1>1
  <2>2. log[p + 1].type = "working" \/ Covers(db.rows, p)
    BY <1>1, <2>1, ServerFields DEF Stored
  <2>3. ASSUME Covers(db.rows, p) PROVE Covers(Q, p)
    <3>1. PICK r \in db.rows : r.seq <= p /\ p < RowEnd(r)
      BY <2>3 DEF Covers
    <3>2. RowEnd(r) \in Nat
      BY <1>1, RowFields
    <3>3. RowEnd(r) > from
      BY <2>1, <3>1, <3>2
    <3> QED
      BY <3>1, <3>3 DEF Covers
  <2> QED
    BY <2>1, <2>2, <2>3
<1> QED
  BY <1>3, <1>4, <1>5, <1>6, <1>7, <1>8 DEF Piece

(* The replay of the whole record. *)
LEMMA WholeReads ==
  ASSUME Inv, WInv, Undisturbed, Settled, db.status # "gone"
  PROVE  \E pos : Along(log, EventsOf(replayRows(db.rows, 0)), pos, 0, db.eventCount)
<1> DEFINE zero == 0
<1>1. /\ log \in Seq(Event) /\ Positioned(log, 0) /\ db.rows \subseteq Row
      /\ db.eventCount \in Nat /\ db.eventCount <= Len(log) /\ Len(log) \in Nat
  BY ServerFacts
<1>2. replayRows(db.rows, 0) = InSeqOrder(db.rows)
  BY DEF replayRows
<1>3. \A r \in db.rows : RowEnd(r) > zero /\ zero <= r.seq
  <2>1. \A r \in db.rows : RowEnd(r) \in Nat /\ r.seq \in Nat /\ r.seq < RowEnd(r)
    BY <1>1, RowFields
  <2> QED
    BY <2>1
<1>4. db.rows = {r \in db.rows : RowEnd(r) > zero} /\ zero \in Nat
  BY <1>3
<1> HIDE DEF zero
<1>5. Piece(log, db.rows, 0, zero, db.eventCount)
  BY <1>3, <1>4, StorePiece
<1>6. 0 \in Nat /\ db.eventCount \in 0 .. Len(log)
  BY <1>1
<1> QED
  BY <1>1, <1>2, <1>5, <1>6, PieceReads DEF zero

(* The replay from a cursor at which a row begins. *)
LEMMA PartReads ==
  ASSUME Inv, WInv, Undisturbed, Settled, db.status # "gone", NEW from \in Nat, from > 0,
         from <= db.eventCount,
         replayRows(db.rows, from) # <<>>, replayRows(db.rows, from)[1].seq = from
  PROVE  \E pos : Along(log, EventsOf(replayRows(db.rows, from)), pos, from, db.eventCount)
<1> DEFINE Q == {r \in db.rows : RowEnd(r) > from}
<1>1. /\ log \in Seq(Event) /\ Positioned(log, 0) /\ db.rows \subseteq Row /\ IsFiniteSet(db.rows)
      /\ db.eventCount \in Nat /\ db.eventCount <= Len(log) /\ Len(log) \in Nat /\ RowsOK(log, db)
  BY ServerFacts
<1>2. replayRows(db.rows, from) = InSeqOrder(Q)
  BY DEF replayRows
<1>3. Q \in SUBSET db.rows /\ IsFiniteSet(Q)
  BY <1>1, FS_Subset
<1> HIDE DEF Q
<1>4. Sortable(Q)
  BY <1>1, <1>3, ApartSorts DEF RowsOK
<1> DEFINE s == InSeqOrder(Q)
           n == Cardinality(Q)
<1>5. /\ n \in Nat /\ s \in Seq(Row) /\ DOMAIN s = 1 .. n /\ \A i \in 1 .. n : s[i] \in Q
      /\ \A i, j \in 1 .. n : i < j => s[i].seq < s[j].seq
      /\ \A r \in Q : \E i \in 1 .. n : s[i] = r
  BY <1>4, SortedRows, SortedOrder
<1> HIDE DEF s, n
<1>6. ASSUME NEW r \in Q PROVE from <= r.seq
  <2>1. PICK i \in 1 .. n : s[i] = r
    BY <1>5
  <2>2. 1 \in 1 .. n /\ s[1].seq = from
    BY <1>2, <1>5, <2>1 DEF s
  <2>3. CASE i = 1
    BY <2>1, <2>2, <2>3
  <2>4. CASE i # 1
    <3>1. 1 < i
      BY <1>5, <2>4
    <3>2. from < r.seq
      BY <1>5, <2>1, <2>2, <3>1
    <3>3. r.seq \in Nat
      BY <1>1, <1>3, RowFields
    <3> QED
      BY <3>2, <3>3
  <2> QED
    BY <2>3, <2>4
<1>7. Piece(log, Q, 0, from, db.eventCount)
  BY <1>6, StorePiece DEF Q
<1>8. 0 \in Nat /\ db.eventCount \in from .. Len(log)
  BY <1>1
<1> QED
  BY <1>1, <1>2, <1>7, <1>8, PieceReads

(* The events still pending, numbered from 0 as the attach numbers them. *)
LEMMA PendingReads ==
  ASSUME Inv, WInv, Undisturbed, Settled, job.inRam
  PROVE  \E pos : Along(log, EventsOf(InSeqOrder(coalesceEvents(job.pending, 0))), pos,
                        db.eventCount, Len(log))
<1> DEFINE p == job.pending
           d == db.eventCount
           zero == 0
           R == coalesceEvents(p, zero)
<1>1. /\ log \in Seq(Event) /\ Len(log) \in Nat /\ Positioned(log, 0) /\ p \in Seq(Event)
      /\ Len(p) \in Nat /\ d \in Nat /\ d = Len(log) - Len(p) /\ zero \in Nat
      /\ \A k \in 1 .. Len(p) : p[k].type \in {"token", "working"}
  BY ServerFacts
<1>2. \A k \in 1 .. Len(p) : p[k] = log[d + k] /\ d + k \in 1 .. Len(log)
  <2>1. CASE job.done
    <3>1. p = <<>>
      BY <2>1, ServerFacts
    <3> QED
      BY <3>1
  <2>2. CASE ~job.done
    <3>1. \A k \in 1 .. Len(p) : p[k] = log[Len(log) - Len(p) + k]
      BY <2>2, ServerFacts
    <3>2. \A x, y, c \in Nat : c = y - x => \A k \in 1 .. x : c + k \in 1 .. y /\ y - x + k = c + k
      OBVIOUS
    <3>3. \A k \in 1 .. Len(p) : d + k \in 1 .. Len(log) /\ Len(log) - Len(p) + k = d + k
      BY <1>1, <3>2, Zenon
    <3> HIDE DEF p, d
    <3> QED
      BY <3>1, <3>3
  <2> QED
    BY <2>1, <2>2
<1> HIDE DEF p, d
<1>3. \A k \in 1 .. Len(p) : p[k].type = "token" => p[k].data = <<d + k - 1>>
  <2>1. SUFFICES ASSUME NEW k \in 1 .. Len(p), p[k].type = "token" PROVE p[k].data = <<d + k - 1>>
    OBVIOUS
  <2> DEFINE j == d + k
  <2>2. j \in 1 .. Len(log) /\ p[k] = log[j] /\ 0 + j - 1 = d + k - 1
    BY <1>1, <1>2
  <2> HIDE DEF j
  <2>3. log[j].data = <<0 + j - 1>>
    BY <1>1, <2>1, <2>2 DEF Positioned
  <2> QED
    BY <2>2, <2>3
<1>4. Sortable(R) /\ \A r \in R : r.ev.type = "token"
  <2>1. \A k \in 1 .. Len(p) : p[k].type = "token" => p[k].data[1] \in Nat
    <3>1. SUFFICES ASSUME NEW k \in 1 .. Len(p), p[k].type = "token" PROVE p[k].data[1] \in Nat
      OBVIOUS
    <3>2. p[k].data = <<d + k - 1>> /\ d + k - 1 \in Nat
      BY <1>1, <1>3, <3>1
    <3> QED
      BY <3>2
  <2> QED
    BY <1>1, <2>1, ChatterRows
<1> HIDE DEF zero
<1>5. \A r, q \in R : r # q => Apart(r, q)
  BY <1>1, CoalescedApart
<1>6. ASSUME NEW r \in R
      PROVE  \E a \in 1 .. Len(p), b \in 1 .. Len(p) :
               /\ a <= b /\ r.seq = a - 1 /\ r.span = b - a + 1 /\ RowEnd(r) = b
               /\ \A i \in a .. b : p[i].type = "token"
               /\ r.ev.data = [k \in 1 .. (b - a + 1) |-> p[a + k - 1].data[1]]
  <2>1. PICK run \in TokenRuns(p) : r = RunRow(p, zero, run)
    <3>1. ~ \E i \in { k \in DOMAIN p : p[k].type \notin {"token", "working"} } :
               r = PlainRow(p, zero, i)
      BY <1>1
    <3> QED
      BY <3>1 DEF coalesceEvents
  <2>2. /\ run[1] \in 1 .. Len(p) /\ run[2] \in 1 .. Len(p) /\ run[1] <= run[2]
        /\ \A i \in run[1] .. run[2] : p[i].type = "token"
        /\ r.seq = zero + run[1] - 1 /\ r.span = run[2] - run[1] + 1
        /\ RowEnd(r) = zero + run[2]
    <3>1. p \in Seq(Event) /\ zero \in Nat
      BY <1>1
    <3> QED
      BY <2>1, <3>1, RunRowShape
  <2>3. r.ev.data = [k \in 1 .. (run[2] - run[1] + 1) |-> p[run[1] + k - 1].data[1]]
    BY <2>1 DEF RunRow
  <2>4. zero + run[1] - 1 = run[1] - 1 /\ zero + run[2] = run[2]
    BY <2>2 DEF zero
  <2>5. r.seq = run[1] - 1 /\ RowEnd(r) = run[2]
    BY <2>2, <2>4
  <2> QED
    BY <2>2, <2>3, <2>5, Zenon
<1>7. ASSUME NEW r \in R
      PROVE  /\ d <= d + r.seq /\ d + RowEnd(r) <= Len(log)
             /\ r.ev.data = [k \in 1 .. r.span |-> d + r.seq + k - 1]
             /\ \A k \in 1 .. r.span : log[d + r.seq + k].type = "token"
  <2>1. PICK a \in 1 .. Len(p), b \in 1 .. Len(p) :
               /\ a <= b /\ r.seq = a - 1 /\ r.span = b - a + 1 /\ RowEnd(r) = b
               /\ \A i \in a .. b : p[i].type = "token"
               /\ r.ev.data = [k \in 1 .. (b - a + 1) |-> p[a + k - 1].data[1]]
    BY <1>6
  <2>2. d <= d + (a - 1) /\ d + b <= Len(log)
    BY <1>1
  <2>3. \A k \in 1 .. (b - a + 1) : /\ a + k - 1 \in a .. b /\ a + k - 1 \in 1 .. Len(p)
                                    /\ d + (a + k - 1) = d + (a - 1) + k
                                    /\ d + (a + k - 1) - 1 = d + (a - 1) + k - 1
    BY <1>1, <2>1
  <2>4. ASSUME NEW k \in 1 .. (b - a + 1)
        PROVE  /\ p[a + k - 1].data[1] = d + (a - 1) + k - 1
               /\ log[d + (a - 1) + k].type = "token"
    <3> DEFINE i == a + k - 1
    <3>1. i \in 1 .. Len(p) /\ p[i].type = "token" /\ d + i = d + (a - 1) + k
          /\ d + i - 1 = d + (a - 1) + k - 1
      BY <2>1, <2>3
    <3> HIDE DEF i
    <3>2. p[i].data = <<d + i - 1>> /\ log[d + i].type = "token"
      BY <1>2, <1>3, <3>1
    <3>3. p[i].data[1] = d + i - 1
      BY <3>2
    <3> QED
      BY <3>1, <3>2, <3>3 DEF i
  <2>5. r.ev.data = [k \in 1 .. (b - a + 1) |-> d + (a - 1) + k - 1]
    BY <2>1, <2>4
  <2> QED
    BY <2>1, <2>2, <2>4, <2>5
<1>8. ASSUME NEW x \in d .. Len(log) - 1
      PROVE  log[x + 1].type = "working" \/ Covers(R, x - d)
  <2> DEFINE i == x - d + 1
  <2>1. i \in 1 .. Len(p) /\ d + i = x + 1 /\ zero + i - 1 = x - d
    BY <1>1 DEF zero
  <2> HIDE DEF i
  <2>2. p[i].type = "working" \/ Covers(R, zero + i - 1)
    BY <1>1, <2>1, CoalesceCovers
  <2>3. p[i] = log[x + 1]
    BY <1>2, <2>1
  <2> QED
    BY <2>1, <2>2, <2>3
<1> HIDE DEF R
<1>9. Piece(log, R, d, d, Len(log))
  BY <1>4, <1>5, <1>7, <1>8 DEF Piece
<1>10. Len(log) \in d .. Len(log)
  BY <1>1
<1>11. \E pos : Along(log, EventsOf(InSeqOrder(R)), pos, d, Len(log))
  BY <1>1, <1>9, <1>10, PieceReads
<1> QED
  BY <1>11 DEF R, p, d, zero

-----------------------------------------------------------------------------
(* The server of an undisturbed turn. *)

(* A step of the server that emits events, none of them text once the turn has ended. *)
Tick(events, end) ==
  /\ ~job.done /\ events \in Seq(Event) /\ end \in BOOLEAN
  /\ log' = log \o events /\ db'.status # "gone" /\ client' = client
  /\ Stream(events, end)
  /\ Ended => Ended' /\ \A i \in 1 .. Len(events) : events[i].type \notin Ends \cup {"token"}

(* The deltas among the events of a tick: none, or the one delta of a turn that goes on. *)
Deltas(events) ==
  \/ \A i \in 1 .. Len(events) : events[i].type # "token"
  \/ ~Ended /\ ~Ended' /\ Len(events) = 1 /\ events[1].type = "token" /\ Len(events[1].data) = 1

(* The steps a turn can take while nothing disturbs it. *)
Ticking ==
  \/ StartTurn(TRUE)
  \/ \E type \in {"token", "working", "tool"} : EmitBody(type, TRUE)
  \/ SettleEvent(TRUE)
  \/ CompleteTurn(TRUE, TRUE)
  \/ \E why \in {"aborted", "error", "tool"} : HaltTurn(why, TRUE)
  \/ EndStream(TRUE, TRUE)
  \/ FlushTimer(TRUE)

Calm == Ticking \/ handleChatStop \/ gcChatJobs \/ gcRetention \/ Reader \/ CutSocket \/ Reload

(* A disturbance is never forgotten. *)
LEMMA CalmBefore ==
  ASSUME WInv, [Next]_vars, Undisturbed'
  PROVE  Undisturbed
<1>1. used \in Bounds /\ used.kills \in Nat /\ used.drains \in Nat /\ used.fails \in Nat
  BY DEF WInv, TypeOK, Bounds
<1>2. used'.kills = 0 /\ used'.drains = 0 /\ used'.fails = 0
  BY DEF Undisturbed
<1>3. CASE used' = used
  BY <1>3 DEF Undisturbed
<1>4. ASSUME NEW ok \in BOOLEAN, StoreOutcome(ok) PROVE Undisturbed
  <2>1. CASE ok
    BY <1>3, <1>4, <2>1 DEF StoreOutcome
  <2>2. CASE ~ok
    <3>1. used' = [used EXCEPT !.fails = @ + 1]
      BY <1>4, <2>2 DEF StoreOutcome
    <3>2. used'.fails = used.fails + 1
      BY <1>1, <3>1 DEF Bounds
    <3> QED
      BY <1>1, <1>2, <3>2
  <2> QED
    BY <2>1, <2>2
<1>5. CASE used' = [used EXCEPT !.kills = @ + 1]
  <2>1. used'.kills = used.kills + 1
    BY <1>1, <1>5 DEF Bounds
  <2> QED
    BY <1>1, <1>2, <2>1
<1>6. ASSUME NEW ok, NEW okStatus, Drain(ok, okStatus) PROVE Undisturbed
  <2>1. used'.drains = used.drains + 1
    BY <1>1, <1>6 DEF Drain, Bounds
  <2> QED
    BY <1>1, <1>2, <2>1
<1>7. CASE \/ used' = [used EXCEPT !.late = @ + 1] \/ used' = [used EXCEPT !.cuts = @ + 1]
           \/ used' = [used EXCEPT !.reloads = @ + 1]
  <2>1. used'.kills = used.kills /\ used'.drains = used.drains /\ used'.fails = used.fails
    BY <1>1, <1>7 DEF Bounds
  <2> QED
    BY <1>2, <2>1 DEF Undisturbed
<1>8. CASE TurnStep
  BY <1>4, <1>7, <1>8 DEF TurnStep, StartTurn, EmitBody, SettleEvent, EmitLate
<1>9. CASE EndTurn
  <2>1. ASSUME NEW ok \in BOOLEAN, NEW okStatus \in BOOLEAN, StoreOutcome(ok /\ okStatus)
        PROVE  Undisturbed
    <3>1. (ok /\ okStatus) \in BOOLEAN
      OBVIOUS
    <3> QED
      BY <1>4, <2>1, <3>1
  <2> QED
    BY <1>4, <1>9, <2>1 DEF EndTurn, CompleteTurn, HaltTurn, EndStream
<1>10. CASE \E ok \in BOOLEAN : FlushTimer(ok)
  BY <1>4, <1>10 DEF FlushTimer
<1>11. CASE handleChatStop \/ gcChatJobs \/ gcRetention
  BY <1>3, <1>11 DEF handleChatStop, gcChatJobs, gcRetention
<1>12. CASE Process
  <2>1. CASE \E n \in 0 .. Len(net) : Kill(n) \/ Exit(n)
    BY <1>3, <1>5, <2>1 DEF Kill, Exit
  <2>2. CASE \E n \in 0 .. Len(net) + 1 : KillBeforeStatus(n)
    BY <1>5, <2>2 DEF KillBeforeStatus
  <2>3. CASE Boot
    BY <1>3, <2>3 DEF Boot
  <2> QED
    BY <1>6, <1>12, <2>1, <2>2, <2>3 DEF Process
<1>13. CASE Reader \/ CutSocket \/ Reload
  BY <1>3, <1>7, <1>13 DEF Reader, readSse, GiveUp, attemptReattach, AdoptRun, deliverResult,
                           finalizeSession, CutSocket, Reload
<1>14. CASE UNCHANGED vars
  BY <1>3, <1>14 DEF vars
<1> QED
  BY <1>8, <1>9, <1>10, <1>11, <1>12, <1>13, <1>14 DEF Next

(* Without a disturbance every write is accepted, and the process neither drains nor dies. *)
LEMMA CalmStep ==
  ASSUME WInv, Settled, Next, Undisturbed'
  PROVE  Calm
<1>1. used \in Bounds /\ used.kills \in Nat /\ used.drains \in Nat /\ used.fails \in Nat
  BY DEF WInv, TypeOK, Bounds
<1>2. used'.kills = 0 /\ used'.drains = 0 /\ used'.fails = 0
  BY DEF Undisturbed
<1>3. server = "up" /\ (job.done <=> turn = "over")
  BY DEF Settled
<1>4. ASSUME NEW ok \in BOOLEAN, StoreOutcome(ok) PROVE ok = TRUE
  BY <1>2, <1>4, OutcomeFacts
<1>5. ASSUME used' = [used EXCEPT !.kills = @ + 1] PROVE FALSE
  <2>1. used'.kills = used.kills + 1
    BY <1>1, <1>5 DEF Bounds
  <2> QED
    BY <1>1, <1>2, <2>1
<1>6. ASSUME NEW ok, NEW okStatus, Drain(ok, okStatus) PROVE FALSE
  <2>1. used'.drains = used.drains + 1
    BY <1>1, <1>6 DEF Drain, Bounds
  <2> QED
    BY <1>1, <1>2, <2>1
<1>7. CASE TurnStep
  <2>1. ASSUME NEW ok \in BOOLEAN, StartTurn(ok) PROVE Calm
    BY <1>4, <2>1 DEF Calm, Ticking, StartTurn
  <2>2. ASSUME NEW ok \in BOOLEAN, NEW type \in {"token", "working", "tool"}, EmitBody(type, ok)
        PROVE  Calm
    <3>1. ok = TRUE
      BY <1>4, <2>2 DEF EmitBody
    <3> QED
      BY <2>2, <3>1 DEF Calm, Ticking
  <2>3. ASSUME NEW ok \in BOOLEAN, SettleEvent(ok) PROVE Calm
    BY <1>4, <2>3 DEF Calm, Ticking, SettleEvent
  <2>4. ~EmitLate
    BY <1>3 DEF EmitLate
  <2> QED
    BY <1>7, <2>1, <2>2, <2>3, <2>4 DEF TurnStep
<1>8. CASE EndTurn
  <2>1. ASSUME NEW ok \in BOOLEAN, NEW okStatus \in BOOLEAN, StoreOutcome(ok /\ okStatus)
        PROVE  ok = TRUE /\ okStatus = TRUE
    <3>1. (ok /\ okStatus) \in BOOLEAN
      OBVIOUS
    <3> QED
      BY <1>4, <2>1, <3>1
  <2>2. ASSUME NEW ok \in BOOLEAN, NEW okStatus \in BOOLEAN, CompleteTurn(ok, okStatus) PROVE Calm
    <3>1. ok = TRUE /\ okStatus = TRUE
      BY <2>1, <2>2 DEF CompleteTurn
    <3> QED
      BY <2>2, <3>1 DEF Calm, Ticking
  <2>3. ASSUME NEW ok \in BOOLEAN, NEW why \in {"aborted", "error", "tool"}, HaltTurn(why, ok)
        PROVE  Calm
    <3>1. ok = TRUE
      BY <1>4, <2>3 DEF HaltTurn
    <3> QED
      BY <2>3, <3>1 DEF Calm, Ticking
  <2>4. ASSUME NEW ok \in BOOLEAN, NEW okStatus \in BOOLEAN, EndStream(ok, okStatus) PROVE Calm
    <3>1. ok = TRUE /\ okStatus = TRUE
      BY <2>1, <2>4 DEF EndStream
    <3> QED
      BY <2>4, <3>1 DEF Calm, Ticking
  <2> QED
    BY <1>8, <2>2, <2>3, <2>4 DEF EndTurn
<1>9. ASSUME NEW ok \in BOOLEAN, FlushTimer(ok) PROVE Calm
  BY <1>4, <1>9 DEF Calm, Ticking, FlushTimer
<1>10. ~Process
  <2>1. ~ \E n \in 0 .. Len(net) : Kill(n) \/ Exit(n)
    BY <1>3, <1>5 DEF Kill, Exit
  <2>2. ~ \E n \in 0 .. Len(net) + 1 : KillBeforeStatus(n)
    BY <1>5 DEF KillBeforeStatus
  <2>3. ~Boot
    BY <1>3 DEF Boot
  <2> QED
    BY <1>6, <2>1, <2>2, <2>3 DEF Process
<1> QED
  BY <1>7, <1>8, <1>9, <1>10 DEF Next, Calm

(* What a tick commits is what the server then keeps. *)
LEMMA TickSettles ==
  ASSUME NEW x, SInv(x), Exact(x), Commit(x), server' = "up", x.job.done <=> turn' = "over"
  PROVE  Settled' /\ job' = x.job /\ log' = x.log /\ db' = x.db
<1>1. x = [log |-> x.log, job |-> x.job, db |-> x.db]
  BY DEF SInv, Sound, ServerStates
<1>2. job' = x.job /\ log' = x.log /\ db' = x.db
  BY DEF Commit
<1>3. ServerState' = x
  BY <1>1, <1>2 DEF ServerState
<1> QED
  BY <1>2, <1>3 DEF Settled

(* What a tick adds keeps the script: the end comes once, and nothing of the text after it. *)
LEMMA ScriptGrows ==
  ASSUME Script, log \in Seq(Event), NEW events \in Seq(Event), log' = log \o events,
         turn' # "start", log = <<>> => events # <<>>,
         \A i \in 1 .. Len(events) : events[i].type = "job" <=> Len(log) = 0 /\ i = 1,
         Ended => Ended' /\ \A i \in 1 .. Len(events) : events[i].type \notin Ends \cup {"token"},
         \A i \in 1 .. Len(events) : events[i].type \in Ends =>
           Ended' /\ \A k \in i .. Len(events) : events[k].type # "token",
         \A i, k \in 1 .. Len(events) :
           events[i].type = "error" /\ events[k].type = "stopped" => i < k
  PROVE  Script'
<1> DEFINE l == log'
           n == Len(log)
           m == Len(events)
<1>1. /\ l \in Seq(Event) /\ Len(l) = n + m /\ n \in Nat /\ m \in Nat
      /\ \A i \in 1 .. n : l[i] = log[i]
      /\ \A i \in 1 .. m : l[n + i] = events[i]
  OBVIOUS
<1>2. l # <<>>
  OBVIOUS
<1>3. \A i \in 1 .. Len(l) : i \in 1 .. n \/ \E k \in 1 .. m : i = n + k
  <2>1. SUFFICES ASSUME NEW i \in 1 .. Len(l), ~(i \in 1 .. n) PROVE \E k \in 1 .. m : i = n + k
    OBVIOUS
  <2>2. i - n \in 1 .. m /\ i = n + (i - n)
    BY <1>1, <2>1
  <2> QED
    BY <2>2
<1>4. /\ \A i \in 1 .. n : log[i].type = "job" <=> i = 1
      /\ \A i \in 1 .. n : log[i].type \in Ends =>
           Ended /\ \A k \in i .. n : log[k].type # "token"
      /\ \A i, k \in 1 .. n : log[i].type = "error" /\ log[k].type = "stopped" => i < k
  BY DEF Script
<1> HIDE DEF l, n, m
<1>5. ASSUME NEW i \in 1 .. Len(l) PROVE l[i].type = "job" <=> i = 1
  <2>1. CASE i \in 1 .. n
    BY <1>1, <1>4, <2>1
  <2>2. ASSUME NEW k \in 1 .. m, i = n + k PROVE l[i].type = "job" <=> i = 1
    <3>1. l[i] = events[k] /\ (i = 1 <=> n = 0 /\ k = 1)
      BY <1>1, <2>2
    <3> QED
      BY <3>1 DEF n, m
  <2> QED
    BY <1>3, <2>1, <2>2
<1>6. ASSUME NEW i \in 1 .. Len(l), l[i].type \in Ends
      PROVE  Ended' /\ \A k \in i .. Len(l) : l[k].type # "token"
  <2>1. CASE i \in 1 .. n
    <3>1. Ended /\ \A k \in i .. n : log[k].type # "token"
      BY <1>1, <1>4, <1>6, <2>1
    <3>2. Ended' /\ \A k \in 1 .. m : events[k].type # "token"
      BY <3>1 DEF m
    <3>3. ASSUME NEW k \in i .. Len(l) PROVE l[k].type # "token"
      <4>1. CASE k \in 1 .. n
        <5>1. k \in i .. n
          BY <1>1, <2>1, <4>1
        <5> QED
          BY <1>1, <3>1, <4>1, <5>1
      <4>2. ASSUME NEW j \in 1 .. m, k = n + j PROVE l[k].type # "token"
        BY <1>1, <3>2, <4>2
      <4>3. k \in 1 .. Len(l)
        BY <1>1, <2>1
      <4> QED
        BY <1>3, <4>1, <4>2, <4>3
    <3> QED
      BY <3>2, <3>3
  <2>2. ASSUME NEW a \in 1 .. m, i = n + a
        PROVE  Ended' /\ \A k \in i .. Len(l) : l[k].type # "token"
    <3>1. l[i] = events[a] /\ events[a].type \in Ends
      BY <1>1, <1>6, <2>2
    <3>2. Ended' /\ \A k \in a .. m : events[k].type # "token"
      BY <3>1 DEF m
    <3>3. ASSUME NEW k \in i .. Len(l) PROVE l[k].type # "token"
      <4>1. k - n \in a .. m /\ k - n \in 1 .. m /\ k = n + (k - n)
        BY <1>1, <2>2
      <4>2. l[k] = events[k - n]
        BY <1>1, <4>1
      <4> QED
        BY <3>2, <4>1, <4>2
    <3> QED
      BY <3>2, <3>3
  <2> QED
    BY <1>3, <2>1, <2>2
<1>7. ASSUME NEW i \in 1 .. Len(l), NEW k \in 1 .. Len(l),
             l[i].type = "error", l[k].type = "stopped"
      PROVE  i < k
  <2>1. CASE i \in 1 .. n /\ k \in 1 .. n
    BY <1>1, <1>4, <1>7, <2>1
  <2>2. ASSUME i \in 1 .. n, NEW j \in 1 .. m, k = n + j PROVE i < k
    BY <1>1, <2>2
  <2>3. ASSUME NEW j \in 1 .. m, i = n + j, k \in 1 .. n PROVE i < k
    <3>1. l[k] = log[k] /\ log[k].type \in Ends
      BY <1>1, <1>7, <2>3 DEF Ends
    <3>2. Ended
      BY <1>4, <2>3, <3>1
    <3>3. l[i] = events[j] /\ events[j].type \in Ends
      BY <1>1, <1>7, <2>3 DEF Ends
    <3> QED
      BY <3>2, <3>3 DEF m
  <2>4. ASSUME NEW a \in 1 .. m, i = n + a, NEW b \in 1 .. m, k = n + b PROVE i < k
    <3>1. l[i] = events[a] /\ l[k] = events[b]
      BY <1>1, <2>4
    <3>2. a < b
      BY <1>7, <3>1 DEF m
    <3> QED
      BY <1>1, <2>4, <3>2
  <2> QED
    BY <1>3, <2>1, <2>2, <2>3, <2>4
<1> QED
  BY <1>2, <1>5, <1>6, <1>7 DEF Script, l

(* An emit of an unsealed job. *)
LEMMA EmitOne ==
  ASSUME NEW s, SInv(s), Exact(s), ~s.job.done, NEW o \in Event,
         o.type = "token" => o.data = <<Len(s.log)>>
  PROVE  LET e == jobEmit(s, o, TRUE)
         IN /\ SInv(e) /\ Exact(e) /\ ~e.job.done /\ e.log = Append(s.log, o)
            /\ e.db.status # "gone"
<1> DEFINE e == jobEmit(s, o, TRUE)
<1>1. SInv(e) /\ e.job.done = s.job.done
  BY EmitSound
<1>2. Exact(e) /\ e.log = Append(s.log, o) /\ e.db.status = s.db.status
  BY EmitExact
<1>3. s.db.status = "running"
  BY DEF SInv
<1> HIDE DEF e
<1>4. /\ SInv(e) /\ Exact(e) /\ ~e.job.done /\ e.log = Append(s.log, o)
      /\ e.db.status # "gone"
  BY <1>1, <1>2, <1>3
<1> QED
  BY <1>4 DEF e

(* The tick of one event. *)
LEMMA OneEvent ==
  ASSUME Inv, WInv, Script, Settled, ~job.done, NEW o \in Event,
         o.type = "token" => o.data = <<Len(log)>>,
         Commit(jobEmit(ServerState, o, TRUE)), Stream(<<o>>, FALSE),
         client' = client, server' = server, turn' \in {"running", "closing"},
         o.type = "job" <=> Len(log) = 0, Ended => Ended' /\ o.type # "token", o.type \notin Ends,
         o.type = "token" => ~Ended'
  PROVE  Script' /\ Settled' /\ Tick(<<o>>, FALSE) /\ Deltas(<<o>>)
<1> DEFINE e == jobEmit(ServerState, o, TRUE)
<1>1. SInv(ServerState) /\ Exact(ServerState) /\ ServerState.log = log /\ ServerState.job = job
  BY ServerFields DEF Inv, Settled
<1>2. SInv(e) /\ Exact(e) /\ ~e.job.done /\ e.log = Append(log, o) /\ e.db.status # "gone"
  BY <1>1, EmitOne
<1>3. log \in Seq(Event)
  BY DEF WInv, TypeOK
<1>4. Settled' /\ log' = e.log /\ db' = e.db
  <2>1. server' = "up" /\ (e.job.done <=> turn' = "over")
    BY <1>2 DEF Settled
  <2> HIDE DEF e
  <2> QED
    BY <1>2, <2>1, TickSettles DEF e
<1> HIDE DEF e
<1> DEFINE ev == <<o>>
<1>5. /\ ev \in Seq(Event) /\ Len(ev) = 1 /\ ev[1] = o /\ log' = log \o ev /\ ev # <<>>
      /\ \A i \in 1 .. Len(ev) : i = 1
  BY <1>2, <1>3, <1>4
<1> HIDE DEF ev
<1>6. Script'
  BY <1>3, <1>5, ScriptGrows
<1>7. Tick(ev, FALSE)
  BY <1>2, <1>4, <1>5 DEF Tick, ev
<1>8. Deltas(ev)
  <2>1. o.type = "token" => Len(o.data) = 1
    OBVIOUS
  <2> QED
    BY <1>5, <2>1 DEF Deltas
<1> QED
  BY <1>4, <1>6, <1>7, <1>8 DEF ev

(* Appending to the end of a joined list. *)
LEMMA AppendJoin ==
  ASSUME NEW l \in Seq(Event), NEW f \in Seq(Event), NEW o \in Event
  PROVE  Append(l \o f, o) = l \o Append(f, o)
<1> DEFINE a == Append(l \o f, o)
           b == l \o Append(f, o)
<1>1. /\ a \in Seq(Event) /\ b \in Seq(Event) /\ Len(a) = Len(b) /\ Len(a) \in Nat
      /\ \A i \in 1 .. Len(a) : a[i] = b[i]
  OBVIOUS
<1> HIDE DEF a, b
<1>2. a = b
  BY <1>1, SeqEqual
<1> QED
  BY <1>2 DEF a, b

(* Every tick of an undisturbed turn appends its events and keeps the server settled. *)
LEMMA TicksSettle ==
  ASSUME Inv, WInv, Script, Settled, Ticking
  PROVE  Script' /\ Settled' /\ \E events, end : Tick(events, end) /\ Deltas(events)
<1> DEFINE s == ServerState
<1>1. /\ SInv(s) /\ Exact(s) /\ s.log = log /\ s.job = job /\ s.db = db
      /\ server = "up" /\ (job.done <=> turn = "over")
  BY ServerFields DEF Inv, Settled
<1>2. /\ log \in Seq(Event) /\ Len(log) \in Nat /\ net \in Seq(Frame) /\ job.eventCount \in Nat
      /\ turn \in {"start", "running", "closing", "over"}
  BY DEF WInv, TypeOK, JobRecord
<1>3. turn = "start" <=> Len(log) = 0
  BY <1>2 DEF Script
<1>4. ~job.done => job.eventCount = Len(log)
  BY <1>1 DEF SInv, Counted
<1> HIDE DEF s
<1>5. CASE StartTurn(TRUE)
  <2>1. Plain("job") \in Event /\ Plain("job").type = "job"
    BY PlainEvents DEF LiveTypes, Plain
  <2>2. /\ turn = "start" /\ Commit(jobEmit(ServerState, Plain("job"), TRUE))
        /\ Stream(<<Plain("job")>>, FALSE) /\ turn' = "running" /\ server' = server
        /\ client' = client
    BY <1>5 DEF StartTurn
  <2>3. ~job.done /\ Len(log) = 0 /\ ~Ended
    BY <1>1, <1>3, <2>2 DEF Ended
  <2> QED
    BY <2>1, <2>2, <2>3, OneEvent DEF Ends
<1>6. ASSUME NEW type \in {"token", "working", "tool"}, EmitBody(type, TRUE)
      PROVE  Script' /\ Settled' /\ \E events, end : Tick(events, end) /\ Deltas(events)
  <2> DEFINE o == IF type = "token" THEN Token(job.eventCount) ELSE Plain(type)
  <2>1. /\ turn = "running" /\ ~job.done /\ Commit(jobEmit(ServerState, o, TRUE))
        /\ Stream(<<o>>, FALSE) /\ turn' = turn /\ server' = server /\ client' = client
    BY <1>6 DEF EmitBody
  <2>2. o.type = type /\ o \in Event /\ (o.type = "token" => o.data = <<Len(log)>>)
    <3>1. CASE type = "token"
      <4>1. <<job.eventCount>> \in Seq(Nat)
        BY <1>2
      <4> QED
        BY <1>2, <1>4, <2>1, <3>1, <4>1 DEF Token, Event, LiveTypes
    <3>2. CASE type # "token"
      BY <3>2, PlainEvents DEF LiveTypes, Plain
    <3> QED
      BY <3>1, <3>2
  <2> HIDE DEF o
  <2>3. Len(log) # 0 /\ ~Ended /\ ~Ended'
    BY <1>3, <2>1 DEF Ended
  <2>4. o.type \notin Ends /\ o.type # "job"
    BY <2>2 DEF Ends
  <2> QED
    BY <2>1, <2>2, <2>3, <2>4, OneEvent
<1>7. CASE SettleEvent(TRUE)
  <2>1. Plain("tool") \in Event /\ Plain("tool").type = "tool"
    BY PlainEvents DEF LiveTypes, Plain
  <2>2. /\ turn = "closing" /\ ~job.done /\ Commit(jobEmit(ServerState, Plain("tool"), TRUE))
        /\ Stream(<<Plain("tool")>>, FALSE) /\ turn' = turn /\ server' = server
        /\ client' = client
    BY <1>7 DEF SettleEvent
  <2>3. Len(log) # 0 /\ Ended /\ Ended'
    BY <1>3, <2>2 DEF Ended
  <2> QED
    BY <2>1, <2>2, <2>3, OneEvent DEF Ends
<1>8. CASE CompleteTurn(TRUE, TRUE)
  <2> DEFINE o == Plain("done")
             e == jobEmit(s, o, TRUE)
             f == finishJob(e, TRUE, TRUE)
             ev == <<o>>
  <2>1. o \in Event /\ o.type = "done"
    BY PlainEvents DEF LiveTypes, Plain
  <2>2. /\ turn = "running" /\ Commit(f) /\ Stream(<<o>>, TRUE) /\ turn' = "over"
        /\ server' = server /\ client' = client
    BY <1>8 DEF CompleteTurn, s
  <2> HIDE DEF o
  <2>3. SInv(e) /\ Exact(e) /\ ~e.job.done /\ e.log = Append(log, o)
    BY <1>1, <2>1, <2>2, EmitOne
  <2> HIDE DEF e
  <2>4. SInv(f) /\ Exact(f) /\ f.log = e.log /\ f.job.done /\ f.db.status # "gone"
    BY <2>3, FinishSound, FinishExact
  <2> HIDE DEF f
  <2>5. Settled' /\ log' = f.log /\ db' = f.db
    BY <1>1, <2>2, <2>4, TickSettles
  <2>6. /\ ev \in Seq(Event) /\ Len(ev) = 1 /\ ev[1] = o /\ log' = log \o ev /\ ev # <<>>
        /\ \A i \in 1 .. Len(ev) : i = 1
    BY <1>2, <2>1, <2>3, <2>4, <2>5
  <2>7. Len(log) # 0 /\ ~Ended /\ Ended'
    BY <1>3, <2>2 DEF Ended
  <2>8. Stream(ev, TRUE)
    BY <2>2
  <2> HIDE DEF ev
  <2>9. Script'
    BY <1>2, <2>1, <2>2, <2>6, <2>7, ScriptGrows
  <2>10. Tick(ev, TRUE)
    BY <1>1, <2>2, <2>4, <2>5, <2>6, <2>7, <2>8 DEF Tick
  <2>11. Deltas(ev)
    BY <2>1, <2>6 DEF Deltas
  <2> QED
    BY <2>5, <2>9, <2>10, <2>11
<1>9. ASSUME NEW why \in {"aborted", "error", "tool"}, HaltTurn(why, TRUE)
      PROVE  Script' /\ Settled' /\ \E events, end : Tick(events, end) /\ Deltas(events)
  <2> DEFINE stop == Plain("stopped")
             first == IF why = "aborted" THEN <<>> ELSE <<Plain(why)>>
             e == IF why = "aborted" THEN s ELSE jobEmit(s, Plain(why), TRUE)
             f == jobEmit(e, stop, TRUE)
             ev == Append(first, stop)
  <2>1. stop \in Event /\ stop.type = "stopped"
    BY PlainEvents DEF LiveTypes, Plain
  <2>2. /\ turn = "running" /\ Commit(f) /\ Stream(ev, FALSE) /\ turn' = "closing"
        /\ server' = server /\ client' = client
    BY <1>9 DEF HaltTurn, s
  <2>3. why # "aborted" => Plain(why) \in Event /\ Plain(why).type = why
    BY PlainEvents DEF LiveTypes, Plain
  <2> HIDE DEF stop
  <2>4. SInv(e) /\ Exact(e) /\ ~e.job.done /\ e.log = log \o first /\ first \in Seq(Event)
    <3>1. CASE why = "aborted"
      BY <1>1, <1>2, <2>2, <3>1
    <3>2. CASE why # "aborted"
      <4>1. why # "token"
        OBVIOUS
      <4>2. SInv(e) /\ Exact(e) /\ ~e.job.done /\ e.log = Append(log, Plain(why))
        BY <1>1, <2>2, <2>3, <3>2, <4>1, EmitOne
      <4> HIDE DEF e
      <4> QED
        BY <1>2, <2>3, <3>2, <4>2
    <3> QED
      BY <3>1, <3>2
  <2>5. \A i \in 1 .. Len(first) : first[i].type = why /\ why # "aborted" /\ i = 1
    BY <2>3
  <2> HIDE DEF e, first
  <2>6. SInv(f) /\ Exact(f) /\ ~f.job.done /\ f.log = Append(e.log, stop) /\ f.db.status # "gone"
    BY <2>1, <2>4, EmitOne
  <2> HIDE DEF f
  <2>7. Settled' /\ log' = f.log /\ db' = f.db
    BY <1>1, <2>2, <2>6, TickSettles
  <2>8. /\ ev \in Seq(Event) /\ Len(ev) = Len(first) + 1 /\ ev[Len(ev)] = stop
        /\ log' = log \o ev /\ ev # <<>> /\ Len(first) \in Nat
        /\ \A i \in 1 .. Len(first) : ev[i] = first[i]
    <3>1. /\ ev \in Seq(Event) /\ Len(ev) = Len(first) + 1 /\ ev[Len(ev)] = stop
          /\ ev # <<>> /\ Len(first) \in Nat
          /\ \A i \in 1 .. Len(first) : ev[i] = first[i]
      BY <2>1, <2>4
    <3>2. log' = Append(log \o first, stop)
      BY <2>4, <2>6, <2>7
    <3>3. Append(log \o first, stop) = log \o Append(first, stop)
      BY <1>2, <2>1, <2>4, AppendJoin
    <3> QED
      BY <3>1, <3>2, <3>3
  <2> HIDE DEF ev
  <2>9. \A i \in 1 .. Len(ev) : (i = Len(ev) /\ ev[i].type = "stopped")
                                  \/ (i < Len(ev) /\ ev[i].type \in {"error", "tool"})
    <3>1. SUFFICES ASSUME NEW i \in 1 .. Len(ev), i # Len(ev)
                   PROVE  i < Len(ev) /\ ev[i].type \in {"error", "tool"}
      BY <2>1, <2>8
    <3>2. i < Len(ev) /\ i \in 1 .. Len(first)
      BY <2>8, <3>1
    <3> QED
      BY <2>5, <2>8, <3>2
  <2>10. Len(log) # 0 /\ ~Ended /\ Ended'
    BY <1>3, <2>2 DEF Ended
  <2>11. \A i, k \in 1 .. Len(ev) : ev[i].type = "error" /\ ev[k].type = "stopped" => i < k
    BY <2>9
  <2>12. \A i \in 1 .. Len(ev) : ev[i].type # "job" /\ ev[i].type # "token"
    BY <2>9
  <2>13. \A i \in 1 .. Len(ev) : \A k \in i .. Len(ev) : ev[k].type # "token"
    <3>1. \A i \in 1 .. Len(ev) : \A k \in i .. Len(ev) : k \in 1 .. Len(ev)
      OBVIOUS
    <3> QED
      BY <2>12, <3>1
  <2>14. Script'
    BY <1>2, <2>2, <2>8, <2>10, <2>11, <2>12, <2>13, ScriptGrows
  <2>15. Tick(ev, FALSE)
    BY <1>1, <2>2, <2>6, <2>7, <2>8, <2>10 DEF Tick
  <2>16. Deltas(ev)
    BY <2>12 DEF Deltas
  <2> QED
    BY <2>7, <2>14, <2>15, <2>16
<1>10. ASSUME log' = log, client' = client, ~job.done, db'.status # "gone", Ended => Ended',
              NEW end \in BOOLEAN, Stream(<<>>, end), turn # "start", turn' # "start"
       PROVE  Script' /\ Tick(<<>>, end) /\ Deltas(<<>>)
  <2>1. <<>> \in Seq(Event) /\ Len(<<>>) = 0 /\ log' = log \o <<>> /\ log # <<>>
    BY <1>2, <1>3, <1>10
  <2>2. Script'
    BY <1>10, <2>1 DEF Script
  <2>3. Tick(<<>>, end)
    BY <1>10, <2>1 DEF Tick
  <2>4. Deltas(<<>>)
    BY <2>1 DEF Deltas
  <2> QED
    BY <2>2, <2>3, <2>4
<1>11. CASE EndStream(TRUE, TRUE)
  <2> DEFINE f == finishJob(s, TRUE, TRUE)
  <2>1. /\ turn = "closing" /\ Commit(f) /\ Stream(<<>>, TRUE) /\ turn' = "over"
        /\ server' = server /\ client' = client
    BY <1>11 DEF EndStream, s
  <2>2. SInv(f) /\ Exact(f) /\ f.log = log /\ f.job.done /\ f.db.status # "gone"
    BY <1>1, <2>1, FinishSound, FinishExact
  <2> HIDE DEF f
  <2>3. Settled' /\ log' = f.log /\ db' = f.db
    BY <1>1, <2>1, <2>2, TickSettles
  <2>4. (Ended => Ended') /\ ~job.done /\ log' = log /\ db'.status # "gone"
    BY <1>1, <2>1, <2>2, <2>3 DEF Ended
  <2>5. Script' /\ Tick(<<>>, TRUE) /\ Deltas(<<>>)
    BY <1>10, <2>1, <2>4
  <2> QED
    BY <2>3, <2>5
<1>12. CASE FlushTimer(TRUE)
  <2> DEFINE f == flushJob(s, TRUE)
  <2>1. /\ job.pending # <<>> /\ Commit(f) /\ turn' = turn /\ server' = server /\ conn' = conn
        /\ net' = net /\ client' = client
    BY <1>12 DEF FlushTimer, s
  <2>2. ~job.done /\ Sound(s) /\ Counted(s) /\ job.inRam /\ db.status = "running"
        /\ job \in JobRecord
    BY <1>1, <2>1 DEF SInv, Sound, ServerStates
  <2>3. /\ Sound(f) /\ Counted(f) /\ f.job = [job EXCEPT !.pending = <<>>]
        /\ f.db.status = "running" /\ f.log = log
    BY <1>1, <2>2, FlushSound
  <2>4. /\ \A r \in f.db.rows : PlainExact(log, r)
        /\ f.job.tail = job.tail /\ f.job.tailStart = job.tailStart
        /\ f.job.inRam = job.inRam /\ f.job.eventCount = job.eventCount
    BY <1>1, <2>2, FlushExact DEF Exact
  <2> HIDE DEF f
  <2>5. ~f.job.done /\ f.job.inRam /\ f.job.pending = <<>>
    BY <2>2, <2>3, NoPending
  <2>6. SInv(f)
    BY <2>3, <2>5 DEF SInv
  <2>7. Exact(f)
    BY <1>1, <2>2, <2>3, <2>4, <2>5 DEF Exact, TailExact
  <2>8. Settled' /\ log' = f.log /\ db' = f.db
    BY <1>1, <2>1, <2>2, <2>5, <2>6, <2>7, TickSettles
  <2>9. net \o <<>> = net
    BY <1>2
  <2>10. Stream(<<>>, FALSE)
    BY <2>1, <2>9 DEF Stream
  <2>11. turn # "start"
    <3>1. job.pending \in Seq(Event) /\ Len(job.pending) > 0
      BY <2>1, <2>2 DEF JobRecord
    <3>2. s.db.eventCount + Len(job.pending) <= Len(log) /\ s.db.eventCount \in Nat
      BY <1>1, <2>2, SoundParts DEF Counted
    <3> QED
      BY <1>2, <1>3, <3>1, <3>2
  <2>12. Script' /\ Tick(<<>>, FALSE) /\ Deltas(<<>>)
    BY <1>10, <2>1, <2>2, <2>3, <2>8, <2>10, <2>11 DEF Ended
  <2> QED
    BY <2>8, <2>12
<1> QED
  BY <1>5, <1>6, <1>7, <1>8, <1>9, <1>11, <1>12 DEF Ticking

(* A stop request, the RAM collection and retention keep what the server has of its log. *)
LEMMA UpkeepSettles ==
  ASSUME Inv, WInv, Undisturbed, Script, Settled, handleChatStop \/ gcChatJobs \/ gcRetention
  PROVE  Script' /\ Settled' /\ log' = log /\ turn' = turn
<1>1. /\ server = "up" /\ (job.done <=> turn = "over") /\ Exact(ServerState)
      /\ job \in JobRecord /\ db \in Store /\ log \in Seq(Event)
  BY DEF Settled, WInv, TypeOK
<1>2. /\ \A r \in db.rows : PlainExact(log, r)
      /\ job.inRam => TailExact(log, job) /\ db.status # "gone" /\ job.eventCount = Len(log)
      /\ ~job.inRam => db.eventCount = Len(log)
  BY <1>1, ServerFields DEF Exact
<1>3. log' = log /\ turn' = turn /\ server' = server
  BY DEF handleChatStop, gcChatJobs, gcRetention
<1>4. Script'
  BY <1>3 DEF Script, Ended
<1>5. ServerState' = [log |-> log, job |-> job', db |-> db']
  BY <1>3 DEF ServerState
<1>6. CASE handleChatStop
  <2>1. /\ job'.inRam = job.inRam /\ job'.tail = job.tail /\ job'.tailStart = job.tailStart
        /\ job'.done = job.done /\ job'.eventCount = job.eventCount /\ db' = db
    BY <1>1, <1>6 DEF handleChatStop, JobRecord
  <2>2. Exact(ServerState')
    BY <1>2, <1>5, <2>1 DEF Exact, TailExact
  <2> QED
    BY <1>1, <1>3, <1>4, <2>1, <2>2 DEF Settled
<1>7. CASE gcChatJobs
  <2>1. ~job'.inRam /\ job'.done = job.done /\ db' = db /\ job.inRam /\ job.done
    BY <1>1, <1>7 DEF gcChatJobs, JobRecord
  <2>2. db.eventCount = Len(log)
    <3>1. db.eventCount = Len(log) - Len(job.pending) /\ job.pending = <<>> /\ Len(log) \in Nat
      BY <1>2, <2>1, ServerFacts
    <3> QED
      BY <3>1
  <2>3. Exact(ServerState')
    BY <1>2, <1>5, <2>1, <2>2 DEF Exact
  <2> QED
    BY <1>1, <1>3, <1>4, <2>1, <2>3 DEF Settled
<1>8. CASE gcRetention
  <2>1. job' = job /\ ~job.inRam /\ db'.rows = {} /\ db'.eventCount = db.eventCount
    BY <1>1, <1>8 DEF gcRetention, Store
  <2>2. Exact(ServerState')
    BY <1>2, <1>5, <2>1 DEF Exact
  <2> QED
    BY <1>1, <1>3, <1>4, <2>1, <2>2 DEF Settled
<1> QED
  BY <1>3, <1>6, <1>7, <1>8

-----------------------------------------------------------------------------
(* The reader of an undisturbed turn. *)

(* The types of the sequences the reader follows. *)
LEMMA ReaderFacts ==
  ASSUME WInv
  PROVE  /\ log \in Seq(Event) /\ Len(log) \in Nat /\ net \in Seq(Frame) /\ Len(net) \in Nat
         /\ client \in Client /\ client.eventIndex \in Nat /\ client.raw \in Seq(Nat)
         /\ client.known \in BOOLEAN /\ client.session \in BOOLEAN /\ client.final \in BOOLEAN
         /\ client.gone \in BOOLEAN /\ client.started \in BOOLEAN /\ client.done \in BOOLEAN
         /\ client.stopped \in BOOLEAN /\ client.err \in BOOLEAN
         /\ conn \in Connections /\ turn \in {"start", "running", "closing", "over"}
         /\ \A p \in 0 .. Len(log) : TextBelow(p) \in Seq(Nat)
         /\ TextBelow(0) = <<>>
BY TextTyped, TextStep DEF WInv, TypeOK, Client, TextBelow

(* The frames a tick writes follow the log like the ones before them. *)
LEMMA TickFollows ==
  ASSUME WInv, Script, Script', Watched, ~client.gone, db.status # "gone",
         NEW events, NEW end, Tick(events, end),
         NEW pos, Follows(pos)
  PROVE  \E q : Follows(q)'
<1>1. PICK m \in Nat : m = Len(log)
  BY ReaderFacts
<1>2. PICK n \in Nat : n = Len(net)
  BY ReaderFacts
<1>3. PICK k \in Nat : k = Len(events)
  BY DEF Tick
<1>4. PICK h \in Nat : h = IF conn # "none" THEN k ELSE 0
  BY <1>3
<1>5. /\ log \in Seq(Event) /\ net \in Seq(Frame) /\ events \in Seq(Event)
      /\ log' = log \o events /\ client' = client /\ conn \in Connections
      /\ ~job.done /\ (Ended => Ended')
  BY ReaderFacts DEF Tick
<1>6. /\ log' \in Seq(Event) /\ Len(log') = m + k
      /\ \A i \in 1 .. m : log'[i] = log[i]
      /\ \A i \in 1 .. k : log'[m + i] = events[i]
  BY <1>1, <1>3, <1>5
<1>7. /\ Len(net') = n + h /\ \A i \in 1 .. n : net'[i] = net[i]
      /\ \A i \in 1 .. h : net'[n + i] = events[i] /\ net'[n + i] = log'[m + i] /\ i \in 1 .. k
      /\ conn # "none" => h = k
      /\ h # 0 => conn # "none"
  <2>1. CASE conn # "none"
    <3>1. net' = net \o events /\ h = k
      BY <1>4, <1>5, <2>1 DEF Tick, Stream, Connections
    <3>2. Len(net') = n + k /\ \A i \in 1 .. n : net'[i] = net[i]
      BY <1>2, <1>3, <1>5, <3>1
    <3>3. \A i \in 1 .. k : net'[n + i] = events[i]
      BY <1>2, <1>3, <1>5, <3>1
    <3> QED
      BY <1>6, <2>1, <3>1, <3>2, <3>3
  <2>2. CASE conn = "none"
    <3>1. net' = net /\ h = 0
      BY <1>4, <2>2 DEF Tick, Stream
    <3> QED
      BY <1>2, <2>2, <3>1
  <2> QED
    BY <2>1, <2>2
<1>8. \A p \in 0 .. m : TextBelow(p)' = TextBelow(p)
  BY <1>1, <1>5, TextExtend DEF TextBelow
<1>9. \A i \in 1 .. k : events[i].type \in LiveTypes /\ events[i].type \notin {"cursor", "gone", "reset"}
  <2>1. \A i \in 1 .. k : events[i] \in Event
    BY <1>3, <1>5
  <2>2. \A o \in Event : o.type \in LiveTypes /\ o.type \notin {"cursor", "gone", "reset"}
    BY DEF Event, LiveTypes
  <2> QED
    BY <2>1, <2>2
<1>10. ASSUME Ended
       PROVE  /\ TextBelow(m + k)' = TextBelow(m)
              /\ \A i \in 1 .. m + k : log'[i].type = "error" => i \in 1 .. m
  <2>1. \A i \in 1 .. k : events[i].type \notin Ends \cup {"token"}
    BY <1>3, <1>10 DEF Tick
  <2>2. \A i \in m + 1 .. m + k : i - m \in 1 .. k /\ i = m + (i - m)
    OBVIOUS
  <2>3. \A i \in m + 1 .. m + k : log'[i].type \notin Ends \cup {"token"}
    BY <1>6, <2>1, <2>2
  <2>4. m \in 0 .. Len(log') /\ m + k \in m .. Len(log') /\ m \in 0 .. m
    BY <1>6
  <2>5. TextUpTo(log')[m + k] = TextUpTo(log')[m]
    BY <1>6, <2>3, <2>4, TextGap
  <2>6. \A i \in 1 .. m + k : i \in 1 .. m \/ i \in m + 1 .. m + k
    OBVIOUS
  <2> QED
    BY <1>8, <2>3, <2>4, <2>5, <2>6 DEF TextBelow, Ends
<1>11. ASSUME NEW p \in 0 .. m, NEW i \in 0 .. n, Explained(p, i)
       PROVE  Explained(p, i)' /\ (Ended /\ p = m => Explained(m + k, i)')
  <2>1. \A q \in 1 .. p : q \in 1 .. m
    OBVIOUS
  <2>2. \A j \in 1 .. i : j \in 1 .. n
    OBVIOUS
  <2>3. Explained(p, i)'
    BY <1>5, <1>6, <1>7, <1>11, <2>1, <2>2 DEF Explained
  <2>4. ASSUME Ended, p = m PROVE Explained(m + k, i)'
    BY <1>10, <2>3, <2>4 DEF Explained
  <2> QED
    BY <2>3, <2>4
<1>12. ASSUME NEW i \in 1 .. n + 1, NoCursor(i)' PROVE NoCursor(i)
  <2>1. \A j \in i .. n : j \in i .. Len(net') /\ j \in 1 .. n
    BY <1>7
  <2> QED
    BY <1>2, <1>7, <1>12, <2>1 DEF NoCursor
<1>13. /\ pos \in [0 .. n -> 0 .. m] /\ Screen(pos[0])
       /\ \A i \in 1 .. n : Moves(i, pos[i - 1], pos[i])
       /\ conn # "none" => pos[n] = m
  BY <1>1, <1>2 DEF Follows

<1>14. Screen(pos[0])'
  <2>1. pos[0] \in 0 .. m /\ 0 \in 0 .. n /\ 1 \in 1 .. n + 1
    BY <1>13
  <2>2. PICK p \in 0 .. m : p = pos[0]
    BY <2>1
  <2>3. Screen(p)
    BY <1>13, <2>2
  <2>4. client.raw = TextBelow(p) /\ TextBelow(p)' = TextBelow(p)
    BY <1>8, <2>3 DEF Screen
  <2>5. ASSUME NoCursor(1)' PROVE client.eventIndex = p
    BY <1>12, <2>1, <2>3, <2>5 DEF Screen
  <2>6. ASSUME NoCursor(1)' \/ ~client.started
        PROVE  /\ client.eventIndex <= m + k /\ client.raw = TextBelow(client.eventIndex)'
               /\ Explained(client.eventIndex, 0)'
    <3>1. /\ client.eventIndex <= m /\ client.raw = TextBelow(client.eventIndex)
          /\ Explained(client.eventIndex, 0)
      BY <1>1, <1>12, <2>1, <2>3, <2>6 DEF Screen
    <3>2. PICK x \in 0 .. m : x = client.eventIndex
      BY <3>1, ReaderFacts
    <3>3. x <= m + k
      OBVIOUS
    <3>4. TextBelow(x)' = TextBelow(x) /\ Explained(x, 0)'
      BY <1>8, <1>11, <2>1, <3>1, <3>2
    <3>5. client'.eventIndex = x
      BY <1>5, <3>2
    <3> QED
      BY <3>1, <3>2, <3>3, <3>4, <3>5
  <2>7. ASSUME client.done \/ client.stopped \/ client.err
        PROVE  Ended' /\ client.raw = TextBelow(m + k)' /\ Ended
    <3>1. Ended /\ client.raw = TextBelow(m)
      BY <1>1, <2>3, <2>7 DEF Screen
    <3> QED
      BY <1>5, <1>10, <3>1
  <2>8. ASSUME client.stopped PROVE Explained(m + k, 0)'
    <3>1. Explained(m, 0) /\ Ended
      BY <1>1, <2>3, <2>7, <2>8 DEF Screen
    <3> QED
      BY <1>11, <2>1, <3>1
  <2>9. ASSUME ~client.known
        PROVE  /\ client.eventIndex = 0 /\ ~Verdict' /\ NoCursor(1)'
               /\ net' = <<>> \/ net'[1].type = "job"
    <3>1. /\ client.eventIndex = 0 /\ ~Verdict /\ NoCursor(1)
          /\ net = <<>> \/ net[1].type = "job"
      BY <2>3, <2>9 DEF Screen
    <3>2. NoCursor(1)'
      <4>1. ASSUME NEW j \in 1 .. n + h PROVE net'[j].type # "cursor"
        <5>1. CASE j \in 1 .. n
          BY <1>2, <1>7, <3>1, <5>1 DEF NoCursor
        <5>2. CASE ~(j \in 1 .. n)
          <6>1. j - n \in 1 .. h /\ j = n + (j - n)
            BY <5>2
          <6> QED
            BY <1>7, <1>9, <6>1
        <5> QED
          BY <5>1, <5>2
      <4> QED
        BY <1>7, <4>1 DEF NoCursor
    <3>3. CASE n # 0
      <4>1. net'[1] = net[1] /\ net # <<>>
        BY <1>2, <1>5, <1>7, <3>3
      <4> QED
        BY <1>5, <3>1, <3>2, <4>1 DEF Verdict
    <3>4. CASE n = 0 /\ h = 0
      <4>1. net' = <<>>
        BY <1>2, <1>4, <1>5, <1>7, <3>4 DEF Tick, Stream, Connections
      <4> QED
        BY <1>5, <3>1, <3>2, <4>1 DEF Verdict
    <3>5. CASE n = 0 /\ h # 0
      <4>1. pos[0] = m /\ client.eventIndex = p
        BY <1>7, <1>13, <2>3, <3>1, <3>5 DEF Screen
      <4>2. m = 0 /\ 1 \in 1 .. h
        BY <2>2, <3>1, <3>5, <4>1
      <4>3. net'[1] = log'[1] /\ 1 \in 1 .. Len(log')
        BY <1>6, <1>7, <3>5, <4>2
      <4>4. log'[1].type = "job"
        BY <4>3 DEF Script
      <4> QED
        BY <1>5, <3>1, <3>2, <4>3, <4>4 DEF Verdict
    <3> QED
      BY <3>3, <3>4, <3>5
  <2>10. Screen(p)'
    BY <1>5, <1>6, <2>4, <2>5, <2>6, <2>7, <2>8, <2>9 DEF Screen
  <2> QED
    BY <2>2, <2>10

<1>15. ASSUME NEW i \in 1 .. n PROVE Moves(i, pos[i - 1], pos[i])'
  <2>1. pos[i - 1] \in 0 .. m /\ pos[i] \in 0 .. m /\ i \in 0 .. n /\ i - 1 \in 0 .. n
        /\ i \in 1 .. n + 1 /\ i + 1 \in 1 .. n + 1
    <3>1. i - 1 \in 0 .. n /\ i \in 0 .. n /\ i \in 1 .. n + 1 /\ i + 1 \in 1 .. n + 1
      OBVIOUS
    <3> QED
      BY <1>13, <3>1
  <2>2. PICK a \in 0 .. m : a = pos[i - 1]
    BY <2>1
  <2>3. PICK b \in 0 .. m : b = pos[i]
    BY <2>1
  <2>4. Moves(i, a, b)
    BY <1>13, <2>2, <2>3
  <2>5. net'[i] = net[i]
    BY <1>7
  <2>6. TextBelow(a)' = TextBelow(a) /\ TextBelow(b)' = TextBelow(b)
    BY <1>8
  <2>7. /\ net'[i].type = "token" => TextBelow(b)' = TextBelow(a)' \o net'[i].data
        /\ net'[i].type = "reset" => b = 0 /\ i = 1 /\ ~client'.started /\ ~Verdict'
        /\ net'[i].type \notin {"token", "reset"} => TextBelow(b)' = TextBelow(a)'
        /\ net'[i].type = "cursor" => b = net'[i].data[1]
        /\ net'[i].type # "gone"
    BY <1>5, <2>4, <2>5, <2>6 DEF Moves, Verdict
  <2>8. ASSUME net'[i].type \in Ends
        PROVE  Ended' /\ TextBelow(b)' = TextBelow(m + k)' /\ Ended
    <3>1. Ended /\ TextBelow(b) = TextBelow(m)
      BY <1>1, <2>4, <2>5, <2>8 DEF Moves
    <3> QED
      BY <1>5, <1>10, <2>6, <3>1
  <2>9. ASSUME net'[i].type = "stopped" PROVE Explained(m + k, i - 1)'
    <3>1. Explained(m, i - 1) /\ Ended
      BY <1>1, <2>4, <2>5, <2>8, <2>9 DEF Moves, Ends
    <3> QED
      BY <1>11, <2>1, <3>1
  <2>10. ASSUME NoCursor(i)' PROVE b = a + 1 /\ net'[i] = log'[b]
    <3>1. b = a + 1 /\ net[i] = log[b]
      BY <1>12, <2>1, <2>4, <2>5, <2>7, <2>10 DEF Moves
    <3>2. b \in 1 .. m
      BY <3>1
    <3> QED
      BY <1>6, <2>5, <3>1, <3>2
  <2>11. ASSUME NoCursor(i + 1)' PROVE Explained(b, i)'
    <3>1. Explained(b, i)
      BY <1>12, <2>1, <2>4, <2>11 DEF Moves
    <3> QED
      BY <1>11, <2>1, <3>1
  <2>12. Moves(i, a, b)'
    BY <1>5, <1>6, <2>7, <2>8, <2>9, <2>10, <2>11 DEF Moves
  <2> QED
    BY <2>2, <2>3, <2>12
<1>16. ASSUME h # 0 PROVE Explained(m, n)
  <2>1. pos[n] = m
    BY <1>7, <1>13, <1>16
  <2>2. CASE n = 0
    <3>1. NoCursor(1)
      BY <1>2, <2>2 DEF NoCursor
    <3>2. client.eventIndex = m /\ Explained(client.eventIndex, 0)
      BY <1>13, <2>1, <2>2, <3>1 DEF Screen
    <3> QED
      BY <2>2, <3>2
  <2>3. CASE n # 0
    <3>1. n \in 1 .. n /\ NoCursor(n + 1)
      BY <1>2, <2>3 DEF NoCursor
    <3> QED
      BY <1>13, <2>1, <3>1 DEF Moves
  <2> QED
    BY <2>2, <2>3
<1>17. ASSUME NEW j \in 1 .. h PROVE Moves(n + j, m + j - 1, m + j)'
  <2>1. /\ net'[n + j] = log'[m + j] /\ net'[n + j] = events[j] /\ j \in 1 .. k /\ h = k
        /\ h # 0
    <3>1. h # 0
      OBVIOUS
    <3>2. conn # "none"
      BY <1>7, <3>1
    <3>3. h = k
      BY <1>7, <3>2
    <3>4. net'[n + j] = log'[m + j] /\ net'[n + j] = events[j] /\ j \in 1 .. k
      BY <1>7
    <3> QED
      BY <3>1, <3>3, <3>4
  <2>2. /\ m + j \in 1 .. Len(log') /\ m + j - 1 \in 0 .. Len(log') /\ m + j \in 0 .. Len(log')
        /\ Len(log') \in m + j .. Len(log') /\ m + k = Len(log')
    BY <1>6, <2>1
  <2>3. net'[n + j].type \notin {"reset", "cursor", "gone"}
    BY <1>9, <2>1
  <2>4. /\ net'[n + j].type = "token" => TextBelow(m + j)' = TextBelow(m + j - 1)' \o net'[n + j].data
        /\ net'[n + j].type \notin {"token", "reset"} => TextBelow(m + j)' = TextBelow(m + j - 1)'
    <3>1. PICK c \in Nat : c = m + j
      OBVIOUS
    <3>2. c - 1 = m + j - 1 /\ c \in 1 .. Len(log')
      BY <2>2, <3>1
    <3>3. TextUpTo(log')[c] = IF log'[c].type = "token" THEN TextUpTo(log')[c - 1] \o log'[c].data
                              ELSE TextUpTo(log')[c - 1]
      BY <1>6, <3>2, TextStep
    <3> QED
      BY <2>1, <3>1, <3>2, <3>3 DEF TextBelow
  <2>5. ASSUME net'[n + j].type \in Ends
        PROVE  Ended' /\ TextBelow(m + j)' = TextBelow(m + k)'
    <3>1. Ended' /\ \A i \in m + j .. Len(log') : log'[i].type # "token"
      BY <2>1, <2>2, <2>5 DEF Script
    <3>2. \A i \in m + j + 1 .. Len(log') : i \in m + j .. Len(log')
      OBVIOUS
    <3>3. TextUpTo(log')[Len(log')] = TextUpTo(log')[m + j]
      BY <1>6, <2>2, <3>1, <3>2, TextGap
    <3> QED
      BY <1>6, <3>1, <3>3 DEF TextBelow
  <2>6. ASSUME NEW i \in 1 .. m + k, log'[i].type = "error", i <= m + j
        PROVE  client'.err \/ \E g \in 1 .. n + j : net'[g].type = "error"
                                /\ (i < m + j => g \in 1 .. n + j - 1)
    <3>1. CASE i \in 1 .. m
      <4>1. log[i].type = "error"
        BY <1>6, <2>6, <3>1
      <4>2. client.err \/ \E g \in 1 .. n : net[g].type = "error"
        BY <1>16, <2>1, <3>1, <4>1 DEF Explained
      <4>3. \A g \in 1 .. n : g \in 1 .. n + j /\ g \in 1 .. n + j - 1
        OBVIOUS
      <4> QED
        BY <1>5, <1>7, <4>2, <4>3
    <3>2. CASE ~(i \in 1 .. m)
      <4>1. PICK g \in 1 .. j : i = m + g
        <5>1. i - m \in 1 .. j /\ i = m + (i - m)
          BY <2>6, <3>2
        <5> QED
          BY <5>1
      <4>2. g \in 1 .. h /\ n + g \in 1 .. n + j /\ (i < m + j => n + g \in 1 .. n + j - 1)
        BY <4>1
      <4>3. net'[n + g].type = "error"
        BY <1>7, <2>6, <4>1, <4>2
      <4> QED
        BY <4>2, <4>3
    <3> QED
      BY <3>1, <3>2
  <2>7. ASSUME net'[n + j].type = "stopped" PROVE Explained(m + k, n + j - 1)'
    <3>1. ASSUME NEW i \in 1 .. m + k, log'[i].type = "error"
          PROVE  client'.err \/ \E g \in 1 .. n + j - 1 : net'[g].type = "error"
      <4>1. i < m + j
        BY <2>1, <2>2, <2>7, <3>1 DEF Script
      <4>2. i <= m + j
        BY <4>1
      <4> QED
        BY <2>6, <3>1, <4>1, <4>2
    <3> QED
      BY <3>1 DEF Explained
  <2>8. Explained(m + j, n + j)'
    <3>1. \A i \in 1 .. m + j : i \in 1 .. m + k /\ i <= m + j
      BY <2>1
    <3> QED
      BY <2>6, <3>1 DEF Explained
  <2>9. PICK a \in Int, b \in Int, x \in Int, y \in Int, z \in Int :
          a = m + j - 1 /\ b = m + j /\ x = n + j /\ y = n + j - 1 /\ z = m + k
    OBVIOUS
  <2>10. b = a + 1 /\ y = x - 1 /\ z = Len(log')
    BY <2>2, <2>9
  <2>11. /\ net'[x].type \notin {"reset", "cursor", "gone"} /\ net'[x] = log'[b]
         /\ net'[x].type = "token" => TextBelow(b)' = TextBelow(a)' \o net'[x].data
         /\ net'[x].type \notin {"token", "reset"} => TextBelow(b)' = TextBelow(a)'
         /\ net'[x].type \in Ends => Ended' /\ TextBelow(b)' = TextBelow(z)'
         /\ net'[x].type = "stopped" => Explained(z, y)'
         /\ Explained(b, x)'
    BY <2>1, <2>3, <2>4, <2>5, <2>7, <2>8, <2>9
  <2>12. Moves(x, a, b)'
    BY <2>10, <2>11 DEF Moves
  <2> QED
    BY <2>9, <2>12
<1> DEFINE q == [i \in 0 .. n + h |-> IF i <= n THEN pos[i] ELSE m + (i - n)]
<1>18. q \in [0 .. n + h -> 0 .. m + k]
  <2>1. ASSUME NEW i \in 0 .. n + h PROVE (IF i <= n THEN pos[i] ELSE m + (i - n)) \in 0 .. m + k
    <3>1. CASE i <= n
      <4>1. i \in 0 .. n
        BY <3>1
      <4>2. pos[i] \in 0 .. m
        BY <1>13, <4>1
      <4> QED
        BY <3>1, <4>2
    <3>2. CASE ~(i <= n)
      <4>1. h = k
        BY <1>4, <3>2
      <4> QED
        BY <3>2, <4>1
    <3> QED
      BY <3>1, <3>2
  <2> QED
    BY <2>1
<1>19. /\ \A i \in 0 .. n : q[i] = pos[i]
       /\ h # 0 => pos[n] = m
       /\ \A j \in 1 .. h : q[n + j] = m + j /\ q[n + j - 1] = m + j - 1
  <2>1. \A i \in 0 .. n : q[i] = pos[i]
    OBVIOUS
  <2>2. h # 0 => pos[n] = m
    BY <1>7, <1>13
  <2>3. ASSUME NEW j \in 1 .. h PROVE q[n + j] = m + j /\ q[n + j - 1] = m + j - 1
    <3>1. n + j \in 0 .. n + h /\ ~(n + j <= n) /\ m + ((n + j) - n) = m + j
          /\ n + j - 1 \in 0 .. n + h
      OBVIOUS
    <3>2. q[n + j] = m + j
      BY <3>1
    <3>3. CASE j = 1
      <4>1. n + j - 1 = n /\ n \in 0 .. n /\ m + j - 1 = m
        BY <3>3
      <4> HIDE DEF q
      <4> QED
        BY <2>1, <2>2, <3>2, <4>1
    <3>4. CASE j # 1
      <4>1. ~(n + j - 1 <= n) /\ m + ((n + j - 1) - n) = m + j - 1
        BY <3>4
      <4> QED
        BY <3>1, <3>2, <4>1
    <3> QED
      BY <3>3, <3>4
  <2> QED
    BY <2>1, <2>2, <2>3
<1>20. PICK r : r = q
  OBVIOUS
<1> HIDE DEF q
<1>21. Follows(r)'
  <2>1. r \in [0 .. Len(net') -> 0 .. Len(log')]
    BY <1>6, <1>7, <1>18, <1>20
  <2>2. r[0] = pos[0] /\ 0 \in 0 .. n
    BY <1>19, <1>20
  <2>3. Screen(r[0])'
    BY <1>14, <2>2
  <2>4. ASSUME NEW i \in 1 .. n + h PROVE Moves(i, r[i - 1], r[i])'
    <3>1. CASE i \in 1 .. n
      <4>1. i \in 0 .. n /\ i - 1 \in 0 .. n
        BY <3>1
      <4>2. r[i] = pos[i] /\ r[i - 1] = pos[i - 1]
        BY <1>19, <1>20, <4>1
      <4> QED
        BY <1>15, <3>1, <4>2
    <3>2. CASE ~(i \in 1 .. n)
      <4>1. PICK j \in 1 .. h : i = n + j
        <5>1. i - n \in 1 .. h /\ i = n + (i - n)
          BY <3>2
        <5> QED
          BY <5>1
      <4>2. r[i] = m + j /\ r[i - 1] = m + j - 1
        BY <1>19, <1>20, <4>1
      <4> QED
        BY <1>17, <4>1, <4>2
    <3> QED
      BY <3>1, <3>2
  <2>5. ASSUME conn' # "none" PROVE r[n + h] = m + k
    <3>1. conn # "none" /\ h = k
      BY <1>7, <2>5 DEF Tick, Stream
    <3>2. CASE h = 0
      <4>1. n + h = n /\ m + k = m /\ n \in 0 .. n
        BY <3>1, <3>2
      <4> QED
        BY <1>13, <1>19, <1>20, <3>1, <4>1
    <3>3. CASE h # 0
      <4>1. h \in 1 .. h
        BY <3>3
      <4> QED
        BY <1>19, <1>20, <3>1, <4>1
    <3> QED
      BY <3>2, <3>3
  <2> QED
    BY <1>6, <1>7, <2>1, <2>3, <2>4, <2>5 DEF Follows
<1> QED
  BY <1>21

(* What the reader follows reads the record's status only. *)
LEMMA QuietFollows ==
  ASSUME log' = log, net' = net, conn' = conn, client' = client, turn' = turn,
         db.status = "gone" => db'.status = "gone", NEW pos, Follows(pos)
  PROVE  Follows(pos)'
<1>1. \A p : TextBelow(p)' = TextBelow(p)
  BY DEF TextBelow
<1>2. \A i : NoCursor(i)' = NoCursor(i)
  BY DEF NoCursor
<1>3. \A p, i : Explained(p, i)' = Explained(p, i)
  BY DEF Explained
<1>4. Ended' = Ended /\ Verdict' = Verdict
  BY DEF Ended, Verdict
<1>5. \A p : Screen(p) => Screen(p)'
  BY <1>1, <1>2, <1>3, <1>4 DEF Screen
<1>6. ASSUME NEW i, NEW a, NEW b, Moves(i, a, b) PROVE Moves(i, a, b)'
  <2>1. /\ TextBelow(a)' = TextBelow(a) /\ TextBelow(b)' = TextBelow(b)
        /\ TextBelow(Len(log))' = TextBelow(Len(log)) /\ NoCursor(i)' = NoCursor(i)
        /\ NoCursor(i + 1)' = NoCursor(i + 1) /\ Explained(b, i)' = Explained(b, i)
        /\ Explained(Len(log), i - 1)' = Explained(Len(log), i - 1)
    BY <1>1, <1>2, <1>3
  <2> QED
    BY <1>4, <1>6, <2>1 DEF Moves
<1> QED
  BY <1>5, <1>6 DEF Follows

(* So does the reader as a whole, whatever it is doing. *)
LEMMA QuietWatched ==
  ASSUME log' = log, net' = net, conn' = conn, client' = client, turn' = turn,
         db.status = "gone" => db'.status = "gone", Watched
  PROVE  Watched'
<1>1. ReaderActive' = ReaderActive /\ Verdict' = Verdict
  BY DEF ReaderActive, Verdict
<1>2. client.session \/ ~client.final => \E pos : Follows(pos)'
  BY QuietFollows DEF Watched
<1>3. \A pos : Follows(pos)' => pos \in [0 .. Len(net') -> 0 .. Len(log')]
  BY DEF Follows
<1> QED
  BY <1>1, <1>2, <1>3 DEF Watched

(* A tick of the server is followed by the reader that listens, and leaves the others alone. *)
LEMMA TickWatched ==
  ASSUME Inv, WInv, Script, Watched, Script', NEW events, NEW end, Tick(events, end)
  PROVE  Watched'
<1>1. db.status # "gone" /\ client' = client /\ db'.status # "gone"
  BY ServerFields DEF Tick, Inv, SInv
<1>2. ~client.gone
  BY <1>1 DEF Watched
<1>3. ReaderActive' => ReaderActive
  BY DEF Tick, Stream, ReaderActive
<1>4. Verdict' = Verdict
  BY <1>1 DEF Verdict
<1>5. client.session \/ ~client.final => \E pos : Follows(pos)'
  BY <1>1, <1>2, TickFollows DEF Watched
<1>6. \A pos : Follows(pos)' => pos \in [0 .. Len(net') -> 0 .. Len(log')]
  BY DEF Follows
<1> QED
  BY <1>1, <1>2, <1>3, <1>4, <1>5, <1>6 DEF Watched

(* What one frame does to the screen (processEvent). *)
LEMMA Processed ==
  ASSUME NEW c \in Client, NEW ev
  PROVE  LET d == processEvent(c, ev)
         IN /\ d.started /\ d.session = c.session /\ d.final = c.final
            /\ d.known = (c.known \/ ev.type = "job")
            /\ d.raw = CASE ev.type = "reset" -> <<>>
                         [] ev.type = "token" -> c.raw \o ev.data
                         [] OTHER -> c.raw
            /\ d.done = (c.done \/ ev.type = "done")
            /\ d.stopped = (c.stopped \/ ev.type = "stopped")
            /\ d.gone = (c.gone \/ ev.type = "gone")
            /\ d.err = (c.err \/ ev.type = "error")
            /\ d.eventIndex = CASE ev.type = "job" -> 1
                                [] ev.type = "cursor" -> ev.data[1]
                                [] ev.type = "reset" -> c.eventIndex
                                [] OTHER -> IF c.known THEN c.eventIndex + 1 ELSE c.eventIndex
BY DEF processEvent, Client

(* A frame that adds to a text that was already whole adds nothing. *)
LEMMA NothingToAdd ==
  ASSUME NEW e \in Seq(Event), NEW b \in 0 .. Len(e), NEW d \in Seq(Nat),
         TextUpTo(e)[b] = TextUpTo(e)[Len(e)] \o d
  PROVE  TextUpTo(e)[b] = TextUpTo(e)[Len(e)]
<1> DEFINE x == TextUpTo(e)[b]
           y == TextUpTo(e)[Len(e)]
<1>1. Len(e) \in Nat /\ b \in 0 .. Len(e) /\ Len(e) \in b .. Len(e) /\ Len(e) \in 0 .. Len(e)
  OBVIOUS
<1>2. x \in Seq(Nat) /\ y \in Seq(Nat)
  BY <1>1, TextTyped
<1>3. Len(x) <= Len(y)
  BY <1>1, TextPrefix
<1> HIDE DEF x, y
<1>4. /\ Len(x) = Len(y) + Len(d) /\ Len(x) \in Nat /\ Len(y) \in Nat /\ Len(d) \in Nat
      /\ y \o <<>> = y
  BY <1>2, TextJoin DEF x, y
<1>5. Len(d) = 0
  BY <1>3, <1>4
<1>6. d = <<>>
  BY <1>5
<1> QED
  BY <1>4, <1>6 DEF x, y

(* Reading a frame moves the screen along the log. *)
LEMMA ReadFollows ==
  ASSUME WInv, Script, Watched, readSse, NEW pos, Follows(pos)
  PROVE  /\ \E q : Follows(q)'
         /\ client'.gone => db.status = "gone" /\ ~ReaderActive'
<1>1. PICK m \in Nat : m = Len(log)
  BY ReaderFacts
<1>2. PICK n \in Nat : n = Len(net)
  BY ReaderFacts
<1>3. PICK ev : ev = net[1]
  OBVIOUS
<1>4. /\ net # <<>> /\ net' = Tail(net) /\ client' = processEvent(client, Head(net))
      /\ log' = log /\ db' = db /\ turn' = turn /\ conn' = conn
      /\ log \in Seq(Event) /\ net \in Seq(Frame) /\ client \in Client
  BY ReaderFacts DEF readSse
<1>5. /\ n # 0 /\ 1 \in 1 .. n /\ Len(net') = n - 1 /\ n - 1 \in Nat
      /\ \A i \in 1 .. n - 1 : net'[i] = net[i + 1] /\ i + 1 \in 1 .. n
      /\ ev \in Frame /\ ev.data \in Seq(Nat) /\ Head(net) = ev
  <2>1. n # 0 /\ 1 \in 1 .. n /\ Len(net') = n - 1 /\ n - 1 \in Nat
    BY <1>2, <1>4
  <2>2. \A i \in 1 .. n - 1 : net'[i] = net[i + 1] /\ i + 1 \in 1 .. n
    BY <1>2, <1>4
  <2>3. ev \in Frame /\ Head(net) = ev
    BY <1>2, <1>3, <1>4, <2>1
  <2>4. ev.data \in Seq(Nat)
    BY <2>3 DEF Frame
  <2> QED
    BY <2>1, <2>2, <2>3, <2>4
<1>6. /\ client'.started
      /\ client'.known = (client.known \/ ev.type = "job")
      /\ client'.raw = CASE ev.type = "reset" -> <<>>
                         [] ev.type = "token" -> client.raw \o ev.data
                         [] OTHER -> client.raw
      /\ client'.done = (client.done \/ ev.type = "done")
      /\ client'.stopped = (client.stopped \/ ev.type = "stopped")
      /\ client'.gone = (client.gone \/ ev.type = "gone")
      /\ client'.err = (client.err \/ ev.type = "error")
      /\ client'.eventIndex = CASE ev.type = "job" -> 1
                          [] ev.type = "cursor" -> ev.data[1]
                          [] ev.type = "reset" -> client.eventIndex
                          [] OTHER -> IF client.known THEN client.eventIndex + 1
                                      ELSE client.eventIndex
  BY <1>4, <1>5, Processed
<1>7. ~client.gone
  BY <1>4 DEF Watched, ReaderActive
<1>8. /\ pos \in [0 .. n -> 0 .. m] /\ Screen(pos[0])
      /\ \A i \in 1 .. n : Moves(i, pos[i - 1], pos[i])
      /\ conn # "none" => pos[n] = m
  BY <1>1, <1>2 DEF Follows
<1>9. PICK a \in 0 .. m : a = pos[0]
  BY <1>8
<1>10. PICK b \in 0 .. m : b = pos[1]
  <2>1. 1 \in 0 .. n
    BY <1>5
  <2>2. pos[1] \in 0 .. m
    BY <1>8, <2>1
  <2> QED
    BY <2>2
<1>11. Screen(a) /\ Moves(1, a, b)
  <2>1. 1 - 1 = 0
    OBVIOUS
  <2> QED
    BY <1>5, <1>8, <1>9, <1>10, <2>1
<1>12. \A p : TextBelow(p)' = TextBelow(p)
  BY <1>4 DEF TextBelow
<1>13. /\ Ended' = Ended
       /\ \A p \in 0 .. m : TextBelow(p) \in Seq(Nat)
       /\ TextBelow(0) = <<>>
       /\ client.eventIndex \in Nat /\ client.raw \in Seq(Nat)
  BY <1>1, <1>4, ReaderFacts DEF Ended
<1>14. ASSUME NEW i \in 1 .. n PROVE NoCursor(i)' = NoCursor(i + 1)
  <2>1. ASSUME NoCursor(i + 1), NEW j \in i .. n - 1 PROVE net'[j].type # "cursor"
    <3>1. j \in 1 .. n - 1 /\ j + 1 \in i + 1 .. n
      OBVIOUS
    <3> QED
      BY <1>2, <1>5, <2>1, <3>1 DEF NoCursor
  <2>2. ASSUME NoCursor(i)', NEW j \in i + 1 .. n PROVE net[j].type # "cursor"
    <3>1. j - 1 \in 1 .. n - 1 /\ j - 1 \in i .. n - 1 /\ (j - 1) + 1 = j
      OBVIOUS
    <3> QED
      BY <1>5, <2>2, <3>1 DEF NoCursor
  <2>3. NoCursor(i + 1) => NoCursor(i)'
    BY <1>5, <2>1 DEF NoCursor
  <2>4. NoCursor(i)' => NoCursor(i + 1)
    BY <1>2, <2>2 DEF NoCursor
  <2> QED
    BY <2>3, <2>4 DEF NoCursor
<1>15. ASSUME NEW p \in 0 .. m, NEW i \in 0 .. n - 1, Explained(p, i + 1) PROVE Explained(p, i)'
  <2>1. ASSUME NEW q \in 1 .. p, log[q].type = "error"
        PROVE  client'.err \/ \E j \in 1 .. i : net'[j].type = "error"
    <3>1. client.err \/ \E j \in 1 .. i + 1 : net[j].type = "error"
      BY <1>15, <2>1 DEF Explained
    <3>2. ASSUME NEW j \in 1 .. i + 1, net[j].type = "error"
          PROVE  client'.err \/ \E g \in 1 .. i : net'[g].type = "error"
      <4>1. CASE j = 1
        BY <1>3, <1>6, <3>2, <4>1
      <4>2. CASE j # 1
        <5>1. j - 1 \in 1 .. i /\ j - 1 \in 1 .. n - 1 /\ (j - 1) + 1 = j
          BY <4>2
        <5> QED
          BY <1>5, <3>2, <5>1
      <4> QED
        BY <4>1, <4>2
    <3> QED
      BY <1>6, <3>1, <3>2
  <2> QED
    BY <1>4, <2>1 DEF Explained
<1>16. ASSUME NEW p \in 0 .. m, Explained(p, 0) PROVE Explained(p, 0)'
  <2>1. \A q \in 1 .. p : log[q].type = "error" => client.err
    BY <1>16 DEF Explained
  <2>2. client.err => client'.err
    BY <1>6
  <2> QED
    BY <1>4, <2>1, <2>2 DEF Explained

<1>17. client'.raw = TextBelow(b)
  <2>1. client.raw = TextBelow(a)
    BY <1>11 DEF Screen
  <2>2. /\ ev.type = "token" => TextBelow(b) = TextBelow(a) \o ev.data
        /\ ev.type = "reset" => b = 0
        /\ ev.type \notin {"token", "reset"} => TextBelow(b) = TextBelow(a)
    BY <1>3, <1>11 DEF Moves
  <2> QED
    BY <1>6, <1>13, <2>1, <2>2
<1>18. ASSUME NoCursor(2), ~client'.gone PROVE client'.eventIndex = b
  <2>1. ev.type # "gone" /\ net[1] = ev
    BY <1>3, <1>6, <1>18
  <2>2. CASE ev.type = "cursor"
    BY <1>6, <1>11, <2>1, <2>2 DEF Moves
  <2>3. CASE ev.type # "cursor"
    <3>1. NoCursor(1)
      <4>1. \A j \in 1 .. n : j = 1 \/ j \in 2 .. n
        OBVIOUS
      <4> QED
        BY <1>2, <1>18, <2>1, <2>3, <4>1 DEF NoCursor
    <3>2. b = a + 1 /\ ev = log[b] /\ client.eventIndex = a
      BY <1>7, <1>11, <2>1, <3>1 DEF Moves, Screen
    <3>3. b \in 1 .. m
      BY <3>2
    <3>4. CASE ev.type = "job"
      <4>1. b = 1
        BY <1>1, <3>2, <3>3, <3>4 DEF Script
      <4> QED
        BY <1>6, <3>4, <4>1
    <3>5. CASE ev.type = "reset"
      <4>1. b = 0
        BY <1>11, <2>1, <3>5 DEF Moves
      <4> QED
        BY <3>3, <4>1
    <3>6. CASE ev.type \notin {"job", "reset"}
      <4>1. client.known
        BY <1>4, <1>11, <2>1, <3>6 DEF Screen
      <4> QED
        BY <1>6, <2>3, <3>2, <3>6, <4>1
    <3> QED
      BY <3>4, <3>5, <3>6
  <2> QED
    BY <2>2, <2>3
<1>19. ASSUME NoCursor(2) PROVE Explained(b, 0)'
  <2>1. Explained(b, 1) /\ 0 + 1 = 1 /\ 1 + 1 = 2 /\ 0 \in 0 .. n - 1
    BY <1>5, <1>11, <1>19 DEF Moves
  <2> QED
    BY <1>15, <2>1
<1>20. ASSUME client'.done \/ client'.stopped \/ client'.err
       PROVE  Ended /\ client'.raw = TextBelow(m)
  <2>1. CASE ev.type \in Ends
    BY <1>1, <1>3, <1>11, <1>17, <2>1 DEF Moves
  <2>2. CASE ev.type \notin Ends
    <3>1. client.done \/ client.stopped \/ client.err
      BY <1>6, <1>20, <2>2 DEF Ends
    <3>2. Ended /\ client.raw = TextBelow(m) /\ client.raw = TextBelow(a)
      BY <1>1, <1>11, <3>1 DEF Screen
    <3>3. ev.type # "reset"
      BY <1>3, <1>11, <3>1 DEF Moves, Verdict
    <3>4. CASE ev.type = "token"
      <4>1. TextUpTo(log)[b] = TextUpTo(log)[m] \o ev.data
        BY <1>3, <1>11, <3>2, <3>4 DEF Moves, TextBelow
      <4>2. TextUpTo(log)[b] = TextUpTo(log)[m]
        BY <1>1, <1>4, <1>5, <4>1, NothingToAdd
      <4> QED
        BY <1>17, <3>2, <4>2 DEF TextBelow
    <3>5. CASE ev.type # "token"
      BY <1>6, <3>2, <3>3, <3>5
    <3> QED
      BY <3>4, <3>5
  <2> QED
    BY <2>1, <2>2
<1>21. ASSUME client'.stopped PROVE Explained(m, 0)'
  <2>1. CASE ev.type = "stopped"
    <3>1. Explained(m, 1 - 1)
      BY <1>1, <1>3, <1>11, <2>1 DEF Moves
    <3>2. 1 - 1 = 0
      OBVIOUS
    <3> QED
      BY <1>16, <3>1, <3>2
  <2>2. CASE ev.type # "stopped"
    <3>1. Explained(m, 0)
      BY <1>1, <1>6, <1>11, <1>21, <2>2 DEF Screen
    <3> QED
      BY <1>16, <3>1
  <2> QED
    BY <2>1, <2>2
<1>22. client'.known
  BY <1>3, <1>4, <1>6, <1>11 DEF Screen
<1>23. Screen(b)'
  <2>1. NoCursor(1)' => NoCursor(2)
    <3>1. NoCursor(1)' = NoCursor(1 + 1) /\ 1 + 1 = 2
      BY <1>5, <1>14
    <3> QED
      BY <3>1
  <2>2. client'.raw = TextBelow(b)'
    BY <1>12, <1>17
  <2>3. ASSUME ~client'.gone, NoCursor(1)'
        PROVE  /\ client'.eventIndex = b /\ client'.eventIndex <= Len(log')
               /\ client'.raw = TextBelow(client.eventIndex)'
               /\ Explained(client.eventIndex, 0)'
    <3>1. client'.eventIndex = b /\ Explained(b, 0)' /\ b <= Len(log')
      BY <1>1, <1>4, <1>18, <1>19, <2>1, <2>3
    <3> QED
      BY <2>2, <3>1
  <2>4. client'.done \/ client'.stopped \/ client'.err
          => Ended' /\ client'.raw = TextBelow(Len(log))'
    BY <1>1, <1>4, <1>12, <1>13, <1>20
  <2>5. client'.stopped => Explained(Len(log), 0)'
    BY <1>1, <1>4, <1>21
  <2> QED
    BY <1>6, <1>22, <2>2, <2>3, <2>4, <2>5 DEF Screen
<1>24. ASSUME NEW i \in 1 .. n - 1 PROVE Moves(i, pos[i], pos[i + 1])'
  <2>1. /\ i + 1 \in 1 .. n /\ i \in 0 .. n /\ i + 1 \in 0 .. n /\ (i + 1) - 1 = i /\ i \in 1 .. n
        /\ n # 1 /\ i + 1 # 1 /\ i - 1 \in 0 .. n - 1 /\ (i - 1) + 1 = i /\ i \in 0 .. n - 1
    OBVIOUS
  <2>2. PICK x \in 0 .. m : x = pos[i]
    BY <1>8, <2>1
  <2>3. PICK y \in 0 .. m : y = pos[i + 1]
    BY <1>8, <2>1
  <2>4. Moves(i + 1, x, y)
    BY <1>8, <2>1, <2>2, <2>3
  <2>5. net'[i] = net[i + 1]
    BY <1>5
  <2>6. /\ net'[i].type = "token" => TextBelow(y)' = TextBelow(x)' \o net'[i].data
        /\ net'[i].type # "reset" /\ net'[i].type # "gone"
        /\ net'[i].type \notin {"token", "reset"} => TextBelow(y)' = TextBelow(x)'
        /\ net'[i].type = "cursor" => y = net'[i].data[1]
        /\ net'[i].type \in Ends => Ended' /\ TextBelow(y)' = TextBelow(Len(log))'
    BY <1>2, <1>4, <1>12, <1>13, <2>1, <2>4, <2>5 DEF Moves
  <2>7. ASSUME net'[i].type = "stopped" PROVE Explained(Len(log), i - 1)'
    <3>1. Explained(m, i)
      BY <1>1, <2>1, <2>4, <2>5, <2>7 DEF Moves
    <3>2. Explained(m, i - 1)'
      BY <1>15, <2>1, <3>1
    <3> QED
      BY <1>1, <1>4, <3>2
  <2>8. ASSUME NoCursor(i)' PROVE y = x + 1 /\ net'[i] = log'[y]
    <3>1. NoCursor(i + 1)
      BY <1>14, <2>1, <2>8
    <3> QED
      BY <1>4, <2>4, <2>5, <2>6, <3>1 DEF Moves
  <2>9. ASSUME NoCursor(i + 1)' PROVE Explained(y, i)'
    <3>1. NoCursor((i + 1) + 1)
      BY <1>14, <2>1, <2>9
    <3>2. Explained(y, i + 1)
      BY <2>4, <3>1 DEF Moves
    <3> QED
      BY <1>15, <2>1, <3>2
  <2>10. Moves(i, x, y)'
    BY <2>6, <2>7, <2>8, <2>9 DEF Moves
  <2> QED
    BY <2>2, <2>3, <2>10
<1>25. PICK q : q = [i \in 0 .. n - 1 |-> pos[i + 1]]
  OBVIOUS
<1>26. /\ q \in [0 .. n - 1 -> 0 .. m] /\ \A i \in 0 .. n - 1 : q[i] = pos[i + 1]
  <2>1. \A i \in 0 .. n - 1 : i + 1 \in 0 .. n
    BY <1>5
  <2> QED
    BY <1>8, <1>25, <2>1
<1>27. Follows(q)'
  <2>1. q \in [0 .. Len(net') -> 0 .. Len(log')]
    BY <1>1, <1>4, <1>5, <1>26
  <2>2. q[0] = b
    <3>1. 0 \in 0 .. n - 1 /\ 0 + 1 = 1
      BY <1>5
    <3> QED
      BY <1>10, <1>26, <3>1
  <2>3. ASSUME NEW i \in 1 .. Len(net') PROVE Moves(i, q[i - 1], q[i])'
    <3>1. i \in 1 .. n - 1 /\ i - 1 \in 0 .. n - 1 /\ i \in 0 .. n - 1 /\ (i - 1) + 1 = i
      BY <1>5
    <3>2. q[i - 1] = pos[i] /\ q[i] = pos[i + 1]
      BY <1>26, <3>1
    <3> QED
      BY <1>24, <3>1, <3>2
  <2>4. conn' # "none" => q[Len(net')] = Len(log')
    <3>1. n - 1 \in 0 .. n - 1 /\ (n - 1) + 1 = n
      BY <1>5
    <3> QED
      BY <1>1, <1>4, <1>5, <1>8, <1>26, <3>1
  <2> QED
    BY <1>23, <2>1, <2>2, <2>3, <2>4 DEF Follows
<1>28. ASSUME client'.gone PROVE db.status = "gone" /\ ~ReaderActive'
  <2>1. ev.type = "gone"
    BY <1>6, <1>7, <1>28
  <2>2. n = 1 /\ conn = "none" /\ db.status = "gone"
    BY <1>2, <1>3, <1>11, <2>1 DEF Moves
  <2>3. net' = <<>>
    <3>1. net' \in Seq(Frame) /\ Len(net') = 0
      BY <1>4, <1>5, <2>2
    <3> QED
      BY <3>1
  <2> QED
    BY <1>4, <2>2, <2>3 DEF ReaderActive
<1> QED
  BY <1>27, <1>28

(* A reader with nothing on the wire follows the log if its screen does. *)
LEMMA IdleFollows ==
  ASSUME net' = <<>>, conn' = "none", NEW p \in 0 .. Len(log'), Screen(p)'
  PROVE  \E q : Follows(q)'
<1>1. PICK q : q = [i \in 0 .. 0 |-> p]
  OBVIOUS
<1>2. Len(net') = 0
  OBVIOUS
<1>3. q \in [0 .. Len(net') -> 0 .. Len(log')] /\ q[0] = p
  BY <1>1, <1>2
<1>4. Follows(q)'
  BY <1>2, <1>3 DEF Follows
<1> QED
  BY <1>4

(* A screen without a verdict that shows the text below its cursor. *)
LEMMA BlankScreen ==
  ASSUME WInv, log' = log, net' = <<>>, NEW c, client' = c,
         c.raw = <<>>, c.eventIndex = 0, ~c.done, ~c.stopped, ~c.err, ~c.gone
  PROVE  Screen(0)' /\ 0 \in 0 .. Len(log')
<1>1. TextBelow(0)' = <<>> /\ Len(log) \in Nat
  BY ReaderFacts DEF TextBelow
<1>2. Explained(0, 0)'
  BY DEF Explained
<1>3. NoCursor(1)' /\ ~Verdict'
  BY DEF NoCursor, Verdict
<1>4. 0 <= Len(log') /\ 0 \in 0 .. Len(log')
  BY <1>1
<1> QED
  BY <1>1, <1>2, <1>3, <1>4 DEF Screen

(* With the connection gone, the screen stands at the reader's own cursor. *)
LEMMA CutWatched ==
  ASSUME WInv, Watched, CutMidReplay = FALSE, CutSocket
  PROVE  Watched'
<1>1. /\ ReaderActive /\ client.session /\ ~client.final /\ conn' = "none" /\ net' = <<>>
      /\ log' = log /\ turn' = turn /\ client' = client /\ CutPoint(0) /\ db' = db
  BY DEF CutSocket
<1>2. ~client.gone
  BY <1>1 DEF Watched
<1>3. PICK pos : Follows(pos)
  BY <1>1 DEF Watched
<1>4. Screen(pos[0])
  BY <1>3 DEF Follows
<1>5. NoCursor(1) \/ ~client.started
  <2>1. (\A i \in 0 + 1 .. Len(net) : net[i].type # "cursor") \/ ~client.started
    BY <1>1 DEF CutPoint
  <2>2. 0 + 1 = 1
    OBVIOUS
  <2> QED
    BY <2>1, <2>2 DEF NoCursor
<1>6. PICK p \in 0 .. Len(log) : p = client.eventIndex
  BY <1>2, <1>4, <1>5, ReaderFacts DEF Screen
<1>7. /\ client.raw = TextBelow(p) /\ Explained(p, 0)
      /\ client.done \/ client.stopped \/ client.err => Ended /\ client.raw = TextBelow(Len(log))
      /\ client.stopped => Explained(Len(log), 0)
      /\ ~client.known => client.eventIndex = 0 /\ ~Verdict
      /\ p <= Len(log)
  BY <1>2, <1>4, <1>5, <1>6 DEF Screen
<1>8. /\ \A x : TextBelow(x)' = TextBelow(x)
      /\ \A x : Explained(x, 0)' = Explained(x, 0)
      /\ Ended' = Ended /\ Verdict' = Verdict
  BY <1>1 DEF TextBelow, Explained, Ended, Verdict
<1>9. Screen(p)'
  <2>1. NoCursor(1)'
    BY <1>1 DEF NoCursor
  <2>2. TextBelow(p)' = TextBelow(p) /\ Explained(p, 0)' = Explained(p, 0)
        /\ TextBelow(Len(log))' = TextBelow(Len(log))
        /\ Explained(Len(log), 0)' = Explained(Len(log), 0)
    BY <1>1, <1>8
  <2>3. client'.raw = TextBelow(client.eventIndex)' /\ Explained(client.eventIndex, 0)'
    BY <1>1, <1>6, <1>7, <2>2
  <2> QED
    BY <1>1, <1>2, <1>6, <1>7, <1>8, <2>1, <2>2, <2>3 DEF Screen
<1>10. \E q : Follows(q)'
  BY <1>1, <1>6, <1>9, IdleFollows
<1>11. ~ReaderActive'
  BY <1>1 DEF ReaderActive
<1>12. \A q : Follows(q)' => q \in [0 .. Len(net') -> 0 .. Len(log')]
  BY DEF Follows
<1> QED
  BY <1>1, <1>2, <1>10, <1>11, <1>12 DEF Watched

(* A reload, or a turn shown as not sent, starts from a blank screen. *)
LEMMA BlankWatched ==
  ASSUME WInv, Watched, Reload \/ GiveUp
  PROVE  Watched'
<1>1. /\ conn' = "none" /\ net' = <<>> /\ log' = log
      /\ \E known \in BOOLEAN : client' = [FreshSession(known) EXCEPT !.session = FALSE]
  <2>1. CASE Reload
    BY <2>1, ReaderFacts DEF Reload
  <2>2. CASE GiveUp
    BY <2>2 DEF GiveUp, ReaderActive
  <2> QED
    BY <2>1, <2>2
<1>2. PICK c : c = client'
  OBVIOUS
<1>3. /\ c.raw = <<>> /\ c.eventIndex = 0 /\ ~c.done /\ ~c.stopped /\ ~c.err /\ ~c.gone
      /\ ~c.session /\ ~c.final
  BY <1>1, <1>2 DEF FreshSession
<1>4. Screen(0)' /\ 0 \in 0 .. Len(log')
  BY <1>1, <1>2, <1>3, BlankScreen
<1>5. \E q : Follows(q)'
  BY <1>1, <1>4, IdleFollows
<1>6. ~ReaderActive'
  BY <1>1 DEF ReaderActive
<1>7. \A q : Follows(q)' => q \in [0 .. Len(net') -> 0 .. Len(log')]
  BY DEF Follows
<1> QED
  BY <1>2, <1>3, <1>5, <1>6, <1>7 DEF Watched

(* Adoption and the merge of a verdict change nothing on the screen. *)
LEMMA MarkFollows ==
  ASSUME Watched, ~ReaderActive, log' = log, turn' = turn, conn' = conn, net' = net, db' = db,
         client'.raw = client.raw, client'.eventIndex = client.eventIndex,
         client'.started = client.started, client'.done = client.done,
         client'.stopped = client.stopped, client'.gone = client.gone, client'.err = client.err,
         client.known => client'.known, NEW pos, Follows(pos)
  PROVE  \E q : Follows(q)'
<1>1. net = <<>> /\ conn = "none"
  BY DEF ReaderActive
<1>2. PICK p : p = pos[0]
  OBVIOUS
<1>3. Screen(p) /\ p \in 0 .. Len(log)
  <2>1. Len(net) = 0 /\ 0 \in 0 .. 0
    BY <1>1
  <2> QED
    BY <1>2, <2>1 DEF Follows
<1>4. Screen(p)'
  BY <1>3 DEF Screen, TextBelow, NoCursor, Explained, Ended, Verdict
<1> QED
  BY <1>1, <1>3, <1>4, IdleFollows

(* So the reader stays where it was; a merge has its verdict. *)
LEMMA MarkWatched ==
  ASSUME WInv, Watched, AdoptRun \/ finalizeSession
  PROVE  Watched'
<1>1. /\ ~client.final /\ log' = log /\ turn' = turn /\ conn' = conn /\ net' = net /\ db' = db
      /\ ~ReaderActive /\ client \in Client
  BY ReaderFacts DEF AdoptRun, finalizeSession, Watched
<1>2. /\ client'.raw = client.raw /\ client'.eventIndex = client.eventIndex
      /\ client'.started = client.started /\ client'.done = client.done
      /\ client'.stopped = client.stopped /\ client'.gone = client.gone
      /\ client'.err = client.err /\ client'.session = client.session
      /\ client.known => client'.known
      /\ client'.final => Verdict
  <2>1. CASE AdoptRun
    BY <1>1, <2>1 DEF AdoptRun, Client
  <2>2. CASE finalizeSession
    BY <1>1, <2>2 DEF finalizeSession, Client
  <2> QED
    BY <2>1, <2>2
<1>3. PICK pos : Follows(pos)
  BY <1>1 DEF Watched
<1>4. \E q : Follows(q)'
  BY <1>1, <1>2, <1>3, MarkFollows
<1>5. ReaderActive' = ReaderActive /\ Verdict' = Verdict
  BY <1>1, <1>2 DEF ReaderActive, Verdict
<1>6. \A q : Follows(q)' => q \in [0 .. Len(net') -> 0 .. Len(log')]
  BY DEF Follows
<1> QED
  BY <1>1, <1>2, <1>4, <1>5, <1>6 DEF Watched

(* A delivered result: the text of the whole record, merged without a session. *)
LEMMA DeliverWatched ==
  ASSUME Inv, WInv, Undisturbed, Settled, Watched, deliverResult
  PROVE  Watched' /\ client'.raw = TextBelow(Len(log)) /\ turn = "over" /\ client'.final
<1>1. /\ ~client.session /\ ~client.final /\ log' = log /\ db' = db /\ conn' = conn
      /\ net' = net /\ ListedStatus \notin {"running", "gone"}
      /\ client' = [client EXCEPT !.raw = TextOf(EventsOf(replayRows(db.rows, 0))),
                                  !.final = TRUE]
  BY DEF deliverResult
<1>2. job.done /\ db.status \notin {"running", "gone"}
  BY <1>1, ServerFields DEF ListedStatus, Inv, SInv
<1>3. turn = "over"
  BY <1>2 DEF Settled
<1>4. db.eventCount = Len(log) /\ log \in Seq(Event) /\ Len(log) \in Nat
  <2>1. /\ Len(log) \in Nat /\ job.pending = <<>> /\ log \in Seq(Event)
        /\ job.inRam => db.eventCount = Len(log) - Len(job.pending)
        /\ ~job.inRam => db.eventCount = Len(log)
    BY <1>2, ServerFacts
  <2>2. Len(job.pending) = 0
    BY <2>1
  <2> QED
    BY <2>1, <2>2
<1>5. PICK pos : Along(log, EventsOf(replayRows(db.rows, 0)), pos, 0, Len(log))
  BY <1>2, <1>4, WholeReads
<1>6. TextOf(EventsOf(replayRows(db.rows, 0))) = TextBelow(Len(log))
  <2>1. Len(log) \in 0 .. Len(log)
    BY <1>4
  <2> QED
    BY <1>4, <1>5, <2>1, AlongText DEF TextBelow
<1>7. /\ client'.raw = TextBelow(Len(log)) /\ client'.final /\ ~client'.session
      /\ client'.gone = client.gone
  BY <1>1, <1>6, ReaderFacts DEF Client
<1>8. ReaderActive' = ReaderActive
  BY <1>1 DEF ReaderActive
<1>9. Watched'
  BY <1>1, <1>7, <1>8 DEF Watched
<1> QED
  BY <1>3, <1>7, <1>9

-----------------------------------------------------------------------------
(* The three ways an attach serves the catch-up. *)

(* A reader about to catch up, at position p. *)
Ready(p) ==
  /\ p \in 0 .. Len(log) /\ client.known /\ ~client.started /\ ~Verdict
  /\ client.eventIndex = p /\ client.raw = TextBelow(p)
  /\ \A q \in 1 .. p : log[q].type # "error"

(* Its screen shows the text below its cursor. *)
LEMMA ReadyScreen ==
  ASSUME WInv, log' = log, NEW p, Ready(p)'
  PROVE  Screen(p)' /\ p \in 0 .. Len(log) /\ p <= Len(log)
<1>1. /\ p \in 0 .. Len(log) /\ client'.known /\ ~client'.started /\ ~Verdict'
      /\ client'.eventIndex = p /\ client'.raw = TextBelow(p)'
      /\ \A q \in 1 .. p : log'[q].type # "error"
  BY DEF Ready
<1>2. Explained(p, 0)'
  BY <1>1 DEF Explained
<1>3. p <= Len(log)
  BY <1>1, ReaderFacts
<1> QED
  BY <1>1, <1>2, <1>3 DEF Screen, Verdict

(* An end in the log is the end of its text. *)
LEMMA EndOfText ==
  ASSUME WInv, Script, NEW b \in 1 .. Len(log), log[b].type \in Ends
  PROVE  Ended /\ TextBelow(b) = TextBelow(Len(log))
<1>1. log \in Seq(Event) /\ Len(log) \in Nat
  BY ReaderFacts
<1>2. Ended /\ \A k \in b .. Len(log) : log[k].type # "token"
  BY DEF Script
<1>3. b \in 0 .. Len(log) /\ Len(log) \in b .. Len(log)
      /\ \A k \in b + 1 .. Len(log) : k \in b .. Len(log)
  BY <1>1
<1>4. TextUpTo(log)[Len(log)] = TextUpTo(log)[b]
  BY <1>1, <1>2, <1>3, TextGap
<1> QED
  BY <1>2, <1>4 DEF TextBelow

(* The slice of the RAM tail: the events from the cursor on, as they were emitted. *)
LEMMA TailFollows ==
  ASSUME WInv, Script, log' = log, turn' = turn, NEW p, Ready(p)',
         Len(net') = Len(log) - p, \A i \in 1 .. Len(log) - p : net'[i] = log[p + i]
  PROVE  \E q : Follows(q)'
<1>1. PICK m \in Nat : m = Len(log)
  BY ReaderFacts
<1>2. log \in Seq(Event) /\ p \in 0 .. m /\ Screen(p)' /\ m - p \in Nat
  BY <1>1, ReadyScreen, ReaderFacts
<1>3. /\ \A x : TextBelow(x)' = TextBelow(x)
      /\ Ended' = Ended /\ \A x \in 1 .. p : log[x].type # "error"
  BY DEF TextBelow, Ended, Ready
<1>4. PICK r : r = [i \in 0 .. m - p |-> p + i]
  OBVIOUS
<1>5. /\ r \in [0 .. m - p -> 0 .. m] /\ \A i \in 0 .. m - p : r[i] = p + i
  BY <1>2, <1>4
<1>6. ASSUME NEW i \in 1 .. m - p PROVE Moves(i, r[i - 1], r[i])'
  <2>1. PICK b \in 1 .. m : b = p + i
    BY <1>2
  <2>2. PICK a \in 0 .. m : a = p + i - 1
    BY <1>2
  <2>3. r[i - 1] = a /\ r[i] = b /\ b = a + 1 /\ b - 1 = a
    <3>1. i - 1 \in 0 .. m - p /\ i \in 0 .. m - p /\ p + (i - 1) = p + i - 1
      BY <1>2
    <3>2. r[i - 1] = p + i - 1 /\ r[i] = p + i
      BY <1>5, <3>1
    <3> QED
      BY <1>2, <2>1, <2>2, <3>2
  <2>4. net'[i] = log[b] /\ log[b] \in Event
    BY <1>1, <1>2, <2>1
  <2>5. net'[i].type \notin {"reset", "cursor", "gone"}
    BY <2>4 DEF Event, LiveTypes
  <2>6. TextUpTo(log)[b] = IF log[b].type = "token" THEN TextUpTo(log)[b - 1] \o log[b].data
                           ELSE TextUpTo(log)[b - 1]
    BY <1>1, <1>2, TextStep
  <2>7. /\ net'[i].type = "token" => TextBelow(b)' = TextBelow(a)' \o net'[i].data
        /\ net'[i].type \notin {"token", "reset"} => TextBelow(b)' = TextBelow(a)'
    BY <1>3, <2>3, <2>4, <2>6 DEF TextBelow
  <2>8. net'[i].type \in Ends => Ended' /\ TextBelow(b)' = TextBelow(m)'
    BY <1>1, <1>3, <2>4, EndOfText
  <2>9. ASSUME NEW x \in 1 .. m, log[x].type = "error", NEW c \in Nat, c <= i, x <= p + c
        PROVE  \E j \in 1 .. c : net'[j].type = "error"
    <3>1. ~(x \in 1 .. p)
      BY <1>3, <2>9
    <3>2. x - p \in 1 .. m - p /\ x - p \in 1 .. c /\ p + (x - p) = x
      BY <1>2, <2>9, <3>1
    <3>3. net'[x - p] = log[x]
      BY <1>1, <3>2
    <3> QED
      BY <2>9, <3>2, <3>3
  <2>10. ASSUME net'[i].type = "stopped" PROVE Explained(m, i - 1)'
    <3>1. ASSUME NEW x \in 1 .. m, log[x].type = "error"
          PROVE  \E j \in 1 .. i - 1 : net'[j].type = "error"
      <4>1. x < b
        BY <1>1, <2>4, <2>10, <3>1 DEF Script
      <4>2. i - 1 \in Nat /\ i - 1 <= i /\ x <= p + (i - 1)
        BY <1>2, <2>1, <4>1
      <4> QED
        BY <2>9, <3>1, <4>2
    <3> QED
      BY <3>1 DEF Explained
  <2>11. Explained(b, i)'
    <3>1. \A x \in 1 .. b : x \in 1 .. m /\ x <= p + i
      BY <2>1
    <3>2. i \in Nat /\ i <= i
      OBVIOUS
    <3> QED
      BY <2>9, <3>1, <3>2 DEF Explained
  <2>12. Moves(i, a, b)'
    BY <1>1, <2>3, <2>4, <2>5, <2>7, <2>8, <2>10, <2>11 DEF Moves
  <2> QED
    BY <2>3, <2>12
<1>7. r[0] = p /\ r[m - p] = m
  <2>1. 0 \in 0 .. m - p /\ m - p \in 0 .. m - p /\ p + 0 = p /\ p + (m - p) = m
    BY <1>2
  <2> QED
    BY <1>5, <2>1
<1>8. Follows(r)'
  BY <1>1, <1>2, <1>5, <1>6, <1>7 DEF Follows
<1> QED
  BY <1>8

(* A job that retention deleted: one frame, and the screen keeps what it shows. *)
LEMMA GoneFollows ==
  ASSUME WInv, log' = log, NEW p, Ready(p)', net' = <<Plain("gone")>>, conn' = "none",
         db'.status = "gone"
  PROVE  \E q : Follows(q)'
<1>1. PICK m \in Nat : m = Len(log)
  BY ReaderFacts
<1>2. p \in 0 .. m /\ Screen(p)' /\ \A x \in 1 .. p : log[x].type # "error"
  BY <1>1, ReadyScreen DEF Ready
<1>3. Len(net') = 1 /\ net'[1].type = "gone"
  BY DEF Plain
<1>4. PICK r : r = [i \in 0 .. 1 |-> p]
  OBVIOUS
<1>5. r \in [0 .. 1 -> 0 .. m] /\ r[0] = p /\ r[1] = p
  BY <1>2, <1>4
<1>6. Explained(p, 1)'
  BY <1>2 DEF Explained
<1>7. Moves(1, p, p)'
  BY <1>3, <1>6 DEF Moves, Ends
<1>8. \A i \in 1 .. 1 : i = 1 /\ r[i - 1] = p /\ r[i] = p
  <2>1. \A i \in 1 .. 1 : i = 1 /\ i - 1 = 0
    OBVIOUS
  <2> QED
    BY <1>5, <2>1
<1>9. Follows(r)'
  BY <1>1, <1>2, <1>3, <1>5, <1>7, <1>8 DEF Follows
<1> QED
  BY <1>9

(* A compacted replay: a reset where it starts over, the rows in order, and the cursor. *)
LEMMA ReplayFollows ==
  ASSUME WInv, Script, log' = log, turn' = turn, NEW p, Ready(p)',
         NEW e, NEW pos, NEW lo \in Nat, Along(log, e, pos, lo, Len(log)),
         NEW x \in {0, 1}, Len(net') = x + Len(e) + 1,
         \A i \in 1 .. Len(e) : net'[x + i] = e[i],
         net'[x + Len(e) + 1] = Cursor(Len(log)),
         x = 1 => net'[1] = Plain("reset") /\ lo = 0,
         x = 0 => lo = p
  PROVE  \E q : Follows(q)'
<1>1. PICK m \in Nat : m = Len(log)
  BY ReaderFacts
<1>2. log \in Seq(Event) /\ p \in 0 .. m /\ Screen(p)' /\ ~client'.started /\ ~Verdict'
  BY <1>1, ReadyScreen, ReaderFacts DEF Ready
<1>3. /\ \A y : TextBelow(y)' = TextBelow(y)
      /\ Ended' = Ended /\ \A y \in 1 .. p : log[y].type # "error"
  BY DEF TextBelow, Ended, Ready
<1>4. /\ e \in Seq(Event) /\ pos \in [0 .. Len(e) -> lo .. m] /\ pos[0] = lo
      /\ TextBelow(pos[Len(e)]) = TextBelow(m)
      /\ \A i \in 1 .. Len(e) : e[i].type = "token" =>
           TextBelow(pos[i]) = TextBelow(pos[i - 1]) \o e[i].data
      /\ \A i \in 1 .. Len(e) : e[i].type # "token" =>
           TextBelow(pos[i]) = TextBelow(pos[i - 1]) /\ e[i] = log[pos[i]]
      /\ \A i, j \in 0 .. Len(e) : i < j => pos[i] < pos[j]
      /\ \A y \in lo + 1 .. m : log[y].type \notin {"token", "working"} =>
           \E i \in 1 .. Len(e) : pos[i] = y /\ e[i] = log[y]
  BY <1>1 DEF Along, TextBelow
<1>5. PICK n \in Nat : n = Len(e)
  BY <1>4
<1>6. /\ Len(net') = x + n + 1 /\ \A i \in 1 .. n : net'[x + i] = e[i] /\ e[i] \in Event
      /\ net'[x + n + 1].type = "cursor" /\ net'[x + n + 1].data[1] = m
      /\ pos \in [0 .. n -> lo .. m] /\ lo .. m \subseteq 0 .. m
  BY <1>1, <1>4, <1>5 DEF Cursor
<1>7. ASSUME NEW y \in 1 .. m, log[y].type = "error"
      PROVE  \E j \in 1 .. n : pos[j] = y /\ e[j].type = "error"
  <2>1. y \in lo + 1 .. m
    <3>1. CASE x = 1
      BY <3>1
    <3>2. CASE x = 0
      <4>1. ~(y \in 1 .. p) /\ lo = p
        BY <1>3, <1>7, <3>2
      <4> QED
        BY <1>2, <4>1
    <3> QED
      BY <3>1, <3>2
  <2>2. PICK j \in 1 .. n : pos[j] = y /\ e[j] = log[y]
    BY <1>4, <1>5, <1>7, <2>1
  <2> QED
    BY <1>7, <2>2
<1>8. PICK r : r = [i \in 0 .. x + n + 1 |->
                      IF i = x + n + 1 THEN m ELSE IF i < x THEN p ELSE pos[i - x]]
  OBVIOUS
<1>9. /\ r \in [0 .. x + n + 1 -> 0 .. m] /\ r[x + n + 1] = m /\ r[0] = p
      /\ \A i \in 0 .. n : r[x + i] = pos[i]
  <2>1. ASSUME NEW i \in 0 .. x + n + 1
        PROVE  (IF i = x + n + 1 THEN m ELSE IF i < x THEN p ELSE pos[i - x]) \in 0 .. m
    <3>1. CASE i = x + n + 1 \/ i < x
      BY <1>2, <3>1
    <3>2. CASE ~(i = x + n + 1) /\ ~(i < x)
      <4>1. i - x \in 0 .. n
        BY <3>2
      <4>2. pos[i - x] \in 0 .. m
        BY <1>6, <4>1
      <4> QED
        BY <3>2, <4>2
    <3> QED
      BY <3>1, <3>2
  <2>2. r \in [0 .. x + n + 1 -> 0 .. m]
    BY <1>8, <2>1
  <2>3. ASSUME NEW i \in 0 .. n PROVE r[x + i] = pos[i]
    <3>1. x + i \in 0 .. x + n + 1 /\ ~(x + i = x + n + 1) /\ ~(x + i < x) /\ (x + i) - x = i
      OBVIOUS
    <3> QED
      BY <1>8, <3>1
  <2>4. r[x + n + 1] = m
    <3>1. x + n + 1 \in 0 .. x + n + 1
      OBVIOUS
    <3> QED
      BY <1>8, <3>1
  <2>5. r[0] = p
    <3>1. CASE x = 1
      <4>1. 0 \in 0 .. x + n + 1 /\ 0 # x + n + 1 /\ 0 < x
        BY <3>1
      <4> QED
        BY <1>8, <4>1
    <3>2. CASE x = 0
      <4>1. x + 0 = 0 /\ 0 \in 0 .. n
        BY <3>2
      <4>2. r[0] = pos[0]
        BY <2>3, <4>1
      <4> QED
        BY <1>4, <3>2, <4>2
    <3> QED
      BY <3>1, <3>2
  <2> QED
    BY <2>2, <2>3, <2>4, <2>5
<1>10. ASSUME NEW i \in 1 .. x + n PROVE ~NoCursor(i)' /\ ~NoCursor(i + 1)'
  <2>1. x + n + 1 \in i .. x + n + 1 /\ x + n + 1 \in i + 1 .. x + n + 1
    OBVIOUS
  <2> QED
    BY <1>6, <2>1 DEF NoCursor
<1>11. ASSUME x = 1 PROVE Moves(1, r[0], r[1])'
  <2>1. r[1] = 0 /\ r[0] = p
    <3>1. x + 0 = 1 /\ 0 \in 0 .. n
      BY <1>11
    <3> QED
      BY <1>4, <1>9, <1>11, <3>1
  <2>2. net'[1].type = "reset" /\ 1 \in 1 .. x + n
    BY <1>11 DEF Plain
  <2>3. Moves(1, p, 0)'
    BY <1>2, <1>10, <2>2 DEF Moves, Ends
  <2> QED
    BY <2>1, <2>3
<1>12. ASSUME NEW j \in 1 .. n PROVE Moves(x + j, r[x + j - 1], r[x + j])'
  <2>1. j \in 0 .. n /\ j - 1 \in 0 .. n /\ x + (j - 1) = x + j - 1 /\ x + j \in 1 .. x + n
    OBVIOUS
  <2>2. PICK a \in 0 .. m : a = pos[j - 1]
    BY <1>6, <2>1
  <2>3. PICK b \in 0 .. m : b = pos[j]
    BY <1>6, <2>1
  <2>4. r[x + j - 1] = a /\ r[x + j] = b
    BY <1>9, <2>1, <2>2, <2>3
  <2>5. PICK i \in Nat : i = x + j
    OBVIOUS
  <2>6. net'[i] = e[j] /\ e[j] \in Event /\ i - 1 = x + j - 1
    BY <1>6, <2>5
  <2>7. net'[i].type \notin {"reset", "cursor", "gone"}
    BY <2>6 DEF Event, LiveTypes
  <2>8. /\ net'[i].type = "token" => TextBelow(b)' = TextBelow(a)' \o net'[i].data
        /\ net'[i].type \notin {"token", "reset"} => TextBelow(b)' = TextBelow(a)'
    <3>1. /\ e[j].type = "token" => TextBelow(pos[j]) = TextBelow(pos[j - 1]) \o e[j].data
          /\ e[j].type # "token" => TextBelow(pos[j]) = TextBelow(pos[j - 1])
      BY <1>4, <1>5
    <3>2. TextBelow(a)' = TextBelow(pos[j - 1]) /\ TextBelow(b)' = TextBelow(pos[j])
      BY <1>3, <2>2, <2>3
    <3> QED
      BY <2>6, <3>1, <3>2
  <2>9. ASSUME net'[i].type \in Ends
        PROVE  e[j] = log[b] /\ b \in 1 .. m /\ Ended' /\ TextBelow(b)' = TextBelow(m)'
    <3>1. e[j] = log[b]
      BY <1>4, <1>5, <2>3, <2>6, <2>9 DEF Ends
    <3>2. b \in 1 .. m
      <4>1. pos[0] < pos[j] /\ pos[0] = lo
        BY <1>4, <1>5, <2>1
      <4> QED
        BY <2>3, <4>1
    <3> QED
      BY <1>1, <1>3, <2>6, <2>9, <3>1, <3>2, EndOfText
  <2>10. ASSUME net'[i].type = "stopped" PROVE Explained(m, i - 1)'
    <3>1. log[b].type = "stopped" /\ b \in 1 .. m
      BY <2>6, <2>9, <2>10 DEF Ends
    <3>2. ASSUME NEW y \in 1 .. m, log[y].type = "error"
          PROVE  \E g \in 1 .. i - 1 : net'[g].type = "error"
      <4>1. y < b
        BY <1>1, <3>1, <3>2 DEF Script
      <4>2. PICK c \in 1 .. n : pos[c] = y /\ e[c].type = "error"
        BY <1>7, <3>2
      <4>3. c < j
        <5>1. SUFFICES ASSUME ~(c < j) PROVE FALSE
          OBVIOUS
        <5>2. CASE c = j
          BY <2>3, <4>1, <4>2, <5>2
        <5>3. CASE j < c
          <6>1. c \in 0 .. n
            OBVIOUS
          <6>2. pos[j] < pos[c]
            BY <1>4, <1>5, <2>1, <5>3, <6>1
          <6> QED
            BY <2>3, <4>1, <4>2, <6>2
        <5> QED
          BY <5>1, <5>2, <5>3
      <4>4. x + c \in 1 .. i - 1
        BY <2>5, <4>3
      <4>5. net'[x + c].type = "error"
        BY <1>6, <4>2
      <4> QED
        BY <4>4, <4>5
    <3> QED
      BY <3>2 DEF Explained
  <2>11. ~NoCursor(i)' /\ ~NoCursor(i + 1)'
    BY <1>10, <2>1, <2>5
  <2>12. Moves(i, a, b)'
    BY <1>1, <2>7, <2>8, <2>9, <2>10, <2>11 DEF Moves
  <2> QED
    BY <2>4, <2>5, <2>12
<1>13. Moves(x + n + 1, r[x + n], r[x + n + 1])'
  <2>1. n \in 0 .. n /\ x + n \in 0 .. x + n + 1
    OBVIOUS
  <2>2. PICK a \in 0 .. m : a = pos[n]
    BY <1>6, <2>1
  <2>3. r[x + n] = a /\ r[x + n + 1] = m /\ TextBelow(a) = TextBelow(m)
    BY <1>4, <1>5, <1>9, <2>1, <2>2
  <2>4. PICK i \in Nat : i = x + n + 1
    OBVIOUS
  <2>5. net'[i].type = "cursor" /\ net'[i].data[1] = m
    BY <1>6, <2>4
  <2>6. Explained(m, i)'
    <3>1. ASSUME NEW y \in 1 .. m, log[y].type = "error"
          PROVE  \E g \in 1 .. i : net'[g].type = "error"
      <4>1. PICK c \in 1 .. n : e[c].type = "error"
        BY <1>7, <3>1
      <4>2. x + c \in 1 .. i /\ net'[x + c].type = "error"
        BY <1>6, <2>4, <4>1
      <4> QED
        BY <4>2
    <3> QED
      BY <3>1 DEF Explained
  <2>7. ~NoCursor(i)'
    <3>1. i \in i .. Len(net')
      BY <1>6, <2>4
    <3> QED
      BY <2>5, <3>1 DEF NoCursor
  <2>8. Moves(i, a, m)'
    BY <1>3, <2>3, <2>5, <2>6, <2>7 DEF Moves, Ends
  <2> QED
    BY <2>3, <2>4, <2>8
<1>14. ASSUME NEW i \in 1 .. x + n + 1 PROVE Moves(i, r[i - 1], r[i])'
  <2>1. CASE i <= x
    <3>1. i = 1 /\ x = 1 /\ i - 1 = 0
      BY <2>1
    <3> QED
      BY <1>11, <3>1
  <2>2. CASE i > x /\ i <= x + n
    <3>1. PICK j \in 1 .. n : i = x + j
      <4>1. i - x \in 1 .. n /\ i = x + (i - x)
        BY <2>2
      <4> QED
        BY <4>1
    <3>2. PICK a, b : a = r[x + j - 1] /\ b = r[x + j] /\ Moves(x + j, a, b)'
      BY <1>12
    <3>3. i - 1 = x + j - 1
      BY <3>1
    <3>4. a = r[i - 1] /\ b = r[i]
      BY <3>1, <3>2, <3>3
    <3>5. Moves(i, a, b)'
      BY <3>1, <3>2
    <3> QED
      BY <3>4, <3>5
  <2>3. CASE i > x + n
    <3>1. i = x + n + 1 /\ i - 1 = x + n
      BY <2>3
    <3> QED
      BY <1>13, <3>1
  <2> QED
    BY <2>1, <2>2, <2>3
<1>15. Follows(r)'
  BY <1>1, <1>2, <1>6, <1>9, <1>14 DEF Follows
<1> QED
  BY <1>15

(* The reader that attaches is ready at its own cursor. *)
LEMMA ReattachReady ==
  ASSUME WInv, Watched, attemptReattach
  PROVE  /\ \E p : p = client'.eventIndex /\ Ready(p)'
         /\ client'.session /\ ~client'.final /\ ~client'.gone
         /\ log' = log /\ turn' = turn /\ db' = db
<1>1. /\ ~ReaderActive /\ client.known /\ ~client.final /\ ~Verdict
      /\ client' = IF client.session THEN [client EXCEPT !.started = FALSE] ELSE FreshSession(TRUE)
      /\ log' = log /\ turn' = turn /\ db' = db
  BY DEF attemptReattach
<1>2. \A p : TextBelow(p)' = TextBelow(p)
  BY <1>1 DEF TextBelow
<1>3. CASE client.session
  <2>1. /\ client'.eventIndex = client.eventIndex /\ client'.raw = client.raw /\ client'.known
        /\ ~client'.started /\ client'.session /\ ~client'.final /\ client'.done = client.done
        /\ client'.stopped = client.stopped /\ client'.gone = client.gone /\ client'.err = client.err
    BY <1>1, <1>3, ReaderFacts DEF Client
  <2>2. PICK pos : Follows(pos)
    BY <1>1 DEF Watched
  <2>3. NoCursor(1) /\ ~client.gone /\ ~client.err
    BY <1>1 DEF NoCursor, ReaderActive, Verdict
  <2>4. /\ client.eventIndex <= Len(log) /\ client.raw = TextBelow(client.eventIndex)
        /\ Explained(client.eventIndex, 0)
    BY <2>2, <2>3 DEF Follows, Screen
  <2>5. PICK p \in 0 .. Len(log) : p = client.eventIndex
    BY <2>4, ReaderFacts
  <2>6. \A q \in 1 .. p : log[q].type # "error"
    BY <2>3, <2>4, <2>5 DEF Explained
  <2>7. client'.raw = TextBelow(p)' /\ ~Verdict'
    BY <1>1, <1>2, <2>1, <2>4, <2>5 DEF Verdict
  <2>8. Ready(p)'
    BY <1>1, <2>1, <2>5, <2>6, <2>7 DEF Ready
  <2> QED
    BY <1>1, <2>1, <2>3, <2>5, <2>8
<1>4. CASE ~client.session
  <2>1. PICK p : p = 0
    OBVIOUS
  <2>2. /\ client'.eventIndex = p /\ client'.raw = <<>> /\ client'.known /\ ~client'.started
        /\ client'.session /\ ~client'.final /\ ~client'.gone /\ ~Verdict'
    BY <1>1, <1>4, <2>1 DEF FreshSession, Verdict
  <2>3. p \in 0 .. Len(log') /\ TextBelow(p)' = <<>> /\ \A q \in 1 .. p : log'[q].type # "error"
    BY <1>1, <1>2, <2>1, ReaderFacts
  <2>4. Ready(p)'
    BY <2>2, <2>3 DEF Ready
  <2> QED
    BY <1>1, <2>2, <2>4
<1> QED
  BY <1>3, <1>4

(* The frames of a replay that ends in its cursor. *)
LEMMA Closed ==
  ASSUME NEW e \in Seq(Event), NEW m \in Nat
  PROVE  /\ Len(Append(e, Cursor(m))) = 0 + Len(e) + 1
         /\ \A i \in 1 .. Len(e) : Append(e, Cursor(m))[0 + i] = e[i]
         /\ Append(e, Cursor(m))[0 + Len(e) + 1] = Cursor(m)
<1> DEFINE c == Cursor(m)
           f == Append(e, c)
           n == Len(e)
<1> HIDE DEF c
<1>1. n \in Nat /\ Len(f) = n + 1 /\ f[n + 1] = c /\ \A i \in 1 .. n : f[i] = e[i]
  OBVIOUS
<1> HIDE DEF f, n
<1>2. 0 + n + 1 = n + 1 /\ \A i \in 1 .. n : 0 + i = i
  BY <1>1
<1> QED
  BY <1>1, <1>2 DEF f, n, c

(* The same of a replay that starts over. *)
LEMMA ClosedReset ==
  ASSUME NEW e \in Seq(Event), NEW m \in Nat, NEW f,
         f = (<<Plain("reset")>> \o e) \o <<Cursor(m)>>
  PROVE  /\ Len(f) = 1 + Len(e) + 1 /\ f[1] = Plain("reset")
         /\ \A i \in 1 .. Len(e) : f[1 + i] = e[i]
         /\ f[1 + Len(e) + 1] = Cursor(m)
<1> DEFINE c == Cursor(m)
           r == Plain("reset")
           g == <<r>> \o e
           n == Len(e)
<1>1. c \in Frame /\ r \in Frame /\ e \in Seq(Frame)
  <2>1. <<>> \in Seq(Nat) /\ <<m>> \in Seq(Nat)
    OBVIOUS
  <2>2. c \in Frame /\ r \in Frame
    BY <2>1 DEF Cursor, Plain, Frame, FrameTypes
  <2>3. Event \subseteq Frame
    BY DEF Event, Frame, FrameTypes
  <2> QED
    BY <2>2, <2>3
<1> HIDE DEF c, r
<1>2. /\ n \in Nat /\ g \in Seq(Frame) /\ Len(g) = 1 + n /\ g[1] = r
      /\ \A i \in 1 .. n : g[1 + i] = e[i]
  BY <1>1
<1>3. f = g \o <<c>>
  BY DEF c, r
<1> HIDE DEF g, n
<1>4. /\ Len(f) = (1 + n) + 1 /\ f[(1 + n) + 1] = c
      /\ \A i \in 1 .. 1 + n : f[i] = g[i]
  BY <1>1, <1>2, <1>3
<1>5. \A i \in 1 .. n : 1 + i \in 1 .. 1 + n
  BY <1>2
<1>6. 1 \in 1 .. 1 + n
  BY <1>2
<1> QED
  BY <1>2, <1>4, <1>5, <1>6 DEF n, c, r

(* The pieces of a full replay, joined the way the server writes them. *)
LEMMA ResetJoin ==
  ASSUME NEW a \in Seq(Event), NEW b \in Seq(Event), NEW m \in Nat
  PROVE  /\ ((<<Plain("reset")>> \o a) \o b) \o <<Cursor(m)>>
              = (<<Plain("reset")>> \o (a \o b)) \o <<Cursor(m)>>
         /\ a \o b \in Seq(Event)
<1> DEFINE r == Plain("reset")
<1>1. r \in Frame /\ a \in Seq(Frame) /\ b \in Seq(Frame)
  <2>1. r \in Frame
    BY DEF Plain, Frame, FrameTypes
  <2>2. Event \subseteq Frame
    BY DEF Event, Frame, FrameTypes
  <2> QED
    BY <2>1, <2>2
<1> HIDE DEF r
<1>2. (<<r>> \o a) \o b = <<r>> \o (a \o b)
  <2>1. <<r>> \in Seq(Frame)
    BY <1>1
  <2> QED
    BY <1>1, <2>1, ConcatAssociative
<1> QED
  BY <1>2 DEF r

(* Appending the cursor is joining it. *)
LEMMA ResetClose ==
  ASSUME NEW e \in Seq(Event), NEW m \in Nat
  PROVE  Append(<<Plain("reset")>> \o e, Cursor(m)) = (<<Plain("reset")>> \o e) \o <<Cursor(m)>>
<1> DEFINE r == Plain("reset")
           c == Cursor(m)
           g == <<r>> \o e
<1>1. r \in Frame /\ c \in Frame /\ e \in Seq(Frame)
  <2>1. <<m>> \in Seq(Nat)
    OBVIOUS
  <2>2. r \in Frame /\ c \in Frame
    BY <2>1 DEF Plain, Cursor, Frame, FrameTypes
  <2>3. Event \subseteq Frame
    BY DEF Event, Frame, FrameTypes
  <2> QED
    BY <2>2, <2>3
<1> HIDE DEF r, c
<1>2. g \in Seq(Frame)
  BY <1>1
<1> HIDE DEF g
<1>3. Append(g, c) = g \o <<c>>
  BY <1>1, <1>2, AppendIsConcat
<1> QED
  BY <1>3 DEF g, r, c

(* Every mode of the attach serves a catch-up the reader can follow. *)
LEMMA ReattachWatched ==
  ASSUME Inv, WInv, Undisturbed, Script, Settled, Watched, attemptReattach
  PROVE  Watched'
<1>1. PICK p : p = client'.eventIndex /\ Ready(p)'
  BY ReattachReady
<1>2. /\ client'.session /\ ~client'.final /\ ~client'.gone
      /\ log' = log /\ turn' = turn /\ db' = db
  BY ReattachReady
<1>3. PICK m \in Nat : m = Len(log)
  BY ReaderFacts
<1>4. p \in 0 .. m /\ log \in Seq(Event)
  BY <1>1, <1>2, <1>3, ReaderFacts DEF Ready
<1>5. handleChatAttach(p)
  BY <1>1 DEF attemptReattach
<1>6. ASSUME job.inRam /\ p >= job.tailStart PROVE \E q : Follows(q)'
  <2>1. /\ m = job.tailStart + Len(job.tail) /\ job.tail \in Seq(Event)
        /\ \A k \in 1 .. Len(job.tail) : job.tail[k] = log[job.tailStart + k]
        /\ job.tailStart \in Nat /\ Len(job.tail) \in Nat
    BY <1>3, <1>6, ServerFacts DEF TailExact
  <2>2. PICK s \in Nat, k \in Nat, t \in Seq(Event) :
          s = job.tailStart /\ k = Len(job.tail) /\ t = job.tail
    BY <2>1
  <2>3. net' = SubSeq(t, p - s + 1, k)
    BY <1>5, <1>6, <2>2 DEF handleChatAttach, RamReplay
  <2>4. m = s + k /\ k = Len(t) /\ p - s \in 0 .. k /\ k - (p - s) = m - p
    BY <1>4, <1>6, <2>1, <2>2
  <2>5. Len(net') = m - p /\ \A i \in 1 .. m - p : net'[i] = t[p - s + i] /\ p - s + i \in 1 .. k
    <3>1. PICK z \in 0 .. k : z = p - s
      BY <2>4
    <3>2. /\ Len(SubSeq(t, z + 1, k)) = k - z
          /\ \A i \in 1 .. k - z : SubSeq(t, z + 1, k)[i] = t[z + i] /\ z + i \in 1 .. k
      <4>1. z + 1 \in 1 .. k + 1 /\ k \in 0 .. Len(t) /\ z \in Nat
        BY <2>4
      <4>2. SubSeq(t, z + 1, k) = [i \in 1 .. (1 + k - (z + 1)) |-> t[i + (z + 1) - 1]]
        BY <4>1
      <4>3. 1 + k - (z + 1) = k - z /\ k - z \in Nat /\ \A i \in 1 .. k - z : i + (z + 1) - 1 = z + i
        BY <4>1
      <4>4. SubSeq(t, z + 1, k) \in Seq(Event) /\ DOMAIN SubSeq(t, z + 1, k) = 1 .. k - z
        BY <2>2, <4>1, <4>2, <4>3
      <4>5. Len(SubSeq(t, z + 1, k)) = k - z
        BY <4>3, <4>4
      <4>6. \A i \in 1 .. k - z : SubSeq(t, z + 1, k)[i] = t[z + i]
        BY <4>2, <4>3
      <4> QED
        BY <4>1, <4>3, <4>5, <4>6
    <3> QED
      BY <2>3, <2>4, <3>1, <3>2
  <2>6. \A i \in 1 .. m - p : net'[i] = log[p + i]
    <3>1. SUFFICES ASSUME NEW i \in 1 .. m - p PROVE net'[i] = log[p + i]
      OBVIOUS
    <3>2. s + (p - s + i) = p + i
      BY <1>4
    <3>3. t[p - s + i] = log[s + (p - s + i)]
      BY <2>1, <2>2, <2>5
    <3> QED
      BY <2>5, <3>2, <3>3
  <2> QED
    BY <1>1, <1>2, <1>3, <2>5, <2>6, TailFollows
<1>7. ASSUME job.inRam /\ ~(p >= job.tailStart) PROVE \E q : Follows(q)'
  <2> DEFINE a == EventsOf(replayRows(db.rows, 0))
             b == EventsOf(InSeqOrder(coalesceEvents(job.pending, 0)))
             e == a \o b
  <2>1. net' = ((<<Plain("reset")>> \o a) \o b) \o <<Cursor(job.eventCount)>>
    BY <1>5, <1>7 DEF handleChatAttach, RamReplay
  <2>2. /\ job.eventCount = m /\ db.status # "gone" /\ db.eventCount \in Nat
        /\ db.eventCount <= Len(log)
    BY <1>3, <1>7, ServerFacts
  <2>3. PICK x : Along(log, a, x, 0, db.eventCount)
    BY <2>2, WholeReads
  <2>4. PICK y : Along(log, b, y, db.eventCount, Len(log))
    BY <1>7, PendingReads
  <2>5. a \in Seq(Event) /\ b \in Seq(Event)
    BY <2>3, <2>4 DEF Along
  <2> HIDE DEF a, b
  <2>6. db.eventCount \in 0 .. Len(log) /\ Len(log) \in db.eventCount .. Len(log)
    BY <1>3, <2>2
  <2>7. PICK z : Along(log, e, z, 0, Len(log))
    BY <1>4, <2>3, <2>4, <2>6, AlongJoin
  <2>8. net' = (<<Plain("reset")>> \o e) \o <<Cursor(m)>> /\ e \in Seq(Event)
    BY <2>1, <2>2, <2>5, ResetJoin
  <2> HIDE DEF e
  <2>9. /\ Len(net') = 1 + Len(e) + 1 /\ net'[1] = Plain("reset")
        /\ \A i \in 1 .. Len(e) : net'[1 + i] = e[i]
        /\ net'[1 + Len(e) + 1] = Cursor(m)
    BY <2>8, ClosedReset
  <2> QED
    BY <1>1, <1>2, <1>3, <2>7, <2>9, ReplayFollows
<1>8. ASSUME ~job.inRam /\ db.status = "gone" PROVE \E q : Follows(q)'
  <2>1. net' = <<Plain("gone")>> /\ conn' = "none"
    BY <1>5, <1>8 DEF handleChatAttach
  <2> QED
    BY <1>1, <1>2, <1>8, <2>1, GoneFollows
<1>9. ASSUME ~job.inRam /\ ~(db.status = "gone") PROVE \E q : Follows(q)'
  <2>1. net' = Append(DbReplay(p), Cursor(m)) /\ db.eventCount = m
    BY <1>3, <1>5, <1>9, ServerFacts DEF handleChatAttach
  <2>2. CASE p > 0 /\ (replayRows(db.rows, p) = <<>> \/ replayRows(db.rows, p)[1].seq # p)
    <3> DEFINE e == EventsOf(replayRows(db.rows, 0))
    <3>1. DbReplay(p) = <<Plain("reset")>> \o e
      BY <2>2 DEF DbReplay
    <3>2. PICK z : Along(log, e, z, 0, Len(log))
      BY <1>3, <1>9, <2>1, WholeReads
    <3>3. e \in Seq(Event)
      BY <3>2 DEF Along
    <3> HIDE DEF e
    <3>4. net' = (<<Plain("reset")>> \o e) \o <<Cursor(m)>>
      BY <2>1, <3>1, <3>3, ResetClose
    <3>5. /\ Len(net') = 1 + Len(e) + 1 /\ net'[1] = Plain("reset")
          /\ \A i \in 1 .. Len(e) : net'[1 + i] = e[i]
          /\ net'[1 + Len(e) + 1] = Cursor(m)
      BY <3>3, <3>4, ClosedReset
    <3> QED
      BY <1>1, <1>2, <1>3, <3>2, <3>5, ReplayFollows
  <2>3. CASE ~(p > 0 /\ (replayRows(db.rows, p) = <<>> \/ replayRows(db.rows, p)[1].seq # p))
    <3> DEFINE e == EventsOf(replayRows(db.rows, p))
    <3>1. DbReplay(p) = e
      BY <2>3 DEF DbReplay
    <3>2. \E z : Along(log, e, z, p, Len(log))
      <4>1. CASE p = 0
        BY <1>3, <1>9, <2>1, <4>1, WholeReads
      <4>2. CASE p > 0
        <5>1. p \in Nat /\ p <= db.eventCount
          BY <1>4, <2>1
        <5> QED
          BY <1>3, <1>9, <2>1, <2>3, <4>2, <5>1, PartReads
      <4> QED
        BY <1>4, <4>1, <4>2
    <3>3. PICK z : Along(log, e, z, p, Len(log))
      BY <3>2
    <3>4. e \in Seq(Event)
      BY <3>3 DEF Along
    <3> HIDE DEF e
    <3>5. net' = Append(e, Cursor(m))
      BY <2>1, <3>1
    <3>6. /\ Len(net') = 0 + Len(e) + 1
          /\ \A i \in 1 .. Len(e) : net'[0 + i] = e[i]
          /\ net'[0 + Len(e) + 1] = Cursor(m)
      BY <3>4, <3>5, Closed
    <3> QED
      BY <1>1, <1>2, <1>3, <1>4, <3>3, <3>6, ReplayFollows
  <2> QED
    BY <2>2, <2>3
<1>10. \E q : Follows(q)'
  BY <1>6, <1>7, <1>8, <1>9
<1>11. \A q : Follows(q)' => q \in [0 .. Len(net') -> 0 .. Len(log')]
  BY DEF Follows
<1> QED
  BY <1>2, <1>10, <1>11 DEF Watched

-----------------------------------------------------------------------------
(* What the reader is promised while nothing disturbs the turn. *)

(* Reading a frame keeps the reader on the log. *)
LEMMA ReadWatched ==
  ASSUME WInv, Script, Watched, readSse
  PROVE  Watched'
<1>1. client.session /\ ~client.final /\ db' = db /\ client' = processEvent(client, Head(net))
  BY DEF readSse
<1>2. PICK pos : Follows(pos)
  BY <1>1 DEF Watched
<1>3. (\E q : Follows(q)') /\ (client'.gone => db.status = "gone" /\ ~ReaderActive')
  BY <1>2, ReadFollows
<1>4. client'.session /\ ~client'.final
  BY <1>1, Processed, ReaderFacts
<1>5. \A q : Follows(q)' => q \in [0 .. Len(net') -> 0 .. Len(log')]
  BY DEF Follows
<1> QED
  BY <1>1, <1>3, <1>4, <1>5 DEF Watched

(* The steps of the reader leave the server alone. *)
LEMMA StillSettled ==
  ASSUME Script, Settled, log' = log, job' = job, db' = db, turn' = turn, server' = server
  PROVE  Script' /\ Settled'
<1>1. Script'
  BY DEF Script, Ended
<1>2. ServerState' = ServerState
  BY DEF ServerState
<1>3. Settled'
  BY <1>2 DEF Settled
<1> QED
  BY <1>1, <1>3

(* The turn, its server and its reader, as long as no process died and SQLite refused nothing. *)
Following == Undisturbed => Script /\ Settled /\ Watched

(* A new turn: nothing emitted, nothing stored, nothing shown. *)
LEMMA InitFollowing ==
  ASSUME Init PROVE Following
<1>1. /\ log = <<>> /\ job = FreshJob /\ db = FreshStore /\ turn = "start" /\ server = "up"
      /\ conn = "post" /\ net = <<>> /\ client = FreshSession(FALSE)
  BY DEF Init
<1>2. Len(log) = 0 /\ Len(net) = 0 /\ log \in Seq(Event)
  BY <1>1
<1>3. Script
  BY <1>1, <1>2 DEF Script
<1>4. Settled
  BY <1>1, <1>2 DEF Settled, Exact, ServerState, FreshJob, FreshStore, TailExact
<1>5. /\ client.session /\ ~client.final /\ ~client.known /\ ~client.gone /\ ~client.done
      /\ ~client.stopped /\ ~client.err /\ client.raw = <<>> /\ client.eventIndex = 0
  BY <1>1 DEF FreshSession
<1>6. TextBelow(0) = <<>>
  BY <1>2, TextStep DEF TextBelow
<1>7. Screen(0)
  <2>1. NoCursor(1) /\ Explained(0, 0) /\ ~Verdict
    BY <1>2, <1>5 DEF NoCursor, Explained, Verdict
  <2>2. client.raw = TextBelow(client.eventIndex) /\ Explained(client.eventIndex, 0) /\ 0 <= Len(log)
    BY <1>2, <1>5, <1>6, <2>1
  <2> QED
    BY <1>1, <1>5, <1>6, <2>1, <2>2 DEF Screen
<1>8. PICK q : q = [i \in 0 .. 0 |-> 0]
  OBVIOUS
<1>9. q \in [0 .. Len(net) -> 0 .. Len(log)] /\ q[0] = 0
  BY <1>2, <1>8
<1>10. Follows(q)
  BY <1>2, <1>7, <1>9 DEF Follows
<1>11. Watched
  BY <1>5, <1>9, <1>10 DEF Watched
<1> QED
  BY <1>3, <1>4, <1>11 DEF Following

(* Every step of an undisturbed turn keeps its server settled and its reader on the log. *)
LEMMA NextFollowing ==
  ASSUME CutMidReplay = FALSE, Inv, WInv, Following, [Next]_vars
  PROVE  Following'
<1>1. SUFFICES ASSUME Undisturbed' PROVE Script' /\ Settled' /\ Watched'
  BY DEF Following
<1>2. Undisturbed /\ Script /\ Settled /\ Watched
  BY <1>1, CalmBefore DEF Following
<1>3. CASE UNCHANGED vars
  <2>1. /\ log' = log /\ job' = job /\ db' = db /\ turn' = turn /\ server' = server
        /\ conn' = conn /\ net' = net /\ client' = client
    BY <1>3 DEF vars
  <2> QED
    BY <1>2, <2>1, StillSettled, QuietWatched
<1>4. CASE Next
  <2>1. Calm
    BY <1>1, <1>2, <1>4, CalmStep
  <2>2. CASE Ticking
    BY <1>2, <2>2, TicksSettle, TickWatched
  <2>3. CASE handleChatStop \/ gcChatJobs \/ gcRetention
    <3>1. Script' /\ Settled' /\ log' = log /\ turn' = turn
      BY <1>2, <2>3, UpkeepSettles
    <3>2. net' = net /\ conn' = conn /\ client' = client
      BY <2>3 DEF handleChatStop, gcChatJobs, gcRetention
    <3>3. db.status = "gone" => db'.status = "gone"
      BY <2>3 DEF handleChatStop, gcChatJobs, gcRetention
    <3> QED
      BY <1>2, <3>1, <3>2, <3>3, QuietWatched
  <2>4. CASE Reader \/ CutSocket \/ Reload
    <3>1. log' = log /\ job' = job /\ db' = db /\ turn' = turn /\ server' = server
      BY <2>4 DEF Reader, readSse, GiveUp, attemptReattach, AdoptRun, deliverResult,
                  finalizeSession, CutSocket, Reload
    <3>2. Script' /\ Settled'
      BY <1>2, <3>1, StillSettled
    <3>3. Watched'
      BY <1>2, <2>4, ReadWatched, BlankWatched, ReattachWatched, MarkWatched, DeliverWatched,
         CutWatched DEF Reader
    <3> QED
      BY <3>2, <3>3
  <2> QED
    BY <2>1, <2>2, <2>3, <2>4 DEF Calm
<1> QED
  BY <1>3, <1>4

(* What the screen of a session shows. *)
LEMMA ScreenExact ==
  ASSUME Inv, WInv, Following, Undisturbed PROVE TextExact
<1>1. SUFFICES ASSUME client.session, ~client.gone, ~InReplay
               PROVE  client.eventIndex <= Len(log) /\ client.raw = TextBelow(client.eventIndex)
  BY DEF TextExact
<1>2. PICK pos : Follows(pos)
  BY <1>1 DEF Following, Watched
<1>3. NoCursor(1) \/ ~client.started
  <2>1. DOMAIN net = 1 .. Len(net)
    BY ReaderFacts
  <2> QED
    BY <1>1, <2>1 DEF NoCursor, InReplay
<1> QED
  BY <1>1, <1>2, <1>3 DEF Follows, Screen

(* A stop that the record explains is explained on the screen. *)
LEMMA StopExplained ==
  ASSUME Inv, WInv, Following, Undisturbed PROVE ExplainedStop
<1>1. SUFFICES ASSUME client.session, client.stopped,
                      NEW e \in db.rows, e.ev.type = "error"
               PROVE  client.err
  BY DEF ExplainedStop
<1>2. PICK pos : Follows(pos)
  BY <1>1 DEF Following, Watched
<1>3. Explained(Len(log), 0)
  BY <1>1, <1>2 DEF Follows, Screen
<1>4. e.seq < Len(log) /\ e.ev = log[e.seq + 1] /\ e.seq \in Nat /\ Len(log) \in Nat
  <2>1. \A r \in db.rows : PlainExact(log, r)
    BY <1>1, ServerFields DEF Following, Settled, Exact
  <2>2. db.rows \subseteq Row /\ Len(log) \in Nat
    BY DEF WInv, TypeOK, Store
  <2> QED
    BY <1>1, <2>1, <2>2 DEF PlainExact, Row
<1>5. e.seq + 1 \in 1 .. Len(log)
  BY <1>4
<1>6. ~ \E j \in 1 .. 0 : net[j].type = "error"
  OBVIOUS
<1> QED
  BY <1>1, <1>3, <1>4, <1>5, <1>6 DEF Explained

(* As long as no process died, SQLite refused nothing and no socket is cut    *)
(* inside a compacted replay, the text on screen is exactly the text of the   *)
(* first eventIndex events, whatever was cut, reloaded, evicted from RAM or   *)
(* coalesced on the way: the cursor readSse keeps and the text processEvent   *)
(* accumulates agree.                                                         *)
THEOREM ScreenAgreesWithCursor ==
  ASSUME CutMidReplay = FALSE
  PROVE  Spec => [](Undisturbed => TextExact)
<1>1. Init => Inv /\ WInv /\ Following
  BY InitInv, InitW, InitFollowing
<1>2. (Inv /\ WInv /\ Following) /\ [Next]_vars => (Inv /\ WInv /\ Following)'
  BY NextKeeps, NextFollowing
<1>3. Inv /\ WInv /\ Following => (Undisturbed => TextExact)
  BY ScreenExact
<1> QED
  BY <1>1, <1>2, <1>3, PTL DEF Spec

(* Under the same conditions a session that took the stopped verdict has been *)
(* shown the error the record explains it with, in whichever mode the attach  *)
(* served it.                                                                 *)
THEOREM StopIsExplained ==
  ASSUME CutMidReplay = FALSE
  PROVE  Spec => [](Undisturbed => ExplainedStop)
<1>1. Init => Inv /\ WInv /\ Following
  BY InitInv, InitW, InitFollowing
<1>2. (Inv /\ WInv /\ Following) /\ [Next]_vars => (Inv /\ WInv /\ Following)'
  BY NextKeeps, NextFollowing
<1>3. Inv /\ WInv /\ Following => (Undisturbed => ExplainedStop)
  BY StopExplained
<1> QED
  BY <1>1, <1>2, <1>3, PTL DEF Spec

-----------------------------------------------------------------------------
(* The undisturbed turn implements Answer. *)

(* What Answer sees of a state. *)
LEMMA TextWhole ==
  ASSUME WInv
  PROVE  /\ TextBelow(Len(log)) \in Seq(Nat) /\ Len(TextBelow(Len(log))) \in Nat
         /\ \A p \in 0 .. Len(log) : TextBelow(p) \in Promise!Prefixes(TextBelow(Len(log)))
<1>1. log \in Seq(Event) /\ Len(log) \in Nat
  BY ReaderFacts
<1>2. \A p \in 0 .. Len(log) : TextBelow(p) \in Seq(Nat)
  BY ReaderFacts
<1>3. Len(log) \in 0 .. Len(log)
  BY <1>1
<1>4. TextBelow(Len(log)) \in Seq(Nat) /\ Len(TextBelow(Len(log))) \in Nat
  BY <1>2, <1>3
<1>5. ASSUME NEW p \in 0 .. Len(log)
      PROVE  TextBelow(p) \in Promise!Prefixes(TextBelow(Len(log)))
  <2> DEFINE x == TextBelow(p)
             y == TextBelow(Len(log))
  <2>1. Len(log) \in p .. Len(log)
    BY <1>1
  <2>2. Len(x) <= Len(y) /\ x = SubSeq(y, 1, Len(x))
    BY <1>1, <2>1, TextPrefix DEF TextBelow
  <2>3. x \in Seq(Nat)
    BY <1>2
  <2> HIDE DEF x, y
  <2>4. Len(x) \in 0 .. Len(y)
    <3>1. Len(x) \in Nat /\ Len(y) \in Nat
      BY <1>4, <2>3 DEF y
    <3> QED
      BY <2>2, <3>1
  <2>5. x \in Promise!Prefixes(y)
    BY <2>2, <2>4 DEF Promise!Prefixes
  <2> QED
    BY <2>5 DEF x, y
<1> QED
  BY <1>4, <1>5

(* A turn that starts is an answer that starts. *)
LEMMA InitRefines ==
  ASSUME Init PROVE Promise!AbsInit
<1>1. log = <<>> /\ turn = "start" /\ client = FreshSession(FALSE) /\ db = FreshStore
  BY DEF Init
<1>2. log \in Seq(Event) /\ Len(log) = 0
  BY <1>1
<1>3. TextBelow(Len(log)) = <<>>
  BY <1>2, TextStep DEF TextBelow
<1>4. client.raw = <<>> /\ client.final = FALSE /\ db.status = "running"
  BY <1>1 DEF FreshSession, FreshStore
<1>5. (turn \in {"closing", "over"}) = FALSE /\ (db.status = "gone") = FALSE
  BY <1>1, <1>4
<1> QED
  BY <1>3, <1>4, <1>5 DEF Promise!AbsInit

(* A step that changes nothing Answer sees. *)
Unseen ==
  /\ TextBelow(Len(log))' = TextBelow(Len(log)) /\ Ended' = Ended
  /\ client'.raw = client.raw /\ client'.final = client.final
  /\ (db'.status = "gone") = (db.status = "gone")

(* It is a stutter. *)
LEMMA UnseenRefines ==
  ASSUME Unseen PROVE [Promise!AbsNext]_(Promise!absVars)
BY DEF Unseen, Ended, Promise!absVars

(* A step of the screen. *)
LEMMA ShowRefines ==
  ASSUME WInv, ~client.final, client'.final = client.final, Watched', log' = log, turn' = turn,
         db' = db
  PROVE  [Promise!AbsNext]_(Promise!absVars)
<1>1. PICK q : Follows(q)'
  BY DEF Watched
<1>2. PICK p : p = q[0]
  OBVIOUS
<1>3. client'.raw = TextBelow(p)' /\ p \in 0 .. Len(log)
  <2>1. /\ q \in [0 .. Len(net') -> 0 .. Len(log')] /\ Screen(p)'
    BY <1>1, <1>2 DEF Follows
  <2> QED
    BY <1>2, <2>1 DEF Screen
<1>4. TextBelow(p)' = TextBelow(p) /\ TextBelow(Len(log))' = TextBelow(Len(log))
  BY DEF TextBelow
<1>5. client'.raw \in Promise!Prefixes(TextBelow(Len(log)))
  BY <1>3, <1>4, TextWhole
<1>6. Promise!Show
  BY <1>4, <1>5 DEF Promise!Show
<1> QED
  BY <1>6 DEF Promise!AbsNext

(* A tick of the server: nothing Answer sees, the end of the turn, or one more delta. *)
LEMMA TickRefines ==
  ASSUME Inv, WInv, NEW events, NEW end, Tick(events, end), Deltas(events)
  PROVE  [Promise!AbsNext]_(Promise!absVars)
<1>1. /\ log' = log \o events /\ events \in Seq(Event) /\ db'.status # "gone" /\ client' = client
      /\ db.status # "gone" /\ (Ended => Ended')
  BY ServerFields DEF Tick, Inv, SInv
<1>2. log \in Seq(Event) /\ Len(log) \in Nat
  BY ReaderFacts
<1>3. PICK g \in Seq(Event) : g = log \o events
  <2>1. log \o events \in Seq(Event)
    BY <1>1, <1>2, ConcatProperties
  <2> QED
    BY <2>1
<1>4. PICK m \in Nat : m = Len(log)
  BY <1>2
<1>5. PICK k \in Nat : k = Len(events)
  BY <1>1
<1>6. Len(g) = m + k /\ \A j \in m + 1 .. m + k : g[j] = events[j - m] /\ j - m \in 1 .. k
  BY <1>1, <1>2, <1>3, <1>4, <1>5
<1>7. PICK a : a = TextBelow(Len(log))
  OBVIOUS
<1>8. PICK b : b = TextUpTo(g)[m + k]
  OBVIOUS
<1>9. TextBelow(Len(log))' = b /\ TextUpTo(g)[m] = a /\ a \in Seq(Nat)
  <2>1. TextBelow(Len(log))' = b
    BY <1>1, <1>3, <1>6, <1>8 DEF TextBelow
  <2>2. m \in 0 .. Len(log)
    BY <1>4
  <2>3. TextUpTo(g)[m] = TextUpTo(log)[m]
    BY <1>1, <1>2, <1>3, <2>2, TextExtend
  <2> QED
    BY <1>4, <1>7, <2>1, <2>3, TextWhole DEF TextBelow
<1>10. CASE \A i \in 1 .. Len(events) : events[i].type # "token"
  <2>1. m \in 0 .. Len(g) /\ m + k \in m .. Len(g)
    BY <1>6
  <2>2. \A j \in m + 1 .. m + k : g[j].type # "token"
    BY <1>5, <1>6, <1>10
  <2>3. b = a
    BY <1>8, <1>9, <2>1, <2>2, TextGap
  <2>4. CASE Ended' = Ended
    <3>1. Unseen
      BY <1>1, <1>7, <1>9, <2>3, <2>4 DEF Unseen
    <3> QED
      BY <3>1, UnseenRefines
  <2>5. CASE ~(Ended' = Ended)
    <3>1. ~Ended /\ Ended'
      BY <1>1, <2>5 DEF Ended
    <3>2. Promise!Close
      <4>1. ~(turn \in {"closing", "over"}) /\ (turn' \in {"closing", "over"}) = TRUE
        BY <3>1 DEF Ended
      <4>2. (db'.status = "gone") = (db.status = "gone")
        BY <1>1
      <4> QED
        BY <1>1, <1>7, <1>9, <2>3, <4>1, <4>2 DEF Promise!Close
    <3> QED
      BY <3>2 DEF Promise!AbsNext
  <2> QED
    BY <2>4, <2>5
<1>11. CASE /\ ~Ended /\ ~Ended' /\ Len(events) = 1 /\ events[1].type = "token"
            /\ Len(events[1].data) = 1
  <2>1. PICK d \in Seq(Nat) : d = events[1].data /\ Len(d) = 1
    <3>1. 1 \in 1 .. Len(events)
      BY <1>11
    <3>2. events[1] \in Event
      BY <1>1, <3>1, ElementOfSeq
    <3> QED
      BY <1>11, <3>2 DEF Event
  <2>2. b = a \o d
    <3>1. k = 1 /\ m + 1 \in 1 .. Len(g) /\ (m + 1) - 1 = m /\ m + 1 \in m + 1 .. m + k
          /\ (m + 1) - m = 1
      BY <1>5, <1>6, <1>11
    <3>2. g[m + 1] = events[1]
      BY <1>6, <3>1
    <3>3. TextUpTo(g)[m + 1] = TextUpTo(g)[m] \o g[m + 1].data
      BY <1>11, <3>1, <3>2, TextStep
    <3> QED
      BY <1>8, <1>9, <2>1, <3>1, <3>2, <3>3
  <2>3. Len(b) = Len(a) + 1 /\ SubSeq(b, 1, Len(a)) = a
    <3>1. Len(a \o d) = Len(a) + 1
      <4>1. a \in Seq(Nat)
        BY <1>9
      <4>2. Len(a \o d) = Len(a) + Len(d)
        BY <4>1, TextJoin
      <4> QED
        BY <2>1, <4>2
    <3>2. SubSeq(a \o d, 1, Len(a)) = a
      BY <1>9, <2>1, SubSeqOfConcat1, SubSeqFull
    <3> QED
      BY <2>2, <3>1, <3>2
  <2>4. Promise!Grow
    <3>1. ~(turn \in {"closing", "over"}) /\ ~(turn' \in {"closing", "over"})
      BY <1>11 DEF Ended
    <3>2. (db'.status = "gone") = (db.status = "gone")
          /\ (turn' \in {"closing", "over"}) = (turn \in {"closing", "over"})
      BY <1>1, <3>1
    <3> QED
      BY <1>1, <1>7, <1>9, <2>3, <3>1, <3>2 DEF Promise!Grow
  <2> QED
    BY <2>4 DEF Promise!AbsNext
<1> QED
  BY <1>10, <1>11 DEF Deltas

(* The merge of a session: whole, or told that the answer is gone. *)
LEMMA MergeRefines ==
  ASSUME WInv, Watched, finalizeSession
  PROVE  [Promise!AbsNext]_(Promise!absVars)
<1>1. /\ client.session /\ ~client.final /\ Verdict /\ log' = log /\ turn' = turn /\ db' = db
      /\ client' = [client EXCEPT !.final = TRUE]
  BY DEF finalizeSession
<1>2. client'.final = TRUE /\ client'.raw = client.raw
  BY <1>1, ReaderFacts DEF Client
<1>3. TextBelow(Len(log))' = TextBelow(Len(log))
  BY <1>1 DEF TextBelow
<1>4. PICK pos : Follows(pos)
  BY <1>1 DEF Watched
<1>5. CASE client.done \/ client.stopped \/ client.err
  <2>1. Ended /\ client.raw = TextBelow(Len(log))
    BY <1>4, <1>5 DEF Follows, Screen
  <2>2. Promise!Merge
    BY <1>1, <1>2, <1>3, <2>1 DEF Promise!Merge, Ended
  <2> QED
    BY <2>2 DEF Promise!AbsNext
<1>6. CASE client.gone
  <2>1. db.status = "gone"
    BY <1>6 DEF Watched
  <2>2. Promise!GiveUpExpired
    BY <1>1, <1>2, <1>3, <2>1 DEF Promise!GiveUpExpired
  <2> QED
    BY <2>2 DEF Promise!AbsNext
<1> QED
  BY <1>1, <1>5, <1>6 DEF Verdict

(* Every step of an undisturbed turn is a step of the answer, or a stutter. *)
LEMMA NextRefines ==
  ASSUME CutMidReplay = FALSE, Inv, WInv, Undisturbed, Following, [Next]_vars, Undisturbed',
         Following'
  PROVE  [Promise!AbsNext]_(Promise!absVars)
<1>1. Script /\ Settled /\ Watched /\ Watched'
  BY DEF Following
<1>2. ASSUME log' = log, turn' = turn, db' = db, client' = client
      PROVE  [Promise!AbsNext]_(Promise!absVars)
  <2>1. Unseen
    BY <1>2 DEF Unseen, TextBelow, Ended
  <2> QED
    BY <2>1, UnseenRefines
<1>3. CASE UNCHANGED vars
  BY <1>2, <1>3 DEF vars
<1>4. CASE Next
  <2>1. Calm
    BY <1>1, <1>4, CalmStep
  <2>2. CASE Ticking
    BY <1>1, <2>2, TicksSettle, TickRefines
  <2>3. CASE handleChatStop \/ gcChatJobs
    BY <1>2, <2>3 DEF handleChatStop, gcChatJobs
  <2>4. CASE gcRetention
    <3>1. /\ ~job.inRam /\ db.status # "gone" /\ log' = log /\ turn' = turn /\ client' = client
          /\ db' = [db EXCEPT !.status = "gone", !.rows = {}] /\ db \in Store
      BY <2>4 DEF gcRetention, WInv, TypeOK
    <3>2. turn = "over"
      BY <1>1, <3>1, ServerFacts DEF Settled
    <3>3. db'.status = "gone"
      BY <3>1 DEF Store
    <3>4. TextBelow(Len(log))' = TextBelow(Len(log))
      BY <3>1 DEF TextBelow
    <3>5. Promise!Expire
      BY <3>1, <3>2, <3>3, <3>4 DEF Promise!Expire
    <3> QED
      BY <3>5 DEF Promise!AbsNext
  <2>5. CASE readSse \/ GiveUp \/ attemptReattach \/ Reload
    <3>1. log' = log /\ turn' = turn /\ db' = db
      BY <2>5 DEF readSse, GiveUp, attemptReattach, Reload
    <3>2. ~client.final /\ client'.final = client.final
      <4>1. CASE readSse
        BY <4>1, Processed, ReaderFacts DEF readSse
      <4>2. CASE Reload
        BY <4>2, ReaderFacts DEF Reload, FreshSession
      <4>3. CASE attemptReattach
        <5>1. ~client.final /\ ~client'.final
          BY <1>1, <4>3, ReattachReady DEF attemptReattach
        <5>2. client'.final = FALSE
          BY <4>3, ReaderFacts DEF attemptReattach, FreshSession, Client
        <5> QED
          BY <5>1, <5>2, ReaderFacts
      <4>4. CASE GiveUp
        <5>1. client.session /\ ~client.known /\ client'.final = FALSE
          BY <4>4 DEF GiveUp, FreshSession
        <5>2. PICK pos : Follows(pos)
          BY <1>1, <5>1 DEF Watched
        <5>3. ~Verdict
          BY <5>1, <5>2 DEF Follows, Screen
        <5> QED
          BY <1>1, <5>1, <5>3, ReaderFacts DEF Watched
      <4> QED
        BY <2>5, <4>1, <4>2, <4>3, <4>4
    <3> QED
      BY <1>1, <3>1, <3>2, ShowRefines
  <2>6. CASE CutSocket
    BY <1>2, <2>6 DEF CutSocket
  <2>7. CASE AdoptRun
    <3>1. /\ log' = log /\ turn' = turn /\ db' = db
          /\ client'.raw = client.raw /\ client'.final = client.final
      BY <2>7, ReaderFacts DEF AdoptRun, Client
    <3>2. Unseen
      BY <3>1 DEF Unseen, TextBelow, Ended
    <3> QED
      BY <3>2, UnseenRefines
  <2>8. CASE deliverResult
    <3>1. /\ ~client.final /\ log' = log /\ turn' = turn /\ db' = db
      BY <2>8 DEF deliverResult
    <3>2. client'.raw = TextBelow(Len(log)) /\ turn = "over" /\ client'.final
      BY <1>1, <2>8, DeliverWatched
    <3>3. client'.final = TRUE
      BY <2>8, ReaderFacts DEF deliverResult, Client
    <3>4. TextBelow(Len(log))' = TextBelow(Len(log))
      BY <3>1 DEF TextBelow
    <3>5. Promise!Merge
      BY <3>1, <3>2, <3>3, <3>4 DEF Promise!Merge
    <3> QED
      BY <3>5 DEF Promise!AbsNext
  <2>9. CASE finalizeSession
    BY <1>1, <2>9, MergeRefines
  <2> QED
    BY <2>1, <2>2, <2>3, <2>4, <2>5, <2>6, <2>7, <2>8, <2>9 DEF Calm, Reader
<1> QED
  BY <1>3, <1>4

(* As long as no process dies, SQLite refuses nothing and no socket is cut      *)
(* inside a compacted replay, the durable turn with its batches, rows, replays, *)
(* reattaching and adopted sessions is the turn that Answer promises: what is   *)
(* shown is always a prefix of what was emitted, and what is merged is all of   *)
(* it, once.                                                                    *)
THEOREM TransportKeepsThePromise ==
  ASSUME CutMidReplay = FALSE
  PROVE  Spec /\ []Undisturbed => ImplementsAnswer
<1>1. Init => Inv /\ WInv /\ Following /\ Promise!AbsInit
  BY InitInv, InitW, InitFollowing, InitRefines
<1>2. (Inv /\ WInv /\ Following) /\ [Next]_vars => (Inv /\ WInv /\ Following)'
  BY NextKeeps, NextFollowing
<1>3. /\ Inv /\ WInv /\ Following /\ Undisturbed /\ [Next]_vars
      /\ Following' /\ Undisturbed'
      => [Promise!AbsNext]_(Promise!absVars)
  BY NextRefines
<1> QED
  BY <1>1, <1>2, <1>3, PTL DEF Spec, ImplementsAnswer, Promise!AbsSpec
=============================================================================
