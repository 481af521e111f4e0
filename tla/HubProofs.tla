-------------------------------- MODULE HubProofs --------------------------------
(***************************************************************************)
(* The hands hub for any processes, jobs, streams and faults. The reader of   *)
(* a live stream holds the name because the hub has at most one open stream;   *)
(* a cancel or an alarm kills nothing that is still waited for because of the  *)
(* order in which a process reads: no job dispatched after an alarm is ahead    *)
(* of it, in its stream or in the one it replaces.                             *)
(***************************************************************************)
EXTENDS Hub, FiniteSetTheorems, SequenceTheorems, WellFoundedInduction, TLAPS

StreamRec == [by : Procs, hub : {"closed", "open", "ended"}, up : BOOLEAN, frames : Seq(Frames)]
ProcRec == [mode : {"off", "backoff", "reading", "dead"}, cur : Streams \cup {NoStream},
            next : Streams \cup {NoStream}, running : SUBSET Jobs]

-----------------------------------------------------------------------------
(* A set of stream numbers has a lowest one. *)
LEMMA HasLowest ==
  ASSUME NEW S \in SUBSET Streams, S # {}
  PROVE  \E x \in S : \A y \in S : x <= y
<1> DEFINE Lowest(V) == \E x \in V : \A y \in V : x <= y
           T == { V \in SUBSET Streams : V # {} /\ ~Lowest(V) }
<1>0. Streams \in SUBSET Nat /\ IsFiniteSet(Streams)
  BY HubConstants, FS_Interval DEF Streams
<1>1. SUFFICES ASSUME T # {}
               PROVE  FALSE
  BY <1>1
<1>2. PICK V \in T : \A W \in T : <<W, V>> \notin StrictSubsetOrdering(Streams)
  <2>1. IsWellFoundedOn(StrictSubsetOrdering(Streams), SUBSET Streams)
    BY <1>0, FS_StrictSubsetOrderingWellFounded, FS_FiniteSubsetsOfFinite
  <2>2. T \subseteq SUBSET Streams
    OBVIOUS
  <2> HIDE DEF T
  <2> QED
    BY <1>1, <2>1, <2>2, WFMin
<1>3. PICK x \in V : TRUE
  BY <1>2
<1>4. V \in SUBSET Streams /\ V \ {x} \in SUBSET Streams /\ V \ {x} # V
  BY <1>2
<1>5. V \ {x} \notin T
  BY <1>2, <1>4 DEF StrictSubsetOrdering
<1>6. CASE V \ {x} = {}
  BY <1>0, <1>2, <1>4, <1>6
<1>7. CASE V \ {x} # {}
  <2>1. PICK m \in V \ {x} : \A y \in V \ {x} : m <= y
    BY <1>4, <1>5, <1>7
  <2>2. x \in Nat /\ m \in Nat /\ \A y \in V : y \in Nat
    BY <1>0, <1>4
  <2>3. CASE m <= x
    BY <2>1, <2>2, <2>3, <1>2
  <2>4. CASE x <= m
    <3>1. \A y \in V : x <= y
      BY <2>1, <2>2, <2>4
    <3> QED
      BY <3>1, <1>2
  <2> QED
    BY <2>2, <2>3, <2>4
<1> QED
  BY <1>6, <1>7

(* The lowest free stream is a free stream (openStream). *)
LEMMA LowestFree ==
  ASSUME FreeStreams # {}
  PROVE  /\ Min(FreeStreams) \in Streams /\ Min(FreeStreams) # reg
         /\ ~Held(Min(FreeStreams))
<1>1. \E x \in FreeStreams : \A y \in FreeStreams : x <= y
  BY HasLowest DEF FreeStreams
<1>2. Min(FreeStreams) \in FreeStreams
  BY <1>1 DEF Min
<1> QED
  BY <1>2 DEF FreeStreams

(* What is sent to settle every pending job names pending jobs only, the alarm last (cancelAll). *)
AlarmFrames ==
  [k \in 1 .. Cardinality(Pending) |-> [kind |-> "cancel", job |-> SetToSeq(Pending)[k]]]
    \o <<[kind |-> "alarm"]>>

(* The frames of a fire alarm are frames, and each cancel among them is of a pending job. *)
LEMMA AlarmFramesType ==
  /\ AlarmFrames \in Seq(Frames)
  /\ \A k \in DOMAIN AlarmFrames :
       AlarmFrames[k].kind # "alarm" => AlarmFrames[k].kind = "cancel" /\ AlarmFrames[k].job \in Pending
<1> DEFINE n == Cardinality(Pending)
           names == SetToSeq(Pending)
           cancels == [k \in 1 .. n |-> [kind |-> "cancel", job |-> names[k]]]
<1>1. IsFiniteSet(Pending) /\ Pending \in SUBSET Jobs
  BY HubConstants, FS_Subset DEF Pending
<1>2. n \in Nat /\ names \in [1 .. n -> Pending]
  <2>1. n \in Nat /\ ExistsBijection(1 .. n, Pending)
    BY <1>1, FS_CardinalityType
  <2>2. \E f \in [1 .. n -> Pending] : IsInjective(f)
    BY <2>1 DEF ExistsBijection, Bijection, Injection
  <2> QED
    BY <2>1, <2>2 DEF SetToSeq
<1> HIDE DEF n, names
<1>3. cancels \in Seq(Frames) /\ Len(cancels) = n
  <2>1. \A k \in 1 .. n : [kind |-> "cancel", job |-> names[k]] \in Frames
    BY <1>1, <1>2 DEF Frames
  <2> QED
    BY <1>2, <2>1
<1>4. <<[kind |-> "alarm"]>> \in Seq(Frames)
  BY DEF Frames
<1>5. \A k \in 1 .. n : cancels[k].kind = "cancel" /\ cancels[k].job \in Pending
  BY <1>2
<1>6. AlarmFrames = cancels \o <<[kind |-> "alarm"]>>
  BY DEF AlarmFrames, n, names
<1> HIDE DEF cancels
<1>7. AlarmFrames \in Seq(Frames) /\ Len(AlarmFrames) = n + 1
  BY <1>2, <1>3, <1>4, <1>6
<1>8. ASSUME NEW k \in DOMAIN AlarmFrames
      PROVE  AlarmFrames[k] = IF k <= n THEN cancels[k] ELSE [kind |-> "alarm"]
  BY <1>2, <1>3, <1>4, <1>6, <1>7
<1>9. ASSUME NEW k \in DOMAIN AlarmFrames, AlarmFrames[k].kind # "alarm"
      PROVE  AlarmFrames[k].kind = "cancel" /\ AlarmFrames[k].job \in Pending
  <2>1. k \in 1 .. n
    BY <1>2, <1>7, <1>8, <1>9
  <2> QED
    BY <1>5, <1>8, <2>1, <1>2
<1> QED
  BY <1>7, <1>9

-----------------------------------------------------------------------------
(* A stream with one side of it changed is a stream. *)
LEMMA StreamUpdates ==
  ASSUME NEW r \in StreamRec, NEW h \in {"closed", "open", "ended"}, NEW f \in Seq(Frames)
  PROVE  /\ [r EXCEPT !.hub = h] \in StreamRec
         /\ [r EXCEPT !.frames = f] \in StreamRec
         /\ [r EXCEPT !.up = FALSE, !.frames = f, !.hub = h] \in StreamRec
  BY DEF StreamRec

(* A process that moves to other streams is a process. *)
LEMMA ProcUpdates ==
  ASSUME NEW r \in ProcRec, NEW m \in {"off", "backoff", "reading", "dead"},
         NEW c \in Streams \cup {NoStream}, NEW n \in Streams \cup {NoStream}, NEW q \in SUBSET Jobs
  PROVE  /\ [r EXCEPT !.mode = m, !.cur = c, !.next = n] \in ProcRec
         /\ [r EXCEPT !.mode = m, !.cur = c] \in ProcRec
         /\ [r EXCEPT !.cur = c, !.next = n] \in ProcRec
         /\ [r EXCEPT !.next = n] \in ProcRec
         /\ [r EXCEPT !.mode = m] \in ProcRec
         /\ [r EXCEPT !.running = q] \in ProcRec
  BY DEF ProcRec

(* A stream that is given up is a stream. *)
LEMMA GivesUpType ==
  ASSUME stream \in [Streams -> StreamRec], NEW ss, GivesUp(ss)
  PROVE  stream' \in [Streams -> StreamRec]
<1>1. <<>> \in Seq(Frames)
  OBVIOUS
<1>2. ASSUME NEW s \in Streams
      PROVE  stream'[s] \in StreamRec
  <2> DEFINE h == IF s = reg THEN stream[s].hub ELSE "closed"
  <2>1. stream[s] \in StreamRec /\ h \in {"closed", "open", "ended"}
    BY DEF StreamRec
  <2>2. stream'[s] = stream[s] \/ stream'[s] = [stream[s] EXCEPT !.up = FALSE, !.frames = <<>>, !.hub = h]
    BY DEF GivesUp
  <2> HIDE DEF h
  <2>3. [stream[s] EXCEPT !.up = FALSE, !.frames = <<>>, !.hub = h] \in StreamRec
    BY <1>1, <2>1, StreamUpdates
  <2> QED
    BY <2>1, <2>2, <2>3
<1>3. stream' = [s \in Streams |-> stream'[s]]
  BY DEF GivesUp
<1> QED
  BY <1>2, <1>3

(* What is lost is jobs. *)
LEMMA LostType ==
  ASSUME NEW ss, GivesUp(ss), lost \subseteq Jobs
  PROVE  lost' \subseteq Jobs
  BY DEF GivesUp, About

(* A write appends frames to the registered stream, if it is up, and to no other. *)
LEMMA WrittenType ==
  ASSUME stream \in [Streams -> StreamRec], reg \in Streams \cup {NoStream}, lost \subseteq Jobs,
         NEW frames \in Seq(Frames), Written(frames)
  PROVE  /\ stream' \in [Streams -> StreamRec] /\ lost' \subseteq Jobs
         /\ \A s \in Streams : /\ stream'[s].hub = stream[s].hub
                               /\ \/ stream'[s].frames = stream[s].frames
                                  \/ s = reg /\ stream'[s].frames = stream[s].frames \o frames
<1>1. CASE reg # NoStream /\ stream[reg].up
  <2>1. reg \in Streams /\ stream[reg] \in StreamRec
    BY <1>1
  <2>2. stream' = [stream EXCEPT ![reg].frames = @ \o frames] /\ lost' = lost \cup (About(frames) \cap Elsewhere)
    BY <1>1 DEF Written
  <2>3. stream[reg].frames \o frames \in Seq(Frames)
    BY <2>1 DEF StreamRec
  <2>4. stream' \in [Streams -> StreamRec]
    BY <2>1, <2>2, <2>3, StreamUpdates
  <2>5. \A s \in Streams : /\ stream'[s].hub = stream[s].hub
                           /\ \/ stream'[s].frames = stream[s].frames
                              \/ s = reg /\ stream'[s].frames = stream[s].frames \o frames
    BY <2>1, <2>2 DEF StreamRec
  <2> QED
    BY <2>2, <2>4, <2>5 DEF About
<1>2. CASE ~(reg # NoStream /\ stream[reg].up)
  BY <1>2 DEF Written, About
<1> QED
  BY <1>1, <1>2

-----------------------------------------------------------------------------
(* The inductive invariant. *)

(* The hub keeps one stream open: registering another ends it, and so does a sweep. *)
OpenIsRegistered == \A s \in Streams : stream[s].hub = "open" => s = reg

(* A process holds streams only while it reads, and the name has moved off the one that is    *)
(* being replaced.                                                                            *)
ReadersHold ==
  \A p \in Procs : /\ proc[p].mode = "reading" => proc[p].cur \in Streams
                   /\ proc[p].mode # "reading" => proc[p].cur = NoStream /\ proc[p].next = NoStream
                   /\ proc[p].next # NoStream => proc[p].cur # reg

Has(s, kind, j) ==
  \E k \in DOMAIN stream[s].frames : stream[s].frames[k].kind = kind /\ stream[s].frames[k].job = j
HasAlarm(s) == \E k \in DOMAIN stream[s].frames : stream[s].frames[k].kind = "alarm"

(* A job that was never dispatched is nowhere. *)
FreshJobs ==
  \A j \in Jobs : job[j] = "none" => /\ \A s \in Streams : ~Has(s, "job", j)
                                     /\ \A p \in Procs : j \notin proc[p].running

(* A cancel is of a job nobody waits for. *)
CancelsSettled == \A s \in Streams, j \in Jobs : Has(s, "cancel", j) => job[j] \in Answers

(* No pending job is ahead of an alarm in a stream ... *)
AlarmIsBehind ==
  \A s \in Streams : \A k, l \in DOMAIN stream[s].frames :
    k < l /\ stream[s].frames[k].kind = "job" /\ stream[s].frames[l].kind = "alarm"
      => job[stream[s].frames[k].job] # "pending"

(* ... nor in the stream that is read before it, nor already running where it will be read. *)
AlarmSettles ==
  \A p \in Procs, j \in Jobs : job[j] = "pending" =>
    /\ \A s \in Streams : s \in {proc[p].cur, proc[p].next} /\ HasAlarm(s) => j \notin proc[p].running
    /\ proc[p].next \in Streams /\ proc[p].cur \in Streams /\ HasAlarm(proc[p].next)
         => ~Has(proc[p].cur, "job", j)

Structure == TypeOK /\ OpenIsRegistered /\ ReadersHold
Settled == FreshJobs /\ CancelsSettled /\ AlarmIsBehind /\ AlarmSettles
IInv == Structure /\ Settled

-----------------------------------------------------------------------------
(* Before anything connects. *)
LEMMA InitInv == Init => IInv
<1> SUFFICES ASSUME Init
             PROVE  IInv
  OBVIOUS
<1>1. TypeOK
  <2>1. (CHOOSE p \in Procs : TRUE) \in Procs
    BY HubConstants
  <2>2. stream \in [Streams -> StreamRec]
    BY <2>1 DEF Init, StreamRec
  <2>3. proc \in [Procs -> ProcRec]
    BY DEF Init, ProcRec
  <2>4. used \in [faults : 0 .. MaxFaults, upsets : 0 .. MaxUpsets]
    BY HubConstants DEF Init
  <2>5. job \in [Jobs -> {"none", "pending"} \cup Answers] /\ age \in 0 .. 2
    BY DEF Init
  <2> QED
    BY <2>2, <2>3, <2>4, <2>5 DEF Init, TypeOK, StreamRec, ProcRec
<1>2. OpenIsRegistered /\ ReadersHold
  BY DEF Init, OpenIsRegistered, ReadersHold
<1>3. \A s \in Streams : stream[s].frames = <<>> /\ DOMAIN stream[s].frames = {}
  BY DEF Init
<1>4. Settled
  BY <1>3 DEF Init, Settled, FreshJobs, CancelsSettled, AlarmIsBehind, AlarmSettles, Has, HasAlarm
<1> QED
  BY <1>1, <1>2, <1>4 DEF IInv, Structure

(* What registering a stream does, whoever dials (handleStream). *)
LEMMA RegistersFacts ==
  ASSUME Structure, NEW p \in Procs, NEW s \in Streams, s # reg, ~Held(s), Registers(p, s)
  PROVE  /\ stream' \in [Streams -> StreamRec] /\ reg' = s /\ age' \in 0 .. 2
         /\ OpenIsRegistered'
         /\ stream'[s].frames = <<>>
         /\ \A t \in Streams \ {s} : stream'[t].frames = stream[t].frames
         /\ \A q \in Procs : proc[q].cur # s /\ proc[q].next # s
<1>0. stream \in [Streams -> StreamRec]
  BY DEF Structure, TypeOK, StreamRec
<1>1. ASSUME NEW t \in Streams
      PROVE  /\ stream'[t] \in StreamRec
             /\ stream'[t].hub = "open" => t = s
             /\ stream'[t].frames = IF t = s THEN <<>> ELSE stream[t].frames
  <2>1. stream[t] \in StreamRec /\ [stream[t] EXCEPT !.hub = "ended"] \in StreamRec
    BY <1>0 DEF StreamRec
  <2>2. CASE t = s
    BY <2>2 DEF Registers, StreamRec
  <2>3. CASE t # s /\ t = reg
    BY <2>1, <2>3 DEF Registers, StreamRec
  <2>4. CASE t # s /\ t # reg
    BY <2>1, <2>4 DEF Registers, Structure, OpenIsRegistered
  <2> QED
    BY <2>2, <2>3, <2>4
<1>2. stream' = [t \in Streams |-> stream'[t]] /\ reg' = s /\ age' = 0
  BY DEF Registers
<1>3. \A q \in Procs : proc[q].cur # s /\ proc[q].next # s
  BY DEF Held
<1> QED
  BY <1>1, <1>2, <1>3 DEF OpenIsRegistered

(* What giving streams up does (a stream nobody will read). *)
LEMMA GivesUpFacts ==
  ASSUME Structure, NEW ss, GivesUp(ss), reg' = reg
  PROVE  /\ stream' \in [Streams -> StreamRec] /\ lost' \subseteq Jobs /\ OpenIsRegistered'
         /\ \A s \in Streams : stream'[s].frames \in {stream[s].frames, <<>>}
<1>0. stream \in [Streams -> StreamRec] /\ lost \subseteq Jobs
  BY DEF Structure, TypeOK, StreamRec
<1>1. stream' \in [Streams -> StreamRec] /\ lost' \subseteq Jobs
  BY <1>0, GivesUpType, LostType
<1>2. ASSUME NEW s \in Streams
      PROVE  /\ stream'[s].hub = "open" => s = reg
             /\ stream'[s].frames \in {stream[s].frames, <<>>}
  BY <1>0 DEF GivesUp, Structure, OpenIsRegistered, StreamRec
<1> QED
  BY <1>1, <1>2 DEF OpenIsRegistered

-----------------------------------------------------------------------------
(* A step that reads and writes no frame: frames stay or are dropped, jobs settle or stop, and  *)
(* a process keeps its streams, drops them, or takes an empty one.                              *)
Dropped(s) == stream'[s].frames = <<>>

QuietMove(p) ==
  \/ proc'[p].cur = proc[p].cur /\ proc'[p].next = proc[p].next
  \/ /\ proc'[p].next = NoStream
     /\ \/ proc'[p].cur \in {proc[p].cur, proc[p].next, NoStream}
        \/ proc'[p].cur \in Streams /\ Dropped(proc'[p].cur)
  \/ proc'[p].cur = proc[p].cur /\ proc'[p].next \in Streams /\ Dropped(proc'[p].next)

QuietStep ==
  /\ \A s \in Streams : Dropped(s) \/ stream'[s].frames = stream[s].frames
  /\ \A j \in Jobs : job'[j] = job[j] \/ (job[j] = "pending" /\ job'[j] \in Answers)
  /\ \A p \in Procs : proc'[p].running \subseteq proc[p].running /\ QuietMove(p)

(* Such a step keeps alarms behind what they may kill. *)
LEMMA QuietStepKeeps ==
  ASSUME IInv, Structure', QuietStep
  PROVE  Settled'
<1>0. NoStream \notin Streams
  BY HubConstants DEF NoStream, Streams
<1>1. ASSUME NEW s \in Streams
      PROVE  /\ DOMAIN stream'[s].frames = {} \/ stream'[s].frames = stream[s].frames
             /\ HasAlarm(s)' => HasAlarm(s) /\ ~Dropped(s)
             /\ \A kind, j : Has(s, kind, j)' => Has(s, kind, j)
  <2>1. DOMAIN stream'[s].frames = {} \/ stream'[s].frames = stream[s].frames
    BY DEF QuietStep, Dropped
  <2>2. Dropped(s) => DOMAIN stream'[s].frames = {}
    BY DEF Dropped
  <2> QED
    BY <2>1, <2>2 DEF HasAlarm, Has
<1>2. ASSUME NEW j \in Jobs
      PROVE  /\ job'[j] \in {"none", "pending"} => job'[j] = job[j]
             /\ job[j] \in Answers => job'[j] \in Answers
  BY DEF QuietStep, Answers
<1>3. FreshJobs'
  BY <1>1, <1>2 DEF IInv, Settled, FreshJobs, QuietStep
<1>4. CancelsSettled'
  BY <1>1, <1>2 DEF IInv, Settled, CancelsSettled
<1>5. AlarmIsBehind'
  <2>1. SUFFICES ASSUME NEW s \in Streams, NEW k \in DOMAIN stream'[s].frames,
                        NEW l \in DOMAIN stream'[s].frames, k < l,
                        stream'[s].frames[k].kind = "job", stream'[s].frames[l].kind = "alarm"
                 PROVE  job'[stream'[s].frames[k].job] # "pending"
    BY DEF AlarmIsBehind
  <2>2. stream'[s].frames = stream[s].frames
    BY <2>1, <1>1
  <2>3. stream'[s].frames[k].job \in Jobs
    <3>1. stream'[s].frames \in Seq(Frames)
      BY DEF Structure, TypeOK
    <3> QED
      BY <3>1, <2>1 DEF Frames
  <2> QED
    BY <2>1, <2>2, <2>3, <1>2 DEF IInv, Settled, AlarmIsBehind
<1>6. AlarmSettles'
  <2>1. ASSUME NEW p \in Procs, NEW j \in Jobs, job'[j] = "pending"
        PROVE  job[j] = "pending" /\ proc'[p].running \subseteq proc[p].running /\ QuietMove(p)
    BY <2>1, <1>2 DEF QuietStep
  <2>2. ASSUME NEW p \in Procs, NEW j \in Jobs, job'[j] = "pending",
               NEW s \in Streams, s \in {proc'[p].cur, proc'[p].next}, HasAlarm(s)'
        PROVE  j \notin proc'[p].running
    <3>1. s \in {proc[p].cur, proc[p].next} /\ HasAlarm(s)
      BY <1>0, <1>1, <2>1, <2>2 DEF QuietMove
    <3> QED
      BY <2>1, <2>2, <3>1 DEF IInv, Settled, AlarmSettles
  <2>3. ASSUME NEW p \in Procs, NEW j \in Jobs, job'[j] = "pending", NEW c \in Streams, NEW n \in Streams,
               c = proc'[p].cur, n = proc'[p].next, HasAlarm(n)'
        PROVE  ~Has(c, "job", j)'
    <3>1. c = proc[p].cur /\ n = proc[p].next
      BY <1>0, <1>1, <2>1, <2>3 DEF QuietMove
    <3>2. HasAlarm(n)
      BY <1>1, <2>3
    <3>3. ~Has(c, "job", j)
      BY <2>1, <2>3, <3>1, <3>2 DEF IInv, Settled, AlarmSettles
    <3> QED
      BY <1>1, <3>3
  <2> QED
    BY <2>2, <2>3 DEF AlarmSettles
<1> QED
  BY <1>3, <1>4, <1>5, <1>6 DEF Settled

(* The jobs a step may end: what is no longer running somewhere although it is waited for. *)
KillsPending ==
  \E p \in Procs, j \in Jobs :
    /\ j \in proc[p].running /\ j \notin proc'[p].running /\ proc'[p].mode = "reading"
    /\ job[j] = "pending" /\ <<p, j>> \notin posts' /\ p \notin cut

(* The steps of a process that opens, replaces or drops its streams. *)
LEMMA StreamSteps ==
  ASSUME IInv, NEW p \in Procs,
         Boot(p) \/ Dial(p) \/ Redial(p) \/ RedialConfirmed(p) \/ LetGo(p) \/ Cut(p) \/ Die(p)
  PROVE  IInv' /\ ~KillsPending
<1>0. /\ stream \in [Streams -> StreamRec] /\ proc \in [Procs -> ProcRec] /\ Structure /\ TypeOK
      /\ proc[p] \in ProcRec /\ MaxFaults \in Nat /\ MaxUpsets \in Nat /\ NoStream \notin Streams
      /\ NoStream \in Streams \cup {NoStream} /\ ReadersHold /\ OpenIsRegistered
      /\ \A q \in Procs : proc[q].running \in SUBSET Jobs
  BY HubConstants DEF IInv, Structure, TypeOK, StreamRec, ProcRec, Streams, NoStream
<1> DEFINE Good == /\ stream' \in [Streams -> StreamRec] /\ proc' \in [Procs -> ProcRec]
                   /\ OpenIsRegistered' /\ ReadersHold' /\ QuietStep
                   /\ reg' \in Streams \cup {NoStream} /\ age' \in 0 .. 2
                   /\ lost' \subseteq Jobs /\ used' \in [faults : 0 .. MaxFaults, upsets : 0 .. MaxUpsets]
<1>1. ASSUME Boot(p)
      PROVE  Good
  <2>1. proc' \in [Procs -> ProcRec] /\ UNCHANGED <<stream, reg, age, job, lost, used>>
    BY <1>0, <1>1, ProcUpdates DEF Boot
  <2>2. ReadersHold'
    BY <1>0, <1>1, <2>1 DEF Boot, ReadersHold, ProcRec
  <2>3. \A q \in Procs : /\ proc'[q].running = proc[q].running
                         /\ proc'[q].cur = proc[q].cur /\ proc'[q].next = proc[q].next
    BY <1>0, <1>1 DEF Boot, ProcRec
  <2>4. QuietStep
    BY <2>1, <2>3 DEF QuietStep, QuietMove
  <2> QED
    BY <1>0, <2>1, <2>2, <2>4 DEF OpenIsRegistered, TypeOK
<1>2. ASSUME Dial(p)
      PROVE  Good
  <2> DEFINE s == Min(FreeStreams)
  <2>1. s \in Streams /\ s # reg /\ ~Held(s) /\ Registers(p, s)
    BY <1>2, LowestFree DEF Dial
  <2>2. /\ proc' = [proc EXCEPT ![p].mode = "reading", ![p].cur = s]
        /\ UNCHANGED <<cut, job, posts, lost, used>> /\ proc[p].mode = "backoff"
    BY <1>2 DEF Dial
  <2> HIDE DEF s
  <2>3. /\ stream' \in [Streams -> StreamRec] /\ reg' = s /\ age' \in 0 .. 2 /\ OpenIsRegistered'
        /\ stream'[s].frames = <<>> /\ \A t \in Streams \ {s} : stream'[t].frames = stream[t].frames
        /\ \A q \in Procs : proc[q].cur # s /\ proc[q].next # s
    BY <1>0, <2>1, RegistersFacts
  <2>4. proc' \in [Procs -> ProcRec]
    BY <1>0, <2>1, <2>2, ProcUpdates
  <2>5. ReadersHold'
    BY <1>0, <2>1, <2>2, <2>3 DEF ReadersHold, ProcRec
  <2>6. QuietStep
    BY <1>0, <2>1, <2>2, <2>3 DEF QuietStep, QuietMove, Dropped, ProcRec, ReadersHold
  <2> QED
    BY <1>0, <2>1, <2>2, <2>3, <2>4, <2>5, <2>6 DEF TypeOK
<1>3. ASSUME Redial(p)
      PROVE  Good
  <2> DEFINE s == Min(FreeStreams)
  <2>1. s \in Streams /\ s # reg /\ ~Held(s) /\ Registers(p, s)
    BY <1>3, LowestFree DEF Redial
  <2>2. /\ proc' = [proc EXCEPT ![p].next = s]
        /\ UNCHANGED <<cut, job, posts, lost>> /\ proc[p].mode = "reading"
        /\ used' = [used EXCEPT !.upsets = @ + 1] /\ used.upsets < MaxUpsets
    BY <1>3 DEF Redial
  <2> HIDE DEF s
  <2>3. /\ stream' \in [Streams -> StreamRec] /\ reg' = s /\ age' \in 0 .. 2 /\ OpenIsRegistered'
        /\ stream'[s].frames = <<>> /\ \A t \in Streams \ {s} : stream'[t].frames = stream[t].frames
        /\ \A q \in Procs : proc[q].cur # s /\ proc[q].next # s
    BY <1>0, <2>1, RegistersFacts
  <2>4. proc' \in [Procs -> ProcRec]
    BY <1>0, <2>1, <2>2, ProcUpdates
  <2>5. ReadersHold'
    BY <1>0, <2>1, <2>2, <2>3 DEF ReadersHold, ProcRec
  <2>6. QuietStep
    <3>1. \A q \in Procs : /\ proc'[q].running = proc[q].running /\ proc'[q].cur = proc[q].cur
                           /\ q # p => proc'[q].next = proc[q].next
                           /\ q = p => proc'[q].next = s
      BY <1>0, <2>2 DEF ProcRec
    <3> QED
      BY <2>1, <2>2, <2>3, <3>1 DEF QuietStep, QuietMove, Dropped
  <2>7. used' \in [faults : 0 .. MaxFaults, upsets : 0 .. MaxUpsets]
    BY <1>0, <2>2 DEF TypeOK
  <2> QED
    BY <1>0, <2>1, <2>2, <2>3, <2>4, <2>5, <2>6, <2>7 DEF TypeOK
<1>4. ASSUME RedialConfirmed(p)
      PROVE  Good
  <2>1. /\ GivesUp({proc[p].cur}) /\ UNCHANGED <<reg, age, cut, job, posts, used>>
        /\ proc' = [proc EXCEPT ![p].cur = proc[p].next, ![p].next = NoStream]
        /\ proc[p].mode = "reading" /\ proc[p].next # NoStream
    BY <1>4 DEF RedialConfirmed
  <2>2. /\ stream' \in [Streams -> StreamRec] /\ lost' \subseteq Jobs /\ OpenIsRegistered'
        /\ \A s \in Streams : stream'[s].frames \in {stream[s].frames, <<>>}
    BY <1>0, <2>1, GivesUpFacts
  <2>3. proc[p].next \in Streams
    BY <1>0, <2>1 DEF ProcRec
  <2>4. proc' \in [Procs -> ProcRec]
    BY <1>0, <2>1, <2>3, ProcUpdates
  <2>5. ReadersHold'
    BY <1>0, <2>1, <2>3 DEF ReadersHold, ProcRec
  <2>6. QuietStep
    <3>1. \A q \in Procs : /\ proc'[q].running = proc[q].running
                           /\ q # p => proc'[q].cur = proc[q].cur /\ proc'[q].next = proc[q].next
                           /\ q = p => proc'[q].cur = proc[q].next /\ proc'[q].next = NoStream
      BY <1>0, <2>1 DEF ProcRec
    <3> QED
      BY <2>1, <2>2, <3>1 DEF QuietStep, QuietMove, Dropped
  <2> QED
    BY <1>0, <2>1, <2>2, <2>4, <2>5, <2>6 DEF TypeOK
<1>5. ASSUME LetGo(p)
      PROVE  Good
  <2>1. /\ GivesUp({proc[p].cur, proc[p].next} \ {NoStream}) /\ UNCHANGED <<reg, age, cut, job, posts, used>>
        /\ proc' = [proc EXCEPT ![p].mode = "backoff", ![p].cur = NoStream, ![p].next = NoStream]
    BY <1>5 DEF LetGo
  <2>2. /\ stream' \in [Streams -> StreamRec] /\ lost' \subseteq Jobs /\ OpenIsRegistered'
        /\ \A s \in Streams : stream'[s].frames \in {stream[s].frames, <<>>}
    BY <1>0, <2>1, GivesUpFacts
  <2>4. proc' \in [Procs -> ProcRec]
    BY <1>0, <2>1, ProcUpdates
  <2>5. ReadersHold'
    BY <1>0, <2>1 DEF ReadersHold, ProcRec
  <2>6. QuietStep
    <3>1. \A q \in Procs : /\ proc'[q].running = proc[q].running
                           /\ q # p => proc'[q].cur = proc[q].cur /\ proc'[q].next = proc[q].next
                           /\ q = p => proc'[q].cur = NoStream /\ proc'[q].next = NoStream
      BY <1>0, <2>1 DEF ProcRec
    <3> QED
      BY <2>1, <2>2, <3>1 DEF QuietStep, QuietMove, Dropped
  <2> QED
    BY <1>0, <2>1, <2>2, <2>4, <2>5, <2>6 DEF TypeOK
<1>6. ASSUME Cut(p) \/ Die(p)
      PROVE  Good
  <2>1. /\ GivesUp({ s \in Streams : stream[s].by = p }) /\ UNCHANGED <<reg, age, job>>
        /\ used' = [used EXCEPT !.faults = @ + 1] /\ used.faults < MaxFaults
        /\ \/ proc' = proc
           \/ proc' = [proc EXCEPT ![p] = [mode |-> "dead", cur |-> NoStream, next |-> NoStream, running |-> {}]]
    BY <1>6 DEF Cut, Die, Break
  <2>2. /\ stream' \in [Streams -> StreamRec] /\ lost' \subseteq Jobs /\ OpenIsRegistered'
        /\ \A s \in Streams : stream'[s].frames \in {stream[s].frames, <<>>}
    BY <1>0, <2>1, GivesUpFacts
  <2>3. [mode |-> "dead", cur |-> NoStream, next |-> NoStream, running |-> {}] \in ProcRec
    BY DEF ProcRec
  <2>4. proc' \in [Procs -> ProcRec]
    BY <1>0, <2>1, <2>3
  <2>5. ReadersHold'
    BY <1>0, <2>1 DEF ReadersHold
  <2>6. QuietStep
    <3>1. \A q \in Procs : /\ proc'[q].running \subseteq proc[q].running
                           /\ \/ proc'[q].cur = proc[q].cur /\ proc'[q].next = proc[q].next
                              \/ proc'[q].cur = NoStream /\ proc'[q].next = NoStream
      BY <1>0, <2>1 DEF ProcRec
    <3> QED
      BY <2>1, <2>2, <3>1 DEF QuietStep, QuietMove, Dropped
  <2>7. used' \in [faults : 0 .. MaxFaults, upsets : 0 .. MaxUpsets]
    BY <1>0, <2>1 DEF TypeOK
  <2> QED
    BY <1>0, <2>1, <2>2, <2>4, <2>5, <2>6, <2>7 DEF TypeOK
<1>7. Good
  BY <1>1, <1>2, <1>3, <1>4, <1>5, <1>6
<1>8. cut' \subseteq Procs /\ job' = job /\ posts' \subseteq Procs \X Jobs
  BY <1>0 DEF Boot, Dial, Redial, RedialConfirmed, LetGo, Cut, Die, Break, TypeOK
<1>9. Structure'
  BY <1>0, <1>7, <1>8 DEF Structure, TypeOK, StreamRec, ProcRec
<1>10. Settled'
  BY <1>7, <1>9, QuietStepKeeps
<1>11. ~KillsPending
  <2> DEFINE Keeps == \A q \in Procs : proc'[q].running = proc[q].running \/ proc'[q].mode = "dead"
  <2>1. ASSUME Boot(p) \/ Redial(p)
        PROVE  Keeps
    <3>1. proc' = [proc EXCEPT ![p].mode = "backoff"]
          \/ proc' = [proc EXCEPT ![p].next = Min(FreeStreams)]
      BY <2>1 DEF Boot, Redial
    <3>2. Keeps
      BY <1>0, <3>1 DEF ProcRec
    <3> QED
      BY <3>2
  <2>2. ASSUME Dial(p)
        PROVE  Keeps
    <3>1. proc' = [proc EXCEPT ![p].mode = "reading", ![p].cur = Min(FreeStreams)]
      BY <2>2 DEF Dial
    <3> QED
      BY <1>0, <3>1 DEF ProcRec
  <2>3. ASSUME RedialConfirmed(p)
        PROVE  Keeps
    <3>1. proc' = [proc EXCEPT ![p].cur = proc[p].next, ![p].next = NoStream]
      BY <2>3 DEF RedialConfirmed
    <3> QED
      BY <1>0, <3>1 DEF ProcRec
  <2>4. ASSUME LetGo(p)
        PROVE  Keeps
    <3>1. proc' = [proc EXCEPT ![p].mode = "backoff", ![p].cur = NoStream, ![p].next = NoStream]
      BY <2>4 DEF LetGo
    <3> QED
      BY <1>0, <3>1 DEF ProcRec
  <2>5. ASSUME Cut(p) \/ Die(p)
        PROVE  Keeps
    <3>1. \/ proc' = proc
          \/ proc' = [proc EXCEPT ![p] = [mode |-> "dead", cur |-> NoStream, next |-> NoStream, running |-> {}]]
      BY <2>5 DEF Cut, Die
    <3> QED
      BY <1>0, <3>1 DEF ProcRec
  <2>6. Keeps
    BY <2>1, <2>2, <2>3, <2>4, <2>5
  <2> QED
    BY <2>6 DEF KillsPending
<1> QED
  BY <1>9, <1>10, <1>11 DEF IInv

(* The steps that touch neither frames nor streams' readers: results, chunks, beats, the clock,   *)
(* the sweep, a close, a deadline, a healed path.                                                *)
LEMMA OtherSteps ==
  ASSUME IInv,
         \/ UNCHANGED vars
         \/ \E p \in Procs, j \in Jobs : Finish(p, j) \/ handleResult(p, j) \/ handleChunk(p, j)
         \/ \E p \in Procs : handleBeat(p) \/ Heal(p)
         \/ \E j \in Jobs : Timeout(j)
         \/ Quiet \/ sweepStale
         \/ \E s \in Streams : Close(s)
  PROVE  IInv' /\ ~KillsPending
<1>0. /\ stream \in [Streams -> StreamRec] /\ proc \in [Procs -> ProcRec] /\ TypeOK
      /\ ReadersHold /\ OpenIsRegistered /\ NoStream \notin Streams
  BY HubConstants DEF IInv, Structure, TypeOK, StreamRec, ProcRec, Streams, NoStream
<1> DEFINE Same == /\ stream' = stream /\ reg' = reg
           Streamed == /\ stream' \in [Streams -> StreamRec] /\ reg' \in {reg, NoStream}
                       /\ \A s \in Streams : stream'[s].frames = stream[s].frames
                       /\ \A s \in Streams : stream'[s].hub = "open" => stream[s].hub = "open" /\ reg' = reg
           Ran == /\ proc' \in [Procs -> ProcRec]
                  /\ \A p \in Procs : /\ proc'[p].mode = proc[p].mode /\ proc'[p].cur = proc[p].cur
                                      /\ proc'[p].next = proc[p].next
                                      /\ proc'[p].running \subseteq proc[p].running
                  /\ \A p \in Procs, j \in Jobs :
                       j \in proc[p].running /\ j \notin proc'[p].running => <<p, j>> \in posts' \/ p \in cut
           Answered == /\ job' \in [Jobs -> {"none", "pending"} \cup Answers]
                       /\ \A j \in Jobs : job'[j] = job[j] \/ (job[j] = "pending" /\ job'[j] \in Answers)
           Rest == age' \in 0 .. 2 /\ cut' \subseteq Procs /\ posts' \subseteq Procs \X Jobs
                   /\ lost' \subseteq Jobs /\ used' \in [faults : 0 .. MaxFaults, upsets : 0 .. MaxUpsets]
<1>1. SUFFICES Streamed /\ Ran /\ Answered /\ Rest
  <2>1. ASSUME Streamed, Ran, Answered, Rest
        PROVE  IInv' /\ ~KillsPending
    <3>1. TypeOK'
      BY <1>0, <2>1 DEF TypeOK, StreamRec, ProcRec
    <3>2. OpenIsRegistered' /\ ReadersHold'
      BY <1>0, <2>1 DEF OpenIsRegistered, ReadersHold
    <3>3. QuietStep
      BY <2>1 DEF QuietStep, QuietMove
    <3>4. Settled'
      BY <3>1, <3>2, <3>3, QuietStepKeeps DEF Structure
    <3>5. ~KillsPending
      BY <2>1 DEF KillsPending
    <3> QED
      BY <3>1, <3>2, <3>4, <3>5 DEF IInv, Structure
  <2> QED
    BY <2>1
<1>2. Same => Streamed
  BY <1>0
<1>3. proc' = proc => Ran
  BY <1>0
<1>4. job' = job => Answered
  BY <1>0 DEF TypeOK
<1>5. ASSUME NEW j \in Jobs PROVE Renewed(j) \in 0 .. 2
  BY <1>0 DEF Renewed, TypeOK
<1>6. CASE UNCHANGED vars
  BY <1>2, <1>3, <1>4, <1>6, <1>0 DEF vars, TypeOK
<1>7. ASSUME NEW p \in Procs, NEW j \in Jobs, Finish(p, j)
      PROVE  Streamed /\ Ran /\ Answered /\ Rest
  <2>1. proc' = [proc EXCEPT ![p].running = @ \ {j}] /\ UNCHANGED <<stream, reg, age, cut, job, lost, used>>
        /\ posts' = IF p \in cut THEN posts ELSE posts \cup {<<p, j>>}
    BY <1>7 DEF Finish
  <2>2. Ran
    BY <1>0, <2>1 DEF ProcRec
  <2>3. Rest
    BY <1>0, <2>1 DEF TypeOK
  <2> QED
    BY <1>2, <1>4, <2>1, <2>2, <2>3
<1>8. ASSUME NEW p \in Procs, NEW j \in Jobs, handleResult(p, j)
      PROVE  Streamed /\ Ran /\ Answered /\ Rest
  <2>1. /\ job' = [job EXCEPT ![j] = IF @ = "pending" THEN "result" ELSE @]
        /\ posts' \subseteq posts /\ age' = Renewed(j) /\ UNCHANGED <<stream, reg, proc, cut, lost, used>>
    BY <1>8 DEF handleResult
  <2>2. Answered
    BY <1>0, <2>1 DEF TypeOK, Answers
  <2> QED
    BY <1>0, <1>2, <1>3, <1>5, <2>1, <2>2 DEF TypeOK
<1>9. ASSUME NEW p \in Procs, NEW j \in Jobs, handleChunk(p, j)
      PROVE  Streamed /\ Ran /\ Answered /\ Rest
  BY <1>0, <1>2, <1>3, <1>4, <1>5, <1>9 DEF handleChunk, TypeOK
<1>10. ASSUME NEW p \in Procs, handleBeat(p) \/ Heal(p)
       PROVE  Streamed /\ Ran /\ Answered /\ Rest
  BY <1>0, <1>2, <1>3, <1>4, <1>10 DEF handleBeat, Heal, TypeOK
<1>11. ASSUME NEW j \in Jobs, Timeout(j)
       PROVE  Streamed /\ Ran /\ Answered /\ Rest
  <2>1. Answered
    BY <1>0, <1>11 DEF Timeout, TypeOK, Answers
  <2> QED
    BY <1>0, <1>2, <1>3, <1>11, <2>1 DEF Timeout, TypeOK
<1>12. CASE Quiet
  BY <1>0, <1>2, <1>3, <1>4, <1>12 DEF Quiet, TypeOK
<1>13. ASSUME sweepStale \/ \E s \in Streams : Close(s)
       PROVE  Streamed /\ Ran /\ Answered /\ Rest
  <2>1. PICK s \in Streams, h \in {"ended", "closed"} :
          /\ stream' = [stream EXCEPT ![s].hub = h]
          /\ reg' = IF reg = s THEN NoStream ELSE reg
          /\ age' \in 0 .. 2 /\ UNCHANGED <<proc, cut, job, posts, lost, used>>
    <3>1. CASE sweepStale
      <4>1. /\ reg \in Streams /\ stream' = [stream EXCEPT ![reg].hub = "ended"]
            /\ reg' = NoStream /\ age' \in 0 .. 2 /\ UNCHANGED <<proc, cut, job, posts, lost, used>>
        BY <1>0, <3>1 DEF sweepStale, TypeOK
      <4> QED
        BY <4>1
    <3>2. CASE \E s \in Streams : Close(s)
      <4>1. PICK s \in Streams : Close(s)
        BY <3>2
      <4>2. /\ stream' = [stream EXCEPT ![s].hub = "closed"] /\ reg' = IF reg = s THEN NoStream ELSE reg
            /\ age' \in 0 .. 2 /\ UNCHANGED <<proc, cut, job, posts, lost, used>>
        BY <1>0, <4>1 DEF Close, TypeOK
      <4> QED
        BY <4>2
    <3> QED
      BY <1>13, <3>1, <3>2
  <2>2. stream[s] \in StreamRec /\ [stream[s] EXCEPT !.hub = h] \in StreamRec
    BY <1>0 DEF StreamRec
  <2>3. stream' \in [Streams -> StreamRec]
    BY <1>0, <2>1, <2>2
  <2>4. \A t \in Streams : stream'[t].frames = stream[t].frames
    BY <1>0, <2>1, <2>2 DEF StreamRec
  <2>5. ASSUME NEW t \in Streams, stream'[t].hub = "open"
        PROVE  stream[t].hub = "open" /\ reg' = reg
    <3>1. t # s
      BY <1>0, <2>1, <2>5 DEF StreamRec
    <3>2. stream[t].hub = "open"
      BY <1>0, <2>1, <2>5, <3>1
    <3>3. reg = t
      BY <1>0, <3>2 DEF OpenIsRegistered
    <3> QED
      BY <2>1, <3>1, <3>2, <3>3
  <2>6. reg' \in {reg, NoStream}
    BY <2>1
  <2> QED
    BY <1>0, <1>3, <1>4, <2>1, <2>3, <2>4, <2>5, <2>6 DEF TypeOK
<1> QED
  BY <1>6, <1>7, <1>8, <1>9, <1>10, <1>11, <1>12, <1>13

(* The next frame is read: a job starts, a cancel or an alarm kills (handleEvent). *)
LEMMA ReadStep ==
  ASSUME IInv, NEW p \in Procs, handleEvent(p)
  PROVE  IInv' /\ ~KillsPending
<1> DEFINE s == proc[p].cur
           f == stream[s].frames
           frame == Head(f)
<1>0. /\ stream \in [Streams -> StreamRec] /\ proc \in [Procs -> ProcRec] /\ TypeOK
      /\ ReadersHold /\ OpenIsRegistered /\ Settled
  BY DEF IInv, Structure, TypeOK, StreamRec, ProcRec
<1>1. /\ proc[p].mode = "reading" /\ f # <<>>
      /\ stream' = [stream EXCEPT ![s].frames = Tail(f)]
      /\ proc' = [proc EXCEPT ![p].running = (@ \ Killed(p, frame)) \cup Started(frame)]
      /\ UNCHANGED <<reg, age, cut, job, posts, lost, used>>
  BY DEF handleEvent
<1>2. s \in Streams /\ stream[s] \in StreamRec /\ f \in Seq(Frames)
  BY <1>0, <1>1 DEF ReadersHold, StreamRec
<1>3. /\ frame = f[1] /\ 1 \in DOMAIN f /\ frame \in Frames /\ Tail(f) \in Seq(Frames)
      /\ \A k \in DOMAIN Tail(f) : k \in Nat /\ k > 0 /\ k + 1 \in DOMAIN f /\ Tail(f)[k] = f[k + 1]
  BY <1>1, <1>2
<1>4. /\ stream'[s].frames = Tail(f)
      /\ \A t \in Streams : stream'[t].hub = stream[t].hub /\ (t # s => stream'[t].frames = stream[t].frames)
      /\ stream' \in [Streams -> StreamRec]
  <2>1. [stream[s] EXCEPT !.frames = Tail(f)] \in StreamRec
    BY <1>2, <1>3, StreamUpdates
  <2> QED
    BY <1>0, <1>1, <1>2, <2>1 DEF StreamRec
<1>5. /\ \A q \in Procs : /\ proc'[q].mode = proc[q].mode /\ proc'[q].cur = proc[q].cur
                          /\ proc'[q].next = proc[q].next
                          /\ q # p => proc'[q].running = proc[q].running
      /\ proc'[p].running = (proc[p].running \ Killed(p, frame)) \cup Started(frame)
  BY <1>0, <1>1 DEF ProcRec
<1>6. Started(frame) \in SUBSET Jobs /\ (\A j \in Started(frame) : frame.kind = "job" /\ frame.job = j)
  BY <1>3 DEF Started, Frames
<1>7. Structure'
  <2>1. proc' \in [Procs -> ProcRec]
    <3>1. (proc[p].running \ Killed(p, frame)) \cup Started(frame) \in SUBSET Jobs /\ proc[p] \in ProcRec
      BY <1>0, <1>6 DEF ProcRec
    <3> HIDE DEF frame
    <3> QED
      BY <1>0, <1>1, <3>1 DEF ProcRec
  <2>2. TypeOK'
    BY <1>0, <1>1, <1>4, <2>1 DEF TypeOK, StreamRec, ProcRec
  <2>3. OpenIsRegistered' /\ ReadersHold'
    <3> HIDE DEF s, f, frame
    <3> QED
      BY <1>0, <1>1, <1>4, <1>5 DEF OpenIsRegistered, ReadersHold
  <2> QED
    BY <2>2, <2>3 DEF Structure
<1> HIDE DEF s, f, frame
<1>8. ASSUME NEW t \in Streams
      PROVE  /\ \A kind, j : Has(t, kind, j)' => Has(t, kind, j)
             /\ HasAlarm(t)' => HasAlarm(t)
             /\ t = s /\ HasAlarm(t)' => \E l \in DOMAIN f : 1 < l /\ f[l].kind = "alarm"
  <2>1. CASE t # s
    BY <2>1, <1>4 DEF Has, HasAlarm
  <2>2. CASE t = s
    <3>1. stream'[t].frames = Tail(f) /\ stream[t].frames = f
      BY <2>2, <1>4 DEF f
    <3> QED
      BY <1>3, <3>1 DEF Has, HasAlarm
  <2> QED
    BY <2>1, <2>2
<1>9. /\ \A j \in Started(frame) : Has(s, "job", j)
      /\ frame.kind = "alarm" => HasAlarm(s)
      /\ frame.kind = "cancel" => Has(s, "cancel", frame.job)
  BY <1>3, <1>6 DEF Has, HasAlarm, f
<1>10. FreshJobs'
  BY <1>0, <1>1, <1>2, <1>5, <1>8, <1>9 DEF Settled, FreshJobs
<1>11. CancelsSettled'
  BY <1>0, <1>1, <1>8 DEF Settled, CancelsSettled
<1>12. AlarmIsBehind'
  <2>1. SUFFICES ASSUME NEW t \in Streams, NEW k \in DOMAIN stream'[t].frames,
                        NEW l \in DOMAIN stream'[t].frames, k < l,
                        stream'[t].frames[k].kind = "job", stream'[t].frames[l].kind = "alarm"
                 PROVE  job'[stream'[t].frames[k].job] # "pending"
    BY DEF AlarmIsBehind
  <2>2. CASE t # s
    BY <1>0, <1>1, <1>4, <2>1, <2>2 DEF Settled, AlarmIsBehind
  <2>3. CASE t = s
    <3>1. stream'[t].frames = Tail(f) /\ stream[t].frames = f
      BY <2>3, <1>4 DEF f
    <3>2. /\ k + 1 \in DOMAIN f /\ l + 1 \in DOMAIN f /\ k + 1 < l + 1
          /\ f[k + 1].kind = "job" /\ f[l + 1].kind = "alarm" /\ stream'[t].frames[k] = f[k + 1]
      BY <1>3, <2>1, <3>1
    <3> QED
      BY <1>0, <1>1, <3>1, <3>2 DEF Settled, AlarmIsBehind
  <2> QED
    BY <2>2, <2>3
<1>13. AlarmSettles'
  <2>1. ASSUME NEW q \in Procs, NEW j \in Jobs, job'[j] = "pending",
               NEW t \in Streams, t \in {proc'[q].cur, proc'[q].next}, HasAlarm(t)'
        PROVE  j \notin proc'[q].running
    <3>1. t \in {proc[q].cur, proc[q].next} /\ HasAlarm(t) /\ job[j] = "pending"
      BY <1>1, <1>5, <1>8, <2>1
    <3>2. j \notin proc[q].running
      BY <1>0, <3>1 DEF Settled, AlarmSettles
    <3>3. ASSUME q = p, j \in Started(frame)
          PROVE  FALSE
      <4>1. f[1].kind = "job" /\ f[1].job = j
        BY <1>3, <1>6, <3>3
      <4>2. CASE t = s
        <5>1. PICK l \in DOMAIN f : 1 < l /\ f[l].kind = "alarm"
          BY <1>8, <2>1, <4>2
        <5> QED
          BY <1>0, <1>2, <1>3, <3>1, <4>1, <5>1 DEF Settled, AlarmIsBehind, f
      <4>3. CASE t # s
        <5>1. t = proc[p].next /\ s = proc[p].cur
          BY <3>1, <3>3, <4>3 DEF s
        <5>2. Has(s, "job", j)
          BY <1>9, <3>3
        <5> QED
          BY <1>0, <1>2, <3>1, <5>1, <5>2 DEF Settled, AlarmSettles
      <4> QED
        BY <4>2, <4>3
    <3> QED
      BY <1>5, <3>2, <3>3
  <2>2. ASSUME NEW q \in Procs, NEW j \in Jobs, job'[j] = "pending", NEW c \in Streams, NEW n \in Streams,
               c = proc'[q].cur, n = proc'[q].next, HasAlarm(n)'
        PROVE  ~Has(c, "job", j)'
    <3>1. c = proc[q].cur /\ n = proc[q].next /\ HasAlarm(n) /\ job[j] = "pending"
      BY <1>1, <1>5, <1>8, <2>2
    <3>2. ~Has(c, "job", j)
      BY <1>0, <3>1 DEF Settled, AlarmSettles
    <3> QED
      BY <1>8, <3>2
  <2> QED
    BY <2>1, <2>2 DEF AlarmSettles
<1>14. ~KillsPending
  <2>1. ASSUME NEW j \in Jobs, j \in proc[p].running, j \notin proc'[p].running
        PROVE  job[j] # "pending"
    <3>1. j \in Killed(p, frame)
      BY <1>5, <2>1
    <3>2. (frame.kind = "cancel" /\ frame.job = j) \/ frame.kind = "alarm"
      BY <1>3, <3>1 DEF Killed, Frames
    <3>3. CASE frame.kind = "cancel" /\ frame.job = j
      BY <1>0, <1>2, <1>9, <3>3 DEF Settled, CancelsSettled, Answers
    <3>4. CASE frame.kind = "alarm"
      <4>1. HasAlarm(s) /\ s \in {proc[p].cur, proc[p].next}
        BY <1>9, <3>4 DEF s
      <4> QED
        BY <1>0, <1>2, <2>1, <4>1 DEF Settled, AlarmSettles
    <3> QED
      BY <3>2, <3>3, <3>4
  <2> QED
    BY <1>5, <2>1 DEF KillsPending
<1> QED
  BY <1>7, <1>10, <1>11, <1>12, <1>13, <1>14 DEF IInv, Settled

(* A frame of appended frames is one of either part. *)
LEMMA AppendedFrames ==
  ASSUME NEW f \in Seq(Frames), NEW g \in Seq(Frames), NEW k \in DOMAIN (f \o g)
  PROVE  /\ k \in Nat /\ Len(f) \in Nat /\ k <= Len(f) + Len(g)
         /\ \/ k \in DOMAIN f /\ k <= Len(f) /\ (f \o g)[k] = f[k]
            \/ k > Len(f) /\ k - Len(f) \in DOMAIN g /\ (f \o g)[k] = g[k - Len(f)]
  OBVIOUS

(* A write of frames that only settle, or of one new job, keeps alarms behind what they may kill *)
(* (dispatchStream, onAbort, cancelAll).                                                         *)
LEMMA WriteStep ==
  ASSUME IInv, NEW g \in Seq(Frames), Written(g), proc' = proc, reg' = reg, TypeOK',
         \A j \in Jobs : \/ job'[j] = job[j]
                         \/ job[j] = "pending" /\ job'[j] \in Answers
                         \/ job[j] = "none" /\ job'[j] = "pending",
         \A k \in DOMAIN g : g[k].kind = "cancel" => job'[g[k].job] \in Answers,
         \A k \in DOMAIN g : g[k].kind = "job" => job'[g[k].job] = "pending" /\ Len(g) = 1,
         \A k \in DOMAIN g : g[k].kind = "alarm" => \A j \in Jobs : job'[j] # "pending"
  PROVE  IInv' /\ ~KillsPending
<1>0. /\ stream \in [Streams -> StreamRec] /\ TypeOK /\ reg \in Streams \cup {NoStream} /\ lost \subseteq Jobs
      /\ ReadersHold /\ OpenIsRegistered /\ Settled /\ NoStream \notin Streams
  BY HubConstants DEF IInv, Structure, TypeOK, StreamRec, Streams, NoStream
<1>1. ASSUME NEW s \in Streams
      PROVE  /\ stream'[s].hub = stream[s].hub /\ stream[s].frames \in Seq(Frames)
             /\ \/ stream'[s].frames = stream[s].frames
                \/ s = reg /\ stream'[s].frames = stream[s].frames \o g
  BY <1>0, WrittenType DEF StreamRec
<1>2. Structure'
  BY <1>0, <1>1 DEF Structure, OpenIsRegistered, ReadersHold
<1>3. ASSUME NEW s \in Streams, NEW j \in Jobs, NEW kind, Has(s, kind, j)', kind # "alarm"
      PROVE  Has(s, kind, j) \/ (s = reg /\ \E k \in DOMAIN g : g[k].kind = kind /\ g[k].job = j)
  <2>1. PICK k \in DOMAIN stream'[s].frames :
          stream'[s].frames[k].kind = kind /\ stream'[s].frames[k].job = j
    BY <1>3 DEF Has
  <2>2. CASE stream'[s].frames = stream[s].frames
    BY <2>1, <2>2 DEF Has
  <2>3. CASE s = reg /\ stream'[s].frames = stream[s].frames \o g
    BY <1>1, <2>1, <2>3, AppendedFrames DEF Has
  <2> QED
    BY <1>1, <2>2, <2>3
<1>4. ASSUME NEW s \in Streams, HasAlarm(s)', NEW j \in Jobs, job'[j] = "pending"
      PROVE  HasAlarm(s)
  <2>1. PICK k \in DOMAIN stream'[s].frames : stream'[s].frames[k].kind = "alarm"
    BY <1>4 DEF HasAlarm
  <2>2. CASE stream'[s].frames = stream[s].frames
    BY <2>1, <2>2 DEF HasAlarm
  <2>3. CASE s = reg /\ stream'[s].frames = stream[s].frames \o g
    BY <1>1, <1>4, <2>1, <2>3, AppendedFrames DEF HasAlarm
  <2> QED
    BY <1>1, <2>2, <2>3
<1>5. FreshJobs'
  <2>1. ASSUME NEW j \in Jobs, job'[j] = "none"
        PROVE  job[j] = "none"
    BY <2>1 DEF Answers
  <2>2. ASSUME NEW j \in Jobs, job'[j] = "none", NEW s \in Streams, Has(s, "job", j)'
        PROVE  FALSE
    BY <1>0, <1>3, <2>1, <2>2 DEF Settled, FreshJobs
  <2> QED
    BY <1>0, <2>1, <2>2 DEF Settled, FreshJobs
<1>6. CancelsSettled'
  <2>1. ASSUME NEW s \in Streams, NEW j \in Jobs, Has(s, "cancel", j)'
        PROVE  job'[j] \in Answers
    BY <1>0, <1>3, <2>1 DEF Settled, CancelsSettled, Answers
  <2> QED
    BY <2>1 DEF CancelsSettled
<1>7. AlarmIsBehind'
  <2>1. SUFFICES ASSUME NEW s \in Streams, NEW k \in DOMAIN stream'[s].frames,
                        NEW l \in DOMAIN stream'[s].frames, k < l,
                        stream'[s].frames[k].kind = "job", stream'[s].frames[l].kind = "alarm",
                        job'[stream'[s].frames[k].job] = "pending"
                 PROVE  FALSE
    BY DEF AlarmIsBehind
  <2>2. PICK j \in Jobs : j = stream'[s].frames[k].job
    <3>1. stream'[s].frames \in Seq(Frames)
      BY DEF TypeOK
    <3> QED
      BY <3>1, <2>1 DEF Frames
  <2>3. HasAlarm(s)' /\ Has(s, "job", j)' /\ job'[j] = "pending"
    BY <2>1, <2>2 DEF HasAlarm, Has
  <2>4. CASE job[j] = "none"
    <3>1. ~Has(s, "job", j)
      BY <1>0, <2>2, <2>4 DEF Settled, FreshJobs
    <3>2. s = reg /\ \E m \in DOMAIN g : g[m].kind = "job"
      BY <1>3, <2>2, <2>3, <3>1
    <3>3. Len(g) = 1 /\ g[1].kind = "job"
      BY <3>2
    <3>4. stream'[s].frames # stream[s].frames
      BY <2>1, <2>2, <3>1 DEF Has
    <3>5. stream'[s].frames = stream[s].frames \o g
      BY <1>1, <3>4
    <3>6. ~(k \in DOMAIN stream[s].frames /\ stream'[s].frames[k] = stream[s].frames[k])
      BY <2>1, <2>2, <3>1 DEF Has
    <3>7. k = Len(stream[s].frames) + 1 /\ Len(stream[s].frames) \in Nat
      BY <1>1, <3>3, <3>5, <3>6, AppendedFrames
    <3>8. l \in Nat /\ l <= Len(stream[s].frames) + 1
      BY <1>1, <2>1, <3>3, <3>5, AppendedFrames
    <3> QED
      BY <2>1, <3>7, <3>8
  <2>5. CASE job[j] = "pending"
    <3>1. stream'[s].frames = stream[s].frames
          \/ (k \in DOMAIN stream[s].frames /\ stream'[s].frames[k] = stream[s].frames[k])
      <4>1. CASE stream'[s].frames = stream[s].frames \o g
        <5>1. CASE k \in DOMAIN stream[s].frames /\ stream'[s].frames[k] = stream[s].frames[k]
          BY <5>1
        <5>2. CASE k > Len(stream[s].frames) /\ k - Len(stream[s].frames) \in DOMAIN g
                   /\ stream'[s].frames[k] = g[k - Len(stream[s].frames)]
          <6>1. Len(g) = 1
            BY <2>1, <5>2
          <6>2. l \in Nat /\ l <= Len(stream[s].frames) + 1 /\ k \in Nat /\ Len(stream[s].frames) \in Nat
            BY <1>1, <2>1, <4>1, <6>1, AppendedFrames
          <6> QED
            BY <2>1, <5>2, <6>2
        <5> QED
          BY <1>1, <4>1, <5>1, <5>2, AppendedFrames
      <4> QED
        BY <1>1, <4>1
    <3>2. l \in DOMAIN stream[s].frames /\ stream[s].frames[l].kind = "alarm"
      <4>1. CASE stream'[s].frames = stream[s].frames \o g
        BY <1>1, <2>1, <2>2, <4>1, AppendedFrames
      <4> QED
        BY <1>1, <2>1, <4>1
    <3> QED
      BY <1>0, <2>1, <2>2, <2>5, <3>1, <3>2 DEF Settled, AlarmIsBehind
  <2> QED
    BY <2>3, <2>4, <2>5 DEF Answers
<1>8. AlarmSettles'
  <2>1. ASSUME NEW p \in Procs, NEW j \in Jobs, job'[j] = "pending",
               NEW s \in Streams, s \in {proc'[p].cur, proc'[p].next}, HasAlarm(s)'
        PROVE  j \notin proc'[p].running
    <3>1. HasAlarm(s) /\ (job[j] = "pending" \/ job[j] = "none")
      BY <1>4, <2>1 DEF Answers
    <3> QED
      BY <1>0, <2>1, <3>1 DEF Settled, AlarmSettles, FreshJobs
  <2>2. ASSUME NEW p \in Procs, NEW j \in Jobs, job'[j] = "pending", NEW c \in Streams, NEW n \in Streams,
               c = proc'[p].cur, n = proc'[p].next, HasAlarm(n)'
        PROVE  ~Has(c, "job", j)'
    <3>1. HasAlarm(n) /\ (job[j] = "pending" \/ job[j] = "none")
      BY <1>4, <2>2 DEF Answers
    <3>2. ~Has(c, "job", j)
      BY <1>0, <2>2, <3>1 DEF Settled, AlarmSettles, FreshJobs
    <3>3. c # reg
      BY <1>0, <2>2 DEF ReadersHold
    <3> QED
      BY <1>3, <3>2, <3>3
  <2> QED
    BY <2>1, <2>2 DEF AlarmSettles
<1>9. ~KillsPending
  BY DEF KillsPending
<1> QED
  BY <1>2, <1>5, <1>6, <1>7, <1>8, <1>9 DEF IInv, Settled

(* The hub's own writes: a dispatch, an abort, the fire alarm. *)
LEMMA HubSteps ==
  ASSUME IInv, cancelAll \/ \E j \in Jobs : dispatchStream(j) \/ onAbort(j)
  PROVE  IInv' /\ ~KillsPending
<1>0. /\ stream \in [Streams -> StreamRec] /\ TypeOK /\ reg \in Streams \cup {NoStream} /\ lost \subseteq Jobs
      /\ MaxUpsets \in Nat /\ MaxFaults \in Nat
  BY HubConstants DEF IInv, Structure, TypeOK, StreamRec
<1>1. ASSUME NEW j \in Jobs, dispatchStream(j)
      PROVE  IInv' /\ ~KillsPending
  <2>1. CASE reg = NoStream
    <3>1. job' = [job EXCEPT ![j] = "offline"] /\ job[j] = "none"
          /\ UNCHANGED <<stream, lost, reg, age, proc, cut, posts, used>>
      BY <1>1, <2>1 DEF dispatchStream
    <3>2. TypeOK'
      BY <1>0, <3>1 DEF TypeOK, Answers
    <3>3. OpenIsRegistered' /\ ReadersHold'
      BY <3>1 DEF IInv, Structure, OpenIsRegistered, ReadersHold
    <3>4. \A i \in Jobs : (job'[i] \in {"none", "pending"} => job'[i] = job[i])
                          /\ (job[i] \in Answers => job'[i] \in Answers)
      BY <1>0, <3>1 DEF TypeOK, Answers
    <3>5. \A s \in Streams : /\ HasAlarm(s)' = HasAlarm(s)
                             /\ \A kind, i : Has(s, kind, i)' = Has(s, kind, i)
      BY <3>1 DEF HasAlarm, Has
    <3>6. FreshJobs' /\ CancelsSettled'
      BY <3>1, <3>4, <3>5 DEF IInv, Settled, FreshJobs, CancelsSettled
    <3>7. AlarmIsBehind'
      <4>1. ASSUME NEW s \in Streams, NEW k \in DOMAIN stream[s].frames, stream[s].frames[k].kind = "job"
            PROVE  stream[s].frames[k].job \in Jobs
        <5>1. stream[s].frames \in Seq(Frames)
          BY <1>0 DEF StreamRec
        <5> QED
          BY <4>1, <5>1 DEF Frames
      <4> QED
        BY <3>1, <3>4, <4>1 DEF IInv, Settled, AlarmIsBehind
    <3>8. AlarmSettles'
      BY <3>1, <3>4 DEF IInv, Settled, AlarmSettles, HasAlarm, Has
    <3> QED
      BY <3>1, <3>2, <3>3, <3>6, <3>7, <3>8 DEF IInv, Structure, Settled, KillsPending
  <2>2. CASE reg # NoStream
    <3> DEFINE g == <<[kind |-> "job", job |-> j]>>
    <3>1. /\ job' = [job EXCEPT ![j] = "pending"] /\ job[j] = "none" /\ Written(g)
          /\ UNCHANGED <<reg, age, proc, cut, posts, used>>
      BY <1>1, <2>2 DEF dispatchStream
    <3>2. /\ g \in Seq(Frames) /\ Len(g) = 1 /\ DOMAIN g = {1} /\ g[1].kind = "job" /\ g[1].job = j
      BY DEF Frames
    <3> HIDE DEF g
    <3>3. TypeOK'
      BY <1>0, <3>1, <3>2, WrittenType DEF TypeOK, StreamRec
    <3>4. job'[j] = "pending" /\ \A i \in Jobs : i # j => job'[i] = job[i]
      BY <1>0, <3>1 DEF TypeOK
    <3> QED
      BY <3>1, <3>2, <3>3, <3>4, WriteStep
  <2> QED
    BY <2>1, <2>2
<1>2. ASSUME NEW j \in Jobs, onAbort(j)
      PROVE  IInv' /\ ~KillsPending
  <2> DEFINE g == <<[kind |-> "cancel", job |-> j]>>
  <2>1. /\ job' = [job EXCEPT ![j] = "aborted"] /\ job[j] = "pending" /\ Written(g)
        /\ UNCHANGED <<reg, age, proc, cut, posts, used>>
    BY <1>2 DEF onAbort
  <2>2. /\ g \in Seq(Frames) /\ DOMAIN g = {1} /\ g[1].kind = "cancel" /\ g[1].job = j
    BY DEF Frames
  <2> HIDE DEF g
  <2>3. TypeOK'
    BY <1>0, <2>1, <2>2, WrittenType DEF TypeOK, StreamRec, Answers
  <2>4. job'[j] \in Answers /\ \A i \in Jobs : i # j => job'[i] = job[i]
    BY <1>0, <2>1 DEF TypeOK, Answers
  <2> QED
    BY <2>1, <2>2, <2>3, <2>4, WriteStep
<1>3. ASSUME cancelAll
      PROVE  IInv' /\ ~KillsPending
  <2>1. /\ Written(AlarmFrames) /\ job' = [j \in Jobs |-> IF j \in Pending THEN "aborted" ELSE job[j]]
        /\ used' = [used EXCEPT !.upsets = @ + 1] /\ used.upsets < MaxUpsets
        /\ UNCHANGED <<reg, age, proc, cut, posts>>
    BY <1>3 DEF cancelAll, AlarmFrames
  <2>2. /\ AlarmFrames \in Seq(Frames)
        /\ \A k \in DOMAIN AlarmFrames : AlarmFrames[k].kind # "alarm"
             => AlarmFrames[k].kind = "cancel" /\ AlarmFrames[k].job \in Pending
    BY AlarmFramesType
  <2>3. used' \in [faults : 0 .. MaxFaults, upsets : 0 .. MaxUpsets]
    BY <1>0, <2>1 DEF TypeOK
  <2>4. job' \in [Jobs -> {"none", "pending"} \cup Answers]
    BY <1>0, <2>1 DEF TypeOK, Answers
  <2>5. TypeOK'
    BY <1>0, <2>1, <2>2, <2>3, <2>4, WrittenType DEF TypeOK, StreamRec
  <2>6. ASSUME NEW j \in Jobs
        PROVE  /\ job'[j] # "pending"
               /\ job'[j] = job[j] \/ (job[j] = "pending" /\ job'[j] \in Answers)
               /\ j \in Pending => job'[j] \in Answers
    BY <2>1 DEF Pending, Answers
  <2>7. Pending \subseteq Jobs
    BY DEF Pending
  <2>8. /\ \A k \in DOMAIN AlarmFrames : AlarmFrames[k].kind = "cancel" => job'[AlarmFrames[k].job] \in Answers
        /\ \A k \in DOMAIN AlarmFrames : AlarmFrames[k].kind # "job"
    BY <2>2, <2>6, <2>7
  <2> QED
    BY <2>1, <2>2, <2>5, <2>6, <2>8, WriteStep
<1> QED
  BY <1>1, <1>2, <1>3

(* Every step keeps the invariant and kills nothing that is still waited for. *)
LEMMA StepInv ==
  ASSUME IInv, [Next]_vars
  PROVE  IInv' /\ ~KillsPending
<1>1. ASSUME NEW p \in Procs, NodeStep(p) \/ Boot(p) \/ Redial(p) \/ Cut(p) \/ Die(p)
      PROVE  IInv' /\ ~KillsPending
  <2>1. CASE handleEvent(p)
    BY <2>1, ReadStep
  <2>2. CASE ~handleEvent(p)
    <3>1. Boot(p) \/ Dial(p) \/ Redial(p) \/ RedialConfirmed(p) \/ LetGo(p) \/ Cut(p) \/ Die(p)
      BY <1>1, <2>2 DEF NodeStep, StreamEnds, Lapse
    <3> QED
      BY <3>1, StreamSteps
  <2> QED
    BY <2>1, <2>2
<1>2. CASE cancelAll \/ \E j \in Jobs : dispatchStream(j) \/ onAbort(j)
  BY <1>2, HubSteps
<1>3. CASE \/ UNCHANGED vars
           \/ \E p \in Procs, j \in Jobs : Finish(p, j) \/ handleResult(p, j) \/ handleChunk(p, j)
           \/ \E p \in Procs : handleBeat(p) \/ Heal(p)
           \/ \E j \in Jobs : Timeout(j)
           \/ Quiet \/ sweepStale
           \/ \E s \in Streams : Close(s)
  BY <1>3, OtherSteps
<1> QED
  BY <1>1, <1>2, <1>3 DEF Next

(* The invariant of the hub. *)
THEOREM Invariant == Spec => []IInv
<1>1. IInv /\ [Next]_vars => IInv'
  BY StepInv
<1> QED
  BY <1>1, InitInv, PTL DEF Spec

(* The types hold in every reachable state. *)
THEOREM Typing == Spec => []TypeOK
<1>1. IInv => TypeOK
  BY DEF IInv, Structure
<1> QED
  BY <1>1, Invariant, PTL

(* A process that reads a live stream the hub has not ended holds the name: no close, sweep or   *)
(* reconnect of another stream leaves it connected and unreachable (handleStream's close          *)
(* handler, sweepStale), for any number of processes, streams, cuts and deaths.                   *)
THEOREM ReaderHoldsTheName == Spec => []ReaderIsRegistered
<1>1. IInv => ReaderIsRegistered
  BY DEF IInv, Structure, OpenIsRegistered, ReadersHold, ReaderIsRegistered
<1> QED
  BY <1>1, Invariant, PTL

(* A cancel or an alarm never overtakes into work dispatched after it: a shell is killed only     *)
(* when nobody waits for it any more, whatever streams its process changed in between              *)
(* (handleEvent, onAbort, cancelAll).                                                              *)
THEOREM KillsAreSettled == Spec => KillsOnlySettled
<1>1. IInv /\ [Next]_vars
        => [\A p \in Procs, j \in Jobs :
              j \in proc[p].running /\ j \notin proc'[p].running /\ proc'[p].mode = "reading"
                => job[j] # "pending" \/ <<p, j>> \in posts' \/ p \in cut]_vars
  <2>1. ASSUME IInv, [Next]_vars
        PROVE  ~KillsPending
    BY <2>1, StepInv
  <2> QED
    BY <2>1 DEF KillsPending
<1> QED
  BY <1>1, Invariant, PTL DEF Spec, KillsOnlySettled
====
