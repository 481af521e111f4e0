---------------------------------- MODULE Hub ----------------------------------
(***************************************************************************)
(* The hands hub (hands/hub.mjs) and the node processes that dial into it    *)
(* (hands/hands.mjs), for one node name: who holds the name, what happens to  *)
(* a job whose connection drops, and whether Stop reaches the machine.        *)
(*                                                                           *)
(* A stream is one /hands/stream connection. Frames written to it reach the   *)
(* process that reads it in order, or not at all when the path died or the    *)
(* process gave the stream up. Results and chunks come back as POSTs of their *)
(* own. A process that restarts has a new instance token, so it is another    *)
(* process here.                                                              *)
(***************************************************************************)
EXTENDS Integers, Sequences, FiniteSets, SequencesExt

CONSTANTS
  Procs,        \* node processes that present this node's name
  Legacy,       \* those that predate instance tokens and beats
  Jobs,         \* dispatches
  Shell,        \* those the node tracks in RUNNING (shell_run)
  NumStreams,   \* bound: connections that exist at once
  MaxFaults,    \* bound: network cuts and process deaths
  MaxUpsets     \* bound: planned re-dials and fire alarms

ASSUME HubConstants ==
  /\ Procs # {} /\ IsFiniteSet(Jobs)
  /\ Legacy \subseteq Procs /\ Shell \subseteq Jobs /\ NumStreams \in Nat \ {0}
  /\ MaxFaults \in Nat /\ MaxUpsets \in Nat

Streams == 1 .. NumStreams
NoStream == 0

VARIABLES
  stream,   \* the connections: who opened it, hub's side of it, frames under way
  reg,      \* nodes.get(name): the registered stream
  age,      \* how long ago its lastInbound was: 0 recent, 1 quiet, 2 stale
  proc,     \* the node processes
  cut,      \* processes whose network path is down
  job,      \* the dispatches, and what they resolved to
  posts,    \* results on their way to the hub
  lost,     \* history: jobs a frame of which was never read, or not by the process with the job
  used      \* how much of each bound has been spent

vars == <<stream, reg, age, proc, cut, job, posts, lost, used>>

Frames == [kind : {"job", "cancel"}, job : Jobs] \cup [kind : {"alarm"}]

Answers == {"result", "offline", "timedOut", "aborted"}

TypeOK ==
  /\ stream \in [Streams -> [by : Procs, hub : {"closed", "open", "ended"}, up : BOOLEAN,
                             frames : Seq(Frames)]]
  /\ reg \in Streams \cup {NoStream}
  /\ age \in 0 .. 2
  /\ proc \in [Procs -> [mode : {"off", "backoff", "reading", "dead"},
                         cur : Streams \cup {NoStream}, next : Streams \cup {NoStream},
                         running : SUBSET Jobs]]
  /\ cut \subseteq Procs
  /\ job \in [Jobs -> {"none", "pending"} \cup Answers]
  /\ posts \subseteq Procs \X Jobs
  /\ lost \subseteq Jobs
  /\ used \in [faults : 0 .. MaxFaults, upsets : 0 .. MaxUpsets]

Init ==
  /\ stream = [s \in Streams |-> [by |-> CHOOSE p \in Procs : TRUE, hub |-> "closed",
                                  up |-> FALSE, frames |-> <<>>]]
  /\ reg = NoStream
  /\ age = 0
  /\ proc = [p \in Procs |-> [mode |-> "off", cur |-> NoStream, next |-> NoStream,
                              running |-> {}]]
  /\ cut = {}
  /\ job = [j \in Jobs |-> "none"]
  /\ posts = {}
  /\ lost = {}
  /\ used = [faults |-> 0, upsets |-> 0]

Alive(p) == proc[p].mode \in {"backoff", "reading"}
Reads(p, s) == proc[p].mode = "reading" /\ proc[p].cur = s
Held(s) == \E p \in Procs : s \in {proc[p].cur, proc[p].next}
FreeStreams == { s \in Streams : s # reg /\ ~Held(s) }

(* The jobs these frames are about. *)
About(frames) == { j \in Jobs : \E k \in DOMAIN frames :
                     frames[k].kind # "alarm" /\ frames[k].job = j }

(* Streams that nobody will read any more: what they carry is lost, and one the hub had    *)
(* ended is over on both sides.                                                            *)
GivesUp(ss) ==
  /\ stream' = [s \in Streams |->
                  IF s \in ss THEN [ stream[s] EXCEPT !.up = FALSE, !.frames = <<>>,
                                        !.hub = IF s = reg THEN @ ELSE "closed" ]
                  ELSE stream[s]]
  /\ lost' = lost \cup UNION { About(stream[s].frames) : s \in ss }

-----------------------------------------------------------------------------
(* handleStream: the process that holds the name by its token preempts its own stream;  *)
(* another one is adopted only once the registered stream has gone quiet.               *)
sameProcess(p) == p \notin Legacy /\ stream[reg].by = p

(* Seeded fault: only the process that holds the name may take it over. *)
Adopts_Fault(p) == reg # NoStream => sameProcess(p)

Adopts(p) == reg # NoStream => sameProcess(p) \/ age > 0

(* The new stream is registered and the previous one ended. *)
Registers(p, s) ==
  /\ stream' = [ t \in Streams |->
                   IF t = s THEN [by |-> p, hub |-> "open", up |-> TRUE, frames |-> <<>>]
                   ELSE IF t = reg THEN [stream[t] EXCEPT !.hub = "ended"] ELSE stream[t] ]
  /\ reg' = s
  /\ age' = 0

Boot(p) ==
  /\ proc[p].mode = "off"
  /\ proc' = [proc EXCEPT ![p].mode = "backoff"]
  /\ UNCHANGED <<stream, reg, age, cut, job, posts, lost, used>>

(* openStream after the backoff; a refusal (409) leaves the process waiting. *)
Dial(p) ==
  /\ proc[p].mode = "backoff" /\ p \notin cut /\ Adopts(p) /\ FreeStreams # {}
  /\ LET s == Min(FreeStreams)
     IN /\ Registers(p, s)
        /\ proc' = [proc EXCEPT ![p].mode = "reading", ![p].cur = s]
  /\ UNCHANGED <<cut, job, posts, lost, used>>

(* The planned re-dial: the hub registers the replacement and ends the current stream   *)
(* before the process hears of either.                                                  *)
Redial(p) ==
  /\ proc[p].mode = "reading" /\ proc[p].next = NoStream /\ p \notin cut
  /\ Adopts(p) /\ FreeStreams # {} /\ used.upsets < MaxUpsets
  /\ LET s == Min(FreeStreams)
     IN /\ Registers(p, s)
        /\ proc' = [proc EXCEPT ![p].next = s]
  /\ used' = [used EXCEPT !.upsets = @ + 1]
  /\ UNCHANGED <<cut, job, posts, lost>>

(* The replacement is confirmed first: the old stream is aborted, unread frames and all. *)
RedialConfirmed(p) ==
  /\ proc[p].mode = "reading" /\ proc[p].next # NoStream /\ p \notin cut
  /\ stream[proc[p].next].up
  /\ proc' = [proc EXCEPT ![p].cur = proc[p].next, ![p].next = NoStream]
  /\ GivesUp({proc[p].cur})
  /\ UNCHANGED <<reg, age, cut, job, posts, used>>

(* The process drops every stream it holds and backs off. *)
LetGo(p) ==
  /\ proc' = [proc EXCEPT ![p].mode = "backoff", ![p].cur = NoStream, ![p].next = NoStream]
  /\ GivesUp({proc[p].cur, proc[p].next} \ {NoStream})
  /\ UNCHANGED <<reg, age, cut, job, posts, used>>

(* The end of the old stream arrives first: "stream ended", even when a replacement was   *)
(* being opened, which nobody will read.                                                  *)
StreamEnds(p) ==
  /\ proc[p].mode = "reading" /\ stream[proc[p].cur].up
  /\ stream[proc[p].cur].hub # "open" /\ stream[proc[p].cur].frames = <<>>
  /\ LetGo(p)

(* No byte for HEARTBEAT_LAPSE_MS, or the path broke. *)
Lapse(p) ==
  /\ proc[p].mode = "reading" /\ ~stream[proc[p].cur].up
  /\ LetGo(p)

-----------------------------------------------------------------------------
(* handleEvent: a job starts at once; a cancel kills the shell it names, an alarm every    *)
(* shell; other tools cannot be killed.                                                    *)
Killed(p, frame) ==
  IF frame.kind = "job" THEN {}
  ELSE proc[p].running \cap Shell \cap (IF frame.kind = "alarm" THEN Jobs ELSE {frame.job})

Started(frame) == IF frame.kind = "job" THEN {frame.job} ELSE {}

handleEvent(p) ==
  LET s == proc[p].cur
      frame == Head(stream[s].frames)
  IN /\ proc[p].mode = "reading" /\ stream[s].up /\ stream[s].frames # <<>>
     /\ stream' = [stream EXCEPT ![s].frames = Tail(@)]
     /\ proc' = [proc EXCEPT ![p].running = (@ \ Killed(p, frame)) \cup Started(frame)]
     /\ UNCHANGED <<reg, age, cut, job, posts, lost, used>>

(* executeJob returns and postResult sends what it returned, once. *)
Finish(p, j) ==
  /\ Alive(p) /\ j \in proc[p].running
  /\ proc' = [proc EXCEPT ![p].running = @ \ {j}]
  /\ posts' = IF p \in cut THEN posts ELSE posts \cup {<<p, j>>}
  /\ UNCHANGED <<stream, reg, age, cut, job, lost, used>>

(* Any result or chunk of a job still waited for renews whatever stream holds the name. *)
Renewed(j) == IF reg # NoStream /\ job[j] = "pending" THEN 0 ELSE age

handleResult(p, j) ==
  /\ <<p, j>> \in posts
  /\ posts' = posts \ {<<p, j>>}
  /\ age' = Renewed(j)
  /\ job' = [job EXCEPT ![j] = IF @ = "pending" THEN "result" ELSE @]
  /\ UNCHANGED <<stream, reg, proc, cut, lost, used>>

handleChunk(p, j) ==
  /\ Alive(p) /\ p \notin cut /\ j \in proc[p].running
  /\ age' = Renewed(j)
  /\ UNCHANGED <<stream, reg, proc, cut, job, posts, lost, used>>

handleBeat(p) ==
  /\ Alive(p) /\ p \notin cut /\ p \notin Legacy
  /\ reg # NoStream /\ stream[reg].by = p
  /\ age' = 0
  /\ UNCHANGED <<stream, reg, proc, cut, job, posts, lost, used>>

(* Seeded fault: age runs past stale. *)
Quiet_Fault ==
  /\ reg # NoStream
  /\ age' = age + 1
  /\ UNCHANGED <<stream, reg, proc, cut, job, posts, lost, used>>

(* Time without inbound evidence. Three beats fit into STALE_EVICT_MS, so a stream goes    *)
(* stale only when its process cannot beat.                                                *)
Quiet ==
  /\ reg # NoStream /\ age < 2
  /\ age = 0 \/ ~Alive(stream[reg].by) \/ stream[reg].by \in cut \cup Legacy
  /\ age' = age + 1
  /\ UNCHANGED <<stream, reg, proc, cut, job, posts, lost, used>>

sweepStale ==
  /\ reg # NoStream /\ age = 2 /\ stream[reg].by \notin Legacy
  /\ stream' = [stream EXCEPT ![reg].hub = "ended"]
  /\ reg' = NoStream
  /\ age' = 0
  /\ UNCHANGED <<proc, cut, job, posts, lost, used>>

(* Streams whose "close" event may come. *)
OtherSideGone(s) ==
  \/ stream[s].hub = "ended"
  \/ stream[s].hub = "open" /\ (~Held(s) \/ ~stream[s].up)

(* Seeded fault: the close of any stream frees the name. *)
Close_Fault(s) ==
  /\ OtherSideGone(s)
  /\ stream' = [stream EXCEPT ![s].hub = "closed"]
  /\ reg' = NoStream
  /\ age' = 0
  /\ UNCHANGED <<proc, cut, job, posts, lost, used>>

(* The "close" event of a stream the hub ended, or whose other side is gone; of one cut    *)
(* off it may never come.                                                                  *)
Close(s) ==
  /\ OtherSideGone(s)
  /\ stream' = [stream EXCEPT ![s].hub = "closed"]
  /\ reg' = IF reg = s THEN NoStream ELSE reg
  /\ age' = IF reg = s THEN 0 ELSE age
  /\ UNCHANGED <<proc, cut, job, posts, lost, used>>

-----------------------------------------------------------------------------
(* Jobs that went to another process than the one that holds the name now. *)
Elsewhere ==
  { j \in Jobs : \/ \E p \in Procs \ {stream[reg].by} : j \in proc[p].running
                 \/ \E s \in Streams : stream[s].by # stream[reg].by
                                         /\ j \in About(stream[s].frames) }

(* A write to the registered stream; one nobody reads succeeds and goes nowhere. *)
Written(frames) ==
  IF reg # NoStream /\ stream[reg].up
  THEN /\ stream' = [stream EXCEPT ![reg].frames = @ \o frames]
       /\ lost' = lost \cup (About(frames) \cap Elsewhere)
  ELSE /\ lost' = lost \cup About(frames)
       /\ UNCHANGED stream

(* dispatchStream: offline at once, or a job frame and a deadline. *)
dispatchStream(j) ==
  /\ job[j] = "none"
  /\ IF reg = NoStream
     THEN job' = [job EXCEPT ![j] = "offline"] /\ UNCHANGED <<stream, lost>>
     ELSE job' = [job EXCEPT ![j] = "pending"] /\ Written(<<[kind |-> "job", job |-> j]>>)
  /\ UNCHANGED <<reg, age, proc, cut, posts, used>>

(* Seeded fault: only a node still registered lets the deadline fire. *)
Timeout_Fault(j) ==
  /\ job[j] = "pending" /\ reg # NoStream
  /\ job' = [job EXCEPT ![j] = "timedOut"]
  /\ UNCHANGED <<stream, reg, age, proc, cut, posts, lost, used>>

(* The deadline: nothing is sent to the node. *)
Timeout(j) ==
  /\ job[j] = "pending"
  /\ job' = [job EXCEPT ![j] = "timedOut"]
  /\ UNCHANGED <<stream, reg, age, proc, cut, posts, lost, used>>

(* Seeded fault: the wait is over before the cancel looks its job up. *)
onAbort_Fault(j) ==
  /\ job[j] = "pending"
  /\ job' = [job EXCEPT ![j] = "aborted"]
  /\ UNCHANGED <<stream, reg, age, proc, cut, posts, lost, used>>

(* onAbort: cancelJob down whatever stream holds the name now, then the wait is over. *)
onAbort(j) ==
  /\ job[j] = "pending"
  /\ Written(<<[kind |-> "cancel", job |-> j]>>)
  /\ job' = [job EXCEPT ![j] = "aborted"]
  /\ UNCHANGED <<reg, age, proc, cut, posts, used>>

Pending == { j \in Jobs : job[j] = "pending" }

(* Seeded fault: the alarm does not settle what it cancels. *)
cancelAll_Fault ==
  /\ used.upsets < MaxUpsets
  /\ Written(<<[kind |-> "alarm"]>>)
  /\ used' = [used EXCEPT !.upsets = @ + 1]
  /\ UNCHANGED <<reg, age, proc, cut, job, posts>>

(* cancelAll: every pending job is cancelled and settled, then the node told to kill the   *)
(* rest.                                                                                   *)
cancelAll ==
  /\ used.upsets < MaxUpsets
  /\ Written([k \in 1 .. Cardinality(Pending) |->
                 [kind |-> "cancel", job |-> SetToSeq(Pending)[k]]]
             \o <<[kind |-> "alarm"]>>)
  /\ job' = [j \in Jobs |-> IF j \in Pending THEN "aborted" ELSE job[j]]
  /\ used' = [used EXCEPT !.upsets = @ + 1]
  /\ UNCHANGED <<reg, age, proc, cut, posts>>

-----------------------------------------------------------------------------
(* The path of a process breaks: what it holds is dead, and no end of it is seen. *)
Break(p) ==
  /\ GivesUp({ s \in Streams : stream[s].by = p })
  /\ posts' = { m \in posts : m[1] # p }
  /\ used' = [used EXCEPT !.faults = @ + 1]

Cut(p) ==
  /\ Alive(p) /\ p \notin cut /\ used.faults < MaxFaults
  /\ Break(p)
  /\ cut' = cut \cup {p}
  /\ UNCHANGED <<reg, age, proc, job>>

Heal(p) ==
  /\ p \in cut
  /\ cut' = cut \ {p}
  /\ UNCHANGED <<stream, reg, age, proc, job, posts, lost, used>>

Die(p) ==
  /\ Alive(p) /\ used.faults < MaxFaults
  /\ Break(p)
  /\ proc' = [proc EXCEPT ![p] = [mode |-> "dead", cur |-> NoStream, next |-> NoStream,
                                  running |-> {}]]
  /\ UNCHANGED <<reg, age, cut, job>>

-----------------------------------------------------------------------------
NodeStep(p) ==
  \/ Dial(p) \/ RedialConfirmed(p) \/ StreamEnds(p) \/ Lapse(p) \/ handleEvent(p)

Next ==
  \/ \E p \in Procs : \/ NodeStep(p) \/ Boot(p) \/ Redial(p) \/ handleBeat(p)
                      \/ Cut(p) \/ Heal(p) \/ Die(p)
  \/ \E p \in Procs, j \in Jobs : Finish(p, j) \/ handleResult(p, j) \/ handleChunk(p, j)
  \/ \E j \in Jobs : dispatchStream(j) \/ Timeout(j) \/ onAbort(j)
  \/ Quiet \/ sweepStale \/ cancelAll
  \/ \E s \in Streams : Close(s)

Spec == Init /\ [][Next]_vars

(* Processes keep dialling and reading, the hub's timers and its sweep fire. *)
FairSpec ==
  /\ Spec
  /\ \A p \in Procs : WF_vars(NodeStep(p))
  /\ \A j \in Jobs : WF_vars(Timeout(j))
  /\ WF_vars(Quiet) /\ WF_vars(sweepStale)

-----------------------------------------------------------------------------
(* A process that reads a live stream the hub has not ended holds the name: no close, sweep  *)
(* or reconnect of another stream leaves it connected and unreachable (handleStream's close   *)
(* handler, sweepStale).                                                                      *)
ReaderIsRegistered ==
  \A p \in Procs : proc[p].mode = "reading" =>
    LET s == proc[p].cur IN stream[s].up /\ stream[s].hub = "open" => reg = s

(* A shell is killed only when nobody waits for it any more: a cancel or an alarm never       *)
(* overtakes into work dispatched after it, whatever stream it went down (handleEvent).       *)
KillsOnlySettled ==
  [][\A p \in Procs, j \in Jobs :
       j \in proc[p].running /\ j \notin proc'[p].running /\ proc'[p].mode = "reading"
         => job[j] # "pending" \/ <<p, j>> \in posts' \/ p \in cut]_vars

(* Every dispatch is answered: "never a hang" (dispatchStream's deadline), with the node       *)
(* gone, its stream half open, or its name taken over.                                         *)
DispatchSettles == \A j \in Jobs : job[j] = "pending" ~> job[j] \in Answers

(* Stop reaches the machine: a shell whose dispatch was aborted stops running, unless the       *)
(* connection lost a frame of it or another process took the name over (onAbort before done,    *)
(* frames in order).                                                                            *)
StopReaches ==
  \A j \in Shell : job[j] = "aborted" ~> j \in lost \/ \A p \in Procs : j \notin proc[p].running

(* No lockout: a process left alone with a working network gets the name back, whatever          *)
(* half-open stream holds it (RECENT_INBOUND_MS, STALE_EVICT_MS, legacy nodes included).         *)
Reconnects ==
  \A p \in Procs :
    <>[](Alive(p) /\ p \notin cut /\ \A q \in Procs \ {p} : ~Alive(q))
      => []<>(reg # NoStream /\ Reads(p, reg))

(* What the planned re-dial is said to be: "zero gap". With no fault, no frame is lost. *)
RedialGapFree == used.faults = 0 => lost = {}

(* "Fire Alarm: kill everything this node is doing": with no frame lost, nothing settled by     *)
(* it runs on.                                                                                  *)
AlarmKillsAll ==
  \A j \in Jobs : job[j] = "aborted" ~> j \in lost \/ \A p \in Procs : j \notin proc[p].running

(* What lastInbound is said to be: advanced only by the process whose stream holds the name. *)
EvidenceIsOwn ==
  [][reg # NoStream /\ reg' = reg /\ age > 0 /\ age' = 0
       => Alive(stream[reg].by) /\ stream[reg].by \notin cut]_vars
=============================================================================
