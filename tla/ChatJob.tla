-------------------------------- MODULE ChatJob --------------------------------
(***************************************************************************)
(* One durable chat turn, end to end: the live half of the job in           *)
(* server.mjs (CHAT_JOBS record, jobEmit, flushJob, finishJob, /chat/attach, *)
(* /chat/stop, the SIGTERM drain), its durable half in chatjobs.mjs (the     *)
(* jobs row and its coalesced event rows, the boot sweep, retention), and    *)
(* the reader in public/app.js that follows it over SSE connections that may *)
(* die at any frame.                                                         *)
(*                                                                           *)
(* node runs each handler tick to completion, so a tick (all its emits, the  *)
(* flush they trigger, the frames they write) is one action; whatever lies   *)
(* across an await is another.                                               *)
(***************************************************************************)
EXTENDS ChatRows

CONSTANTS
  TailCap,        \* CHATJOBS_TAIL: live events the RAM tail keeps
  FlushMax,       \* pending events that force a flush (64 in jobEmit)
  MaxBody,        \* bound: events a turn emits before it ends
  MaxCuts,        \* bound: sockets that die
  MaxReloads,     \* bound: app reloads / chat switches
  MaxKills,       \* bound: hard kills of the process
  MaxDrains,      \* bound: SIGTERM deploy cutovers
  MaxLate,        \* bound: tokens the handler still writes after a drain sealed its job
  MaxStoreFails,  \* bound: ticks in which SQLite refuses a write
  CutMidReplay    \* may a socket die inside a compacted replay?

ASSUME ChatJobConstants ==
  /\ TailCap \in Nat \ {0}
  /\ FlushMax \in Nat \ {0}
  /\ MaxBody \in Nat /\ MaxCuts \in Nat /\ MaxReloads \in Nat
  /\ MaxKills \in Nat /\ MaxDrains \in Nat
   /\ MaxLate \in Nat /\ MaxStoreFails \in Nat
  /\ CutMidReplay \in BOOLEAN

VARIABLES
  log,     \* history: every event jobEmit accepted, in order
  job,     \* the CHAT_JOBS record
  db,      \* the jobs row and its events rows
  turn,    \* where the /chat handler is
  server,  \* the process: "up", "draining" (after SIGTERM) or "down"
  conn,    \* the connection the server still writes to, if any
  net,     \* frames written and not yet read by the client, in order
  client,  \* the on-screen session and the persisted liveJobs entry
  used     \* how much of each bound has been spent

vars == <<log, job, db, turn, server, conn, net, client, used>>

JobRecord ==
  [ inRam : BOOLEAN, tail : Seq(Event), tailStart : Nat, eventCount : Nat,
    pending : Seq(Event), sawDone : BOOLEAN, done : BOOLEAN, stopped : BOOLEAN ]

(* "gone": retention deleted the row. *)
Statuses == {"running", "done", "stopped", "error", "orphaned", "gone"}
Store == [status : Statuses, eventCount : Nat, rows : SUBSET Row]

Client ==
  [ known : BOOLEAN,      \* liveJobs has this job's id
    session : BOOLEAN,    \* liveSession exists
    eventIndex : Nat, raw : Seq(Nat),
    done : BOOLEAN, stopped : BOOLEAN, gone : BOOLEAN, err : BOOLEAN,
    started : BOOLEAN,    \* a frame of the current connection has been read
    final : BOOLEAN ]     \* the turn has been merged into the transcript

(* The reader's connection is the response of the POST that started the turn,*)
(* which the handler writes itself, or an attach response, fed by the job's  *)
(* listeners.                                                                *)
Connections == {"none", "post", "attach"}

Bounds == [late : Nat, cuts : Nat, reloads : Nat, kills : Nat, drains : Nat, fails : Nat]

TypeOK ==
  /\ log \in Seq(Event)
  /\ job \in JobRecord
  /\ db \in Store
  /\ turn \in {"start", "running", "closing", "over"}
  /\ server \in {"up", "draining", "down"}
  /\ conn \in Connections
  /\ net \in Seq(Frame)
  /\ client \in Client
  /\ used \in Bounds

-----------------------------------------------------------------------------
(* createChatJob inserts the RAM record and the 'running' row in one tick,  *)
(* before the first event; the client's POST /chat response is open.        *)
FreshJob ==
  [ inRam |-> TRUE, tail |-> <<>>, tailStart |-> 0, eventCount |-> 0,
    pending |-> <<>>, sawDone |-> FALSE, done |-> FALSE, stopped |-> FALSE ]

FreshStore == [status |-> "running", eventCount |-> 0, rows |-> {}]

FreshSession(known) ==
  [ known |-> known, session |-> TRUE, eventIndex |-> 0, raw |-> <<>>,
    done |-> FALSE, stopped |-> FALSE, gone |-> FALSE, err |-> FALSE,
    started |-> FALSE, final |-> FALSE ]

Init ==
  /\ log = <<>>
  /\ job = FreshJob
  /\ db = FreshStore
  /\ turn = "start"
  /\ server = "up"
  /\ conn = "post"
  /\ net = <<>>
  /\ client = FreshSession(FALSE)
  /\ used = [late |-> 0, cuts |-> 0, reloads |-> 0, kills |-> 0, drains |-> 0, fails |-> 0]

-----------------------------------------------------------------------------
(* The store's writes. Each is a transaction; `ok` is FALSE when SQLite      *)
(* throws, which the callers swallow.                                        *)
appendRows(d, rows, eventCount, ok) ==
  IF ok THEN [d EXCEPT !.rows = @ \cup rows, !.eventCount = eventCount] ELSE d

finish(d, status, ok) == IF ok THEN [d EXCEPT !.status = status] ELSE d

(* The live half. A server state s is [log, job, db]; the operators below    *)
(* are the functions of the same names in server.mjs.                        *)
ServerState == [log |-> log, job |-> job, db |-> db]

(* Seeded fault: the batch is numbered from the end of the event count.      *)
flushJob_NumberedFromEnd(s, ok) ==
  IF s.job.pending = <<>> THEN s
  ELSE [s EXCEPT
    !.job.pending = <<>>,
    !.db = appendRows(s.db, coalesceEvents(s.job.pending, s.job.eventCount),
                      s.job.eventCount, ok)]

(* Seeded fault: a refused batch stays pending, also in a sealed job.        *)
flushJob_KeepsRefused(s, ok) ==
  IF s.job.pending = <<>> \/ ~ok THEN s
  ELSE [s EXCEPT
    !.job.pending = <<>>,
    !.db = appendRows(s.db,
             coalesceEvents(s.job.pending, s.job.eventCount - Len(s.job.pending)),
             s.job.eventCount, ok)]

flushJob(s, ok) ==
  IF s.job.pending = <<>> THEN s
  ELSE [s EXCEPT
    !.job.pending = <<>>,
    !.db = appendRows(s.db,
             coalesceEvents(s.job.pending, s.job.eventCount - Len(s.job.pending)),
             s.job.eventCount, ok)]

(* Seeded fault: done waits for the timer like a token.                      *)
IsStructural_NotDone(o) == o.type \notin {"token", "working", "done"}

IsStructural(o) == o.type \notin {"token", "working"}

(* The RAM tail keeps the last TailCap events. *)
Spill(tail) == IF Len(tail) > TailCap THEN Tail(tail) ELSE tail

(* Seeded fault: tailStart computed from the event count alone.              *)
Buffered_TailFromCount(s, o) ==
  [ log |-> Append(s.log, o),
    db  |-> s.db,
    job |-> [s.job EXCEPT
      !.tail = Spill(Append(@, o)),
      !.tailStart = s.job.eventCount + 1 - TailCap,
      !.eventCount = @ + 1,
      !.sawDone = @ \/ o.type = "done",
      !.pending = Append(@, o)] ]

Buffered(s, o) ==
  [ log |-> Append(s.log, o),
    db  |-> s.db,
    job |-> [s.job EXCEPT
      !.tail = Spill(Append(@, o)),
      !.tailStart = IF Len(s.job.tail) + 1 > TailCap THEN @ + 1 ELSE @,
      !.eventCount = @ + 1,
      !.sawDone = @ \/ o.type = "done",
      !.pending = Append(@, o)] ]

jobEmit(s, o, ok) ==
  LET b == Buffered(s, o)
  IN IF s.job.done THEN s
     ELSE IF IsStructural(o) \/ Len(b.job.pending) >= FlushMax
     THEN flushJob(b, ok)
     ELSE b

FinalStatus(j) ==
  CASE j.stopped -> "stopped" [] ~j.stopped /\ j.sawDone -> "done" [] OTHER -> "error"

finishJob(s, ok, okStatus) ==
  IF s.job.done THEN s
  ELSE LET f == flushJob([s EXCEPT !.job.done = TRUE], ok)
       IN [f EXCEPT !.db = finish(f.db, FinalStatus(f.job), okStatus)]

-----------------------------------------------------------------------------
(* A store failure is taken from its bound. *)
StoreOutcome(ok) ==
  /\ ok \/ used.fails < MaxStoreFails
  /\ used' = IF ok THEN used ELSE [used EXCEPT !.fails = @ + 1]

Commit(s) == log' = s.log /\ job' = s.job /\ db' = s.db

(* The frames of one handler tick. `sse` writes the POST response itself,     *)
(* whatever jobEmit did with the event; an attach response only sees what     *)
(* jobEmit passed to the listeners, none once the job is sealed. endStream    *)
(* ends both: the listeners through finishJob, the POST response directly.    *)
Stream(events, end) ==
  /\ net' = IF conn = "post" \/ (conn = "attach" /\ ~job.done)
            THEN net \o events ELSE net
  /\ conn' = IF end THEN "none" ELSE conn

-----------------------------------------------------------------------------
(* The /chat handler. *)

(* The first event of a job names it. *)
StartTurn(ok) ==
  /\ server # "down" /\ turn = "start"
  /\ StoreOutcome(ok)
  /\ Commit(jobEmit(ServerState, Plain("job"), ok))
  /\ Stream(<<Plain("job")>>, FALSE)
  /\ turn' = "running"
  /\ UNCHANGED <<server, client>>

(* A token delta, a heartbeat or a structural event of the running turn. A   *)
(* stop request does not silence a call that is already in flight.           *)
EmitBody(type, ok) ==
  LET o == IF type = "token" THEN Token(job.eventCount) ELSE Plain(type)
  IN /\ server # "down" /\ turn = "running" /\ ~job.done
     /\ Len(log) < MaxBody
     /\ StoreOutcome(ok)
     /\ Commit(jobEmit(ServerState, o, ok))
     /\ Stream(<<o>>, FALSE)
     /\ UNCHANGED <<turn, server, client>>

(* A handler whose job a drain has sealed still writes its own response:      *)
(* jobEmit drops the event, res.write does not.                               *)
EmitLate ==
  /\ server # "down" /\ turn = "running" /\ job.done
  /\ conn = "post" /\ used.late < MaxLate
  /\ Stream(<<Token(job.eventCount + used.late)>>, FALSE)
  /\ used' = [used EXCEPT !.late = @ + 1]
  /\ UNCHANGED <<log, job, db, turn, server, client>>

(* done and endStream are one tick. *)
CompleteTurn(ok, okStatus) ==
  LET o == Plain("done")
  IN /\ server # "down" /\ turn = "running"
     /\ StoreOutcome(ok /\ okStatus)
     /\ Commit(finishJob(jobEmit(ServerState, o, ok), ok, okStatus))
     /\ Stream(<<o>>, TRUE)
     /\ turn' = "over"
     /\ UNCHANGED <<server, client>>

(* Every other exit emits stopped, after an error or a checkpoint where      *)
(* there is one to explain, and reaches endStream after its awaits           *)
(* (settlement, usage log).                                                  *)
Aborted == job.stopped \/ server = "draining"

HaltTurn(why, ok) ==
  LET first == IF why = "aborted" THEN <<>> ELSE <<Plain(why)>>
      stop  == Plain("stopped")
      s     == IF why = "aborted" THEN ServerState
               ELSE jobEmit(ServerState, Plain(why), ok)
  IN /\ server # "down" /\ turn = "running"
     /\ why = "aborted" <=> Aborted
     /\ StoreOutcome(ok)
     /\ Commit(jobEmit(s, stop, ok))
     /\ Stream(Append(first, stop), FALSE)
     /\ turn' = "closing"
     /\ UNCHANGED <<server, client>>

(* settleTurnSpend repaints the budget window after the turn stopped.        *)
SettleEvent(ok) ==
  LET o == Plain("tool")
  IN /\ server # "down" /\ turn = "closing" /\ ~job.done
     /\ log[Len(log)].type = "stopped"
     /\ StoreOutcome(ok)
     /\ Commit(jobEmit(ServerState, o, ok))
     /\ Stream(<<o>>, FALSE)
     /\ UNCHANGED <<turn, server, client>>

EndStream(ok, okStatus) ==
  /\ server # "down" /\ turn = "closing"
  /\ StoreOutcome(ok /\ okStatus)
  /\ Commit(finishJob(ServerState, ok, okStatus))
  /\ Stream(<<>>, TRUE)
  /\ turn' = "over"
  /\ UNCHANGED <<server, client>>

(* The CHATJOBS_FLUSH_MS timer, armed exactly while events are pending.      *)
FlushTimer(ok) ==
  /\ server # "down" /\ job.inRam /\ job.pending # <<>>
  /\ StoreOutcome(ok)
  /\ Commit(flushJob(ServerState, ok))
  /\ UNCHANGED <<turn, server, conn, net, client>>

(* POST /chat/stop (or the fire alarm): the turn's AbortController fires;    *)
(* the handler notices at its next check.                                    *)
handleChatStop ==
  /\ server = "up" /\ job.inRam /\ ~job.done /\ ~job.stopped
  /\ job' = [job EXCEPT !.stopped = TRUE]
  /\ UNCHANGED <<log, db, turn, server, conn, net, client, used>>

(* gcChatJobs: only a finished record leaves the RAM map. *)
gcChatJobs ==
  /\ server # "down" /\ job.inRam /\ job.done
  /\ job' = [job EXCEPT !.inRam = FALSE, !.tail = <<>>, !.tailStart = 0]
  /\ UNCHANGED <<log, db, turn, server, conn, net, client, used>>

(* gcRetention, for a result nobody collected within its month.              *)
gcRetention ==
  /\ server # "down"
  /\ ~job.inRam /\ db.status \notin {"running", "gone"}
  /\ db' = [db EXCEPT !.status = "gone", !.rows = {}]
  /\ UNCHANGED <<log, job, turn, server, conn, net, client, used>>

-----------------------------------------------------------------------------
(* Process life. *)

(* SIGTERM: no new connections; a running job gets three explanatory events,  *)
(* its handler is aborted, and the job is sealed, all in one tick. The events  *)
(* go through jobEmit, so to attach listeners and the store; the POST response *)
(* is written only by its handler, which goes on until it notices the abort.   *)
Drain(ok, okStatus) ==
  LET told == <<Plain("error"), Plain("tool"), Plain("stopped")>>
      s1 == jobEmit(ServerState, told[1], ok)
      s2 == jobEmit(s1, told[2], ok)
      s3 == jobEmit(s2, told[3], ok)
  IN /\ server = "up" /\ used.drains < MaxDrains
     /\ server' = "draining"
     /\ (ok /\ okStatus) \/ used.fails < MaxStoreFails
     /\ used' = [used EXCEPT !.drains = @ + 1,
                            !.fails = IF ok /\ okStatus THEN @ ELSE @ + 1]
     /\ IF job.inRam /\ ~job.done
        THEN /\ Commit(finishJob(s3, ok, okStatus))
             /\ net' = IF conn = "attach" THEN net \o told ELSE net
             /\ conn' = IF conn = "attach" THEN "none" ELSE conn
        ELSE /\ ok /\ okStatus
             /\ UNCHANGED <<log, job, db, conn, net>>
     /\ UNCHANGED <<turn, client>>

(* Where a connection may break: n more frames arrive. With CutMidReplay      *)
(* FALSE a compacted replay is either read up to its cursor or not begun.      *)
CutPoint(n) ==
  \/ CutMidReplay
  \/ \A i \in n + 1 .. Len(net) : net[i].type # "cursor"
  \/ n = 0 /\ ~client.started

(* The process is gone: the RAM record and its unflushed events are lost; of   *)
(* the frames already written the kernel still delivers n.                     *)
Die(frames, n) ==
  /\ CutPoint(n)
  /\ server' = "down"
  /\ job' = [FreshJob EXCEPT !.inRam = FALSE, !.done = TRUE]
  /\ turn' = "over"
  /\ conn' = "none"
  /\ net' = SubSeq(frames, 1, n)
  /\ UNCHANGED client

Kill(n) ==
  /\ server # "down" /\ used.kills < MaxKills
  /\ Die(net, n)
  /\ used' = [used EXCEPT !.kills = @ + 1]
  /\ UNCHANGED <<log, db>>

(* The rows of a turn's last event and the row's final status are two          *)
(* transactions: the process can be killed between them.                       *)
KillBeforeStatus(n) ==
  LET o == Plain("done")
      s == jobEmit(ServerState, o, TRUE)
      frames == IF conn = "post" \/ (conn = "attach" /\ ~job.done)
                THEN Append(net, o) ELSE net
  IN /\ server # "down" /\ used.kills < MaxKills
     /\ turn = "running" /\ n <= Len(frames)
     /\ Die(frames, n)
     /\ log' = s.log /\ db' = s.db
     /\ used' = [used EXCEPT !.kills = @ + 1]

(* process.exit at the end of the drain. *)
Exit(n) ==
  /\ server = "draining"
  /\ Die(net, n)
  /\ UNCHANGED <<log, db, used>>

(* The synthetic tail of an orphan, at the two sequence numbers after the    *)
(* last durable event.                                                       *)
OrphanTail(n) ==
  { [seq |-> n, span |-> 1, ev |-> Plain("error")],
    [seq |-> n + 1, span |-> 1, ev |-> Plain("stopped")] }

(* Seeded fault: the sweep takes every row, not the running ones.            *)
sweepOrphans_AnyStatus(d) ==
  [ status |-> "orphaned", eventCount |-> d.eventCount + 2,
    rows |-> d.rows \cup OrphanTail(d.eventCount) ]

(* Seeded fault: no sweep at boot.                                           *)
sweepOrphans_Skipped(d) == d

sweepOrphans(d) ==
  IF d.status = "running"
  THEN [ status |-> "orphaned", eventCount |-> d.eventCount + 2,
         rows |-> d.rows \cup OrphanTail(d.eventCount) ]
  ELSE d

Boot ==
  /\ server = "down"
  /\ server' = "up"
  /\ db' = sweepOrphans(db)
  /\ UNCHANGED <<log, job, turn, conn, net, client, used>>

-----------------------------------------------------------------------------
(* The reader. *)

ReaderActive == conn # "none" \/ net # <<>>
Verdict == client.done \/ client.stopped \/ client.gone \/ client.err

(* processEvent, then readSse's own cursor bookkeeping.                      *)
processEvent(c, ev) ==
  [c EXCEPT
    !.started = TRUE,
    !.known = @ \/ ev.type = "job",
    !.raw = CASE ev.type = "reset" -> <<>>
              [] ev.type = "token" -> @ \o ev.data
              [] OTHER -> @,
    !.done = @ \/ ev.type = "done",
    !.stopped = @ \/ ev.type = "stopped",
    !.gone = @ \/ ev.type = "gone",
    !.err = @ \/ ev.type = "error",
    !.eventIndex =
      CASE ev.type = "job" -> 1
        [] ev.type = "cursor" -> ev.data[1]
        [] ev.type = "reset" -> @
        [] OTHER -> IF c.known THEN @ + 1 ELSE @]

readSse ==
  /\ net # <<>> /\ client.session /\ ~client.final
  /\ client' = processEvent(client, Head(net))
  /\ net' = Tail(net)
  /\ UNCHANGED <<log, job, db, turn, server, conn, used>>

(* The phone suspends, the network blips: the connection is gone with        *)
(* whatever it still carried. The turn goes on.                              *)
CutSocket ==
  /\ ReaderActive /\ client.session /\ ~client.final
  /\ used.cuts < MaxCuts
  /\ CutPoint(0)
  /\ conn' = "none" /\ net' = <<>>
  /\ used' = [used EXCEPT !.cuts = @ + 1]
  /\ UNCHANGED <<log, job, db, turn, server, client>>

(* App reload: only the liveJobs entry survives in localStorage.             *)
Reload ==
  /\ ~client.final /\ used.reloads < MaxReloads
  /\ client' = [FreshSession(client.known) EXCEPT !.session = FALSE]
  /\ conn' = "none" /\ net' = <<>>
  /\ used' = [used EXCEPT !.reloads = @ + 1]
  /\ UNCHANGED <<log, job, db, turn, server>>

(* The POST died before the job id arrived: the turn is shown as not sent,   *)
(* and only reconcileJobs can find it again.                                 *)
GiveUp ==
  /\ ~ReaderActive /\ client.session /\ ~client.known
  /\ client' = [FreshSession(FALSE) EXCEPT !.session = FALSE]
  /\ UNCHANGED <<log, job, db, turn, server, conn, net, used>>

(* The frames /chat/attach writes for a cursor, and whether it then          *)
(* subscribes: the three modes of handleChatAttach.                          *)
DbReplay(from) ==
  LET rows == replayRows(db.rows, from)
  IN IF from > 0 /\ (rows = <<>> \/ rows[1].seq # from)
     THEN <<Plain("reset")>> \o EventsOf(replayRows(db.rows, 0))
     ELSE EventsOf(rows)

(* Seeded fault: a full replay without the reset frame.                      *)
RamReplay_NoReset(from) ==
  IF from >= job.tailStart
  THEN SubSeq(job.tail, from - job.tailStart + 1, Len(job.tail))
  ELSE EventsOf(replayRows(db.rows, 0))
         \o EventsOf(InSeqOrder(coalesceEvents(job.pending, 0)))
         \o <<Cursor(job.eventCount)>>

(* Seeded fault: the tail slice starts one event late.                       *)
RamReplay_OffByOne(from) ==
  IF from >= job.tailStart
  THEN SubSeq(job.tail, from - job.tailStart + 2, Len(job.tail))
  ELSE <<Plain("reset")>> \o EventsOf(replayRows(db.rows, 0))
         \o EventsOf(InSeqOrder(coalesceEvents(job.pending, 0)))
         \o <<Cursor(job.eventCount)>>

RamReplay(from) ==
  IF from >= job.tailStart
  THEN SubSeq(job.tail, from - job.tailStart + 1, Len(job.tail))
  ELSE <<Plain("reset")>> \o EventsOf(replayRows(db.rows, 0))
         \o EventsOf(InSeqOrder(coalesceEvents(job.pending, 0)))
         \o <<Cursor(job.eventCount)>>

handleChatAttach(from) ==
  /\ net' = IF job.inRam THEN RamReplay(from)
            ELSE IF db.status = "gone" THEN <<Plain("gone")>>
            ELSE Append(DbReplay(from), Cursor(db.eventCount))
  /\ conn' = IF job.inRam /\ ~job.done THEN "attach" ELSE "none"

(* A session that kept its text resumes at its cursor; a fresh one replays   *)
(* from 0.                                                                   *)
attemptReattach ==
  /\ server = "up"
  /\ ~ReaderActive /\ client.known /\ ~client.final /\ ~Verdict
  /\ client' = IF client.session THEN [client EXCEPT !.started = FALSE]
               ELSE FreshSession(TRUE)
  /\ handleChatAttach(client'.eventIndex)
  /\ UNCHANGED <<log, job, db, turn, server, used>>

(* What /chat/jobs reports: live RAM state over the durable row.             *)
ListedStatus == IF job.inRam /\ ~job.done THEN "running" ELSE db.status

(* reconcileJobs adopts a run this device does not know about ...            *)
AdoptRun ==
  /\ server = "up" /\ ~client.session /\ ~client.known /\ ~client.final
  /\ ListedStatus = "running"
  /\ client' = [client EXCEPT !.known = TRUE]
  /\ UNCHANGED <<log, job, db, turn, server, conn, net, used>>

(* ... and delivers a finished one without opening a stream.                 *)
deliverResult ==
  /\ server = "up" /\ ~client.session /\ ~client.final
  /\ ListedStatus \notin {"running", "gone"}
  /\ client' = [client EXCEPT !.raw = TextOf(EventsOf(replayRows(db.rows, 0))),
                              !.final = TRUE]
  /\ UNCHANGED <<log, job, db, turn, server, conn, net, used>>

(* The reader ended with a verdict: the message is merged.                   *)
finalizeSession ==
  /\ ~ReaderActive /\ client.session /\ ~client.final /\ Verdict
  /\ client' = [client EXCEPT !.final = TRUE]
  /\ UNCHANGED <<log, job, db, turn, server, conn, net, used>>

-----------------------------------------------------------------------------
TurnStep ==
  \/ \E ok \in BOOLEAN :
       \/ StartTurn(ok)
       \/ \E type \in {"token", "working", "tool"} : EmitBody(type, ok)
       \/ SettleEvent(ok)
  \/ EmitLate

EndTurn ==
  \E ok, okStatus \in BOOLEAN :
    \/ CompleteTurn(ok, okStatus)
    \/ \E why \in {"aborted", "error", "tool"} : okStatus /\ HaltTurn(why, ok)
    \/ EndStream(ok, okStatus)

Process ==
  \/ \E ok, okStatus \in BOOLEAN : Drain(ok, okStatus)
  \/ \E n \in 0 .. Len(net) : Kill(n) \/ Exit(n)
  \/ \E n \in 0 .. Len(net) + 1 : KillBeforeStatus(n)
  \/ Boot

Reader == readSse \/ GiveUp \/ attemptReattach \/ AdoptRun
            \/ deliverResult \/ finalizeSession

Next ==
  \/ TurnStep \/ EndTurn
  \/ \E ok \in BOOLEAN : FlushTimer(ok)
  \/ handleChatStop \/ gcChatJobs \/ gcRetention
  \/ Process
  \/ Reader \/ CutSocket \/ Reload

Spec == Init /\ [][Next]_vars

(* A turn's model and tool calls are bounded by the server's own timeouts, so *)
(* the handler reaches one of its exits; the platform restarts a dead process *)
(* and a drain ends in process.exit; the client's reattach loop never gives   *)
(* up, and a connection that is not cut delivers what was written to it.      *)
Fairness ==
  /\ WF_vars(\E ok \in BOOLEAN : StartTurn(ok))
  /\ WF_vars(EndTurn)
  /\ WF_vars(Boot)
  /\ WF_vars(\E n \in 0 .. Len(net) : Exit(n))
  /\ WF_vars(Reader)

FairSpec == Spec /\ Fairness

-----------------------------------------------------------------------------
(* The text of the first n events the turn emitted. *)
TextBelow(n) == TextUpTo(log)[n]

(* The client has begun a compacted replay and not reached its cursor. *)
InReplay == client.started /\ \E i \in DOMAIN net : net[i].type = "cursor"

(* While no process died, the text on screen is exactly the text of the first *)
(* eventIndex events: the resume cursor readSse keeps and the text            *)
(* processEvent accumulates never drift apart, whichever of the three attach  *)
(* modes served the catch-up and however the batches were coalesced.          *)
TextExact ==
  client.session /\ ~client.gone /\ ~InReplay
    => client.eventIndex <= Len(log) /\ client.raw = TextBelow(client.eventIndex)

(* A message merged into the transcript holds the whole answer, once: no cut, *)
(* reload, RAM eviction or late adoption loses or repeats a delta. Only a     *)
(* result that retention deleted (gone) may be partial.                       *)
MergedWhole ==
  client.final /\ ~client.gone => client.raw = TextBelow(Len(log))

(* The rows of the events table are disjoint, lie below the row's eventCount, *)
(* and a token row's fat delta is exactly the deltas of the positions it      *)
(* spans. This is what lets a replay be concatenated in seq order.            *)
RowsFaithful ==
  /\ \A r \in db.rows : RowEnd(r) <= db.eventCount
  /\ \A r, q \in db.rows : r # q => RowEnd(r) <= q.seq \/ RowEnd(q) <= r.seq
  /\ \A r \in db.rows :
       r.ev.type = "token" =>
         /\ RowEnd(r) <= Len(log)
         /\ r.ev.data = [k \in 1 .. r.span |-> r.seq + k - 1]
         /\ \A k \in 1 .. r.span : log[r.seq + k].type = "token"

(* The accounting between the two halves of a job: a token event carries its  *)
(* position; while the job is not sealed its row is running and its pending   *)
(* buffer is exactly the end of the event log, past everything the row counts *)
(* as durable; a sealed job has nothing pending.                              *)
Accounting ==
  /\ \A i \in 1 .. Len(log) : log[i].type = "token" => log[i].data = <<i - 1>>
  /\ job.done => job.pending = <<>>
  /\ ~job.done =>
       /\ job.inRam /\ db.status = "running"
       /\ job.eventCount = Len(log)
       /\ db.eventCount + Len(job.pending) <= Len(log)
       /\ \A k \in 1 .. Len(job.pending) :
            job.pending[k] = log[Len(log) - Len(job.pending) + k]

Durable(p) == \E r \in db.rows : r.seq <= p /\ p < RowEnd(r)

(* As long as no write failed, every event but heartbeats that the flush      *)
(* counter says is durable is in a row, and what is not durable is pending in *)
(* RAM and less than one flush batch: a crash loses at most the last window.  *)
LossBounded ==
  used.fails = 0 /\ db.status # "gone" =>
    /\ \A p \in 0 .. db.eventCount - 1 :
         p < Len(log) => log[p + 1].type = "working" \/ Durable(p)
    /\ Len(log) - db.eventCount < FlushMax
    /\ job.inRam => db.eventCount + Len(job.pending) = Len(log)

(* A turn that ended with an explanation is never merged without it: when the *)
(* stored events say error before stopped, a session that took the stopped    *)
(* verdict has seen the error.                                                *)
ExplainedStop ==
  (/\ client.final /\ client.session /\ client.stopped
   /\ \E e, s \in db.rows :
        /\ e.ev.type = "error" /\ s.ev.type = "stopped" /\ e.seq < s.seq
        /\ \A q \in db.rows : q.ev.type = "stopped" => s.seq <= q.seq)
  => client.err

(* A client that was shown a completed answer can find it again: the done     *)
(* event it saw is in the durable record until retention takes the job. Only  *)
(* a record that a drain closed with stopped, under a handler that then       *)
(* completed, lacks it, or one whose last batch SQLite refused.               *)
DoneIsDurable ==
  LET stored(type) == \E r \in db.rows : r.ev.type = type
  IN client.done => db.status = "gone" \/ stored("done") \/ used.fails > 0
                    \/ (used.drains > 0 /\ stored("stopped"))

(* A job that only survives in the store is terminal: no reader is sent to a  *)
(* replay that will never end in a verdict.                                   *)
StoreOnlyTerminal ==
  server # "down" /\ ~job.inRam => db.status # "running"

(* A sealed record never changes: after a terminal status neither a late emit,*)
(* a second finish nor a boot sweep rewrites the verdict or the stored events;*)
(* only retention may delete them.                                            *)
SealedFinal ==
  [][ db.status # "running" => db' = db \/ db'.status = "gone" ]_vars

(* Every run ends in a verdict on the client's screen, whatever was cut,      *)
(* reloaded, drained or killed on the way, unless retention deleted a result  *)
(* nobody asked for or SQLite refused a write (a final status is written once, *)
(* so such a job may stay running until the next boot).                       *)
VerdictReached == <>(client.final \/ db.status = "gone" \/ used.fails > 0)
=============================================================================
