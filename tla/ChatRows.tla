------------------------------- MODULE ChatRows -------------------------------
(***************************************************************************)
(* The event vocabulary of a durable chat turn and the pure half of        *)
(* chatjobs.mjs: coalesceEvents, which turns a batch of live SSE events     *)
(* into the rows one flush writes, and the two queries that read them back. *)
(*                                                                          *)
(* Text is abstracted to the positions of the token events it came from: a  *)
(* live token delta at position n (the first event is 0) carries <<n>>, a   *)
(* coalesced "fat" delta the positions of every token in its run, in order. *)
(* Concatenating deltas is concatenating these sequences, so "the text      *)
(* reconstitutes exactly" becomes an equation on sequences of positions.    *)
(***************************************************************************)
EXTENDS Integers, Sequences, FiniteSets

(* Event types jobEmit distinguishes. "tool" stands for every structural    *)
(* event with no special treatment (route, context, tool, checkpoint,       *)
(* budget ...).                                                             *)
LiveTypes == {"job", "token", "working", "tool", "error", "stopped", "done"}

(* Framing only /chat/attach writes; it is never part of a job's buffer.    *)
FrameTypes == LiveTypes \cup {"reset", "cursor", "gone"}

Event == [type : LiveTypes, data : Seq(Nat)]
Frame == [type : FrameTypes, data : Seq(Nat)]

Token(n)  == [type |-> "token", data |-> <<n>>]
Plain(t)  == [type |-> t, data |-> <<>>]
Cursor(n) == [type |-> "cursor", data |-> <<n>>]

(* A row of the events table: `span` live events starting at `seq`.         *)
Row == [seq : Nat, span : Nat \ {0}, ev : Event]

RowEnd(r) == r.seq + r.span

-----------------------------------------------------------------------------
IsToken(events, i) == events[i].type = "token"

(* The contiguous runs of token deltas in a batch, as <<first, last>>.      *)
TokenRuns(events) ==
  { run \in (DOMAIN events) \X (DOMAIN events) :
      /\ run[1] <= run[2]
      /\ \A i \in run[1] .. run[2] : IsToken(events, i)
      /\ run[1] - 1 \in DOMAIN events => ~IsToken(events, run[1] - 1)
      /\ run[2] + 1 \in DOMAIN events => ~IsToken(events, run[2] + 1) }

(* A run collapses into one row whose delta is the run's deltas in order.   *)
RunRow(events, startSeq, run) ==
  [ seq  |-> startSeq + run[1] - 1,
    span |-> run[2] - run[1] + 1,
    ev   |-> [ type |-> "token",
               data |-> [k \in 1 .. (run[2] - run[1] + 1) |->
                           events[run[1] + k - 1].data[1]] ] ]

(* A structural event is stored as it is.                                   *)
PlainRow(events, startSeq, i) ==
  [seq |-> startSeq + i - 1, span |-> 1, ev |-> events[i]]

(* Seeded fault: the token run still open at the end of the batch is not     *)
(* pushed.                                                                   *)
coalesceEvents_LosesOpenRun(events, startSeq) ==
  { RunRow(events, startSeq, run) :
      run \in { u \in TokenRuns(events) : u[2] < Len(events) } }
    \cup
  { PlainRow(events, startSeq, i) :
      i \in { k \in DOMAIN events : events[k].type \notin {"token", "working"} } }

(* coalesceEvents: token runs merge, structural events stay, `working`      *)
(* heartbeats are dropped although their sequence number is consumed.       *)
coalesceEvents(events, startSeq) ==
  { RunRow(events, startSeq, run) : run \in TokenRuns(events) }
    \cup
  { PlainRow(events, startSeq, i) :
      i \in { k \in DOMAIN events : events[k].type \notin {"token", "working"} } }

-----------------------------------------------------------------------------
(* ORDER BY seq: the i-th row is the one with i - 1 rows below it.          *)
InSeqOrder(rows) ==
  [ i \in 1 .. Cardinality(rows) |->
      CHOOSE r \in rows : Cardinality({q \in rows : q.seq < r.seq}) = i - 1 ]

(* replayRows: evAll when the cursor is 0, else the rows that end after it  *)
(* (one that straddles the cursor is included whole).                       *)
replayRows(rows, fromSeq) ==
  InSeqOrder(IF fromSeq > 0 THEN {r \in rows : RowEnd(r) > fromSeq} ELSE rows)

(* The events of a replay, in the order attach writes them.                 *)
EventsOf(replay) == [i \in DOMAIN replay |-> replay[i].ev]

(* The text each beginning of a list of events adds up to: the token deltas,*)
(* concatenated.                                                            *)
TextUpTo(events) ==
  LET upTo[i \in 0 .. Len(events)] ==
        IF i = 0 THEN <<>>
        ELSE IF events[i].type = "token" THEN upTo[i - 1] \o events[i].data
        ELSE upTo[i - 1]
  IN upTo

TextOf(events) == TextUpTo(events)[Len(events)]
=============================================================================
