----------------------------- MODULE ChatJobAnswer -----------------------------
(***************************************************************************)
(* The transport of ChatJob implements the promise of Answer: batches,       *)
(* coalesced rows, three attach modes, reloads and adoption are invisible to *)
(* a reader who only sees the text and the merged message.                   *)
(***************************************************************************)
EXTENDS ChatJob

Promise == INSTANCE Answer WITH
  answer  <- TextBelow(Len(log)),
  closed  <- turn \in {"closing", "over"},
  shown   <- client.raw,
  merged  <- client.final,
  expired <- db.status = "gone"

(* Every step of the durable turn is a step of the abstract answer or is     *)
(* invisible to it: what processEvent shows is always a prefix of what        *)
(* jobEmit accepted, and what finalizeSession or deliverResult merge is all   *)
(* of it.                                                                     *)
ImplementsAnswer == Promise!AbsSpec
=============================================================================
