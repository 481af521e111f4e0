-------------------------------- MODULE Answer --------------------------------
(***************************************************************************)
(* What a durable chat turn promises its reader, with no transport in sight:*)
(* an answer grows one delta at a time until it is closed; the screen always *)
(* shows a prefix of it (possibly an older one while it catches up); and the *)
(* one message merged into the transcript is the whole answer, never merged  *)
(* before the answer is closed. Retention may expire an answer nobody came   *)
(* for.                                                                      *)
(***************************************************************************)
EXTENDS Naturals, Sequences

VARIABLES answer, closed, shown, merged, expired

absVars == <<answer, closed, shown, merged, expired>>

Prefixes(s) == {SubSeq(s, 1, n) : n \in 0 .. Len(s)}

AbsInit ==
  /\ answer = <<>> /\ shown = <<>>
  /\ closed = FALSE /\ merged = FALSE /\ expired = FALSE

(* The model produced one more delta. *)
Grow ==
  /\ ~closed
  /\ Len(answer') = Len(answer) + 1
  /\ SubSeq(answer', 1, Len(answer)) = answer
  /\ UNCHANGED <<closed, shown, merged, expired>>

(* The turn ended, in whatever way. *)
Close ==
  /\ ~closed /\ closed' = TRUE
  /\ UNCHANGED <<answer, shown, merged, expired>>

(* The screen moves to any prefix of what exists. *)
Show ==
  /\ ~merged
  /\ shown' \in Prefixes(answer)
  /\ UNCHANGED <<answer, closed, merged, expired>>

(* The finished answer enters the transcript, whole. *)
Merge ==
  /\ closed /\ ~merged
  /\ merged' = TRUE
  /\ shown' = answer
  /\ UNCHANGED <<answer, closed, expired>>

Expire ==
  /\ closed /\ ~expired
  /\ expired' = TRUE
  /\ UNCHANGED <<answer, closed, shown, merged>>

(* The reader was told the answer is gone and keeps what it had. *)
GiveUpExpired ==
  /\ expired /\ ~merged
  /\ merged' = TRUE
  /\ UNCHANGED <<answer, closed, shown, expired>>

AbsNext == Grow \/ Close \/ Show \/ Merge \/ Expire \/ GiveUpExpired

AbsSpec == AbsInit /\ [][AbsNext]_absVars
=============================================================================
