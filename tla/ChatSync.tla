------------------------------- MODULE ChatSync -------------------------------
(***************************************************************************)
(* Cross-device chat sync: the store of one account (chatsync.mjs), the        *)
(* endpoints that reach it (server.mjs) and the browsers that push to it and   *)
(* pull from it (public/app.js). One chat, several devices.                    *)
(*                                                                           *)
(* A chat is merged part by part, each under a clock of its own. A part's       *)
(* value is named by the edit that wrote it; of a transcript the length         *)
(* matters as well. Handlers run without interruption, so a request is one      *)
(* step at the server and one step at the device that gets the answer.          *)
(***************************************************************************)
EXTENDS Integers, Sequences, FiniteSets

CONSTANTS
  Devices,      \* browsers signed in to the account
  Gestures,     \* the sets of parts one action of the user touches
  Migrated,     \* devices whose copy dates from before the parts had clocks
  None,         \* no chat
  Fast,         \* devices whose clock runs ahead of the time of day
  Lead,         \* by how much
  MayShrink,    \* bound: whether users cut transcripts as well as extend them
  MaxEdits, MaxDeletes,   \* bounds: what the users do
  MaxFaults     \* bound: sync calls that fail and writes of chats.json that fail

ASSUME ChatSyncConstants ==
  /\ Migrated \subseteq Devices /\ Fast \subseteq Devices /\ None \notin Devices
  /\ {} \notin Gestures /\ "messages" \in UNION Gestures /\ IsFiniteSet(UNION Gestures)
  /\ MayShrink \in BOOLEAN
  /\ {Lead, MaxEdits, MaxDeletes, MaxFaults} \subseteq Nat

Messages == "messages"

(* Of the transcript, the title, the model, the draft and the forge dial, those in play. *)
Parts == UNION Gestures

Skew(d) == IF d \in Fast THEN Lead ELSE 0

VARIABLES
  now,       \* the time of day
  server,    \* the store's state in RAM
  disk,      \* chats.json
  dev,       \* each device: its copy, syncState and the call under way
  forgets,   \* POST /chatlog/forget under way
  latest,    \* history: of each part, the latest clock of an edit and the devices that set it
  buried,    \* history: the deletion the store has carried out last
  seen,      \* history: a delete against a newer clock, or made while one is on its way; a
             \* chat that came back too soon; a restart that lost writes; devices whose
             \* latest edit may not be marked for the next push: it was made under a
             \* call, its clock is not past the chat's, or it is a transcript refused
  used       \* how much of each bound has been spent

vars == <<now, server, disk, dev, forgets, latest, buried, seen, used>>

Chat == [part : [Parts -> [at : Nat, val : (Devices \cup {None}) \X Nat]],
         len : Nat, trusted : BOOLEAN, updatedAt : Nat]
MaybeChat == Chat \cup {None}

ASSUME NoneIsNoChat == None \notin Chat

(* A tombstone of zero is none. *)
Store == [rev : Nat, chat : MaybeChat, chatRev : Nat, tomb : Nat, tombRev : Nat]

Request == [since : Nat, chat : MaybeChat, deletes : Seq(Nat)]
Answer  == [rev : Nat, chat : MaybeChat, deleted : Nat,
            verdict : {"none", "accepted", "stale", "deleted"}]

Device == [chat : MaybeChat, lastRev : Nat, pushed : Nat, deletes : Seq(Nat),
           phase : {"idle", "sent", "answered"}, req : Request, ans : Answer]

NoRequest == [since |-> 0, chat |-> None, deletes |-> <<>>]
NoAnswer  == [rev |-> 0, chat |-> None, deleted |-> 0, verdict |-> "none"]

TypeOK ==
  /\ now \in Nat
  /\ server \in Store /\ disk \in Store
  /\ dev \in [Devices -> Device]
  /\ forgets \subseteq Nat
  /\ latest \in [Parts -> [at : Nat, by : SUBSET Devices]]
  /\ buried \in Nat
  /\ seen \in [clash : BOOLEAN, back : BOOLEAN, rolled : BOOLEAN, unmarked : SUBSET Devices]
  /\ used \in [edits : 0 .. MaxEdits, deletes : 0 .. MaxDeletes, faults : 0 .. MaxFaults]

(* The chat all devices have, and the copy load() migrates: every clock is the old          *)
(* updatedAt, which an edit of any part may have moved, and the transcript's is not trusted. *)
Base == [part |-> [p \in Parts |-> [at |-> 1, val |-> <<None, 1>>]],
         len |-> 2, trusted |-> TRUE, updatedAt |-> 1]

Legacy(d, len) ==
  [part |-> [p \in Parts |-> [at |-> 2, val |-> <<d, 2>>]],
   len |-> len, trusted |-> FALSE, updatedAt |-> 2]

Synced(chat) == [chat |-> chat, lastRev |-> 1, pushed |-> 1, deletes |-> <<>>,
                 phase |-> "idle", req |-> NoRequest, ans |-> NoAnswer]

Init ==
  /\ now = 3
  /\ server = [rev |-> 1, chat |-> Base, chatRev |-> 1, tomb |-> 0, tombRev |-> 0]
  /\ disk = server
  /\ dev \in { [d \in Devices |-> Synced(IF d \in Migrated THEN Legacy(d, n) ELSE Base)]
               : n \in 1 .. 3 }
  /\ forgets = {} /\ buried = 0
  /\ latest = [p \in Parts |-> [at |-> 0, by |-> {}]]
  /\ seen = [clash |-> FALSE, back |-> FALSE, rolled |-> FALSE, unmarked |-> {}]
  /\ used = [edits |-> 0, deletes |-> 0, faults |-> 0]

Later(a, b) == IF a > b THEN a ELSE b

Latest(S) == CHOOSE t \in S : \A u \in S : u <= t

-----------------------------------------------------------------------------
(* The store.                                                                              *)

(* Seeded fault: the chat that was touched last replaces the other. *)
mergeChat_Whole(stored, incoming) ==
  IF incoming.updatedAt > stored.updatedAt THEN incoming ELSE stored

(* A transcript whose clock is not trusted is taken only when it has grown or is the same. *)
legacyTranscriptSafe(stored, incoming) ==
  \/ incoming.trusted \/ incoming.len > stored.len
  \/ incoming.part[Messages].val = stored.part[Messages].val

(* A part is taken when its clock is newer. *)
mergeChat(stored, incoming) ==
  LET newer(p) == /\ incoming.part[p].at > stored.part[p].at
                  /\ p = Messages => legacyTranscriptSafe(stored, incoming)
      text     == IF newer(Messages) THEN incoming ELSE stored
  IN [part      |-> [p \in Parts |-> IF newer(p) THEN incoming.part[p] ELSE stored.part[p]],
      len       |-> text.len,
      trusted   |-> text.trusted,
      updatedAt |-> Later(stored.updatedAt, incoming.updatedAt)]

(* Seeded fault: a tombstone does not hold a push off. *)
PushChat_Resurrects(s, c) ==
  IF c = None THEN [store |-> s, verdict |-> "none"]
  ELSE LET next == IF s.chat = None THEN c ELSE mergeChat(s.chat, c)
       IN [store   |-> [rev |-> s.rev + 1, chat |-> next, chatRev |-> s.rev + 1,
                        tomb |-> 0, tombRev |-> 0],
           verdict |-> "accepted"]

(* push, for the chat of a request. *)
PushChat(s, c) ==
  IF c = None THEN [store |-> s, verdict |-> "none"]
  ELSE IF s.tomb # 0 /\ s.tomb >= c.updatedAt THEN [store |-> s, verdict |-> "deleted"]
  ELSE LET next == IF s.chat = None THEN c ELSE mergeChat(s.chat, c)
       IN IF next = s.chat THEN [store |-> s, verdict |-> "stale"]
          ELSE [store   |-> [rev |-> s.rev + 1, chat |-> next, chatRev |-> s.rev + 1,
                             tomb |-> 0, tombRev |-> 0],
                verdict |-> "accepted"]

remove(s, deletedAt) ==
  [rev |-> s.rev + 1, chat |-> None, chatRev |-> 0, tomb |-> deletedAt, tombRev |-> s.rev + 1]

(* push, for the queued deletes in turn: the first that is not dated before the chat removes *)
(* it, and each that follows is then carried out as well.                                    *)
PushDeletes(s, deletes) ==
  LET carried == { k \in DOMAIN deletes :
                     s.chat = None \/ \E j \in 1 .. k : deletes[j] >= s.chat.updatedAt }
      rev     == s.rev + Cardinality(carried)
  IN IF carried = {} THEN s
     ELSE [rev |-> rev, chat |-> None, chatRev |-> 0,
           tomb |-> deletes[Len(deletes)], tombRev |-> rev]

pull(s, since) ==
  [rev     |-> s.rev,
   chat    |-> IF s.chatRev > since THEN s.chat ELSE None,
   deleted |-> IF s.tombRev > since THEN s.tomb ELSE 0]

(* persist: the whole state is written again, or nothing of it. *)
Stores(s) ==
  /\ server' = s
  /\ buried' = IF s.tomb # 0 THEN s.tomb ELSE buried
  /\ \/ disk' = s /\ used' = used
     \/ /\ used.faults < MaxFaults /\ s # disk
        /\ used' = [used EXCEPT !.faults = @ + 1]
        /\ UNCHANGED disk

(* A deletion replaces one that is dated after it. *)
Lowers(s) == s.tomb # 0 /\ s.tomb < buried

(* A deleted chat comes back before every device that has it, or is being sent it, has heard *)
(* of the deletion.                                                                           *)
Returns(d, s) ==
  /\ server.chat = None /\ s.chat # None
  /\ \E e \in Devices \ {d} : /\ dev[e].chat # None \/ dev[e].ans.chat # None
                              /\ dev[e].lastRev < server.tombRev

(* The transcript of a push is left out, because its clock is not trusted. *)
Refuses(s, c) ==
  /\ c # None /\ s.chat # None
  /\ c.part[Messages].at > s.chat.part[Messages].at /\ ~legacyTranscriptSafe(s.chat, c)

(* POST /chats/sync: what the device has, then what it has not seen. *)
Serve(d) ==
  LET req   == dev[d].req
      taken == PushChat(server, req.chat)
      s     == PushDeletes(taken.store, req.deletes)
      news  == pull(s, req.since)
  IN /\ dev[d].phase = "sent"
     /\ Stores(s)
     /\ dev' = [dev EXCEPT ![d].phase = "answered", ![d].req.chat = None,
                           ![d].ans = [rev |-> news.rev, chat |-> news.chat,
                                       deleted |-> news.deleted, verdict |-> taken.verdict]]
     /\ seen' = [seen EXCEPT !.clash = @ \/ Lowers(s), !.back = @ \/ Returns(d, taken.store),
                   !.unmarked = IF Refuses(server, req.chat) THEN @ \cup {d} ELSE @]
     /\ UNCHANGED <<now, forgets, latest>>

(* POST /chatlog/forget, which deletes whatever the store has. Nobody waits for it, and one *)
(* that is lost is one that is never served.                                               *)
Forget(at) ==
  /\ at \in forgets
  /\ Stores(remove(server, at))
  /\ forgets' = forgets \ {at}
  /\ seen' = [seen EXCEPT !.clash = @ \/ Lowers(remove(server, at))
                                \/ (server.chat # None /\ server.chat.updatedAt > at)]
  /\ UNCHANGED <<now, dev, latest>>

(* A new process reads chats.json, which matters when the last write of it failed. *)
Restart ==
  /\ server # disk
  /\ server' = disk
  /\ seen' = [seen EXCEPT !.rolled = TRUE]
  /\ UNCHANGED <<now, disk, dev, forgets, latest, buried, used>>

-----------------------------------------------------------------------------
(* The device.                                                                             *)

(* touchChatComponent, for the parts one action of the user touches. *)
touched(d, ps) ==
  LET c == dev[d].chat
      stamp(p) == Later(now + Skew(d), c.part[p].at + 1)
      parts == [p \in Parts |-> IF p \in ps THEN [at |-> stamp(p), val |-> <<d, stamp(p)>>]
                                ELSE c.part[p]]
  IN [c EXCEPT !.part = parts, !.trusted = @ \/ Messages \in ps,
               !.updatedAt = Latest({@} \cup { stamp(p) : p \in ps })]

Shorter(n) == IF MayShrink /\ n > 0 THEN {n - 1} ELSE {}

(* Send, an answer that arrives, editing a message, typing, renaming, choosing a model. *)
Edit(d, ps) ==
  LET c == touched(d, ps)
      stamps(p) == [at |-> c.part[p].at, by |-> {d}]
  IN /\ dev[d].chat # None
     /\ used.edits < MaxEdits /\ used' = [used EXCEPT !.edits = @ + 1]
     /\ \E n \in IF Messages \in ps THEN {c.len + 1} \cup Shorter(c.len) ELSE {c.len} :
          dev' = [dev EXCEPT ![d].chat = [c EXCEPT !.len = n]]
     /\ latest' = [p \in Parts |->
          IF p \notin ps \/ latest[p].at > c.part[p].at THEN latest[p]
          ELSE IF latest[p].at < c.part[p].at THEN stamps(p)
          ELSE [stamps(p) EXCEPT !.by = @ \cup latest[p].by]]
     /\ seen' = [seen EXCEPT !.unmarked =
                   IF dev[d].phase = "idle" /\ c.updatedAt > dev[d].chat.updatedAt
                   THEN @ \ {d} ELSE @ \cup {d}]
     /\ now' = now + 1
     /\ UNCHANGED <<server, disk, forgets, buried>>

(* deleteChat: both routes of the delete carry the device's time. *)
Delete(d) ==
  LET deletedAt == now + Skew(d)
  IN /\ dev[d].chat # None
     /\ used.deletes < MaxDeletes /\ used' = [used EXCEPT !.deletes = @ + 1]
     /\ dev' = [dev EXCEPT ![d].chat = None, ![d].pushed = 0,
                           ![d].deletes = Append(@, deletedAt)]
     /\ forgets' = forgets \cup {deletedAt}
     /\ seen' = [seen EXCEPT !.clash = @ \/ dev[d].chat.updatedAt > deletedAt
                                   \/ dev[d].req.deletes # <<>>]
     /\ now' = now + 1
     /\ UNCHANGED <<server, disk, latest, buried>>

Pending(c, pushed) == IF c # None /\ c.updatedAt # pushed THEN c ELSE None

(* Seeded fault: deletes are left to /chatlog/forget. *)
SyncSend_KeepsDeletes(d) ==
  /\ dev[d].phase = "idle"
  /\ dev' = [dev EXCEPT ![d].phase = "sent",
                        ![d].req = [since |-> dev[d].lastRev,
                                    chat |-> Pending(dev[d].chat, dev[d].pushed),
                                    deletes |-> <<>>]]
  /\ UNCHANGED <<now, server, disk, forgets, latest, buried, seen, used>>

(* syncNow up to its await. *)
SyncSend(d) ==
  /\ dev[d].phase = "idle"
  /\ dev' = [dev EXCEPT ![d].phase = "sent",
                        ![d].req = [since |-> dev[d].lastRev,
                                    chat |-> Pending(dev[d].chat, dev[d].pushed),
                                    deletes |-> dev[d].deletes]]
  /\ UNCHANGED <<now, server, disk, forgets, latest, buried, seen, used>>

(* Seeded fault: the chat that was touched last replaces the other. *)
mergeIncomingChat_Whole(local, inc) == IF inc.updatedAt > local.updatedAt THEN inc ELSE local

mergeIncomingChat(local, inc) ==
  LET newer(p) == inc.part[p].at > local.part[p].at
  IN [part      |-> [p \in Parts |-> IF newer(p) THEN inc.part[p] ELSE local.part[p]],
      len       |-> IF newer(Messages) THEN inc.len ELSE local.len,
      trusted   |-> local.trusted \/ inc.trusted,
      updatedAt |-> Later(local.updatedAt, inc.updatedAt)]

(* mergeIncoming, on the copy c, the pushed marker and the deletes still queued. *)
mergeIncoming(c, pushed, deletes, ans) ==
  LET hidden == \/ ans.chat = None
                \/ \E k \in DOMAIN deletes : deletes[k] >= ans.chat.updatedAt
      merged == IF hidden THEN c
                ELSE IF c = None THEN ans.chat ELSE mergeIncomingChat(c, ans.chat)
      gone   == ans.deleted # 0 /\ merged # None /\ merged.updatedAt <= ans.deleted
  IN [chat   |-> IF gone THEN None ELSE merged,
      pushed |-> IF gone THEN 0
                 ELSE IF hidden THEN pushed ELSE Later(pushed, ans.chat.updatedAt)]

(* syncNow from its await on: verdicts are booked against the chat as it is now. *)
SyncReceive(d) ==
  LET me     == dev[d]
      ans    == me.ans
      thrown == ans.verdict = "deleted"
      marked == IF thrown THEN 0
                ELSE IF ans.verdict = "accepted" /\ me.chat # None THEN me.chat.updatedAt
                ELSE me.pushed
      queued == IF me.req.deletes # <<>> THEN <<>> ELSE me.deletes
      moved  == mergeIncoming(IF thrown THEN None ELSE me.chat, marked, queued, ans)
      booked == IF ans.verdict \in {"stale", "deleted"} /\ moved.chat # None
                THEN moved.chat.updatedAt ELSE moved.pushed
  IN /\ me.phase = "answered"
     /\ dev' = [dev EXCEPT ![d] = [chat |-> moved.chat, lastRev |-> ans.rev,
                                   pushed |-> booked, deletes |-> queued, phase |-> "idle",
                                   req |-> NoRequest, ans |-> NoAnswer]]
     /\ UNCHANGED <<now, server, disk, forgets, latest, buried, seen, used>>

(* The fetch fails, on the way there or back, or the page is reloaded. *)
SyncFails(d) ==
  /\ dev[d].phase # "idle"
  /\ used.faults < MaxFaults /\ used' = [used EXCEPT !.faults = @ + 1]
  /\ dev' = [dev EXCEPT ![d].phase = "idle", ![d].req = NoRequest, ![d].ans = NoAnswer]
  /\ UNCHANGED <<now, server, disk, forgets, latest, buried, seen>>

-----------------------------------------------------------------------------
Next ==
  \/ \E d \in Devices :
       \/ \E ps \in Gestures : Edit(d, ps)
       \/ Delete(d) \/ SyncSend(d) \/ Serve(d) \/ SyncReceive(d) \/ SyncFails(d)
  \/ \E at \in forgets : Forget(at)
  \/ Restart

Spec == Init /\ [][Next]_vars

(* The sync timer fires every minute while the app is in view, and a call comes back. A      *)
(* device is always in one of the three phases, so this is weak fairness of its sync, in the *)
(* form that spares TLC the evaluation of ENABLED.                                           *)
FairSpec ==
  /\ Spec
  /\ \A d \in Devices : []<><<SyncSend(d) \/ Serve(d) \/ SyncReceive(d)>>_vars

-----------------------------------------------------------------------------
(* The cursor misses nothing: what the store stamped at or below a device's lastRev, that    *)
(* device has (or something newer), and a deletion at or below it has been obeyed.            *)
CursorHolds ==
  \A d \in Devices :
    LET me == dev[d]
    IN /\ server.chat # None /\ server.chatRev <= me.lastRev /\ me.deletes = <<>> =>
            /\ me.chat # None
            /\ \A p \in Parts : me.chat.part[p].at >= server.chat.part[p].at
       /\ server.tomb # 0 /\ server.tombRev <= me.lastRev /\ me.chat # None =>
            me.chat.updatedAt > server.tomb

(* The revision cursor misses nothing, whatever edits, deletes, failed calls and other       *)
(* devices came between (pull, syncNow). Excepted are a store that lost revisions it had      *)
(* handed out, a delete dated before an edit of the chat it deletes or before a deletion it    *)
(* replaces, and one made while the device is sending another (syncNow drops it unsent).       *)
NothingMissed == seen.rolled \/ seen.clash \/ CursorHolds

(* The device has an edit that it does not intend to push, the store does not have, and no   *)
(* deletion of it is on its way.                                                              *)
Stranded(d) ==
  LET me == dev[d]
  IN /\ me.phase = "idle" /\ me.chat # None /\ me.chat.updatedAt = me.pushed
     /\ server.tombRev <= me.lastRev
     /\ server.chat # None =>
          \E p \in Parts : server.chat.part[p].at < me.chat.part[p].at

(* Whatever the order of edits and answers, no edit is booked as pushed that was not         *)
(* (pushed, accepted, rejected). This does not hold: see NothingStranded.                     *)
NobodyStranded == \A d \in Devices : ~Stranded(d)

(* No verdict books an edit as pushed that was not (pushed, accepted, rejected). Excepted,    *)
(* besides what NothingMissed excepts, is an edit made while a call was under way, or by a    *)
(* clock that is behind the chat's, a transcript that was refused, and a chat that came        *)
(* back, from a device that kept its own, before all had heard of its deletion.                *)
NothingStranded ==
  \/ seen.rolled \/ seen.clash \/ seen.back
  \/ \A d \in Devices \ seen.unmarked : ~Stranded(d)

(* A deleted chat comes back only with an edit that is dated after the deletion the store     *)
(* carried out last: no stale device brings it back (the tombstones), unless the store lost    *)
(* the deletion itself. A late delete that is dated earlier replaces the tombstone, so that    *)
(* the same of every deletion carried out does not hold.                                       *)
DeleteSticks == seen.rolled \/ server.chat = None \/ server.chat.updatedAt > buried

(* A copy that dates from before the parts had clocks never shortens the store's transcript  *)
(* when nobody has edited it (transcriptClockTrusted). This does not hold.                    *)
StaleNeverReplaces ==
  [][latest'[Messages].by = {} /\ server.chat # None /\ server'.chat # None
       => server'.chat.len >= server.chat.len]_vars

Tie == \E p \in Parts : Cardinality(latest[p].by) > 1

Agreed ==
  \A d \in Devices :
    \/ server.chat = None /\ dev[d].chat = None
    \/ /\ server.chat # None /\ dev[d].chat # None
       /\ server.chat.part = dev[d].chat.part

LastWins ==
  server.chat # None /\ used.deletes = 0 =>
    \A p \in Parts : server.chat.part[p].at >= latest[p].at

(* Once the users stop, every device and the store end up with the same chat. This does not  *)
(* hold: see Converges.                                                                       *)
ConvergesAlways == <>[]Agreed

(* Once the users stop, every device and the store end up with the same chat, and without     *)
(* deletes it has the latest edit of every part, whoever made it and in whatever order the    *)
(* pushes arrived (syncNow, push, pull). Excepted are the cases of the properties above and   *)
(* two latest edits of one part with equal clocks.                                            *)
Converges ==
  <>[](\/ Agreed /\ LastWins
       \/ seen.rolled \/ seen.clash \/ seen.back \/ seen.unmarked # {} \/ Tie)
=============================================================================
