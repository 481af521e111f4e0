----------------------------- MODULE ChatAppProofs -----------------------------
(***************************************************************************)
(* What is proved of the app (public/app.js): of its sync with the store      *)
(* (ChatSync) first, of the turns it follows (ChatClient) after it.            *)
(*                                                                           *)
(* The revision cursor of the chat sync misses nothing, and a deleted chat     *)
(* stays deleted. The invariant follows each device: a chat that the store     *)
(* stamped at or below the device's cursor it has, or is about to delete; a    *)
(* deletion at or below it has been obeyed; and an answer under way tells all   *)
(* that lies between the cursor it was asked with and its own revision, unless  *)
(* the store has moved past it.                                                *)
(*                                                                           *)
(* Nor is an edit booked as pushed that was not. The second invariant keeps      *)
(* the pushed markers honest: what a device has marked, or has been answered      *)
(* for, the store has, or has deleted at a revision the device has yet to see.    *)
(*                                                                           *)
(* Of a turn it is proved that it is merged into its chat once and that the        *)
(* resume cursor counts what the session on screen has consumed. Both invariants  *)
(* tie together the entry, the session and the one open response of a turn, and    *)
(* what reconcileJobs still believes of it; the second, for the cursor, holds in    *)
(* cases in which the first fails, and follows a session that has lost its entry.   *)
(***************************************************************************)
EXTENDS ChatSync, ChatClient, FiniteSetTheorems, WellFoundedInduction,
        SequenceTheorems, TLAPS

(* The deletes on record are dated: zero stands for no tombstone. *)
Dated ==
  /\ now > 0 /\ 0 \notin forgets
  /\ \A d \in Devices : /\ \A k \in DOMAIN dev[d].deletes : dev[d].deletes[k] # 0
                        /\ \A k \in DOMAIN dev[d].req.deletes : dev[d].req.deletes[k] # 0

(* The store keeps a chat or a tombstone, and its revisions count up. *)
Shape(s) == (s.tomb # 0 => s.chat = None) /\ s.chatRev <= s.rev /\ s.tombRev <= s.rev

(* That holds of the file as well, so that it survives a restart. *)
Shaped == Shape(server) /\ Shape(disk)

(* The chat is dated after the deletion carried out last, or that deletion is its tombstone. *)
Tombstone(s, b) ==
  IF s.chat = None THEN s.tomb = b /\ s.tomb # 0 ELSE s.chat.updatedAt > b

(* No cursor is ahead of the store, and a call asks for what its device has not seen. *)
Behind(me, s) ==
  /\ me.lastRev <= s.rev
  /\ me.phase # "idle" => me.req.since = me.lastRev
  /\ me.phase = "answered" => me.ans.rev <= s.rev

(* Some queued delete is not dated before the chat. *)
Buries(deletes, c) == \E k \in DOMAIN deletes : deletes[k] >= c.updatedAt

(* A copy that has everything another has, or newer. *)
Has(c, other) ==
  /\ c # None /\ c.updatedAt >= other.updatedAt
  /\ \A p \in Parts : c.part[p].at >= other.part[p].at

(* An answer that the store has not moved past tells all that the device has not seen. *)
AnswerHolds(me, s) ==
  me.phase = "answered" =>
    /\ s.chat # None /\ s.chatRev <= me.ans.rev =>
         /\ me.ans.deleted = 0 /\ me.ans.verdict # "deleted"
         /\ me.ans.chat = IF s.chatRev > me.req.since THEN s.chat ELSE None
         /\ ~Buries(me.req.deletes, s.chat)
    /\ s.tomb # 0 /\ s.tombRev <= me.ans.rev =>
         /\ me.ans.chat = None
         /\ s.tombRev > me.req.since => me.ans.deleted = s.tomb

(* A deletion the device has seen is obeyed. *)
Obeyed(me, s) ==
  s.tomb # 0 /\ s.tombRev <= me.lastRev /\ me.chat # None => me.chat.updatedAt > s.tomb

(* A chat the device has seen it has, or is about to delete. *)
Known(me, s) ==
  s.chat # None /\ s.chatRev <= me.lastRev => Has(me.chat, s.chat) \/ Buries(me.deletes, s.chat)

(* The deletes a call carries are all that are queued. *)
Carried(me) == me.req.deletes # <<>> => me.req.deletes = me.deletes

(* What holds of a device and the store; a delete out of order spoils the second line. *)
Following(me, s, clash) ==
  /\ Behind(me, s) /\ AnswerHolds(me, s) /\ Obeyed(me, s)
  /\ clash \/ (Known(me, s) /\ Carried(me))

(* After a restart that lost revisions nothing of this is claimed. *)
Synchronised ==
  seen.rolled \/ /\ Tombstone(server, buried)
                 /\ \A d \in Devices : Following(dev[d], server, seen.clash)

(* The inductive invariant. *)
IInv == TypeOK /\ Dated /\ Shaped /\ Synchronised

-----------------------------------------------------------------------------
(* Among finite sets there is one that contains no other. *)
LEMMA LeastSubset ==
  ASSUME NEW D, IsFiniteSet(D), NEW T \in SUBSET (SUBSET D), T # {}
  PROVE  \E U \in T : \A V \in T : V \subseteq U => V = U
<1>1. IsWellFoundedOn(StrictSubsetOrdering(D), SUBSET D)
  BY FS_StrictSubsetOrderingWellFounded, FS_FiniteSubsetsOfFinite
<1>2. PICK U \in T : \A V \in T : <<V, U>> \notin StrictSubsetOrdering(D)
  BY <1>1, WFMin
<1>3. ASSUME NEW V \in T, V \subseteq U
      PROVE  V = U
  BY <1>2, <1>3 DEF StrictSubsetOrdering
<1> QED
  BY <1>3

(* A finite set of times has a latest one: a least set that reaches past all the others has *)
(* one element.                                                                             *)
LEMMA LatestIs ==
  ASSUME NEW S, IsFiniteSet(S), S # {}, S \subseteq Nat
  PROVE  Latest(S) \in S /\ \A u \in S : u <= Latest(S)
<1> DEFINE T == { U \in SUBSET S : \A u \in S : \E v \in U : u <= v }
<1>1. S \in T /\ T \in SUBSET (SUBSET S)
  OBVIOUS
<1>2. PICK U \in T : \A V \in T : V \subseteq U => V = U
  <2>1. T \in SUBSET (SUBSET S)
    OBVIOUS
  <2>2. T # {}
    BY <1>1
  <2> HIDE DEF T
  <2>3. \A Q \in SUBSET (SUBSET S) : Q # {} => \E U \in Q : \A V \in Q : V \subseteq U => V = U
    <3>1. IsFiniteSet(S)
      OBVIOUS
    <3> QED
      BY ONLY <3>1, LeastSubset
  <2> QED
    BY ONLY <2>1, <2>2, <2>3
<1>3. PICK t \in U : TRUE
  BY <1>2
<1>4. ASSUME NEW x \in U, NEW y \in U, x < y
      PROVE  FALSE
  <2> DEFINE V == U \ {x}
  <2>1. V \in SUBSET S /\ \A u \in S : \E v \in V : u <= v
    <3>1. ASSUME NEW u \in S
          PROVE  \E v \in V : u <= v
      <4>1. PICK v \in U : u <= v
        BY <1>2
      <4>2. CASE v = x
        <5>1. y \in V /\ u <= y
          BY <1>2, <1>4, <4>1, <4>2
        <5> QED
          BY <5>1
      <4>3. CASE v # x
        BY <4>1, <4>3
      <4> QED
        BY <4>2, <4>3
    <3> QED
      BY <3>1, <1>2
  <2>2. V \in T /\ V \subseteq U /\ V # U
    BY <2>1
  <2> QED
    BY <2>2, <1>2
<1>5. \A v \in U : v = t
  <2>1. \A v \in U : v \in Nat /\ t \in Nat
    BY <1>2, <1>3
  <2> QED
    BY <1>3, <1>4, <2>1
<1>6. t \in S /\ \A u \in S : u <= t
  BY <1>2, <1>3, <1>5
<1> QED
  BY <1>6 DEF Latest

(* The later of two times is one of them, and not before either. *)
LEMMA LaterFacts ==
  ASSUME NEW a \in Nat, NEW b \in Nat
  PROVE  Later(a, b) \in Nat /\ Later(a, b) >= a /\ Later(a, b) >= b
BY DEF Later

-----------------------------------------------------------------------------
(* mergeChat makes a chat of two chats that has all the stored one has, and all the incoming *)
(* one has unless its transcript is refused.                                                *)
LEMMA MergeFacts ==
  ASSUME NEW stored \in Chat, NEW incoming \in Chat
  PROVE  /\ mergeChat(stored, incoming) \in Chat
         /\ Has(mergeChat(stored, incoming), stored)
         /\ ~(/\ incoming.part[Messages].at > stored.part[Messages].at
              /\ ~legacyTranscriptSafe(stored, incoming))
              => Has(mergeChat(stored, incoming), incoming)
<1> DEFINE m == mergeChat(stored, incoming)
<1>1. /\ Later(stored.updatedAt, incoming.updatedAt) \in Nat
      /\ Later(stored.updatedAt, incoming.updatedAt) >= stored.updatedAt
      /\ Later(stored.updatedAt, incoming.updatedAt) >= incoming.updatedAt
  BY LaterFacts DEF Chat
<1>2. m \in Chat
  BY <1>1 DEF mergeChat, Chat
<1>3. m # None
  BY <1>2, NoneIsNoChat
<1>4. m.updatedAt >= stored.updatedAt /\ m.updatedAt >= incoming.updatedAt
  BY <1>1 DEF mergeChat
<1>5. \A p \in Parts : m.part[p].at >= stored.part[p].at
  BY DEF mergeChat, Chat
<1>6. ASSUME ~(incoming.part[Messages].at > stored.part[Messages].at
               /\ ~legacyTranscriptSafe(stored, incoming))
      PROVE  \A p \in Parts : m.part[p].at >= incoming.part[p].at
  BY <1>6 DEF mergeChat, Chat
<1> QED
  BY <1>2, <1>3, <1>4, <1>5, <1>6 DEF Has

(* mergeIncomingChat leaves a device with all it had and all it was sent. *)
LEMMA IncomingFacts ==
  ASSUME NEW local \in Chat, NEW inc \in Chat
  PROVE  /\ mergeIncomingChat(local, inc) \in Chat
         /\ Has(mergeIncomingChat(local, inc), local)
         /\ Has(mergeIncomingChat(local, inc), inc)
<1> DEFINE m == mergeIncomingChat(local, inc)
<1>1. /\ Later(local.updatedAt, inc.updatedAt) \in Nat
      /\ Later(local.updatedAt, inc.updatedAt) >= local.updatedAt
      /\ Later(local.updatedAt, inc.updatedAt) >= inc.updatedAt
  BY LaterFacts DEF Chat
<1>2. m \in Chat
  BY <1>1 DEF mergeIncomingChat, Chat
<1>3. m # None
  BY <1>2, NoneIsNoChat
<1>4. m.updatedAt >= local.updatedAt /\ m.updatedAt >= inc.updatedAt
  BY <1>1 DEF mergeIncomingChat
<1>5. \A p \in Parts : m.part[p].at >= local.part[p].at /\ m.part[p].at >= inc.part[p].at
  BY DEF mergeIncomingChat, Chat
<1> QED
  BY <1>2, <1>3, <1>4, <1>5 DEF Has

(* Having what another copy has is transitive. *)
LEMMA HasTransitive ==
  ASSUME NEW a \in Chat, NEW b \in Chat, NEW c \in Chat, Has(a, b), Has(b, c)
  PROVE  Has(a, c)
BY DEF Has, Chat

-----------------------------------------------------------------------------
(* The store has moved on: what it keeps now is stamped past what it kept. *)
Moved(s, t) ==
  /\ t.rev > s.rev
  /\ t.chat # None => t.chatRev > s.rev
  /\ t.tomb # 0 => t.tombRev > s.rev

(* A push or a delete leaves the store as it is, or moves it on. *)
Steps(s, t) == t \in Store /\ Shape(t) /\ (t = s \/ Moved(s, t))

(* A delete moves the store on and leaves its tombstone. *)
LEMMA RemoveFacts ==
  ASSUME NEW s \in Store, NEW at \in Nat, at # 0
  PROVE  /\ remove(s, at) \in Store /\ Shape(remove(s, at)) /\ Moved(s, remove(s, at))
         /\ remove(s, at).chat = None /\ remove(s, at).tomb = at
BY DEF remove, Store, MaybeChat, Shape, Moved

(* A push moves the store on or changes nothing, and a chat that is there after it is   *)
(* dated after the deletion carried out last: only such a chat gets past the tombstone. *)
LEMMA PushChatFacts ==
  ASSUME NEW s \in Store, Shape(s), NEW c \in MaybeChat
  PROVE  LET t == PushChat(s, c)
         IN /\ Steps(s, t.store)
            /\ t.verdict \in {"none", "accepted", "stale", "deleted"}
            /\ t.verdict = "deleted" => t.store.chat = None
            /\ t.store.chat = None => t.store = s
            /\ \A b \in Nat : Tombstone(s, b) /\ t.store.chat # None => t.store.chat.updatedAt > b
<1> DEFINE t == PushChat(s, c)
<1>1. CASE c = None
  BY <1>1 DEF PushChat, Steps, Tombstone
<1>2. CASE c # None /\ s.tomb # 0 /\ s.tomb >= c.updatedAt
  BY <1>2 DEF PushChat, Steps, Shape
<1>3. CASE c # None /\ ~(s.tomb # 0 /\ s.tomb >= c.updatedAt)
  <2> DEFINE next == IF s.chat = None THEN c ELSE mergeChat(s.chat, c)
  <2>1. c \in Chat /\ s.rev \in Nat /\ s.tomb \in Nat /\ (s.chat # None => s.chat \in Chat)
    BY <1>3 DEF MaybeChat, Store
  <2>2. next \in Chat /\ next # None /\ next.updatedAt \in Nat
    <3>1. next \in Chat
      BY <2>1, MergeFacts
    <3> QED
      BY <3>1, NoneIsNoChat DEF Chat
  <2>3. ASSUME NEW b \in Nat, Tombstone(s, b)
        PROVE  next.updatedAt > b
    <3>1. CASE s.chat = None
      BY <1>3, <2>1, <2>3, <3>1 DEF Tombstone, Chat
    <3>2. CASE s.chat # None
      <4>1. mergeChat(s.chat, c).updatedAt >= s.chat.updatedAt /\ s.chat.updatedAt > b
            /\ s.chat.updatedAt \in Nat
        BY <2>1, <2>3, <3>2, MergeFacts DEF Tombstone, Chat, Has
      <4> QED
        BY <2>2, <3>2, <4>1
    <3> QED
      BY <3>1, <3>2
  <2>4. t = IF next = s.chat THEN [store |-> s, verdict |-> "stale"]
            ELSE [store   |-> [rev |-> s.rev + 1, chat |-> next, chatRev |-> s.rev + 1,
                               tomb |-> 0, tombRev |-> 0],
                  verdict |-> "accepted"]
    BY <1>3 DEF PushChat
  <2> HIDE DEF next, t
  <2>5. CASE next = s.chat
    BY <2>2, <2>3, <2>4, <2>5 DEF Steps, t
  <2>6. CASE next # s.chat
    <3> DEFINE u == [rev |-> s.rev + 1, chat |-> next, chatRev |-> s.rev + 1,
                     tomb |-> 0, tombRev |-> 0]
    <3>1. u \in Store /\ Shape(u) /\ Moved(s, u) /\ u.chat = next
      BY <2>1, <2>2 DEF Store, MaybeChat, Shape, Moved
    <3>2. t.store = u /\ t.verdict = "accepted"
      BY <2>4, <2>6
    <3> HIDE DEF u
    <3> QED
      BY <2>2, <2>3, <3>1, <3>2 DEF Steps, t
  <2> QED
    BY <2>5, <2>6
<1> QED
  BY <1>1, <1>2, <1>3

(* The queued deletes move the store on or change nothing, and a chat that outlives them is *)
(* dated after all of them.                                                                 *)
LEMMA PushDeletesFacts ==
  ASSUME NEW s \in Store, Shape(s), NEW ds \in Seq(Nat), \A k \in DOMAIN ds : ds[k] # 0
  PROVE  LET t == PushDeletes(s, ds)
         IN /\ Steps(s, t)
            /\ t.chat # None => t = s /\ ~Buries(ds, s.chat)
            /\ t.chat = None => t = s \/ t.tomb # 0
<1> DEFINE carried == { k \in DOMAIN ds :
                          s.chat = None \/ \E j \in 1 .. k : ds[j] >= s.chat.updatedAt }
           n == Cardinality(carried)
           t == PushDeletes(s, ds)
<1>1. DOMAIN ds = 1 .. Len(ds) /\ Len(ds) \in Nat /\ s.rev \in Nat
  BY DEF Store
<1>2. IsFiniteSet(carried) /\ n \in Nat /\ (carried # {} => n # 0)
  <2>1. IsFiniteSet(1 .. Len(ds))
    BY <1>1, FS_Interval
  <2>2. carried \in SUBSET (1 .. Len(ds))
    BY <1>1, Zenon
  <2> QED
    BY <2>1, <2>2, FS_Subset, FS_CardinalityType, FS_EmptySet
<1>3. carried # {} => Len(ds) \in DOMAIN ds
  BY <1>1
<1>4. t = IF carried = {} THEN s
          ELSE [rev |-> s.rev + n, chat |-> None, chatRev |-> 0,
                tomb |-> ds[Len(ds)], tombRev |-> s.rev + n]
  BY DEF PushDeletes
<1>5. carried = {} /\ s.chat # None => ~Buries(ds, s.chat)
  BY <1>1 DEF Buries
<1> HIDE DEF carried, n, t
<1>6. CASE carried = {}
  BY <1>4, <1>5, <1>6 DEF Steps, t
<1>7. CASE carried # {}
  <2>1. ds[Len(ds)] \in Nat /\ ds[Len(ds)] # 0 /\ s.rev + n \in Nat /\ s.rev + n > s.rev
    BY <1>1, <1>2, <1>3, <1>7
  <2>2. t \in Store /\ Shape(t) /\ Moved(s, t) /\ t.chat = None /\ t.tomb # 0
    BY <1>4, <1>7, <2>1 DEF Store, MaybeChat, Shape, Moved
  <2> QED
    BY <2>2 DEF Steps, t
<1> QED
  BY <1>6, <1>7

(* One call at the store: its push, then its deletes. *)
LEMMA ServedFacts ==
  ASSUME NEW s \in Store, Shape(s), NEW c \in MaybeChat,
         NEW ds \in Seq(Nat), \A k \in DOMAIN ds : ds[k] # 0,
         NEW t, t = PushDeletes(PushChat(s, c).store, ds)
  PROVE  /\ Steps(s, t)
         /\ t.chat # None => PushChat(s, c).verdict # "deleted" /\ ~Buries(ds, t.chat)
         /\ \A b \in Nat : Tombstone(s, b) => Tombstone(t, IF t.tomb # 0 THEN t.tomb ELSE b)
<1> DEFINE m == PushChat(s, c).store
           v == PushChat(s, c).verdict
<1>1. /\ Steps(s, m) /\ (v = "deleted" => m.chat = None) /\ (m.chat = None => m = s)
      /\ \A b \in Nat : Tombstone(s, b) /\ m.chat # None => m.chat.updatedAt > b
  BY PushChatFacts
<1> HIDE DEF m, v
<1>2. t = PushDeletes(m, ds)
  BY DEF m
<1>3. m \in Store /\ Shape(m)
  BY <1>1 DEF Steps
<1>4. /\ Steps(m, t) /\ (t.chat # None => t = m /\ ~Buries(ds, m.chat))
      /\ (t.chat = None => t = m \/ t.tomb # 0)
  BY <1>2, <1>3, PushDeletesFacts
<1>5. Steps(s, t)
  BY <1>1, <1>3, <1>4 DEF Steps, Moved, Store
<1>6. t.chat # None => v # "deleted" /\ ~Buries(ds, t.chat)
  BY <1>1, <1>4
<1>7. ASSUME NEW b \in Nat, Tombstone(s, b)
      PROVE  Tombstone(t, IF t.tomb # 0 THEN t.tomb ELSE b)
  <2>1. CASE t.chat = None
    BY <1>1, <1>4, <1>7, <2>1 DEF Tombstone
  <2>2. CASE t.chat # None
    <3>1. t = m /\ t.tomb = 0 /\ t.chat.updatedAt > b
      BY <1>1, <1>3, <1>4, <1>7, <2>2 DEF Shape
    <3> QED
      BY <2>2, <3>1 DEF Tombstone
  <2> QED
    BY <2>1, <2>2
<1> QED
  BY <1>5, <1>6, <1>7 DEF v

-----------------------------------------------------------------------------
(* What a device knows survives what happens at the store meanwhile. *)
LEMMA StoreMovesOn ==
  ASSUME NEW me \in Device, NEW s \in Store, NEW t, Steps(s, t),
         NEW clash \in BOOLEAN, NEW later \in BOOLEAN, clash => later,
         Following(me, s, clash)
  PROVE  Following(me, t, later)
<1>1. CASE t = s
  BY <1>1 DEF Following
<1>2. CASE Moved(s, t)
  <2>1. /\ t.rev > s.rev /\ (t.chat # None => t.chatRev > s.rev)
        /\ (t.tomb # 0 => t.tombRev > s.rev) /\ t \in Store
    BY <1>2 DEF Moved, Steps
  <2>2. /\ me.lastRev \in Nat /\ me.ans.rev \in Nat /\ s.rev \in Nat /\ t.rev \in Nat
        /\ t.chatRev \in Nat /\ t.tombRev \in Nat
    BY <2>1 DEF Device, Answer, Store
  <2>3. me.lastRev <= s.rev /\ (me.phase = "answered" => me.ans.rev <= s.rev)
    BY DEF Following, Behind
  <2>4. Behind(me, t)
    BY <2>1, <2>2, <2>3 DEF Following, Behind
  <2>5. AnswerHolds(me, t)
    BY <2>1, <2>2, <2>3 DEF AnswerHolds
  <2>6. Obeyed(me, t) /\ Known(me, t)
    BY <2>1, <2>2, <2>3 DEF Obeyed, Known
  <2> QED
    BY <2>4, <2>5, <2>6 DEF Following
<1> QED
  BY <1>1, <1>2 DEF Steps

(* The answer to a call tells all that the device has not seen. *)
LEMMA ServedDevice ==
  ASSUME NEW me \in Device, me.phase = "sent", NEW t \in Store, Shape(t),
         NEW later \in BOOLEAN, Following(me, t, later),
         t.chat # None => ~Buries(me.req.deletes, t.chat),
         NEW you, you.phase = "answered", you.chat = me.chat, you.lastRev = me.lastRev,
         you.deletes = me.deletes, you.req.since = me.req.since,
         you.req.deletes = me.req.deletes,
         you.ans.rev = pull(t, me.req.since).rev, you.ans.chat = pull(t, me.req.since).chat,
         you.ans.deleted = pull(t, me.req.since).deleted,
         t.chat # None => you.ans.verdict # "deleted"
  PROVE  Following(you, t, later)
<1>1. Behind(you, t)
  BY DEF Following, Behind, pull, Store
<1>2. AnswerHolds(you, t)
  BY DEF AnswerHolds, pull, Shape
<1>3. Obeyed(you, t)
  BY DEF Following, Obeyed
<1>4. later \/ (Known(you, t) /\ Carried(you))
  BY DEF Following, Known, Carried
<1> QED
  BY <1>1, <1>2, <1>3, <1>4 DEF Following

-----------------------------------------------------------------------------
(* An edit makes a chat of a chat, and no clock of it goes back. *)
LEMMA TouchedFacts ==
  ASSUME TypeOK, NEW d \in Devices, dev[d].chat # None, NEW ps \in SUBSET Parts
  PROVE  touched(d, ps) \in Chat /\ Has(touched(d, ps), dev[d].chat)
<1> DEFINE c == dev[d].chat
           stamp == [p \in ps |-> Later(now + Skew(d), c.part[p].at + 1)]
           S == { stamp[p] : p \in ps }
           parts == [p \in Parts |-> IF p \in ps THEN [at |-> stamp[p], val |-> <<d, stamp[p]>>]
                                     ELSE c.part[p]]
           u == Latest(S \cup {c.updatedAt})
<1>1. c \in Chat /\ now \in Nat /\ Skew(d) \in Nat
  <2>1. c \in Chat /\ now \in Nat
    BY DEF TypeOK, Device, MaybeChat
  <2>2. Skew(d) \in Nat
    BY ChatSyncConstants DEF Skew
  <2> QED
    BY <2>1, <2>2
<1>2. \A p \in ps : /\ stamp[p] \in Nat /\ stamp[p] >= c.part[p].at
                    /\ stamp[p] = Later(now + Skew(d), c.part[p].at + 1)
  <2> SUFFICES ASSUME NEW p \in ps
               PROVE  /\ stamp[p] \in Nat /\ stamp[p] >= c.part[p].at
                      /\ stamp[p] = Later(now + Skew(d), c.part[p].at + 1)
    OBVIOUS
  <2>1. c.part[p].at \in Nat
    BY <1>1 DEF Chat
  <2> HIDE DEF c
  <2>2. now + Skew(d) \in Nat /\ c.part[p].at + 1 \in Nat
    BY <1>1, <2>1
  <2> QED
    BY <2>1, <2>2 DEF Later
<1>3. IsFiniteSet(S)
  <2>1. IsFiniteSet(ps)
    BY ChatSyncConstants, FS_Subset DEF Parts
  <2>2. stamp \in Surjection(ps, S)
    BY DEF Surjection
  <2> HIDE DEF stamp, S
  <2> QED
    BY <2>1, <2>2, FS_Surjection
<1>4. S \subseteq Nat
  BY <1>2
<1>5. u \in Nat /\ u >= c.updatedAt
  <2>1. c.updatedAt \in Nat
    BY <1>1 DEF Chat
  <2>2. /\ IsFiniteSet(S \cup {c.updatedAt}) /\ S \cup {c.updatedAt} # {}
        /\ S \cup {c.updatedAt} \subseteq Nat
    <3> HIDE DEF S
    <3> QED
      BY <1>3, <1>4, <2>1, FS_AddElement
  <2>3. u \in S \cup {c.updatedAt} /\ \A t \in S \cup {c.updatedAt} : t <= u
    <3> HIDE DEF S
    <3> QED
      BY <2>2, LatestIs
  <2> QED
    BY <1>4, <2>1, <2>3
<1>6. touched(d, ps) = [part |-> parts, len |-> c.len, trusted |-> c.trusted \/ Messages \in ps,
                        updatedAt |-> u]
  <2>1. S = { Later(now + Skew(d), c.part[p].at + 1) : p \in ps }
    BY <1>2
  <2>2. parts = [p \in Parts |-> IF p \in ps
                   THEN [at |-> Later(now + Skew(d), c.part[p].at + 1),
                         val |-> <<d, Later(now + Skew(d), c.part[p].at + 1)>>]
                   ELSE c.part[p]]
    BY <1>2
  <2>3. S \cup {c.updatedAt} = {c.updatedAt} \cup S
    OBVIOUS
  <2>4. touched(d, ps) = [c EXCEPT !.part = parts, !.trusted = c.trusted \/ Messages \in ps,
                                   !.updatedAt = Latest({c.updatedAt} \cup S)]
    <3> HIDE DEF S, parts, stamp
    <3> QED
      BY <2>1, <2>2 DEF touched
  <2>5. c = [part |-> c.part, len |-> c.len, trusted |-> c.trusted, updatedAt |-> c.updatedAt]
    <3> HIDE DEF c
    <3> QED
      BY <1>1 DEF Chat
  <2> HIDE DEF c, S, parts, stamp
  <2> QED
    BY <2>3, <2>4, <2>5
<1>7. parts \in [Parts -> [at : Nat, val : (Devices \cup {None}) \X Nat]]
  BY <1>1, <1>2 DEF Chat
<1>8. \A p \in Parts : parts[p].at >= c.part[p].at
  BY <1>1, <1>2 DEF Chat
<1> HIDE DEF parts, u, stamp, S
<1>9. touched(d, ps) \in Chat
  BY <1>1, <1>5, <1>6, <1>7 DEF Chat
<1>10. touched(d, ps) # None
  BY <1>9, NoneIsNoChat
<1> QED
  BY <1>5, <1>6, <1>8, <1>9, <1>10 DEF Has

-----------------------------------------------------------------------------
(* What a step of one device has to show. *)
LEMMA OneFollows ==
  ASSUME Synchronised, NEW d \in Devices, server' = server, buried' = buried,
         seen'.rolled = seen.rolled, seen.clash \in BOOLEAN, seen'.clash \in BOOLEAN,
         seen.clash => seen'.clash,
         \A e \in Devices \ {d} : dev'[e] = dev[e],
         Following(dev[d], server, seen.clash) => Following(dev'[d], server, seen'.clash)
  PROVE  Synchronised'
<1> SUFFICES ASSUME ~seen'.rolled
             PROVE  /\ Tombstone(server', buried')
                    /\ \A e \in Devices : Following(dev'[e], server', seen'.clash)
  BY DEF Synchronised
<1>1. /\ Tombstone(server, buried)
      /\ \A e \in Devices : Following(dev[e], server, seen.clash)
  BY DEF Synchronised
<1>2. ASSUME NEW e \in Devices
      PROVE  Following(dev'[e], server, seen'.clash)
  <2>1. CASE e = d
    BY <1>1, <2>1
  <2>2. CASE e # d
    <3>1. dev'[e] = dev[e] /\ Following(dev[e], server, seen.clash)
      BY <1>1, <2>2
    <3> QED
      BY <3>1 DEF Following
  <2> QED
    BY <2>1, <2>2
<1> QED
  BY <1>1, <1>2

(* One device changes. *)
LEMMA OneDevice ==
  ASSUME TypeOK, NEW d \in Devices, NEW you \in Device, dev' = [dev EXCEPT ![d] = you]
  PROVE  /\ dev' \in [Devices -> Device] /\ dev'[d] = you
         /\ \A e \in Devices \ {d} : dev'[e] = dev[e]
BY DEF TypeOK

(* Zero is no delete of the other devices. *)
LEMMA OneDated ==
  ASSUME Dated, TypeOK, NEW d \in Devices, now' >= now, now' \in Nat, 0 \notin forgets',
         \A e \in Devices \ {d} : dev'[e] = dev[e],
         \A k \in DOMAIN dev'[d].deletes : dev'[d].deletes[k] # 0,
         \A k \in DOMAIN dev'[d].req.deletes : dev'[d].req.deletes[k] # 0
  PROVE  Dated'
<1>1. now' > 0
  BY DEF Dated, TypeOK
<1>2. ASSUME NEW e \in Devices
      PROVE  /\ \A k \in DOMAIN dev'[e].deletes : dev'[e].deletes[k] # 0
             /\ \A k \in DOMAIN dev'[e].req.deletes : dev'[e].req.deletes[k] # 0
  <2>1. CASE e = d
    BY <2>1
  <2>2. CASE e # d
    BY <2>2 DEF Dated
  <2> QED
    BY <2>1, <2>2
<1> QED
  BY <1>1, <1>2 DEF Dated

-----------------------------------------------------------------------------
(* An edit leaves the device with all it had. *)
LEMMA EditedFollows ==
  ASSUME NEW me \in Device, NEW s \in Store, NEW clash, Following(me, s, clash),
         me.chat # None, NEW c \in Chat, Has(c, me.chat),
         NEW you, you = [me EXCEPT !.chat = c]
  PROVE  Following(you, s, clash)
<1>1. /\ you.chat = c /\ you.lastRev = me.lastRev /\ you.phase = me.phase /\ you.req = me.req
      /\ you.ans = me.ans /\ you.deletes = me.deletes
  BY DEF Device
<1>2. /\ me.chat \in Chat /\ me.chat.updatedAt \in Nat /\ c.updatedAt \in Nat /\ s.tomb \in Nat
      /\ (s.chat # None => s.chat \in Chat) /\ c.updatedAt >= me.chat.updatedAt
  BY DEF Device, MaybeChat, Chat, Store, Has
<1>3. Behind(you, s)
  BY <1>1 DEF Following, Behind
<1>4. AnswerHolds(you, s)
  BY <1>1 DEF Following, AnswerHolds
<1>5. Obeyed(you, s)
  <2>1. Obeyed(me, s)
    BY DEF Following
  <2> QED
    BY <1>1, <1>2, <2>1 DEF Obeyed
<1>6. clash \/ (Known(you, s) /\ Carried(you))
  <2>1. clash \/ (Known(me, s) /\ Carried(me))
    BY DEF Following
  <2>2. Known(me, s) => Known(you, s)
    <3>1. s.chat # None /\ Has(me.chat, s.chat) => Has(c, s.chat)
      BY <1>2, HasTransitive
    <3> QED
      BY <1>1, <3>1 DEF Known
  <2>3. Carried(me) => Carried(you)
    BY <1>1 DEF Carried
  <2> QED
    BY <2>1, <2>2, <2>3
<1> QED
  BY <1>3, <1>4, <1>5, <1>6 DEF Following

(* What an edit does to its device. *)
LEMMA EditIs ==
  ASSUME TypeOK, NEW d \in Devices, NEW ps \in Gestures, Edit(d, ps)
  PROVE  \E e \in Chat :
           /\ Has(e, dev[d].chat) /\ e.updatedAt = touched(d, ps).updatedAt
           /\ dev' = [dev EXCEPT ![d] = [dev[d] EXCEPT !.chat = e]]
<1> DEFINE me == dev[d]
           c == touched(d, ps)
<1>1. ps \in SUBSET Parts
  BY DEF Parts
<1>2. c \in Chat /\ Has(c, me.chat)
  <2>1. me.chat # None
    BY DEF Edit
  <2> QED
    BY <1>1, <2>1, TouchedFacts
<1> HIDE DEF c
<1>3. PICK n : n \in (IF Messages \in ps THEN {c.len + 1} \cup Shorter(c.len) ELSE {c.len})
               /\ dev' = [dev EXCEPT ![d] = [me EXCEPT !.chat = [c EXCEPT !.len = n]]]
  BY DEF Edit, c
<1>4. n \in Nat
  <2>1. c.len \in Nat
    BY <1>2 DEF Chat
  <2> QED
    BY <1>3, <2>1 DEF Shorter
<1> DEFINE e == [c EXCEPT !.len = n]
<1>5. e \in Chat
  BY <1>2, <1>4 DEF Chat
<1>6. e.updatedAt = c.updatedAt /\ e.part = c.part
  BY <1>2 DEF Chat
<1>7. Has(e, me.chat)
  <2>1. e # None
    BY <1>5, NoneIsNoChat
  <2> HIDE DEF e
  <2> QED
    BY <1>2, <1>6, <2>1 DEF Has
<1> HIDE DEF e
<1>8. dev' = [dev EXCEPT ![d] = [me EXCEPT !.chat = e]]
  BY <1>3 DEF e
<1> QED
  BY <1>5, <1>6, <1>7, <1>8 DEF c

(* An edit preserves the invariant. *)
LEMMA EditOk ==
  ASSUME IInv, NEW d \in Devices, NEW ps \in Gestures, Edit(d, ps)
  PROVE  IInv'
<1> DEFINE me == dev[d]
           c == touched(d, ps)
<1>1. ps \in SUBSET Parts
  BY DEF Parts
<1>2. TypeOK /\ Dated /\ Synchronised
  BY DEF IInv
<1>3. c \in Chat /\ Has(c, me.chat) /\ me.chat # None /\ me \in Device
  <2>1. me.chat # None
    BY DEF Edit
  <2> QED
    BY <1>1, <1>2, <2>1, TouchedFacts DEF TypeOK
<1> HIDE DEF c
<1>4. PICK e \in Chat : /\ Has(e, me.chat)
                         /\ dev' = [dev EXCEPT ![d] = [me EXCEPT !.chat = e]]
  BY <1>2, EditIs
<1> DEFINE you == [me EXCEPT !.chat = e]
<1>6. e \in Chat
  OBVIOUS
<1>7. Has(e, me.chat)
  BY <1>4
<1>8. you \in Device
  BY <1>3, <1>6 DEF Device, MaybeChat
<1>9. dev' = [dev EXCEPT ![d] = you]
  BY <1>4
<1> HIDE DEF you
<1>10. /\ dev' \in [Devices -> Device] /\ dev'[d] = you
       /\ \A f \in Devices \ {d} : dev'[f] = dev[f]
  BY <1>2, <1>8, <1>9, OneDevice
<1>11. /\ now' = now + 1 /\ server' = server /\ disk' = disk /\ forgets' = forgets
       /\ buried' = buried
  BY DEF Edit
<1>12. used' \in [edits : 0 .. MaxEdits, deletes : 0 .. MaxDeletes, faults : 0 .. MaxFaults]
  <2>1. used.edits < MaxEdits /\ used' = [used EXCEPT !.edits = @ + 1]
    BY DEF Edit
  <2> QED
    BY <1>2, <2>1, ChatSyncConstants DEF TypeOK
<1>13. latest' \in [Parts -> [at : Nat, by : SUBSET Devices]]
  <2>1. \A p \in Parts : c.part[p].at \in Nat /\ latest[p] \in [at : Nat, by : SUBSET Devices]
    BY <1>2, <1>3 DEF Chat, TypeOK
  <2>2. latest' = [p \in Parts |->
          IF p \notin ps \/ latest[p].at > c.part[p].at THEN latest[p]
          ELSE IF latest[p].at < c.part[p].at THEN [at |-> c.part[p].at, by |-> {d}]
          ELSE [[at |-> c.part[p].at, by |-> {d}] EXCEPT !.by = @ \cup latest[p].by]]
    BY DEF Edit, c
  <2> QED
    BY <2>1, <2>2
<1>14. \E x \in SUBSET Devices : seen' = [seen EXCEPT !.unmarked = x]
  <2>1. seen' = [seen EXCEPT !.unmarked =
                   IF dev[d].phase = "idle" /\ c.updatedAt > dev[d].chat.updatedAt
                   THEN seen.unmarked \ {d} ELSE seen.unmarked \cup {d}]
    BY DEF Edit, c
  <2>2. seen.unmarked \in SUBSET Devices
    BY <1>2 DEF TypeOK
  <2> QED
    BY <2>1, <2>2
<1>15. /\ seen' \in [clash : BOOLEAN, back : BOOLEAN, rolled : BOOLEAN, unmarked : SUBSET Devices]
       /\ seen'.rolled = seen.rolled /\ seen'.clash = seen.clash /\ seen.clash \in BOOLEAN
  BY <1>2, <1>14 DEF TypeOK
<1>16. TypeOK'
  BY <1>2, <1>10, <1>11, <1>12, <1>13, <1>15 DEF TypeOK
<1>17. Dated'
  <2>1. you.deletes = me.deletes /\ you.req = me.req
    BY <1>3 DEF you, Device
  <2>2. now' >= now /\ now' \in Nat /\ 0 \notin forgets'
    BY <1>2, <1>11 DEF TypeOK, Dated
  <2>3. /\ \A k \in DOMAIN me.deletes : me.deletes[k] # 0
        /\ \A k \in DOMAIN me.req.deletes : me.req.deletes[k] # 0
    BY <1>2 DEF Dated
  <2> HIDE DEF me
  <2> QED
    BY <1>2, <1>10, <2>1, <2>2, <2>3, OneDated
<1>18. Synchronised'
  <2>1. server \in Store
    BY <1>2 DEF TypeOK
  <2>2. Following(me, server, seen.clash) => Following(you, server, seen'.clash)
    BY <1>3, <1>6, <1>7, <1>15, <2>1, EditedFollows DEF you
  <2> QED
    BY <1>2, <1>10, <1>11, <1>15, <2>2, OneFollows
<1> QED
  BY <1>11, <1>16, <1>17, <1>18 DEF IInv, Shaped

-----------------------------------------------------------------------------
(* A delete leaves the device with the chat it has seen, or about to delete it. *)
LEMMA DeletedFollows ==
  ASSUME NEW me \in Device, NEW s \in Store, NEW clash \in BOOLEAN, NEW later \in BOOLEAN,
         Following(me, s, clash), me.chat # None, NEW at \in Nat,
         clash => later, ~later => me.chat.updatedAt <= at /\ me.req.deletes = <<>>,
         NEW you, you.chat = None, you.deletes = Append(me.deletes, at),
         you.lastRev = me.lastRev, you.phase = me.phase, you.req = me.req, you.ans = me.ans
  PROVE  Following(you, s, later)
<1>1. Behind(you, s)
  BY DEF Following, Behind
<1>2. AnswerHolds(you, s)
  BY DEF Following, AnswerHolds
<1>3. Obeyed(you, s)
  BY DEF Obeyed
<1>4. ASSUME ~later
      PROVE  Known(you, s) /\ Carried(you)
  <2>1. Known(me, s) /\ me.chat.updatedAt <= at /\ me.req.deletes = <<>>
    BY <1>4 DEF Following
  <2>2. Carried(you)
    BY <2>1 DEF Carried
  <2>3. ASSUME s.chat # None, s.chatRev <= me.lastRev
        PROVE  Buries(you.deletes, s.chat)
    <3>1. /\ s.chat.updatedAt \in Nat /\ me.chat.updatedAt \in Nat /\ me.deletes \in Seq(Nat)
          /\ me.chat \in Chat
      BY <2>3 DEF Store, Device, MaybeChat, Chat
    <3>2. /\ DOMAIN you.deletes = 1 .. (Len(me.deletes) + 1) /\ Len(me.deletes) \in Nat
          /\ you.deletes[Len(me.deletes) + 1] = at
          /\ \A k \in DOMAIN me.deletes : k \in DOMAIN you.deletes
                                          /\ you.deletes[k] = me.deletes[k]
      BY <3>1
    <3>3. CASE Has(me.chat, s.chat)
      <4>1. at >= s.chat.updatedAt
        BY <2>1, <3>1, <3>3 DEF Has
      <4>2. Len(me.deletes) + 1 \in DOMAIN you.deletes
        BY <3>2
      <4> QED
        BY <3>2, <4>1, <4>2 DEF Buries
    <3>4. CASE Buries(me.deletes, s.chat)
      BY <3>2, <3>4 DEF Buries
    <3> QED
      BY <2>1, <2>3, <3>3, <3>4 DEF Known
  <2> QED
    BY <2>2, <2>3 DEF Known
<1> QED
  BY <1>1, <1>2, <1>3, <1>4 DEF Following

(* A delete preserves the invariant. *)
LEMMA DeleteOk ==
  ASSUME IInv, NEW d \in Devices, Delete(d)
  PROVE  IInv'
<1> DEFINE me == dev[d]
           at == now + Skew(d)
           q == Append(me.deletes, at)
           you == [me EXCEPT !.chat = None, !.pushed = 0, !.deletes = q]
<1>1. TypeOK /\ Dated /\ Synchronised
  BY DEF IInv
<1>2. me \in Device /\ me.chat # None /\ at \in Nat /\ at # 0
  <2>1. Skew(d) \in Nat
    BY ChatSyncConstants DEF Skew
  <2> QED
    BY <1>1, <2>1 DEF Delete, TypeOK, Dated
<1> HIDE DEF at
<1>3. dev' = [dev EXCEPT ![d] = you]
  BY DEF Delete, at
<1>4. you \in Device
  <2>1. q \in Seq(Nat)
    BY <1>2 DEF Device
  <2> HIDE DEF q, me
  <2> QED
    BY <1>2, <2>1 DEF Device, MaybeChat
<1>5. /\ you.chat = None /\ you.deletes = Append(me.deletes, at) /\ you.lastRev = me.lastRev
      /\ you.phase = me.phase /\ you.req = me.req /\ you.ans = me.ans
  BY <1>2 DEF Device
<1> HIDE DEF you
<1>6. /\ dev' \in [Devices -> Device] /\ dev'[d] = you
      /\ \A f \in Devices \ {d} : dev'[f] = dev[f]
  BY <1>1, <1>3, <1>4, OneDevice
<1>7. /\ now' = now + 1 /\ server' = server /\ disk' = disk /\ forgets' = forgets \cup {at}
      /\ latest' = latest /\ buried' = buried
  BY DEF Delete, at
<1>8. used' \in [edits : 0 .. MaxEdits, deletes : 0 .. MaxDeletes, faults : 0 .. MaxFaults]
  <2>1. used.deletes < MaxDeletes /\ used' = [used EXCEPT !.deletes = @ + 1]
    BY DEF Delete
  <2> QED
    BY <1>1, <2>1, ChatSyncConstants DEF TypeOK
<1>9. seen' = [seen EXCEPT !.clash = seen.clash \/ me.chat.updatedAt > at
                                     \/ me.req.deletes # <<>>]
  BY DEF Delete, at
<1>10. /\ seen' \in [clash : BOOLEAN, back : BOOLEAN, rolled : BOOLEAN, unmarked : SUBSET Devices]
       /\ seen'.rolled = seen.rolled /\ seen.clash \in BOOLEAN /\ seen'.clash \in BOOLEAN
       /\ (seen'.clash <=> seen.clash \/ me.chat.updatedAt > at \/ me.req.deletes # <<>>)
  BY <1>1, <1>9, Zenon DEF TypeOK
<1>11. TypeOK'
  BY <1>1, <1>2, <1>6, <1>7, <1>8, <1>10 DEF TypeOK
<1>12. Dated'
  <2>1. now' >= now /\ now' \in Nat /\ 0 \notin forgets'
    BY <1>1, <1>2, <1>7 DEF TypeOK, Dated
  <2>2. /\ \A k \in DOMAIN me.deletes : me.deletes[k] # 0
        /\ \A k \in DOMAIN me.req.deletes : me.req.deletes[k] # 0
    BY <1>1 DEF Dated
  <2>3. me.deletes \in Seq(Nat)
    BY <1>2 DEF Device
  <2>4. \A k \in DOMAIN you.deletes : you.deletes[k] # 0
    BY <1>2, <1>5, <2>2, <2>3
  <2> HIDE DEF me
  <2> QED
    BY <1>1, <1>5, <1>6, <2>1, <2>2, <2>4, OneDated
<1>13. Synchronised'
  <2>1. server \in Store /\ me.chat.updatedAt \in Nat
    BY <1>1, <1>2 DEF TypeOK, Device, MaybeChat, Chat
  <2>2. ~seen'.clash => me.chat.updatedAt <= at /\ me.req.deletes = <<>>
    BY <1>2, <1>10, <2>1
  <2>3. Following(me, server, seen.clash) => Following(you, server, seen'.clash)
    BY <1>2, <1>5, <1>10, <2>1, <2>2, DeletedFollows
  <2> HIDE DEF me
  <2>4. Following(dev[d], server, seen.clash) => Following(dev'[d], server, seen'.clash)
    BY <1>6, <2>3 DEF me
  <2> QED
    BY <1>1, <1>6, <1>7, <1>10, <2>4, OneFollows
<1> QED
  BY <1>7, <1>11, <1>12, <1>13 DEF IInv, Shaped

-----------------------------------------------------------------------------
(* Sending a sync call preserves the invariant. *)
LEMMA SyncSendOk ==
  ASSUME IInv, NEW d \in Devices, SyncSend(d)
  PROVE  IInv'
<1> DEFINE me == dev[d]
           req == [since |-> me.lastRev, chat |-> Pending(me.chat, me.pushed),
                   deletes |-> me.deletes]
           you == [me EXCEPT !.phase = "sent", !.req = req]
<1>1. TypeOK /\ Dated /\ Synchronised
  BY DEF IInv
<1>2. me \in Device
  BY <1>1 DEF TypeOK
<1>3. dev' = [dev EXCEPT ![d] = you]
  BY DEF SyncSend
<1>4. req \in Request /\ req.since = me.lastRev /\ req.deletes = me.deletes
  BY <1>2 DEF Request, Pending, Device, MaybeChat
<1> HIDE DEF req
<1>5. you \in Device
  BY <1>2, <1>4 DEF Device
<1>6. /\ you.chat = me.chat /\ you.deletes = me.deletes /\ you.lastRev = me.lastRev
      /\ you.phase = "sent" /\ you.req = req
  BY <1>2 DEF Device
<1> HIDE DEF you
<1>7. /\ dev' \in [Devices -> Device] /\ dev'[d] = you
      /\ \A f \in Devices \ {d} : dev'[f] = dev[f]
  BY <1>1, <1>3, <1>5, OneDevice
<1>8. /\ now' = now /\ server' = server /\ disk' = disk /\ forgets' = forgets
      /\ latest' = latest /\ buried' = buried /\ seen' = seen /\ used' = used
  BY DEF SyncSend
<1>9. TypeOK'
  BY <1>1, <1>7, <1>8 DEF TypeOK
<1>10. Dated'
  <2>1. now' >= now /\ now' \in Nat /\ 0 \notin forgets'
    BY <1>1, <1>8 DEF TypeOK, Dated
  <2>2. \A k \in DOMAIN me.deletes : me.deletes[k] # 0
    BY <1>1 DEF Dated
  <2> HIDE DEF me
  <2> QED
    BY <1>1, <1>4, <1>6, <1>7, <2>1, <2>2, OneDated
<1>11. Synchronised'
  <2>1. seen.clash \in BOOLEAN
    BY <1>1 DEF TypeOK
  <2>2. Following(me, server, seen.clash) => Following(you, server, seen.clash)
    <3> SUFFICES ASSUME Following(me, server, seen.clash)
                 PROVE  Following(you, server, seen.clash)
      OBVIOUS
    <3>1. Behind(you, server)
      BY <1>4, <1>6 DEF Following, Behind
    <3>2. AnswerHolds(you, server)
      BY <1>6 DEF AnswerHolds
    <3>3. Obeyed(you, server)
      BY <1>6 DEF Following, Obeyed
    <3>4. Carried(you) /\ (Known(me, server) => Known(you, server))
      BY <1>4, <1>6 DEF Carried, Known
    <3> QED
      BY <3>1, <3>2, <3>3, <3>4 DEF Following
  <2>3. Following(dev[d], server, seen.clash) => Following(dev'[d], server, seen'.clash)
    BY <1>7, <1>8, <2>2
  <2> QED
    BY <1>1, <1>7, <1>8, <2>1, <2>3, OneFollows
<1> QED
  BY <1>8, <1>9, <1>10, <1>11 DEF IInv, Shaped

(* A sync call that fails preserves the invariant. *)
LEMMA SyncFailsOk ==
  ASSUME IInv, NEW d \in Devices, SyncFails(d)
  PROVE  IInv'
<1> DEFINE me == dev[d]
           you == [me EXCEPT !.phase = "idle", !.req = NoRequest, !.ans = NoAnswer]
<1>1. TypeOK /\ Dated /\ Synchronised
  BY DEF IInv
<1>2. me \in Device
  BY <1>1 DEF TypeOK
<1>3. dev' = [dev EXCEPT ![d] = you]
  BY DEF SyncFails
<1>4. NoRequest \in Request /\ NoAnswer \in Answer /\ NoRequest.deletes = <<>>
  BY DEF NoRequest, NoAnswer, Request, Answer, MaybeChat
<1>5. you \in Device
  BY <1>2, <1>4 DEF Device
<1>6. /\ you.chat = me.chat /\ you.deletes = me.deletes /\ you.lastRev = me.lastRev
      /\ you.phase = "idle" /\ you.req = NoRequest
  BY <1>2 DEF Device
<1> HIDE DEF you
<1>7. /\ dev' \in [Devices -> Device] /\ dev'[d] = you
      /\ \A f \in Devices \ {d} : dev'[f] = dev[f]
  BY <1>1, <1>3, <1>5, OneDevice
<1>8. /\ now' = now /\ server' = server /\ disk' = disk /\ forgets' = forgets
      /\ latest' = latest /\ buried' = buried /\ seen' = seen
  BY DEF SyncFails
<1>9. used' \in [edits : 0 .. MaxEdits, deletes : 0 .. MaxDeletes, faults : 0 .. MaxFaults]
  <2>1. used.faults < MaxFaults /\ used' = [used EXCEPT !.faults = @ + 1]
    BY DEF SyncFails
  <2> QED
    BY <1>1, <2>1, ChatSyncConstants DEF TypeOK
<1>10. TypeOK'
  BY <1>1, <1>7, <1>8, <1>9 DEF TypeOK
<1>11. Dated'
  <2>1. now' >= now /\ now' \in Nat /\ 0 \notin forgets'
    BY <1>1, <1>8 DEF TypeOK, Dated
  <2>2. \A k \in DOMAIN me.deletes : me.deletes[k] # 0
    BY <1>1 DEF Dated
  <2>3. \A k \in DOMAIN you.req.deletes : you.req.deletes[k] # 0
    BY <1>4, <1>6
  <2> HIDE DEF me
  <2> QED
    BY <1>1, <1>6, <1>7, <2>1, <2>2, <2>3, OneDated
<1>12. Synchronised'
  <2>1. seen.clash \in BOOLEAN
    BY <1>1 DEF TypeOK
  <2>2. Following(me, server, seen.clash) => Following(you, server, seen.clash)
    <3> SUFFICES ASSUME Following(me, server, seen.clash)
                 PROVE  Following(you, server, seen.clash)
      OBVIOUS
    <3>1. Behind(you, server)
      BY <1>6 DEF Following, Behind
    <3>2. AnswerHolds(you, server)
      BY <1>6 DEF AnswerHolds
    <3>3. Obeyed(you, server)
      BY <1>6 DEF Following, Obeyed
    <3>4. Carried(you) /\ (Known(me, server) => Known(you, server))
      BY <1>4, <1>6 DEF Carried, Known
    <3> QED
      BY <3>1, <3>2, <3>3, <3>4 DEF Following
  <2>3. Following(dev[d], server, seen.clash) => Following(dev'[d], server, seen'.clash)
    BY <1>7, <1>8, <2>2
  <2> QED
    BY <1>1, <1>7, <1>8, <2>1, <2>3, OneFollows
<1> QED
  BY <1>8, <1>10, <1>11, <1>12 DEF IInv, Shaped

-----------------------------------------------------------------------------
(* What an answer makes of a copy is a copy. *)
LEMMA IncomingType ==
  ASSUME NEW c \in MaybeChat, NEW pushed \in Nat, NEW deletes \in Seq(Nat), NEW ans \in Answer
  PROVE  LET m == mergeIncoming(c, pushed, deletes, ans)
         IN m.chat \in MaybeChat /\ m.pushed \in Nat
<1> DEFINE hidden == \/ ans.chat = None
                     \/ \E k \in DOMAIN deletes : deletes[k] >= ans.chat.updatedAt
           merged == IF hidden THEN c
                     ELSE IF c = None THEN ans.chat ELSE mergeIncomingChat(c, ans.chat)
           gone == ans.deleted # 0 /\ merged # None /\ merged.updatedAt <= ans.deleted
           m == mergeIncoming(c, pushed, deletes, ans)
<1>1. m = [chat   |-> IF gone THEN None ELSE merged,
           pushed |-> IF gone THEN 0
                      ELSE IF hidden THEN pushed ELSE Later(pushed, ans.chat.updatedAt)]
  BY DEF mergeIncoming
<1>2. ~hidden => ans.chat \in Chat /\ ans.chat.updatedAt \in Nat
  BY DEF Answer, MaybeChat, Chat
<1> HIDE DEF hidden
<1>3. merged \in MaybeChat
  <2>1. ~hidden /\ c # None => mergeIncomingChat(c, ans.chat) \in Chat
    BY <1>2, IncomingFacts DEF MaybeChat
  <2> QED
    BY <1>2, <2>1 DEF MaybeChat
<1>4. ~hidden => Later(pushed, ans.chat.updatedAt) \in Nat
  BY <1>2, LaterFacts
<1> HIDE DEF merged, gone, m
<1>5. m.chat \in MaybeChat /\ m.pushed \in Nat
  BY <1>1, <1>3, <1>4 DEF MaybeChat
<1> QED
  BY <1>5 DEF m

(* The copy after an answer that holds no chat and no deletion is the copy before it. *)
LEMMA NoNews ==
  ASSUME NEW c, NEW pushed, NEW deletes, NEW ans, ans.chat = None, ans.deleted = 0
  PROVE  mergeIncoming(c, pushed, deletes, ans).chat = c
BY DEF mergeIncoming

(* An answer that brings the store's chat leaves the device with it, or with its delete. *)
LEMMA NewsTaken ==
  ASSUME NEW c \in MaybeChat, NEW pushed, NEW deletes, NEW ans, NEW x \in Chat,
         ans.chat = x, ans.deleted = 0
  PROVE  Has(mergeIncoming(c, pushed, deletes, ans).chat, x) \/ Buries(deletes, x)
<1> SUFFICES ASSUME ~Buries(deletes, x)
             PROVE  Has(mergeIncoming(c, pushed, deletes, ans).chat, x)
  OBVIOUS
<1>1. x # None
  BY NoneIsNoChat
<1>2. mergeIncoming(c, pushed, deletes, ans).chat
        = IF c = None THEN x ELSE mergeIncomingChat(c, x)
  BY <1>1 DEF mergeIncoming, Buries
<1>3. Has(x, x)
  BY <1>1 DEF Has, Chat
<1>4. c # None => Has(mergeIncomingChat(c, x), x)
  BY IncomingFacts DEF MaybeChat
<1> QED
  BY <1>2, <1>3, <1>4

(* An answer that tells of a deletion leaves the device without a chat that is not newer. *)
LEMMA DeletionTaken ==
  ASSUME NEW c \in MaybeChat, NEW pushed, NEW deletes, NEW ans, ans.chat = None,
         NEW at \in Nat, at # 0, ans.deleted = at
  PROVE  LET m == mergeIncoming(c, pushed, deletes, ans).chat
         IN m = None \/ (m = c /\ c.updatedAt > at)
<1> DEFINE m == mergeIncoming(c, pushed, deletes, ans).chat
<1>1. m = IF c # None /\ c.updatedAt <= at THEN None ELSE c
  BY DEF mergeIncoming
<1>2. c # None => c.updatedAt \in Nat
  BY DEF MaybeChat, Chat
<1> HIDE DEF m
<1>3. m = None \/ (m = c /\ c.updatedAt > at)
  BY <1>1, <1>2
<1> QED
  BY <1>3 DEF m

(* Any answer that holds no chat leaves the copy or drops it. *)
LEMMA CopyOrNone ==
  ASSUME NEW c, NEW pushed, NEW deletes, NEW ans, ans.chat = None
  PROVE  mergeIncoming(c, pushed, deletes, ans).chat \in {None, c}
BY DEF mergeIncoming

(* The device has taken the answer in. *)
LEMMA ReceivedFollows ==
  ASSUME NEW me \in Device, me.phase = "answered", NEW s \in Store, NEW clash \in BOOLEAN,
         Following(me, s, clash), NEW kept \in MaybeChat,
         kept = (IF me.ans.verdict = "deleted" THEN None ELSE me.chat), NEW marked,
         NEW queued, queued = (IF me.req.deletes # <<>> THEN <<>> ELSE me.deletes),
         NEW you, you.chat = mergeIncoming(kept, marked, queued, me.ans).chat,
         you.lastRev = me.ans.rev, you.deletes = queued, you.phase = "idle",
         you.req = NoRequest
  PROVE  Following(you, s, clash)
<1>1. /\ Behind(me, s) /\ AnswerHolds(me, s) /\ Obeyed(me, s)
      /\ clash \/ (Known(me, s) /\ Carried(me))
  BY DEF Following
<1>2. /\ me.req.since = me.lastRev /\ me.lastRev \in Nat /\ s.tomb \in Nat /\ s.tombRev \in Nat
      /\ s.chatRev \in Nat /\ (s.chat # None => s.chat \in Chat)
  BY <1>1 DEF Behind, Device, Store, MaybeChat
<1>3. Behind(you, s) /\ AnswerHolds(you, s) /\ Carried(you)
  BY <1>1 DEF Behind, AnswerHolds, Carried, NoRequest
<1>4. ASSUME s.tomb # 0, s.tombRev <= me.ans.rev, you.chat # None
      PROVE  you.chat.updatedAt > s.tomb
  <2>1. me.ans.chat = None /\ (s.tombRev > me.req.since => me.ans.deleted = s.tomb)
    BY <1>1, <1>4 DEF AnswerHolds
  <2>2. CASE s.tombRev > me.req.since
    BY <1>2, <1>4, <2>1, <2>2, DeletionTaken
  <2>3. CASE s.tombRev <= me.lastRev
    <3>1. you.chat = me.chat /\ me.chat # None
      BY <1>4, <2>1, CopyOrNone
    <3> QED
      BY <1>1, <1>4, <2>3, <3>1 DEF Obeyed
  <2> QED
    BY <1>2, <2>2, <2>3
<1>5. Obeyed(you, s)
  BY <1>4 DEF Obeyed
<1>6. ASSUME ~clash, s.chat # None, s.chatRev <= me.ans.rev
      PROVE  Has(you.chat, s.chat) \/ Buries(you.deletes, s.chat)
  <2>1. /\ me.ans.deleted = 0 /\ me.ans.verdict # "deleted"
        /\ me.ans.chat = (IF s.chatRev > me.req.since THEN s.chat ELSE None)
        /\ ~Buries(me.req.deletes, s.chat)
    BY <1>1, <1>6 DEF AnswerHolds
  <2>2. CASE s.chatRev > me.req.since
    BY <1>2, <1>6, <2>1, <2>2, NewsTaken
  <2>3. CASE ~(s.chatRev > me.req.since)
    <3>1. me.ans.chat = None /\ s.chatRev <= me.lastRev
      BY <1>2, <2>1, <2>3
    <3>2. you.chat = me.chat
      BY <2>1, <3>1, NoNews
    <3>3. Has(me.chat, s.chat) \/ Buries(me.deletes, s.chat)
      BY <1>1, <1>6, <3>1 DEF Known
    <3>4. Buries(me.deletes, s.chat) => me.req.deletes = <<>>
      BY <1>1, <1>6, <2>1 DEF Carried
    <3> QED
      BY <3>2, <3>3, <3>4
  <2> QED
    BY <2>2, <2>3
<1>7. clash \/ Known(you, s)
  BY <1>6 DEF Known
<1> QED
  BY <1>3, <1>5, <1>7 DEF Following

(* Taking in an answer preserves the invariant. *)
LEMMA SyncReceiveOk ==
  ASSUME IInv, NEW d \in Devices, SyncReceive(d)
  PROVE  IInv'
<1> DEFINE me == dev[d]
           ans == me.ans
           kept == IF ans.verdict = "deleted" THEN None ELSE me.chat
           marked == IF ans.verdict = "deleted" THEN 0
                     ELSE IF ans.verdict = "accepted" /\ me.chat # None THEN me.chat.updatedAt
                     ELSE me.pushed
           queued == IF me.req.deletes # <<>> THEN <<>> ELSE me.deletes
           moved == mergeIncoming(kept, marked, queued, ans)
           booked == IF ans.verdict \in {"stale", "deleted"} /\ moved.chat # None
                     THEN moved.chat.updatedAt ELSE moved.pushed
           you == [chat |-> moved.chat, lastRev |-> ans.rev, pushed |-> booked,
                   deletes |-> queued, phase |-> "idle", req |-> NoRequest, ans |-> NoAnswer]
<1>1. TypeOK /\ Dated /\ Synchronised
  BY DEF IInv
<1>2. me \in Device /\ me.phase = "answered"
  BY <1>1 DEF TypeOK, SyncReceive
<1>3. dev' = [dev EXCEPT ![d] = you]
  BY DEF SyncReceive
<1>4. /\ ans \in Answer /\ ans.rev \in Nat /\ kept \in MaybeChat /\ marked \in Nat
      /\ queued \in Seq(Nat)
  <2>1. /\ ans \in Answer /\ me.chat \in MaybeChat /\ me.pushed \in Nat
        /\ me.deletes \in Seq(Nat) /\ (me.chat # None => me.chat.updatedAt \in Nat)
    BY <1>2 DEF Device, MaybeChat, Chat
  <2> HIDE DEF ans, me
  <2> QED
    BY <2>1 DEF Answer, MaybeChat
<1> HIDE DEF ans, kept, marked, queued
<1>5. moved.chat \in MaybeChat /\ moved.pushed \in Nat
  BY <1>4, IncomingType
<1> HIDE DEF moved
<1>6. booked \in Nat
  BY <1>5 DEF MaybeChat, Chat
<1> HIDE DEF booked
<1>7. NoRequest \in Request /\ NoAnswer \in Answer /\ NoRequest.deletes = <<>>
  BY DEF NoRequest, NoAnswer, Request, Answer, MaybeChat
<1>8. you \in Device
  BY <1>4, <1>5, <1>6, <1>7 DEF Device
<1>9. /\ you.chat = moved.chat /\ you.lastRev = ans.rev /\ you.deletes = queued
      /\ you.phase = "idle" /\ you.req = NoRequest
  OBVIOUS
<1> HIDE DEF you
<1>10. /\ dev' \in [Devices -> Device] /\ dev'[d] = you
       /\ \A f \in Devices \ {d} : dev'[f] = dev[f]
  BY <1>1, <1>3, <1>8, OneDevice
<1>11. /\ now' = now /\ server' = server /\ disk' = disk /\ forgets' = forgets
       /\ latest' = latest /\ buried' = buried /\ seen' = seen /\ used' = used
  BY DEF SyncReceive
<1>12. TypeOK'
  BY <1>1, <1>10, <1>11 DEF TypeOK
<1>13. Dated'
  <2>1. now' >= now /\ now' \in Nat /\ 0 \notin forgets'
    BY <1>1, <1>11 DEF TypeOK, Dated
  <2>2. \A k \in DOMAIN me.deletes : me.deletes[k] # 0
    BY <1>1 DEF Dated
  <2>3. /\ \A k \in DOMAIN you.deletes : you.deletes[k] # 0
        /\ \A k \in DOMAIN you.req.deletes : you.req.deletes[k] # 0
    BY <1>7, <1>9, <2>2 DEF queued
  <2> HIDE DEF me
  <2> QED
    BY <1>1, <1>10, <2>1, <2>3, OneDated
<1>14. Synchronised'
  <2>1. seen.clash \in BOOLEAN /\ server \in Store
    BY <1>1 DEF TypeOK
  <2>2. you.chat = mergeIncoming(kept, marked, queued, me.ans).chat
        /\ you.lastRev = me.ans.rev
        /\ kept = (IF me.ans.verdict = "deleted" THEN None ELSE me.chat)
        /\ queued = (IF me.req.deletes # <<>> THEN <<>> ELSE me.deletes)
    BY <1>9 DEF moved, ans, kept, queued
  <2>3. Following(me, server, seen.clash) => Following(you, server, seen.clash)
    <3> HIDE DEF me
    <3> QED
      BY <1>2, <1>4, <1>9, <2>1, <2>2, ReceivedFollows
  <2>4. Following(dev[d], server, seen.clash) => Following(dev'[d], server, seen'.clash)
    BY <1>10, <1>11, <2>3
  <2> QED
    BY <1>1, <1>10, <1>11, <2>1, <2>4, OneFollows
<1> QED
  BY <1>11, <1>12, <1>13, <1>14 DEF IInv, Shaped

-----------------------------------------------------------------------------
(* What the store keeps after a write, on disk or not. *)
LEMMA StoresType ==
  ASSUME TypeOK, NEW s \in Store, Stores(s)
  PROVE  /\ server' = s /\ disk' \in Store /\ buried' \in Nat
         /\ buried' = (IF s.tomb # 0 THEN s.tomb ELSE buried)
         /\ used' \in [edits : 0 .. MaxEdits, deletes : 0 .. MaxDeletes, faults : 0 .. MaxFaults]
<1>1. server' = s /\ buried' = (IF s.tomb # 0 THEN s.tomb ELSE buried)
  BY DEF Stores
<1>2. buried' \in Nat
  BY <1>1 DEF TypeOK, Store
<1>3. CASE disk' = s /\ used' = used
  BY <1>1, <1>2, <1>3 DEF TypeOK
<1>4. CASE used.faults < MaxFaults /\ used' = [used EXCEPT !.faults = @ + 1] /\ disk' = disk
  BY <1>1, <1>2, <1>4, ChatSyncConstants DEF TypeOK
<1> QED
  BY <1>3, <1>4 DEF Stores

(* Serving a sync call preserves the invariant. *)
LEMMA ServeOk ==
  ASSUME IInv, NEW d \in Devices, Serve(d)
  PROVE  IInv'
<1> DEFINE me == dev[d]
           c == me.req.chat
           ds == me.req.deletes
           taken == PushChat(server, c)
           s == PushDeletes(taken.store, ds)
           news == pull(s, me.req.since)
           a == [rev |-> news.rev, chat |-> news.chat, deleted |-> news.deleted,
                 verdict |-> taken.verdict]
           r == [me.req EXCEPT !.chat = None]
           you == [me EXCEPT !.phase = "answered", !.req = r, !.ans = a]
<1>1. TypeOK /\ Dated /\ Shaped /\ Synchronised
  BY DEF IInv
<1>2. me \in Device /\ me.phase = "sent" /\ server \in Store
  BY <1>1 DEF TypeOK, Serve
<1>3. me.req \in Request /\ c \in MaybeChat /\ ds \in Seq(Nat) /\ me.req.since \in Nat
  BY <1>2 DEF Device, Request
<1>4. /\ Stores(s) /\ dev' = [dev EXCEPT ![d] = you]
      /\ now' = now /\ forgets' = forgets /\ latest' = latest
  BY DEF Serve
<1>5. seen' = [seen EXCEPT !.clash = seen.clash \/ Lowers(s),
                           !.back = seen.back \/ Returns(d, taken.store),
                           !.unmarked = IF Refuses(server, c) THEN seen.unmarked \cup {d}
                                        ELSE seen.unmarked]
  BY DEF Serve
<1>6. /\ \A k \in DOMAIN ds : ds[k] # 0
      /\ \A k \in DOMAIN me.deletes : me.deletes[k] # 0
  BY <1>1 DEF Dated
<1>7. /\ seen' \in [clash : BOOLEAN, back : BOOLEAN, rolled : BOOLEAN, unmarked : SUBSET Devices]
      /\ seen'.rolled = seen.rolled /\ seen.clash \in BOOLEAN /\ seen'.clash \in BOOLEAN
      /\ (seen.clash => seen'.clash)
  <2> HIDE DEF s, taken
  <2>1. (seen.clash \/ Lowers(s)) \in BOOLEAN
        /\ (seen.back \/ Returns(d, taken.store)) \in BOOLEAN
    BY Zenon DEF Lowers, Returns
  <2>2. (IF Refuses(server, c) THEN seen.unmarked \cup {d} ELSE seen.unmarked)
          \in SUBSET Devices
    BY <1>1 DEF TypeOK
  <2> QED
    BY <1>1, <1>5, <2>1, <2>2, Zenon DEF TypeOK
<1>8. /\ Steps(server, s) /\ (s.chat # None => taken.verdict # "deleted" /\ ~Buries(ds, s.chat))
      /\ \A b \in Nat : Tombstone(server, b) => Tombstone(s, IF s.tomb # 0 THEN s.tomb ELSE b)
  <2>1. Shape(server)
    BY <1>1 DEF Shaped
  <2> HIDE DEF me, c, ds
  <2>2. s = PushDeletes(PushChat(server, c).store, ds)
    OBVIOUS
  <2> HIDE DEF s
  <2> QED
    BY <1>2, <1>3, <1>6, <2>1, <2>2, ServedFacts
<1>9. taken.verdict \in {"none", "accepted", "stale", "deleted"}
  BY <1>1, <1>2, <1>3, PushChatFacts DEF Shaped
<1> HIDE DEF s, taken
<1>10. s \in Store /\ Shape(s)
  BY <1>8 DEF Steps
<1>11. a \in Answer /\ a.rev = news.rev /\ a.chat = news.chat /\ a.deleted = news.deleted
       /\ a.verdict = taken.verdict
  <2>1. news.rev \in Nat /\ news.chat \in MaybeChat /\ news.deleted \in Nat
    BY <1>10 DEF pull, Store, MaybeChat
  <2> HIDE DEF news
  <2> QED
    BY <1>9, <2>1 DEF Answer
<1> HIDE DEF a, news
<1>12. r \in Request /\ r.since = me.req.since /\ r.deletes = ds
  <2>1. me.req \in Request
    BY <1>3
  <2> QED
    BY <2>1 DEF Request, MaybeChat
<1> HIDE DEF r
<1>13. you \in Device
  BY <1>2, <1>11, <1>12 DEF Device
<1>14. /\ you.chat = me.chat /\ you.lastRev = me.lastRev /\ you.deletes = me.deletes
       /\ you.phase = "answered" /\ you.req = r /\ you.ans = a
  BY <1>2 DEF Device
<1>15. dev' = [dev EXCEPT ![d] = you]
  BY <1>4 DEF a, r, news, s, taken
<1> HIDE DEF you
<1>16. /\ dev' \in [Devices -> Device] /\ dev'[d] = you
       /\ \A f \in Devices \ {d} : dev'[f] = dev[f]
  BY <1>1, <1>13, <1>15, OneDevice
<1>17. /\ server' = s /\ disk' \in Store /\ buried' \in Nat
       /\ buried' = (IF s.tomb # 0 THEN s.tomb ELSE buried)
       /\ used' \in [edits : 0 .. MaxEdits, deletes : 0 .. MaxDeletes, faults : 0 .. MaxFaults]
  BY <1>1, <1>4, <1>10, StoresType
<1>18. TypeOK'
  BY <1>1, <1>4, <1>7, <1>10, <1>16, <1>17 DEF TypeOK
<1>19. Dated'
  <2>1. now' >= now /\ now' \in Nat /\ 0 \notin forgets'
    BY <1>1, <1>4 DEF TypeOK, Dated
  <2>2. /\ \A k \in DOMAIN you.deletes : you.deletes[k] # 0
        /\ \A k \in DOMAIN you.req.deletes : you.req.deletes[k] # 0
    BY <1>6, <1>12, <1>14
  <2> HIDE DEF me
  <2> QED
    BY <1>1, <1>16, <2>1, <2>2, OneDated
<1>20. Shaped'
  BY <1>1, <1>4, <1>10, <1>17 DEF Shaped, Stores
<1>21. Synchronised'
  <2> SUFFICES ASSUME ~seen'.rolled
               PROVE  /\ Tombstone(server', buried')
                      /\ \A e \in Devices : Following(dev'[e], server', seen'.clash)
    BY DEF Synchronised
  <2>1. /\ Tombstone(server, buried)
        /\ \A e \in Devices : Following(dev[e], server, seen.clash)
    BY <1>1, <1>7 DEF Synchronised
  <2>2. Tombstone(server', buried')
    BY <1>1, <1>8, <1>17, <2>1 DEF TypeOK
  <2>3. ASSUME NEW e \in Devices
        PROVE  Following(dev[e], s, seen'.clash)
    <3>1. dev[e] \in Device
      BY <1>1 DEF TypeOK
    <3> QED
      BY <1>2, <1>7, <1>8, <2>1, <3>1, StoreMovesOn
  <2>4. Following(you, s, seen'.clash)
    <3>1. Following(me, s, seen'.clash)
      BY <2>3
    <3>2. /\ you.ans.rev = pull(s, me.req.since).rev
          /\ you.ans.chat = pull(s, me.req.since).chat
          /\ you.ans.deleted = pull(s, me.req.since).deleted
          /\ (s.chat # None => you.ans.verdict # "deleted" /\ ~Buries(me.req.deletes, s.chat))
      BY <1>8, <1>11, <1>14 DEF news
    <3> HIDE DEF me
    <3> QED
      BY <1>2, <1>7, <1>10, <1>12, <1>14, <3>1, <3>2, ServedDevice DEF ds
  <2>5. ASSUME NEW e \in Devices
        PROVE  Following(dev'[e], s, seen'.clash)
    <3>1. CASE e = d
      BY <1>16, <2>4, <3>1
    <3>2. CASE e # d
      <4>1. dev'[e] = dev[e]
        BY <1>16, <3>2
      <4> QED
        BY <2>3, <4>1
    <3> QED
      BY <3>1, <3>2
  <2> QED
    BY <1>17, <2>2, <2>5
<1> QED
  BY <1>18, <1>19, <1>20, <1>21 DEF IInv

(* Serving a forget preserves the invariant. *)
LEMMA ForgetOk ==
  ASSUME IInv, NEW at \in forgets, Forget(at)
  PROVE  IInv'
<1> DEFINE s == remove(server, at)
<1>1. TypeOK /\ Dated /\ Shaped /\ Synchronised
  BY DEF IInv
<1>2. server \in Store /\ at \in Nat /\ at # 0
  BY <1>1 DEF TypeOK, Dated
<1>3. /\ s \in Store /\ Shape(s) /\ Moved(server, s) /\ s.chat = None /\ s.tomb = at
  BY <1>2, RemoveFacts
<1>4. /\ Stores(s) /\ forgets' = forgets \ {at} /\ now' = now /\ dev' = dev /\ latest' = latest
  BY DEF Forget
<1>5. seen' = [seen EXCEPT !.clash = seen.clash \/ Lowers(s)
                                \/ (server.chat # None /\ server.chat.updatedAt > at)]
  BY DEF Forget
<1> HIDE DEF s
<1>6. /\ seen' \in [clash : BOOLEAN, back : BOOLEAN, rolled : BOOLEAN, unmarked : SUBSET Devices]
      /\ seen'.rolled = seen.rolled /\ seen.clash \in BOOLEAN /\ seen'.clash \in BOOLEAN
      /\ (seen.clash => seen'.clash)
  <2>1. (seen.clash \/ Lowers(s) \/ (server.chat # None /\ server.chat.updatedAt > at))
          \in BOOLEAN
    BY Zenon
  <2> QED
    BY <1>1, <1>5, <2>1, Zenon DEF TypeOK
<1>7. /\ server' = s /\ disk' \in Store /\ buried' \in Nat
      /\ buried' = (IF s.tomb # 0 THEN s.tomb ELSE buried)
      /\ used' \in [edits : 0 .. MaxEdits, deletes : 0 .. MaxDeletes, faults : 0 .. MaxFaults]
  BY <1>1, <1>3, <1>4, StoresType
<1>8. TypeOK'
  BY <1>1, <1>3, <1>4, <1>6, <1>7 DEF TypeOK
<1>9. Dated'
  BY <1>1, <1>4 DEF Dated
<1>10. Shaped'
  BY <1>1, <1>3, <1>4, <1>7 DEF Shaped, Stores
<1>11. Synchronised'
  <2> SUFFICES ASSUME ~seen'.rolled
               PROVE  /\ Tombstone(server', buried')
                      /\ \A e \in Devices : Following(dev'[e], server', seen'.clash)
    BY DEF Synchronised
  <2>1. \A e \in Devices : Following(dev[e], server, seen.clash)
    BY <1>1, <1>6 DEF Synchronised
  <2>2. Tombstone(server', buried')
    BY <1>2, <1>3, <1>7 DEF Tombstone
  <2>3. Steps(server, s)
    BY <1>3 DEF Steps
  <2>4. ASSUME NEW e \in Devices
        PROVE  Following(dev[e], s, seen'.clash)
    <3>1. dev[e] \in Device
      BY <1>1 DEF TypeOK
    <3> QED
      BY <1>2, <1>6, <2>1, <2>3, <3>1, StoreMovesOn
  <2> QED
    BY <1>4, <1>7, <2>2, <2>4
<1> QED
  BY <1>8, <1>9, <1>10, <1>11 DEF IInv

(* After a restart that lost writes nothing is claimed but types, dates and the store's shape. *)
LEMMA RestartOk ==
  ASSUME IInv, Restart
  PROVE  IInv'
<1>1. TypeOK /\ Dated /\ Shaped /\ Synchronised
  BY DEF IInv
<1>2. /\ server' = disk /\ seen' = [seen EXCEPT !.rolled = TRUE] /\ now' = now /\ disk' = disk
      /\ dev' = dev /\ forgets' = forgets /\ latest' = latest /\ buried' = buried /\ used' = used
  BY DEF Restart
<1>3. /\ seen' \in [clash : BOOLEAN, back : BOOLEAN, rolled : BOOLEAN, unmarked : SUBSET Devices]
      /\ seen'.rolled
  BY <1>1, <1>2 DEF TypeOK
<1>4. TypeOK'
  BY <1>1, <1>2, <1>3 DEF TypeOK
<1>5. Dated' /\ Shaped'
  BY <1>1, <1>2 DEF Dated, Shaped
<1>6. Synchronised'
  BY <1>3 DEF Synchronised
<1> QED
  BY <1>4, <1>5, <1>6 DEF IInv

-----------------------------------------------------------------------------
(* The invariant holds when every device has the chat, migrated or not. *)
LEMMA InitOk == Init => IInv
<1> SUFFICES ASSUME Init
             PROVE  IInv
  OBVIOUS
<1>1. PICK n \in 1 .. 3 :
        dev = [d \in Devices |-> Synced(IF d \in Migrated THEN Legacy(d, n) ELSE Base)]
  BY DEF Init
<1> DEFINE copy(d) == IF d \in Migrated THEN Legacy(d, n) ELSE Base
<1>2. Base \in Chat /\ Base.updatedAt = 1 /\ \A p \in Parts : Base.part[p].at = 1
  BY DEF Base, Chat
<1>3. ASSUME NEW d \in Devices
      PROVE  Legacy(d, n) \in Chat /\ Legacy(d, n).updatedAt = 2
             /\ \A p \in Parts : Legacy(d, n).part[p].at = 2
  BY DEF Legacy, Chat
<1>4. ASSUME NEW d \in Devices
      PROVE  copy(d) \in Chat /\ Has(copy(d), Base)
  <2>1. copy(d) \in Chat /\ copy(d).updatedAt >= 1 /\ \A p \in Parts : copy(d).part[p].at >= 1
    <3>1. CASE d \in Migrated
      BY <1>3, <3>1
    <3>2. CASE d \notin Migrated
      BY <1>2, <3>2
    <3> QED
      BY <3>1, <3>2
  <2>2. copy(d) # None
    BY <2>1, NoneIsNoChat
  <2> HIDE DEF copy
  <2> QED
    BY <1>2, <2>1, <2>2 DEF Has
<1> HIDE DEF copy
<1>5. NoRequest \in Request /\ NoAnswer \in Answer /\ NoRequest.deletes = <<>>
  BY DEF NoRequest, NoAnswer, Request, Answer, MaybeChat
<1>6. ASSUME NEW d \in Devices
      PROVE  /\ dev[d] \in Device /\ dev[d].chat = copy(d) /\ dev[d].lastRev = 1
             /\ dev[d].deletes = <<>> /\ dev[d].phase = "idle" /\ dev[d].req = NoRequest
  <2>1. PICK c \in Chat : c = copy(d)
    BY <1>4
  <2>2. dev[d] = [chat |-> c, lastRev |-> 1, pushed |-> 1, deletes |-> <<>>,
                  phase |-> "idle", req |-> NoRequest, ans |-> NoAnswer]
    BY <1>1, <2>1 DEF Synced, copy
  <2>3. dev[d] \in Device
    BY <1>5, <2>2 DEF Device, MaybeChat
  <2> QED
    BY <2>1, <2>2, <2>3
<1>8. dev \in [Devices -> Device]
  BY <1>1, <1>6
<1>9. server \in Store /\ disk = server /\ Shape(server) /\ server.chat = Base
      /\ server.chatRev = 1 /\ server.tomb = 0 /\ server.rev = 1
  BY <1>2 DEF Init, Store, MaybeChat, Shape
<1>10. used \in [edits : 0 .. MaxEdits, deletes : 0 .. MaxDeletes, faults : 0 .. MaxFaults]
  BY ChatSyncConstants DEF Init
<1>11. /\ latest \in [Parts -> [at : Nat, by : SUBSET Devices]]
       /\ now = 3 /\ forgets = {} /\ buried = 0
  BY DEF Init
<1>12. seen \in [clash : BOOLEAN, back : BOOLEAN, rolled : BOOLEAN, unmarked : SUBSET Devices]
  BY DEF Init
<1>13. TypeOK
  BY <1>8, <1>9, <1>10, <1>11, <1>12 DEF TypeOK
<1>14. Dated
  BY <1>5, <1>6, <1>11 DEF Dated
<1>15. Shaped
  BY <1>9 DEF Shaped
<1>16. Tombstone(server, buried)
  <2>1. Base # None
    BY <1>2, NoneIsNoChat
  <2> QED
    BY <1>2, <1>9, <1>11, <2>1 DEF Tombstone
<1>17. ASSUME NEW d \in Devices
       PROVE  Following(dev[d], server, seen.clash)
  <2>1. Behind(dev[d], server) /\ AnswerHolds(dev[d], server)
    BY <1>6, <1>9 DEF Behind, AnswerHolds
  <2>2. Obeyed(dev[d], server)
    BY <1>9 DEF Obeyed
  <2>3. Known(dev[d], server)
    BY <1>4, <1>6, <1>9 DEF Known
  <2>4. Carried(dev[d])
    BY <1>5, <1>6 DEF Carried
  <2> QED
    BY <2>1, <2>2, <2>3, <2>4 DEF Following
<1>18. Synchronised
  BY <1>16, <1>17 DEF Synchronised
<1> QED
  BY <1>13, <1>14, <1>15, <1>18 DEF IInv

(* Every step preserves the invariant. *)
LEMMA StepOk == IInv /\ [Next]_vars => IInv'
<1> SUFFICES ASSUME IInv, [Next]_vars
             PROVE  IInv'
  OBVIOUS
<1>1. ASSUME NEW d \in Devices, NEW ps \in Gestures, Edit(d, ps)
      PROVE  IInv'
  BY <1>1, EditOk
<1>2. ASSUME NEW d \in Devices, Delete(d)
      PROVE  IInv'
  BY <1>2, DeleteOk
<1>3. ASSUME NEW d \in Devices, SyncSend(d)
      PROVE  IInv'
  BY <1>3, SyncSendOk
<1>4. ASSUME NEW d \in Devices, Serve(d)
      PROVE  IInv'
  BY <1>4, ServeOk
<1>5. ASSUME NEW d \in Devices, SyncReceive(d)
      PROVE  IInv'
  BY <1>5, SyncReceiveOk
<1>6. ASSUME NEW d \in Devices, SyncFails(d)
      PROVE  IInv'
  BY <1>6, SyncFailsOk
<1>7. ASSUME NEW at \in forgets, Forget(at)
      PROVE  IInv'
  BY <1>7, ForgetOk
<1>8. ASSUME Restart
      PROVE  IInv'
  BY <1>8, RestartOk
<1>9. CASE UNCHANGED vars
  BY <1>9 DEF vars, IInv, TypeOK, Dated, Shaped, Synchronised
<1> QED
  BY <1>1, <1>2, <1>3, <1>4, <1>5, <1>6, <1>7, <1>8, <1>9 DEF Next

(* The invariant holds throughout. *)
LEMMA Invariance == Spec => []IInv
BY InitOk, StepOk, PTL DEF Spec

-----------------------------------------------------------------------------
(* What a device has up to revision rev, the store has as well, or it has a deletion of it *)
(* that is past rev.                                                                       *)
Kept(c, rev, s) ==
  \/ Has(s.chat, c)
  \/ s.chat = None /\ s.tombRev > rev /\ s.tomb >= c.updatedAt

(* A call pushes the chat unless it is marked as pushed; what is marked, or has been answered *)
(* for, is kept by the store, and so is what an answer under way brings.                      *)
Booked(me, s) ==
  /\ me.phase = "sent" /\ me.chat # None => me.req.chat = Pending(me.chat, me.pushed)
  /\ /\ me.chat # None
     /\ \/ me.chat.updatedAt = me.pushed
        \/ me.phase = "answered" /\ me.ans.verdict # "deleted"
     => Kept(me.chat, me.lastRev, s)
  /\ me.phase = "answered" =>
       /\ me.lastRev <= me.ans.rev
       /\ me.ans.verdict = "deleted" => me.ans.chat = None
       /\ me.ans.chat # None => Kept(me.ans.chat, me.ans.rev, s)

AllBooked ==
  \/ seen.rolled \/ seen.clash \/ seen.back
  \/ \A d \in Devices \ seen.unmarked : Booked(dev[d], server)

(* The marker never runs ahead of the chat, and is taken away with it. *)
Marks ==
  \A d \in Devices : IF dev[d].chat = None THEN dev[d].pushed = 0
                     ELSE dev[d].pushed <= dev[d].chat.updatedAt

Ascending(q) == \A k, l \in DOMAIN q : k < l => q[k] <= q[l]

(* A device's deletes are queued, and sent, in the order of its clock. *)
Ordered ==
  \A d \in Devices : /\ Ascending(dev[d].deletes) /\ Ascending(dev[d].req.deletes)
                     /\ \A k \in DOMAIN dev[d].deletes : dev[d].deletes[k] <= now + Skew(d)

(* The second inductive invariant, on top of the first. *)
JInv == Marks /\ Ordered /\ AllBooked

-----------------------------------------------------------------------------
(* Who has two copies has their merge. *)
LEMMA MergeIsLeast ==
  ASSUME NEW top \in Chat, NEW local \in Chat, NEW inc \in Chat, Has(top, local), Has(top, inc)
  PROVE  Has(top, mergeIncomingChat(local, inc))
<1>1. mergeIncomingChat(local, inc).updatedAt = Later(local.updatedAt, inc.updatedAt)
      /\ \A p \in Parts : mergeIncomingChat(local, inc).part[p]
                            = IF inc.part[p].at > local.part[p].at THEN inc.part[p]
                              ELSE local.part[p]
  BY DEF mergeIncomingChat
<1> QED
  BY <1>1 DEF Has, Later, Chat

(* A delete that is dated after the chat, or after the deletion it replaces, keeps. *)
LEMMA RemoveKeeps ==
  ASSUME NEW c \in Chat, NEW rev \in Nat, NEW s \in Store, rev <= s.rev, NEW at \in Nat,
         Kept(c, rev, s), s.chat # None => s.chat.updatedAt <= at, s.chat = None => s.tomb <= at
  PROVE  Kept(c, rev, remove(s, at))
<1>1. c.updatedAt \in Nat /\ s.tomb \in Nat /\ s.rev \in Nat
      /\ (s.chat # None => s.chat.updatedAt \in Nat)
  BY DEF Chat, Store, MaybeChat
<1>2. c.updatedAt <= at
  BY <1>1 DEF Kept, Has
<1>3. remove(s, at).chat = None /\ remove(s, at).tombRev = s.rev + 1 /\ remove(s, at).tomb = at
  BY DEF remove
<1> QED
  BY <1>1, <1>2, <1>3 DEF Kept

(* The queued deletes leave the store, or bury what it has under the last of them. *)
LEMMA PushDeletesCases ==
  ASSUME NEW s \in Store, NEW ds \in Seq(Nat), Ascending(ds),
         NEW t, t = PushDeletes(s, ds)
  PROVE  \/ t = s
         \/ /\ t.chat = None /\ t.tombRev \in Nat /\ t.tombRev > s.rev /\ t.tomb \in Nat
            /\ s.chat # None => t.tomb >= s.chat.updatedAt
<1> DEFINE carried == { k \in DOMAIN ds :
                          s.chat = None \/ \E j \in 1 .. k : ds[j] >= s.chat.updatedAt }
           n == Cardinality(carried)
<1>1. DOMAIN ds = 1 .. Len(ds) /\ Len(ds) \in Nat /\ s.rev \in Nat
  BY DEF Store
<1>2. IsFiniteSet(carried) /\ n \in Nat /\ (carried # {} => n # 0)
  <2>1. IsFiniteSet(1 .. Len(ds))
    BY <1>1, FS_Interval
  <2>2. carried \in SUBSET (1 .. Len(ds))
    BY <1>1, Zenon
  <2> QED
    BY <2>1, <2>2, FS_Subset, FS_CardinalityType, FS_EmptySet
<1>3. carried # {} => Len(ds) \in DOMAIN ds /\ ds[Len(ds)] \in Nat
  BY <1>1
<1>4. t = IF carried = {} THEN s
          ELSE [rev |-> s.rev + n, chat |-> None, chatRev |-> 0,
                tomb |-> ds[Len(ds)], tombRev |-> s.rev + n]
  BY DEF PushDeletes
<1>5. ASSUME carried # {}, s.chat # None
      PROVE  ds[Len(ds)] >= s.chat.updatedAt
  <2>1. PICK j \in DOMAIN ds : ds[j] >= s.chat.updatedAt
    BY <1>1, <1>5
  <2>2. ds[j] <= ds[Len(ds)]
    <3>1. j = Len(ds) \/ j < Len(ds)
      BY <1>1
    <3> QED
      BY <1>1, <1>3, <1>5, <3>1 DEF Ascending
  <2>3. ds[j] \in Nat /\ ds[Len(ds)] \in Nat /\ s.chat.updatedAt \in Nat
    BY <1>3, <1>5 DEF Store, MaybeChat, Chat
  <2> QED
    BY <2>1, <2>2, <2>3
<1> HIDE DEF carried, n
<1> QED
  BY <1>1, <1>2, <1>3, <1>4, <1>5

(* A push adds to the chat the store has. *)
LEMMA PushChatAdds ==
  ASSUME NEW s \in Store, Shape(s), NEW x \in MaybeChat, s.chat # None
  PROVE  Has(PushChat(s, x).store.chat, s.chat)
<1>1. s.chat \in Chat /\ s.tomb = 0
  BY DEF Store, MaybeChat, Shape
<1>2. Has(s.chat, s.chat)
  BY <1>1 DEF Has, Chat
<1>3. CASE x = None
  BY <1>2, <1>3 DEF PushChat
<1>4. CASE x # None
  <2>1. x \in Chat
    BY <1>4 DEF MaybeChat
  <2>2. Has(mergeChat(s.chat, x), s.chat)
    BY <1>1, <2>1, MergeFacts
  <2>3. PushChat(s, x).store.chat \in {s.chat, mergeChat(s.chat, x)}
    BY <1>1, <1>4 DEF PushChat
  <2> QED
    BY <1>2, <2>2, <2>3
<1> QED
  BY <1>3, <1>4

(* A chat that is pushed, and neither deleted nor refused its transcript, the store has. *)
LEMMA PushedIsHad ==
  ASSUME NEW s \in Store, Shape(s), NEW x \in Chat, PushChat(s, x).verdict # "deleted",
         ~Refuses(s, x)
  PROVE  Has(PushChat(s, x).store.chat, x)
<1>1. x # None
  BY NoneIsNoChat
<1>2. Has(x, x)
  BY <1>1 DEF Has, Chat
<1> DEFINE next == IF s.chat = None THEN x ELSE mergeChat(s.chat, x)
<1>3. Has(next, x)
  <2>1. CASE s.chat = None
    BY <1>2, <2>1
  <2>2. CASE s.chat # None
    <3>1. s.chat \in Chat
      BY <2>2 DEF Store, MaybeChat
    <3>2. ~(x.part[Messages].at > s.chat.part[Messages].at /\ ~legacyTranscriptSafe(s.chat, x))
      BY <1>1, <2>2 DEF Refuses
    <3> QED
      BY <2>2, <3>1, <3>2, MergeFacts
  <2> QED
    BY <2>1, <2>2
<1>4. PushChat(s, x).store.chat = next
  BY <1>1 DEF PushChat
<1> QED
  BY <1>3, <1>4

(* One call at the store keeps what others have, unless it revives or lowers. *)
LEMMA ServeKeeps ==
  ASSUME NEW c \in Chat, NEW rev \in Nat, NEW s \in Store, Shape(s), rev <= s.rev,
         Kept(c, rev, s), NEW x \in MaybeChat, NEW ds \in Seq(Nat), Ascending(ds),
         NEW m, m = PushChat(s, x).store, NEW t, t = PushDeletes(m, ds),
         s.chat = None => m = s,
         s.chat = None => t.tomb >= s.tomb
  PROVE  Kept(c, rev, t)
<1>1. Steps(s, m) /\ m \in Store /\ Shape(m) /\ m.rev >= s.rev
  <2>1. Steps(s, m)
    BY PushChatFacts
  <2> QED
    BY <2>1 DEF Steps, Moved, Store
<1>2. Kept(c, rev, m)
  <2>1. CASE s.chat = None
    BY <2>1
  <2>2. CASE s.chat # None
    <3>1. Has(m.chat, s.chat) /\ Has(s.chat, c)
      BY <2>2, PushChatAdds DEF Kept
    <3>2. m.chat \in Chat /\ s.chat \in Chat
      BY <1>1, <2>2, <3>1 DEF Store, MaybeChat, Has
    <3> QED
      BY <3>1, <3>2, HasTransitive DEF Kept
  <2> QED
    BY <2>1, <2>2
<1>3. \/ t = m
      \/ /\ t.chat = None /\ t.tombRev \in Nat /\ t.tombRev > m.rev /\ t.tomb \in Nat
         /\ m.chat # None => t.tomb >= m.chat.updatedAt
  BY <1>1, PushDeletesCases
<1>4. CASE t = m
  BY <1>2, <1>4
<1>5. CASE t # m
  <2>1. t.chat = None /\ t.tombRev > rev
    BY <1>1, <1>3, <1>5 DEF Store
  <2>2. t.tomb >= c.updatedAt
    <3>1. c.updatedAt \in Nat /\ s.tomb \in Nat /\ t.tomb \in Nat
          /\ (m.chat # None => m.chat.updatedAt \in Nat)
      BY <1>1, <1>3, <1>5 DEF Chat, Store, MaybeChat
    <3>2. CASE m.chat # None
      BY <1>2, <1>3, <1>5, <3>1, <3>2 DEF Kept, Has
    <3>3. CASE m.chat = None
      <4>1. s.chat = None
        BY <3>3, PushChatAdds DEF Has
      <4>2. s.tomb >= c.updatedAt
        BY <4>1 DEF Kept, Has
      <4> QED
        BY <3>1, <4>1, <4>2
    <3> QED
      BY <3>2, <3>3
  <2> QED
    BY <2>1, <2>2 DEF Kept
<1> QED
  BY <1>4, <1>5

-----------------------------------------------------------------------------
(* What a step of one device has to show. *)
LEMMA OneBooked ==
  ASSUME AllBooked, NEW d \in Devices, server' = server,
         seen.rolled => seen'.rolled, seen.clash => seen'.clash, seen.back => seen'.back,
         seen.unmarked \ {d} \subseteq seen'.unmarked,
         \A e \in Devices \ {d} : dev'[e] = dev[e],
         ~seen.rolled /\ ~seen.clash /\ ~seen.back /\ ~seen'.clash /\ d \notin seen'.unmarked
           /\ (d \notin seen.unmarked => Booked(dev[d], server)) => Booked(dev'[d], server)
  PROVE  AllBooked'
<1> SUFFICES ASSUME ~seen'.rolled, ~seen'.clash, ~seen'.back,
                    NEW e \in Devices, e \notin seen'.unmarked
             PROVE  Booked(dev'[e], server')
  BY DEF AllBooked
<1>1. ~seen.rolled /\ ~seen.clash /\ ~seen.back
  OBVIOUS
<1>2. \A f \in Devices \ seen.unmarked : Booked(dev[f], server)
  BY <1>1 DEF AllBooked
<1>3. CASE e = d
  BY <1>1, <1>2, <1>3
<1>4. CASE e # d
  <2>1. e \notin seen.unmarked /\ dev'[e] = dev[e]
    BY <1>4
  <2> QED
    BY <1>2, <2>1
<1> QED
  BY <1>3, <1>4

(* The marker and the queue of one device. *)
LEMMA OneMarked ==
  ASSUME TypeOK, TypeOK', Marks, Ordered, NEW d \in Devices, now' >= now,
         \A e \in Devices \ {d} : dev'[e] = dev[e],
         IF dev'[d].chat = None THEN dev'[d].pushed = 0
         ELSE dev'[d].pushed <= dev'[d].chat.updatedAt,
         Ascending(dev'[d].deletes), Ascending(dev'[d].req.deletes),
         \A k \in DOMAIN dev'[d].deletes : dev'[d].deletes[k] <= now' + Skew(d)
  PROVE  Marks' /\ Ordered'
<1>1. Marks'
  <2>1. ASSUME NEW e \in Devices
        PROVE  IF dev'[e].chat = None THEN dev'[e].pushed = 0
               ELSE dev'[e].pushed <= dev'[e].chat.updatedAt
    <3>1. CASE e = d
      BY <3>1
    <3>2. CASE e # d
      BY <3>2 DEF Marks
    <3> QED
      BY <3>1, <3>2
  <2> QED
    BY <2>1 DEF Marks
<1>2. ASSUME NEW e \in Devices
      PROVE  /\ Ascending(dev'[e].deletes) /\ Ascending(dev'[e].req.deletes)
             /\ \A k \in DOMAIN dev'[e].deletes : dev'[e].deletes[k] <= now' + Skew(e)
  <2>1. CASE e = d
    BY <2>1
  <2>2. CASE e # d
    <3>1. dev'[e] = dev[e] /\ Ascending(dev[e].deletes) /\ Ascending(dev[e].req.deletes)
      BY <2>2 DEF Ordered
    <3>2. ASSUME NEW k \in DOMAIN dev[e].deletes
          PROVE  dev[e].deletes[k] <= now' + Skew(e)
      <4>1. dev[e].deletes \in Seq(Nat) /\ now \in Nat /\ now' \in Nat
        BY DEF TypeOK, Device
      <4>2. Skew(e) \in Nat
        BY ChatSyncConstants DEF Skew
      <4>3. dev[e].deletes[k] <= now + Skew(e)
        BY DEF Ordered
      <4>4. dev[e].deletes[k] \in Nat
        BY <4>1
      <4> QED
        BY <4>1, <4>2, <4>3, <4>4
    <3> QED
      BY <3>1, <3>2
  <2> QED
    BY <2>1, <2>2
<1>3. Ordered'
  BY <1>2 DEF Ordered
<1> QED
  BY <1>1, <1>3

(* What the second invariant says of one device. *)
LEMMA OneOrdered ==
  ASSUME TypeOK, Marks, Ordered, NEW d \in Devices
  PROVE  /\ Ascending(dev[d].deletes) /\ Ascending(dev[d].req.deletes)
         /\ \A k \in DOMAIN dev[d].deletes : dev[d].deletes[k] <= now + Skew(d)
         /\ dev[d].chat = None => dev[d].pushed = 0
         /\ dev[d].chat # None => /\ dev[d].pushed <= dev[d].chat.updatedAt
                                  /\ dev[d].chat.updatedAt \in Nat /\ dev[d].pushed \in Nat
<1>1. dev[d] \in Device
  BY DEF TypeOK
<1>2. dev[d].chat # None => dev[d].chat.updatedAt \in Nat /\ dev[d].pushed \in Nat
  BY <1>1 DEF Device, MaybeChat, Chat
<1> QED
  BY <1>2 DEF Marks, Ordered

(* An edit is not marked as pushed. *)
LEMMA EditBooked ==
  ASSUME IInv, IInv', JInv, NEW d \in Devices, NEW ps \in Gestures, Edit(d, ps)
  PROVE  JInv'
<1> DEFINE me == dev[d]
           u == touched(d, ps).updatedAt
           you == dev'[d]
<1>1. TypeOK /\ TypeOK' /\ Marks /\ Ordered /\ AllBooked
  BY DEF IInv, JInv
<1>2. me.chat # None /\ me \in Device
  BY <1>1 DEF Edit, TypeOK
<1>3. PICK e \in Chat : /\ Has(e, me.chat) /\ e.updatedAt = u
                         /\ dev' = [dev EXCEPT ![d] = [me EXCEPT !.chat = e]]
  BY <1>1, EditIs
<1>4. /\ you.chat = e /\ you.pushed = me.pushed /\ you.deletes = me.deletes
      /\ you.req = me.req /\ you.phase = me.phase
      /\ \A f \in Devices \ {d} : dev'[f] = dev[f]
  BY <1>1, <1>2, <1>3 DEF TypeOK, Device
<1>5. e # None /\ e.updatedAt \in Nat /\ e.updatedAt >= me.chat.updatedAt
  BY <1>3, NoneIsNoChat DEF Chat, Has
<1>6. /\ Ascending(me.deletes) /\ Ascending(me.req.deletes)
      /\ \A k \in DOMAIN me.deletes : me.deletes[k] <= now + Skew(d)
      /\ me.pushed <= me.chat.updatedAt /\ me.chat.updatedAt \in Nat /\ me.pushed \in Nat
  BY <1>1, <1>2, OneOrdered
<1>7. /\ now' = now + 1 /\ server' = server /\ now \in Nat
      /\ seen' = [seen EXCEPT !.unmarked = IF me.phase = "idle" /\ u > me.chat.updatedAt
                                            THEN seen.unmarked \ {d} ELSE seen.unmarked \cup {d}]
  BY <1>1 DEF Edit, TypeOK
<1> HIDE DEF u, me, you
<1>8. Marks' /\ Ordered'
  <2>1. now' >= now
    BY <1>7
  <2>2. you.pushed <= you.chat.updatedAt /\ you.chat # None
    BY <1>4, <1>5, <1>6
  <2>3. ASSUME NEW k \in DOMAIN you.deletes
        PROVE  you.deletes[k] <= now' + Skew(d)
    <3>1. Skew(d) \in Nat
      BY ChatSyncConstants DEF Skew
    <3>2. me.deletes[k] \in Nat /\ me.deletes[k] <= now + Skew(d)
      BY <1>2, <1>4, <1>6 DEF Device
    <3> QED
      BY <1>4, <1>7, <3>1, <3>2
  <2> QED
    BY <1>1, <1>4, <1>6, <2>1, <2>2, <2>3, OneMarked DEF you
<1>9. /\ seen'.rolled = seen.rolled /\ seen'.clash = seen.clash /\ seen'.back = seen.back
      /\ seen'.unmarked = IF me.phase = "idle" /\ u > me.chat.updatedAt
                          THEN seen.unmarked \ {d} ELSE seen.unmarked \cup {d}
  BY <1>1, <1>7 DEF TypeOK
<1>10. d \notin seen'.unmarked => Booked(you, server)
  <2> SUFFICES ASSUME d \notin seen'.unmarked
               PROVE  Booked(you, server)
    OBVIOUS
  <2>1. me.phase = "idle" /\ u > me.chat.updatedAt
    BY <1>9
  <2>2. you.chat.updatedAt # you.pushed /\ you.phase = "idle"
    BY <1>3, <1>4, <1>5, <1>6, <2>1
  <2> QED
    BY <2>2 DEF Booked
<1>11. seen.unmarked \ {d} \subseteq seen'.unmarked
  BY <1>9
<1>12. AllBooked'
  BY <1>1, <1>4, <1>7, <1>9, <1>10, <1>11, OneBooked DEF you
<1> QED
  BY <1>8, <1>12 DEF JInv

(* A delete takes the marker away with the chat. *)
LEMMA DeleteBooked ==
  ASSUME IInv, IInv', JInv, NEW d \in Devices, Delete(d)
  PROVE  JInv'
<1> DEFINE me == dev[d]
           at == now + Skew(d)
           q == Append(me.deletes, at)
           you == dev'[d]
<1>1. TypeOK /\ TypeOK' /\ Marks /\ Ordered /\ AllBooked
  BY DEF IInv, JInv
<1>2. me.chat # None /\ me \in Device
  BY <1>1 DEF Delete, TypeOK
<1>3. Skew(d) \in Nat /\ now \in Nat /\ now' = now + 1 /\ server' = server
  BY <1>1, ChatSyncConstants DEF Skew, Delete, TypeOK
<1>4. dev' = [dev EXCEPT ![d] = [me EXCEPT !.chat = None, !.pushed = 0, !.deletes = q]]
  BY DEF Delete
<1>5. me.deletes \in Seq(Nat)
  BY <1>2 DEF Device
<1>6. /\ Ascending(me.deletes) /\ Ascending(me.req.deletes)
      /\ \A k \in DOMAIN me.deletes : me.deletes[k] <= now + Skew(d)
  BY <1>1, OneOrdered
<1>7. Ascending(q) /\ \A k \in DOMAIN q : q[k] <= now' + Skew(d)
  <2> HIDE DEF me
  <2>1. /\ DOMAIN q = 1 .. (Len(me.deletes) + 1) /\ Len(me.deletes) \in Nat
        /\ DOMAIN me.deletes = 1 .. Len(me.deletes)
        /\ q[Len(me.deletes) + 1] = at /\ at \in Nat
        /\ \A k \in DOMAIN me.deletes : q[k] = me.deletes[k] /\ q[k] \in Nat
    BY <1>3, <1>5
  <2>2. \A k \in DOMAIN q : q[k] \in Nat /\ q[k] <= at
    BY <1>6, <2>1
  <2> HIDE DEF q
  <2>3. \A k, l \in DOMAIN q : k < l => q[k] <= q[l]
    BY <1>6, <2>1, <2>2 DEF Ascending
  <2>4. \A k \in DOMAIN q : q[k] <= now' + Skew(d)
    BY <1>3, <2>2
  <2> QED
    BY <2>3, <2>4 DEF Ascending
<1> HIDE DEF q
<1>8. /\ you.chat = None /\ you.pushed = 0 /\ you.deletes = q /\ you.lastRev = me.lastRev
      /\ you.req = me.req /\ you.phase = me.phase /\ you.ans = me.ans
      /\ \A f \in Devices \ {d} : dev'[f] = dev[f]
  BY <1>1, <1>2, <1>4 DEF TypeOK, Device
<1>9. seen' = [seen EXCEPT !.clash = seen.clash \/ me.chat.updatedAt > at
                                     \/ me.req.deletes # <<>>]
  BY DEF Delete
<1>10. /\ seen'.rolled = seen.rolled /\ seen'.back = seen.back /\ seen'.unmarked = seen.unmarked
       /\ (seen.clash => seen'.clash)
  BY <1>1, <1>9, Zenon DEF TypeOK
<1> HIDE DEF me, you, at
<1>11. Marks' /\ Ordered'
  <2>1. now' >= now
    BY <1>3
  <2> QED
    BY <1>1, <1>6, <1>7, <1>8, <2>1, OneMarked DEF you
<1>12. Booked(me, server) => Booked(you, server)
  BY <1>8 DEF Booked
<1>13. AllBooked'
  BY <1>1, <1>3, <1>8, <1>10, <1>12, OneBooked DEF you, me
<1> QED
  BY <1>11, <1>13 DEF JInv

(* A call takes with it the chat that is not marked. *)
LEMMA SyncSendBooked ==
  ASSUME IInv, IInv', JInv, NEW d \in Devices, SyncSend(d)
  PROVE  JInv'
<1> DEFINE me == dev[d]
           req == [since |-> me.lastRev, chat |-> Pending(me.chat, me.pushed),
                   deletes |-> me.deletes]
           you == dev'[d]
<1>1. TypeOK /\ TypeOK' /\ Marks /\ Ordered /\ AllBooked
  BY DEF IInv, JInv
<1>2. me.phase = "idle" /\ me \in Device
  BY <1>1 DEF SyncSend, TypeOK
<1>3. now \in Nat /\ now' = now /\ server' = server /\ seen' = seen
  BY <1>1 DEF SyncSend, TypeOK
<1>4. dev' = [dev EXCEPT ![d] = [me EXCEPT !.phase = "sent", !.req = req]]
  BY DEF SyncSend
<1>5. req.chat = Pending(me.chat, me.pushed) /\ req.deletes = me.deletes
  OBVIOUS
<1> HIDE DEF req
<1>6. /\ you.chat = me.chat /\ you.pushed = me.pushed /\ you.deletes = me.deletes
      /\ you.lastRev = me.lastRev /\ you.req = req /\ you.phase = "sent"
      /\ \A f \in Devices \ {d} : dev'[f] = dev[f]
  BY <1>1, <1>2, <1>4 DEF TypeOK, Device
<1>7. /\ Ascending(me.deletes) /\ \A k \in DOMAIN me.deletes : me.deletes[k] <= now + Skew(d)
      /\ me.chat = None => me.pushed = 0
      /\ me.chat # None => me.pushed <= me.chat.updatedAt
  BY <1>1, OneOrdered
<1> HIDE DEF me, you
<1>8. Marks' /\ Ordered'
  <2>1. now' >= now
    BY <1>3
  <2> QED
    BY <1>1, <1>3, <1>5, <1>6, <1>7, <2>1, OneMarked DEF you
<1>9. Booked(me, server) => Booked(you, server)
  BY <1>5, <1>6 DEF Booked
<1>10. AllBooked'
  BY <1>1, <1>3, <1>6, <1>9, OneBooked DEF you, me
<1> QED
  BY <1>8, <1>10 DEF JInv

(* A call that fails changes neither the chat nor its marker. *)
LEMMA SyncFailsBooked ==
  ASSUME IInv, IInv', JInv, NEW d \in Devices, SyncFails(d)
  PROVE  JInv'
<1> DEFINE me == dev[d]
           you == dev'[d]
<1>1. TypeOK /\ TypeOK' /\ Marks /\ Ordered /\ AllBooked
  BY DEF IInv, JInv
<1>2. me \in Device /\ now \in Nat /\ now' = now /\ server' = server /\ seen' = seen
  BY <1>1 DEF SyncFails, TypeOK
<1>3. dev' = [dev EXCEPT ![d] = [me EXCEPT !.phase = "idle", !.req = NoRequest,
                                           !.ans = NoAnswer]]
  BY DEF SyncFails
<1>4. NoRequest.deletes = <<>> /\ Ascending(NoRequest.deletes)
  BY DEF NoRequest, Ascending
<1>5. /\ you.chat = me.chat /\ you.pushed = me.pushed /\ you.deletes = me.deletes
      /\ you.lastRev = me.lastRev /\ you.req = NoRequest /\ you.phase = "idle"
      /\ \A f \in Devices \ {d} : dev'[f] = dev[f]
  BY <1>1, <1>2, <1>3 DEF TypeOK, Device
<1>6. /\ Ascending(me.deletes) /\ \A k \in DOMAIN me.deletes : me.deletes[k] <= now + Skew(d)
      /\ me.chat = None => me.pushed = 0
      /\ me.chat # None => me.pushed <= me.chat.updatedAt
  BY <1>1, OneOrdered
<1> HIDE DEF me, you
<1>7. Marks' /\ Ordered'
  <2>1. now' >= now
    BY <1>2
  <2> QED
    BY <1>1, <1>2, <1>4, <1>5, <1>6, <2>1, OneMarked DEF you
<1>8. Booked(me, server) => Booked(you, server)
  BY <1>5 DEF Booked
<1>9. AllBooked'
  BY <1>1, <1>2, <1>5, <1>8, OneBooked DEF you, me
<1> QED
  BY <1>7, <1>9 DEF JInv

-----------------------------------------------------------------------------
(* The store keeps what an answer leaves on the device. *)
LEMMA ReceivedKept ==
  ASSUME NEW me \in Device, me.phase = "answered", NEW s \in Store,
         s.chat = None => s.tomb # 0,
         Behind(me, s), AnswerHolds(me, s), Booked(me, s), NEW kept \in MaybeChat,
         kept = (IF me.ans.verdict = "deleted" THEN None ELSE me.chat),
         NEW marked, NEW queued,
         NEW c, c = mergeIncoming(kept, marked, queued, me.ans).chat, c # None
  PROVE  Kept(c, me.ans.rev, s)
<1> DEFINE x == me.ans.chat
           hidden == x = None \/ Buries(queued, x)
           merged == IF hidden THEN kept ELSE IF kept = None THEN x ELSE mergeIncomingChat(kept, x)
           gone == me.ans.deleted # 0 /\ merged # None /\ merged.updatedAt <= me.ans.deleted
<1>1. c = merged /\ ~gone
  <2>1. c = IF gone THEN None ELSE merged
    BY DEF mergeIncoming, Buries
  <2> QED
    BY <2>1
<1>2. /\ x \in MaybeChat /\ me.ans.rev \in Nat /\ me.lastRev \in Nat /\ s.tombRev \in Nat
      /\ s.tomb \in Nat /\ s.rev \in Nat /\ me.req.since = me.lastRev
      /\ (s.chat # None => s.chat \in Chat)
  BY DEF Device, Answer, Store, Behind, MaybeChat
<1>3. /\ me.lastRev <= me.ans.rev
      /\ me.ans.verdict = "deleted" => x = None
      /\ x # None => Kept(x, me.ans.rev, s)
      /\ me.chat # None /\ me.ans.verdict # "deleted" => Kept(me.chat, me.lastRev, s)
  BY DEF Booked
<1>4. kept # None => kept \in Chat /\ kept = me.chat /\ Kept(kept, me.lastRev, s)
  BY <1>3 DEF MaybeChat
<1>5. x # None => x \in Chat
  BY <1>2 DEF MaybeChat
<1> HIDE DEF x
<1>6. CASE hidden
  <2>1. c = kept /\ kept # None
    BY <1>1, <1>6
  <2>2. CASE Has(s.chat, kept)
    BY <2>1, <2>2 DEF Kept
  <2>3. CASE s.chat = None /\ s.tombRev > me.lastRev /\ s.tomb >= kept.updatedAt
    <3>1. CASE s.tombRev > me.ans.rev
      BY <2>1, <2>3, <3>1 DEF Kept
    <3>2. CASE s.tombRev <= me.ans.rev
      <4>1. me.ans.deleted = s.tomb
        BY <1>2, <2>3, <3>2 DEF AnswerHolds
      <4>2. kept.updatedAt \in Nat
        BY <1>4, <2>1 DEF Chat
      <4>3. gone
        BY <1>6, <2>1, <2>3, <4>1, <4>2
      <4> QED
        BY <1>1, <4>3
    <3> QED
      BY <1>2, <3>1, <3>2
  <2> QED
    BY <1>4, <2>1, <2>2, <2>3 DEF Kept
<1>7. CASE ~hidden /\ kept = None
  BY <1>1, <1>3, <1>7
<1>8. CASE ~hidden /\ kept # None
  <2>1. c = mergeIncomingChat(kept, x) /\ x # None /\ x \in Chat /\ kept \in Chat
    BY <1>1, <1>4, <1>5, <1>8
  <2>2. Kept(x, me.ans.rev, s) /\ Kept(kept, me.lastRev, s)
    BY <1>3, <1>4, <1>8
  <2>3. CASE s.chat # None
    <3>1. Has(s.chat, x) /\ Has(s.chat, kept) /\ s.chat \in Chat
      BY <1>2, <2>2, <2>3 DEF Kept
    <3> QED
      BY <2>1, <3>1, MergeIsLeast DEF Kept
  <2>4. CASE s.chat = None
    <3>1. s.tombRev > me.ans.rev /\ s.tomb >= x.updatedAt /\ s.tomb >= kept.updatedAt
      BY <2>2, <2>4 DEF Kept, Has
    <3>2. c.updatedAt = Later(kept.updatedAt, x.updatedAt)
      BY <2>1 DEF mergeIncomingChat
    <3>3. s.tomb >= c.updatedAt
      BY <3>1, <3>2 DEF Later
    <3> QED
      BY <2>4, <3>1, <3>3 DEF Kept
  <2> QED
    BY <2>3, <2>4
<1> QED
  BY <1>6, <1>7, <1>8

(* What an answer does to a marker. *)
LEMMA IncomingMarks ==
  ASSUME NEW c \in MaybeChat, NEW pushed \in Nat, NEW deletes, NEW ans \in Answer,
         IF c = None THEN pushed = 0 ELSE pushed <= c.updatedAt
  PROVE  LET m == mergeIncoming(c, pushed, deletes, ans)
         IN IF m.chat = None THEN m.pushed = 0 ELSE m.pushed <= m.chat.updatedAt
<1> DEFINE x == ans.chat
           hidden == x = None \/ Buries(deletes, x)
           merged == IF hidden THEN c ELSE IF c = None THEN x ELSE mergeIncomingChat(c, x)
           gone == ans.deleted # 0 /\ merged # None /\ merged.updatedAt <= ans.deleted
           m == mergeIncoming(c, pushed, deletes, ans)
<1> SUFFICES IF m.chat = None THEN m.pushed = 0 ELSE m.pushed <= m.chat.updatedAt
  OBVIOUS
<1>1. /\ m.chat = IF gone THEN None ELSE merged
      /\ m.pushed = IF gone THEN 0 ELSE IF hidden THEN pushed ELSE Later(pushed, x.updatedAt)
  BY DEF mergeIncoming, Buries
<1> HIDE DEF m
<1>2. x # None => x \in Chat /\ x.updatedAt \in Nat
  BY DEF Answer, MaybeChat, Chat
<1>3. c # None => c \in Chat /\ c.updatedAt \in Nat
  BY DEF MaybeChat, Chat
<1> HIDE DEF x
<1>4. CASE gone
  BY <1>1, <1>4
<1>5. CASE ~gone /\ hidden
  BY <1>1, <1>5
<1>6. CASE ~gone /\ ~hidden /\ c = None
  BY <1>1, <1>2, <1>6 DEF Later
<1>7. CASE ~gone /\ ~hidden /\ c # None
  <2>1. mergeIncomingChat(c, x) # None
    BY <1>2, <1>3, <1>7, IncomingFacts, NoneIsNoChat
  <2>2. mergeIncomingChat(c, x).updatedAt = Later(c.updatedAt, x.updatedAt)
    BY DEF mergeIncomingChat
  <2>3. Later(pushed, x.updatedAt) <= Later(c.updatedAt, x.updatedAt)
    BY <1>2, <1>3, <1>7 DEF Later
  <2> QED
    BY <1>1, <1>7, <2>1, <2>2, <2>3
<1> QED
  BY <1>4, <1>5, <1>6, <1>7

(* A verdict books no more than the store keeps. *)
LEMMA SyncReceiveBooked ==
  ASSUME IInv, IInv', JInv, NEW d \in Devices, SyncReceive(d)
  PROVE  JInv'
<1> DEFINE me == dev[d]
           ans == me.ans
           kept == IF ans.verdict = "deleted" THEN None ELSE me.chat
           marked == IF ans.verdict = "deleted" THEN 0
                     ELSE IF ans.verdict = "accepted" /\ me.chat # None THEN me.chat.updatedAt
                     ELSE me.pushed
           queued == IF me.req.deletes # <<>> THEN <<>> ELSE me.deletes
           moved == mergeIncoming(kept, marked, queued, ans)
           booked == IF ans.verdict \in {"stale", "deleted"} /\ moved.chat # None
                     THEN moved.chat.updatedAt ELSE moved.pushed
           you == [chat |-> moved.chat, lastRev |-> ans.rev, pushed |-> booked,
                   deletes |-> queued, phase |-> "idle", req |-> NoRequest, ans |-> NoAnswer]
<1>1. TypeOK /\ TypeOK' /\ Synchronised /\ Marks /\ Ordered /\ AllBooked
  BY DEF IInv, JInv
<1>2. /\ me \in Device /\ me.phase = "answered" /\ now \in Nat /\ now' = now
      /\ server' = server /\ seen' = seen /\ server \in Store
  BY <1>1 DEF TypeOK, SyncReceive
<1>3. dev' = [dev EXCEPT ![d] = you]
  BY DEF SyncReceive
<1>4. /\ Ascending(me.deletes) /\ \A k \in DOMAIN me.deletes : me.deletes[k] <= now + Skew(d)
      /\ me.chat = None => me.pushed = 0
      /\ me.chat # None => me.pushed <= me.chat.updatedAt
  BY <1>1, OneOrdered
<1>5. ans \in Answer /\ kept \in MaybeChat /\ marked \in Nat
      /\ (IF kept = None THEN marked = 0 ELSE marked <= kept.updatedAt)
  <2>1. /\ ans \in Answer /\ me.chat \in MaybeChat /\ me.pushed \in Nat
        /\ (me.chat # None => me.chat.updatedAt \in Nat)
    BY <1>2 DEF Device, MaybeChat, Chat
  <2> HIDE DEF ans, me
  <2> QED
    BY <1>4, <2>1 DEF MaybeChat
<1>6. /\ dev'[d] = you /\ \A f \in Devices \ {d} : dev'[f] = dev[f]
  BY <1>1, <1>3 DEF TypeOK
<1>7. /\ you.chat = moved.chat /\ you.lastRev = ans.rev /\ you.pushed = booked
      /\ you.deletes = queued /\ you.phase = "idle" /\ you.req = NoRequest
  OBVIOUS
<1> HIDE DEF you
<1>8. Ascending(NoRequest.deletes) /\ Ascending(queued)
      /\ \A k \in DOMAIN queued : queued[k] <= now' + Skew(d)
  BY <1>2, <1>4 DEF NoRequest, Ascending
<1> HIDE DEF kept, marked, queued, ans
<1>9. IF moved.chat = None THEN moved.pushed = 0 ELSE moved.pushed <= moved.chat.updatedAt
  BY <1>5, IncomingMarks
<1>10. you.chat # None => you.chat.updatedAt \in Nat
  <2>1. you \in Device
    BY <1>1, <1>6 DEF TypeOK
  <2> QED
    BY <2>1 DEF Device, MaybeChat, Chat
<1> HIDE DEF moved
<1>11. IF you.chat = None THEN you.pushed = 0 ELSE you.pushed <= you.chat.updatedAt
  BY <1>7, <1>9, <1>10
<1>12. Marks' /\ Ordered'
  <2>1. now' >= now
    BY <1>2
  <2> QED
    BY <1>1, <1>6, <1>7, <1>8, <1>11, <2>1, OneMarked
<1>13. ASSUME ~seen.rolled, Booked(me, server)
       PROVE  Booked(you, server)
  <2>1. /\ Behind(me, server) /\ AnswerHolds(me, server)
        /\ (server.chat = None => server.tomb # 0)
    BY <1>1, <1>13 DEF Synchronised, Following, Tombstone
  <2>2. you.chat # None => Kept(you.chat, you.lastRev, server)
    <3>1. /\ kept = (IF me.ans.verdict = "deleted" THEN None ELSE me.chat)
          /\ you.chat = mergeIncoming(kept, marked, queued, me.ans).chat
          /\ you.lastRev = me.ans.rev
      BY <1>7 DEF kept, moved, ans
    <3> HIDE DEF me
    <3> QED
      BY <1>2, <1>5, <1>13, <2>1, <3>1, ReceivedKept
  <2> QED
    BY <1>7, <2>2 DEF Booked
<1>14. AllBooked'
  BY <1>1, <1>2, <1>6, <1>13, OneBooked
<1> QED
  BY <1>12, <1>14 DEF JInv

-----------------------------------------------------------------------------
(* What the store keeps of a device it goes on to keep. *)
LEMMA BookedMoves ==
  ASSUME NEW me, NEW s, NEW t, Booked(me, s),
         me.chat # None /\ Kept(me.chat, me.lastRev, s) => Kept(me.chat, me.lastRev, t),
         me.phase = "answered" /\ me.ans.chat # None /\ Kept(me.ans.chat, me.ans.rev, s)
           => Kept(me.ans.chat, me.ans.rev, t)
  PROVE  Booked(me, t)
BY DEF Booked

(* The markers and queues do not change. *)
LEMMA MarksStay ==
  ASSUME TypeOK, TypeOK', Marks, Ordered, now' >= now,
         \A e \in Devices : /\ dev'[e].chat = dev[e].chat /\ dev'[e].pushed = dev[e].pushed
                            /\ dev'[e].deletes = dev[e].deletes
                            /\ dev'[e].req.deletes = dev[e].req.deletes
  PROVE  Marks' /\ Ordered'
<1>1. Marks'
  BY DEF Marks
<1>2. ASSUME NEW e \in Devices, NEW k \in DOMAIN dev[e].deletes
      PROVE  dev[e].deletes[k] <= now' + Skew(e)
  <2>1. dev[e].deletes \in Seq(Nat) /\ now \in Nat /\ now' \in Nat
    BY DEF TypeOK, Device
  <2>2. Skew(e) \in Nat
    BY ChatSyncConstants DEF Skew
  <2>3. dev[e].deletes[k] <= now + Skew(e)
    BY DEF Ordered
  <2>4. dev[e].deletes[k] \in Nat
    BY <2>1
  <2> QED
    BY <2>1, <2>2, <2>3, <2>4
<1>3. Ordered'
  <2>1. \A e \in Devices : Ascending(dev'[e].deletes) /\ Ascending(dev'[e].req.deletes)
    BY DEF Ordered
  <2> QED
    BY <1>2, <2>1 DEF Ordered
<1> QED
  BY <1>1, <1>3

(* A forget keeps, unless it deletes what is dated after it. *)
LEMMA ForgetBooked ==
  ASSUME IInv, IInv', JInv, NEW at \in forgets, Forget(at)
  PROVE  JInv'
<1>1. /\ TypeOK /\ TypeOK' /\ Dated /\ Synchronised /\ Marks /\ Ordered /\ AllBooked
  BY DEF IInv, JInv
<1>2. server \in Store /\ at \in Nat /\ at # 0 /\ now \in Nat /\ buried \in Nat
  BY <1>1 DEF TypeOK, Dated
<1>3. /\ server' = remove(server, at) /\ now' = now /\ dev' = dev
      /\ seen' = [seen EXCEPT !.clash = seen.clash \/ Lowers(remove(server, at))
                                \/ (server.chat # None /\ server.chat.updatedAt > at)]
  BY DEF Forget, Stores
<1>4. /\ seen'.rolled = seen.rolled /\ seen'.back = seen.back /\ seen'.unmarked = seen.unmarked
      /\ (seen'.clash <=> \/ seen.clash \/ Lowers(remove(server, at))
                          \/ server.chat # None /\ server.chat.updatedAt > at)
  BY <1>1, <1>3, Zenon DEF TypeOK
<1>5. Marks' /\ Ordered'
  <2>1. now' >= now
    BY <1>2, <1>3
  <2> QED
    BY <1>1, <1>3, <2>1, MarksStay
<1>6. AllBooked'
  <2> SUFFICES ASSUME ~seen'.rolled, ~seen'.clash, ~seen'.back,
                      NEW e \in Devices, e \notin seen'.unmarked
               PROVE  Booked(dev'[e], server')
    BY DEF AllBooked
  <2>1. ~seen.rolled /\ ~seen.clash /\ ~seen.back /\ e \notin seen.unmarked
    BY <1>4
  <2>2. Booked(dev[e], server) /\ Tombstone(server, buried) /\ Behind(dev[e], server)
    BY <1>1, <2>1 DEF AllBooked, Synchronised, Following
  <2>3. server.chat # None => server.chat.updatedAt <= at
    BY <1>2, <1>4 DEF Store, MaybeChat, Chat
  <2>4. server.chat = None => server.tomb <= at
    <3>1. remove(server, at).tomb = at /\ ~Lowers(remove(server, at))
      BY <1>4 DEF remove
    <3> QED
      BY <1>2, <2>2, <3>1 DEF Lowers, Tombstone
  <2>5. dev[e] \in Device
    BY <1>1 DEF TypeOK
  <2>6. dev[e].chat # None /\ Kept(dev[e].chat, dev[e].lastRev, server)
          => Kept(dev[e].chat, dev[e].lastRev, remove(server, at))
    <3>1. dev[e].lastRev \in Nat /\ (dev[e].chat # None => dev[e].chat \in Chat)
          /\ dev[e].lastRev <= server.rev
      BY <2>2, <2>5 DEF Device, MaybeChat, Behind
    <3> QED
      BY <1>2, <2>3, <2>4, <3>1, RemoveKeeps
  <2>7. dev[e].phase = "answered" /\ dev[e].ans.chat # None
          /\ Kept(dev[e].ans.chat, dev[e].ans.rev, server)
          => Kept(dev[e].ans.chat, dev[e].ans.rev, remove(server, at))
    <3>1. dev[e].ans.rev \in Nat /\ (dev[e].ans.chat # None => dev[e].ans.chat \in Chat)
          /\ (dev[e].phase = "answered" => dev[e].ans.rev <= server.rev)
      BY <2>2, <2>5 DEF Device, Answer, MaybeChat, Behind
    <3> QED
      BY <1>2, <2>3, <2>4, <3>1, RemoveKeeps
  <2>8. Booked(dev[e], remove(server, at))
    BY <2>2, <2>6, <2>7, BookedMoves
  <2> QED
    BY <1>3, <2>8
<1> QED
  BY <1>5, <1>6 DEF JInv

(* What serving a call does to the device that sent it. *)
LEMMA ServeIs ==
  ASSUME TypeOK, NEW d \in Devices, Serve(d)
  PROVE  LET me == dev[d]
             you == dev'[d]
             taken == PushChat(server, me.req.chat)
             s == PushDeletes(taken.store, me.req.deletes)
         IN /\ me.phase = "sent" /\ server' = s /\ now' = now
            /\ you.chat = me.chat /\ you.pushed = me.pushed /\ you.lastRev = me.lastRev
            /\ you.deletes = me.deletes /\ you.req.deletes = me.req.deletes
            /\ you.phase = "answered" /\ you.ans.rev = s.rev
            /\ you.ans.chat = (IF s.chatRev > me.req.since THEN s.chat ELSE None)
            /\ you.ans.verdict = taken.verdict
            /\ \A e \in Devices \ {d} : dev'[e] = dev[e]
            /\ seen'.rolled = seen.rolled
            /\ seen'.clash <=> seen.clash \/ Lowers(s)
            /\ seen'.back <=> seen.back \/ Returns(d, taken.store)
            /\ seen'.unmarked = (IF Refuses(server, me.req.chat) THEN seen.unmarked \cup {d}
                                 ELSE seen.unmarked)
<1> DEFINE me == dev[d]
           taken == PushChat(server, me.req.chat)
           s == PushDeletes(taken.store, me.req.deletes)
           news == pull(s, me.req.since)
           a == [rev |-> news.rev, chat |-> news.chat, deleted |-> news.deleted,
                 verdict |-> taken.verdict]
           r == [me.req EXCEPT !.chat = None]
           you == [me EXCEPT !.phase = "answered", !.req = r, !.ans = a]
<1>1. /\ me.phase = "sent" /\ server' = s /\ now' = now
      /\ dev' = [dev EXCEPT ![d] = you]
      /\ seen' = [seen EXCEPT !.clash = seen.clash \/ Lowers(s),
                    !.back = seen.back \/ Returns(d, taken.store),
                    !.unmarked = IF Refuses(server, me.req.chat) THEN seen.unmarked \cup {d}
                                 ELSE seen.unmarked]
  <2>1. me.phase = "sent" /\ Stores(s) /\ dev' = [dev EXCEPT ![d] = you] /\ now' = now
    BY DEF Serve
  <2>2. server' = s
    <3> HIDE DEF s
    <3> QED
      BY <2>1 DEF Stores
  <2>3. seen' = [seen EXCEPT !.clash = seen.clash \/ Lowers(s),
                   !.back = seen.back \/ Returns(d, taken.store),
                   !.unmarked = IF Refuses(server, me.req.chat) THEN seen.unmarked \cup {d}
                                ELSE seen.unmarked]
    BY DEF Serve
  <2> QED
    BY <2>1, <2>2, <2>3
<1>2. me \in Device /\ me.req \in Request
  BY DEF TypeOK, Device
<1>3. /\ a.rev = s.rev /\ a.chat = (IF s.chatRev > me.req.since THEN s.chat ELSE None)
      /\ a.verdict = taken.verdict
  BY DEF pull
<1>4. r.deletes = me.req.deletes
  BY <1>2 DEF Request
<1> HIDE DEF a, r, s, taken
<1>5. /\ you.chat = me.chat /\ you.pushed = me.pushed /\ you.lastRev = me.lastRev
      /\ you.deletes = me.deletes /\ you.req = r /\ you.phase = "answered" /\ you.ans = a
  BY <1>2 DEF Device
<1> HIDE DEF you
<1>6. dev'[d] = you /\ \A e \in Devices \ {d} : dev'[e] = dev[e]
  BY <1>1 DEF TypeOK
<1>7. /\ seen'.rolled = seen.rolled
      /\ seen'.clash <=> seen.clash \/ Lowers(s)
      /\ seen'.back <=> seen.back \/ Returns(d, taken.store)
      /\ seen'.unmarked = (IF Refuses(server, me.req.chat) THEN seen.unmarked \cup {d}
                           ELSE seen.unmarked)
  BY <1>1, Zenon DEF TypeOK
<1> QED
  BY <1>1, <1>3, <1>4, <1>5, <1>6, <1>7 DEF s, taken

(* The call that is served: what it pushed the store has, or takes away. *)
LEMMA ServedKept ==
  ASSUME NEW me \in Device, me.phase = "sent", NEW s \in Store, Shape(s),
         Booked(me, s), me.lastRev <= s.rev, me.chat # None,
         Ascending(me.req.deletes), ~Refuses(s, me.req.chat),
         NEW m, m = PushChat(s, me.req.chat).store,
         PushChat(s, me.req.chat).verdict # "deleted",
         NEW t, t = PushDeletes(m, me.req.deletes),
         s.chat = None => t.tomb >= s.tomb \/ t.chat # None
  PROVE  Kept(me.chat, me.lastRev, t)
<1> DEFINE x == me.req.chat
           ds == me.req.deletes
<1>1. /\ x \in MaybeChat /\ ds \in Seq(Nat) /\ me.lastRev \in Nat /\ me.chat \in Chat
      /\ x = Pending(me.chat, me.pushed)
  BY DEF Device, Request, MaybeChat, Booked
<1>2. m \in Store /\ Shape(m) /\ m.rev >= s.rev /\ (m.chat = None => m = s)
      /\ m.rev \in Nat /\ s.rev \in Nat
  <2>1. Steps(s, m) /\ (m.chat = None => m = s)
    BY <1>1, PushChatFacts
  <2> QED
    BY <2>1 DEF Steps, Moved, Store
<1>3. Kept(me.chat, me.lastRev, m)
  <2>1. CASE x = None
    <3>1. me.chat.updatedAt = me.pushed /\ m = s
      BY <1>1, <2>1 DEF Pending, PushChat
    <3> QED
      BY <3>1 DEF Booked
  <2>2. CASE x # None
    <3>1. x = me.chat
      BY <1>1, <2>2 DEF Pending
    <3>2. Has(m.chat, x)
      BY <1>1, <3>1, PushedIsHad
    <3> QED
      BY <3>1, <3>2 DEF Kept
  <2> QED
    BY <2>1, <2>2
<1>4. t = PushDeletes(PushChat(m, None).store, ds) /\ PushChat(m, None).store = m
  BY DEF PushChat
<1>5. m.chat = None => t.tomb >= m.tomb
  <2>1. CASE m.chat # None
    BY <2>1
  <2>2. CASE m.chat = None
    <3>1. m = s /\ s.chat = None
      BY <1>2, <2>2
    <3>2. t.chat = None
      BY <1>1, <1>2, <2>2, PushDeletesCases
    <3> QED
      BY <3>1, <3>2
  <2> QED
    BY <2>1, <2>2
<1>6. None \in MaybeChat /\ me.lastRev <= m.rev
  BY <1>1, <1>2 DEF MaybeChat
<1> HIDE DEF ds, x
<1> QED
  BY <1>1, <1>2, <1>3, <1>4, <1>5, <1>6, ServeKeeps DEF ds

(* Serving a call keeps what every device calls pushed. *)
LEMMA ServeBooked ==
  ASSUME IInv, IInv', JInv, NEW d \in Devices, Serve(d)
  PROVE  JInv'
<1> DEFINE me == dev[d]
           you == dev'[d]
           x == me.req.chat
           ds == me.req.deletes
           m == PushChat(server, x).store
           v == PushChat(server, x).verdict
           s == PushDeletes(m, ds)
<1>1. /\ TypeOK /\ TypeOK' /\ Dated /\ Shaped /\ Synchronised /\ Marks /\ Ordered /\ AllBooked
  BY DEF IInv, JInv
<1>2. /\ me.phase = "sent" /\ server' = s /\ now' = now
      /\ you.chat = me.chat /\ you.pushed = me.pushed /\ you.lastRev = me.lastRev
      /\ you.deletes = me.deletes /\ you.req.deletes = ds
      /\ you.phase = "answered" /\ you.ans.rev = s.rev
      /\ you.ans.chat = (IF s.chatRev > me.req.since THEN s.chat ELSE None)
      /\ you.ans.verdict = v
      /\ \A e \in Devices \ {d} : dev'[e] = dev[e]
  BY <1>1, ServeIs
<1>3. /\ seen'.rolled = seen.rolled
      /\ seen'.clash <=> seen.clash \/ Lowers(s)
      /\ seen'.back <=> seen.back \/ Returns(d, m)
      /\ seen'.unmarked = (IF Refuses(server, x) THEN seen.unmarked \cup {d} ELSE seen.unmarked)
  BY <1>1, ServeIs
<1>4. /\ server \in Store /\ Shape(server) /\ me \in Device /\ now \in Nat /\ buried \in Nat
      /\ x \in MaybeChat /\ ds \in Seq(Nat)
  BY <1>1 DEF TypeOK, Shaped, Device, Request
<1>5. Ascending(ds) /\ \A k \in DOMAIN ds : ds[k] # 0
  BY <1>1, OneOrdered DEF Dated
<1>6. /\ Steps(server, s) /\ s \in Store /\ Shape(s)
      /\ (s.chat # None => v # "deleted")
  <2>1. Steps(server, s) /\ (s.chat # None => v # "deleted")
    <3> HIDE DEF x, ds
    <3>1. s = PushDeletes(PushChat(server, x).store, ds)
      OBVIOUS
    <3> HIDE DEF s
    <3> QED
      BY <1>4, <1>5, <3>1, ServedFacts
  <2> QED
    BY <2>1 DEF Steps
<1>7. Marks' /\ Ordered'
  <2>1. now' >= now
    BY <1>2, <1>4
  <2>2. \A e \in Devices : /\ dev'[e].chat = dev[e].chat /\ dev'[e].pushed = dev[e].pushed
                           /\ dev'[e].deletes = dev[e].deletes
                           /\ dev'[e].req.deletes = dev[e].req.deletes
    <3> HIDE DEF s, v
    <3> QED
      BY <1>2
  <2> QED
    BY <1>1, <2>1, <2>2, MarksStay
<1> HIDE DEF s, m, v
<1>8. m = PushChat(server, x).store /\ s = PushDeletes(m, ds) /\ v = PushChat(server, x).verdict
  BY DEF s, m, v
<1> HIDE DEF x, ds, me, you
<1>9. AllBooked'
  <2> SUFFICES ASSUME ~seen'.rolled, ~seen'.clash, ~seen'.back,
                      NEW e \in Devices, e \notin seen'.unmarked
               PROVE  Booked(dev'[e], server')
    BY DEF AllBooked
  <2>1. /\ ~seen.rolled /\ ~seen.clash /\ ~seen.back /\ e \notin seen.unmarked
        /\ ~Lowers(s) /\ ~Returns(d, m)
    BY <1>3
  <2>2. Booked(dev[e], server) /\ Tombstone(server, buried) /\ Behind(dev[e], server)
    BY <1>1, <2>1 DEF AllBooked, Synchronised, Following
  <2>3. server.chat = None => s.tomb >= server.tomb \/ s.chat # None
    <3> SUFFICES ASSUME server.chat = None, s.chat = None
                 PROVE  s.tomb >= server.tomb
      OBVIOUS
    <3>1. server.tomb = buried
      BY <2>2 DEF Tombstone
    <3>2. s.tomb # 0
      <4>1. Tombstone(s, IF s.tomb # 0 THEN s.tomb ELSE buried)
        BY <1>4, <1>5, <1>8, <2>2, ServedFacts
      <4> QED
        BY <4>1 DEF Tombstone
    <3> QED
      BY <1>4, <1>6, <2>1, <3>1, <3>2 DEF Lowers, Store
  <2>4. dev[e] \in Device
    BY <1>1 DEF TypeOK
  <2>5. CASE e # d
    <3>1. ASSUME dev[e].chat # None \/ dev[e].ans.chat # None,
                 server.chat = None, dev[e].lastRev < server.tombRev
          PROVE  m = server /\ s.tomb >= server.tomb
      <4>1. m.chat = None
        BY <2>1, <2>5, <3>1 DEF Returns
      <4>2. m = server
        BY <1>4, <1>8, <4>1, PushChatFacts
      <4>3. s.chat = None
        BY <1>4, <1>5, <1>8, <4>1, <4>2, PushDeletesCases
      <4> QED
        BY <2>3, <3>1, <4>2, <4>3
    <3>2. dev[e].chat # None /\ Kept(dev[e].chat, dev[e].lastRev, server)
            => Kept(dev[e].chat, dev[e].lastRev, s)
      <4> SUFFICES ASSUME dev[e].chat # None, Kept(dev[e].chat, dev[e].lastRev, server)
                   PROVE  Kept(dev[e].chat, dev[e].lastRev, s)
        OBVIOUS
      <4>1. dev[e].lastRev \in Nat /\ dev[e].chat \in Chat /\ dev[e].lastRev <= server.rev
            /\ server.tombRev \in Nat
        BY <1>4, <2>2, <2>4 DEF Device, MaybeChat, Behind, Store
      <4>2. server.chat = None => m = server /\ s.tomb >= server.tomb
        BY <3>1, <4>1 DEF Kept, Has
      <4> QED
        BY <1>4, <1>5, <1>8, <4>1, <4>2, ServeKeeps
    <3>3. dev[e].phase = "answered" /\ dev[e].ans.chat # None
            /\ Kept(dev[e].ans.chat, dev[e].ans.rev, server)
            => Kept(dev[e].ans.chat, dev[e].ans.rev, s)
      <4> SUFFICES ASSUME dev[e].phase = "answered", dev[e].ans.chat # None,
                          Kept(dev[e].ans.chat, dev[e].ans.rev, server)
                   PROVE  Kept(dev[e].ans.chat, dev[e].ans.rev, s)
        OBVIOUS
      <4>1. dev[e].ans.rev \in Nat /\ dev[e].ans.chat \in Chat /\ dev[e].ans.rev <= server.rev
            /\ server.tombRev \in Nat /\ dev[e].lastRev \in Nat
            /\ dev[e].lastRev <= dev[e].ans.rev
        BY <1>4, <2>2, <2>4 DEF Device, Answer, MaybeChat, Behind, Store, Booked
      <4>2. server.chat = None => m = server /\ s.tomb >= server.tomb
        BY <3>1, <4>1 DEF Kept, Has
      <4> QED
        BY <1>4, <1>5, <1>8, <4>1, <4>2, ServeKeeps
    <3>4. Booked(dev[e], s)
      BY <2>2, <3>2, <3>3, BookedMoves
    <3> QED
      BY <1>2, <2>5, <3>4
  <2>6. CASE e = d
    <3>1. Booked(me, server) /\ me.lastRev <= server.rev /\ ~Refuses(server, x)
      BY <1>3, <2>2, <2>6 DEF me, Behind
    <3>2. me.chat # None /\ v # "deleted" => Kept(me.chat, me.lastRev, s)
      BY <1>2, <1>4, <1>5, <1>8, <2>3, <3>1, ServedKept DEF x, ds
    <3>3. v = "deleted" => s.chat = None
      BY <1>6
    <3>4. s.chat # None => Kept(s.chat, s.rev, s)
      BY <1>6 DEF Kept, Has, Store, MaybeChat, Chat
    <3>5. me.chat # None /\ me.chat.updatedAt = me.pushed => v # "deleted"
      <4> SUFFICES ASSUME me.chat # None, me.chat.updatedAt = me.pushed
                   PROVE  v # "deleted"
        OBVIOUS
      <4>1. x = None
        BY <1>2, <3>1 DEF Booked, Pending, x
      <4> QED
        BY <1>8, <4>1 DEF PushChat
    <3>6. me.lastRev <= s.rev
      <4>1. s.rev >= server.rev /\ s.rev \in Nat /\ server.rev \in Nat /\ me.lastRev \in Nat
        BY <1>4, <1>6 DEF Steps, Moved, Store, Device
      <4> QED
        BY <3>1, <4>1
    <3>7. Booked(you, s)
      BY <1>2, <3>2, <3>3, <3>4, <3>5, <3>6 DEF Booked
    <3> QED
      BY <1>2, <2>6, <3>7 DEF you
  <2> QED
    BY <2>5, <2>6
<1> QED
  BY <1>7, <1>9 DEF JInv

(* A restart that lost writes leaves the devices as they are. *)
LEMMA RestartBooked ==
  ASSUME IInv, IInv', JInv, Restart
  PROVE  JInv'
<1>1. TypeOK /\ TypeOK' /\ Marks /\ Ordered
  BY DEF IInv, JInv
<1>2. now' = now /\ dev' = dev /\ seen' = [seen EXCEPT !.rolled = TRUE]
  BY DEF Restart
<1>3. Marks' /\ Ordered'
  <2>1. now' >= now
    BY <1>1, <1>2 DEF TypeOK
  <2> QED
    BY <1>1, <1>2, <2>1, MarksStay
<1>4. AllBooked'
  <2>1. seen'.rolled
    BY <1>1, <1>2 DEF TypeOK
  <2> QED
    BY <2>1 DEF AllBooked
<1> QED
  BY <1>3, <1>4 DEF JInv

-----------------------------------------------------------------------------
(* The second invariant holds when every device has the chat: a migrated copy is not marked. *)
LEMMA InitBooked == Init => JInv
<1> SUFFICES ASSUME Init
             PROVE  JInv
  OBVIOUS
<1>1. PICK n \in 1 .. 3 :
        dev = [d \in Devices |-> Synced(IF d \in Migrated THEN Legacy(d, n) ELSE Base)]
  BY DEF Init
<1>2. /\ Base \in Chat /\ Base # None /\ Base.updatedAt = 1 /\ Has(Base, Base)
      /\ server.chat = Base
  <2>1. Base \in Chat /\ Base.updatedAt = 1 /\ server.chat = Base
    BY DEF Base, Chat, Init
  <2>2. Base # None
    BY <2>1, NoneIsNoChat
  <2> QED
    BY <2>1, <2>2 DEF Has, Chat
<1>3. ASSUME NEW d \in Devices
      PROVE  Legacy(d, n) # None /\ Legacy(d, n).updatedAt = 2
  <2>1. Legacy(d, n) \in Chat /\ Legacy(d, n).updatedAt = 2
    BY DEF Legacy, Chat
  <2> QED
    BY <2>1, NoneIsNoChat
<1>4. ASSUME NEW d \in Devices
      PROVE  /\ dev[d].chat = (IF d \in Migrated THEN Legacy(d, n) ELSE Base)
             /\ dev[d].pushed = 1 /\ dev[d].deletes = <<>> /\ dev[d].phase = "idle"
             /\ dev[d].req.deletes = <<>>
  <2>1. dev[d] = Synced(IF d \in Migrated THEN Legacy(d, n) ELSE Base)
    BY <1>1
  <2> QED
    BY <2>1 DEF Synced, NoRequest
<1>5. Marks
  <2> SUFFICES ASSUME NEW d \in Devices
               PROVE  dev[d].chat # None /\ dev[d].pushed <= dev[d].chat.updatedAt
    BY DEF Marks
  <2> QED
    BY <1>2, <1>3, <1>4
<1>6. Ordered
  BY <1>4 DEF Ordered, Ascending
<1>7. ASSUME NEW d \in Devices
      PROVE  Booked(dev[d], server)
  <2>1. CASE d \in Migrated
    BY <1>3, <1>4, <2>1 DEF Booked
  <2>2. CASE d \notin Migrated
    BY <1>2, <1>4, <2>2 DEF Booked, Kept
  <2> QED
    BY <2>1, <2>2
<1>8. AllBooked
  BY <1>7 DEF AllBooked
<1> QED
  BY <1>5, <1>6, <1>8 DEF JInv

(* Every step preserves the second invariant, as it does the first. *)
LEMMA StepBooked == IInv /\ IInv' /\ JInv /\ [Next]_vars => JInv'
<1> SUFFICES ASSUME IInv, IInv', JInv, [Next]_vars
             PROVE  JInv'
  OBVIOUS
<1>1. ASSUME NEW d \in Devices, NEW ps \in Gestures, Edit(d, ps)
      PROVE  JInv'
  BY <1>1, EditBooked
<1>2. ASSUME NEW d \in Devices, Delete(d)
      PROVE  JInv'
  BY <1>2, DeleteBooked
<1>3. ASSUME NEW d \in Devices, SyncSend(d)
      PROVE  JInv'
  BY <1>3, SyncSendBooked
<1>4. ASSUME NEW d \in Devices, Serve(d)
      PROVE  JInv'
  BY <1>4, ServeBooked
<1>5. ASSUME NEW d \in Devices, SyncReceive(d)
      PROVE  JInv'
  BY <1>5, SyncReceiveBooked
<1>6. ASSUME NEW d \in Devices, SyncFails(d)
      PROVE  JInv'
  BY <1>6, SyncFailsBooked
<1>7. ASSUME NEW at \in forgets, Forget(at)
      PROVE  JInv'
  BY <1>7, ForgetBooked
<1>8. ASSUME Restart
      PROVE  JInv'
  BY <1>8, RestartBooked
<1>9. CASE UNCHANGED vars
  BY <1>9 DEF vars, JInv, Marks, Ordered, AllBooked
<1> QED
  BY <1>1, <1>2, <1>3, <1>4, <1>5, <1>6, <1>7, <1>8, <1>9 DEF Next

(* The second invariant holds throughout. *)
LEMMA Invariance2 == Spec => []JInv
BY InitBooked, StepBooked, Invariance, PTL DEF Spec

-----------------------------------------------------------------------------
(* The state has its type: in particular a merge of chats is a chat, and no revision or clock *)
(* is lost (mergeChat, mergeIncomingChat, touchChatComponent).                                *)
THEOREM SyncTyping == Spec => []TypeOK
<1>1. IInv => TypeOK
  BY DEF IInv
<1> QED
  BY <1>1, Invariance, PTL

(* The revision cursor misses nothing, for any number of devices, edits, deletes and failures *)
(* and whatever the clocks: a device has what the store stamped at or below its lastRev, and  *)
(* has obeyed the deletion (pull, syncNow, mergeIncoming).                                    *)
THEOREM NothingIsMissed == Spec => []NothingMissed
<1>1. IInv => NothingMissed
  <2> SUFFICES ASSUME IInv, ~seen.rolled, ~seen.clash, NEW d \in Devices
               PROVE  LET me == dev[d]
                      IN /\ server.chat # None /\ server.chatRev <= me.lastRev
                            /\ me.deletes = <<>> =>
                              /\ me.chat # None
                              /\ \A p \in Parts : me.chat.part[p].at >= server.chat.part[p].at
                         /\ server.tomb # 0 /\ server.tombRev <= me.lastRev /\ me.chat # None =>
                              me.chat.updatedAt > server.tomb
    BY DEF NothingMissed, CursorHolds
  <2>1. Known(dev[d], server) /\ Obeyed(dev[d], server)
    BY DEF IInv, Synchronised, Following
  <2>2. dev[d].deletes = <<>> => ~Buries(dev[d].deletes, server.chat)
    BY DEF Buries
  <2> QED
    BY <2>1, <2>2 DEF Known, Obeyed, Has
<1> QED
  BY <1>1, Invariance, PTL

(* A deleted chat comes back only with an edit dated after the deletion the store carried out *)
(* last, whichever devices push what in whatever order (push, remove).                        *)
THEOREM DeletesStick == Spec => []DeleteSticks
<1>1. IInv => DeleteSticks
  BY DEF IInv, Synchronised, Tombstone, DeleteSticks
<1> QED
  BY <1>1, Invariance, PTL

(* No verdict books an edit as pushed that was not: what a device does not intend to push the *)
(* store has, or a deletion of it is past the device's cursor, for any number of devices and   *)
(* failures (pushed, accepted, rejected in syncNow; push, mergeIncoming).                      *)
THEOREM NothingIsStranded == Spec => []NothingStranded
<1>1. IInv /\ JInv => NothingStranded
  <2> SUFFICES ASSUME IInv, JInv, ~seen.rolled, ~seen.clash, ~seen.back,
                      NEW d \in Devices, d \notin seen.unmarked, Stranded(d)
               PROVE  FALSE
    BY DEF NothingStranded
  <2>1. Booked(dev[d], server)
    BY DEF JInv, AllBooked
  <2>2. Kept(dev[d].chat, dev[d].lastRev, server)
    BY <2>1 DEF Booked, Stranded
  <2>3. server \in Store /\ dev[d] \in Device /\ dev[d].chat \in Chat
    BY DEF IInv, TypeOK, Device, MaybeChat, Stranded
  <2>4. CASE Has(server.chat, dev[d].chat)
    <3>1. PICK p \in Parts : server.chat.part[p].at < dev[d].chat.part[p].at
      BY <2>4 DEF Has, Stranded
    <3>2. server.chat \in Chat
      BY <2>3, <2>4 DEF Store, MaybeChat, Has
    <3>3. server.chat.part[p].at \in Nat /\ dev[d].chat.part[p].at \in Nat
      BY <2>3, <3>2 DEF Chat
    <3> QED
      BY <2>4, <3>1, <3>3 DEF Has
  <2>5. CASE server.tombRev > dev[d].lastRev
    <3>1. server.tombRev \in Nat /\ dev[d].lastRev \in Nat
      BY <2>3 DEF Store, Device
    <3> QED
      BY <2>5, <3>1 DEF Stranded
  <2> QED
    BY <2>2, <2>4, <2>5 DEF Kept
<1> QED
  BY <1>1, Invariance, Invariance2, PTL

-----------------------------------------------------------------------------
(* ---- ChatClient ---- *)

(* Every response belongs to a session of its own app. *)
ReadersOwned == \A r \in DOMAIN readers : readers[r].session \in DOMAIN sessions

(* A turn has its job event while it runs, and its verdict as well when it is over. *)
TurnShaped(j) ==
  /\ j.phase = "none" <=> j.len = 0
  /\ j.phase = "running" => j.len \in 1 .. MaxLen - 1
  /\ j.phase \in {"closing", "over"} => j.len >= 2

TurnsShaped == \A c \in Chats : TurnShaped(srv[c])

(* What the types say, of the responses and the turns as well. *)
ClientTyped == ClientTypeOK /\ ReadersOwned /\ TurnsShaped

(* The app's first state is well typed. *)
LEMMA ClientInitTyped == ClientInit => ClientTyped
<1> SUFFICES ASSUME ClientInit PROVE ClientTyped
  OBVIOUS
<1>1. /\ sessions \in Seq(Session) /\ readers \in Seq(Reader)
      /\ Len(sessions) = 0 /\ Len(readers) = 0 /\ DOMAIN readers = {}
  BY EmptySeq DEF ClientInit
<1>2. /\ srv \in [Chats -> Job] /\ liveJobs \in [Chats -> Entry]
      /\ transcript \in [Chats -> Nat]
  BY ChatClientConstants DEF ClientInit, Job, Phases, Entry
<1>3. recon \in Reconcile
  BY DEF ClientInit, Reconcile, Idle
<1>4. spent \in [switches : Nat, reloads : Nat, cuts : Nat, lost : Nat]
  BY DEF ClientInit
<1>5. /\ curId \in Chats /\ liveJob \in Chats \cup {NoChat} /\ liveSession = 0
      /\ readerActive \in BOOLEAN /\ mergedJobs \subseteq Chats /\ acks \subseteq Chats
  BY DEF ClientInit
<1>6. Len(sessions) <= MaxSessions /\ Len(readers) <= MaxReaders
      /\ liveSession \in 0 .. Len(sessions)
  BY <1>1, <1>5, ChatClientConstants
<1>7. TurnsShaped
  BY DEF ClientInit, TurnsShaped, TurnShaped
<1> QED
  BY <1>1, <1>2, <1>3, <1>4, <1>5, <1>6, <1>7 DEF ClientTyped, ClientTypeOK, ReadersOwned

(* An addition keeps what was there. *)
LEMMA AppendTyped ==
  ASSUME NEW S, NEW q \in Seq(S), NEW e \in S
  PROVE  /\ Append(q, e) \in Seq(S) /\ Len(Append(q, e)) = Len(q) + 1
         /\ DOMAIN q = 1 .. Len(q) /\ Len(q) \in Nat
         /\ DOMAIN Append(q, e) = 1 .. Len(q) + 1
         /\ \A i \in 1 .. Len(q) : Append(q, e)[i] = q[i]
         /\ Append(q, e)[Len(q) + 1] = e
<1>1. Append(q, e) \in Seq(S) /\ Len(Append(q, e)) = Len(q) + 1
  BY AppendProperties
<1>2. /\ \A i \in 1 .. Len(q) : Append(q, e)[i] = q[i]
      /\ Append(q, e)[Len(q) + 1] = e
  BY AppendProperties
<1>3. DOMAIN q = 1 .. Len(q) /\ Len(q) \in Nat
  BY LenProperties
<1>4. DOMAIN Append(q, e) = 1 .. Len(q) + 1
  BY <1>1, LenProperties
<1> QED
  BY <1>1, <1>2, <1>3, <1>4

(* A function on the positions of a sequence is a sequence of the same length. *)
LEMMA SameLength ==
  ASSUME NEW S, NEW q \in Seq(S), NEW f \in [DOMAIN q -> S]
  PROVE  f \in Seq(S) /\ Len(f) = Len(q) /\ DOMAIN f = DOMAIN q
<1>1. Len(q) \in Nat /\ DOMAIN q = 1 .. Len(q)
  BY LenProperties
<1>2. f \in [1 .. Len(q) -> S]
  BY <1>1
<1>3. f \in Seq(S)
  BY <1>1, <1>2, SeqDef
<1>4. Len(f) \in Nat /\ DOMAIN f = 1 .. Len(f)
  BY <1>3, LenProperties
<1>5. 1 .. Len(f) = 1 .. Len(q)
  BY <1>1, <1>2, <1>4
<1>6. Len(f) = Len(q)
  BY <1>1, <1>4, <1>5
<1> QED
  BY <1>1, <1>3, <1>4, <1>6

(* One turn's step keeps the types: the others are as they were. *)
LEMMA OneTurn ==
  ASSUME ClientTyped, NEW c \in Chats, NEW j \in Job, TurnShaped(j),
         srv' = [srv EXCEPT ![c] = j]
  PROVE  srv' \in [Chats -> Job] /\ TurnsShaped'
<1>1. srv \in [Chats -> Job] /\ \A x \in Chats : TurnShaped(srv[x])
  BY DEF ClientTyped, ClientTypeOK, TurnsShaped
<1>2. \A x \in Chats : srv'[x] = IF x = c THEN j ELSE srv[x]
  BY <1>1
<1>3. srv' \in [Chats -> Job]
  BY <1>1
<1>4. \A x \in Chats : TurnShaped(srv'[x])
  BY <1>1, <1>2
<1> QED
  BY <1>3, <1>4 DEF TurnsShaped, TurnShaped

(* A job with a new length and a new phase. *)
LEMMA JobWith ==
  ASSUME NEW L, NEW P, NEW o \in [len : L, phase : P, collected : BOOLEAN],
         NEW n \in L, NEW p \in P
  PROVE  LET j == [o EXCEPT !.len = n, !.phase = p]
         IN /\ j \in [len : L, phase : P, collected : BOOLEAN]
            /\ j.len = n /\ j.phase = p /\ j.collected = o.collected
OBVIOUS

(* The server's steps, and the acknowledgement, change one job. *)
LEMMA ServerIs ==
  ASSUME ClientTyped, NEW c \in Chats,
         EmitText(c) \/ EmitVerdict(c) \/ Seal(c) \/ Collect(c)
  PROVE  \E j \in Job : /\ TurnShaped(j) /\ srv' = [srv EXCEPT ![c] = j]
                        /\ j.len >= srv[c].len
                        /\ srv[c].phase # "none" => j.phase # "none"
                        /\ srv[c].collected => j.collected
                        /\ srv[c].phase = "over" => j.phase = "over" /\ j.len = srv[c].len
                        /\ srv[c].phase = "closing" =>
                             j.phase \in {"closing", "over"} /\ j.len = srv[c].len
                        /\ j.len # srv[c].len => srv[c].phase = "running"
                        /\ srv[c].phase = "running" =>
                             j.phase = "running" \/ j.len = srv[c].len + 1
<1> DEFINE o == srv[c]
<1>0. o \in Job /\ srv \in [Chats -> Job] /\ TurnShaped(o)
  BY DEF ClientTyped, ClientTypeOK, TurnsShaped
<1>1. ASSUME EmitText(c) PROVE srv' = [srv EXCEPT ![c] = [o EXCEPT !.len = o.len + 1]]
  BY <1>1 DEF EmitText
<1>2. ASSUME EmitVerdict(c)
      PROVE  srv' = [srv EXCEPT ![c] = [o EXCEPT !.len = o.len + 1, !.phase = "closing"]]
  BY <1>2 DEF EmitVerdict
<1>3. ASSUME Seal(c) PROVE srv' = [srv EXCEPT ![c] = [o EXCEPT !.phase = "over"]]
  BY <1>3 DEF Seal
<1>4. ASSUME Collect(c) PROVE srv' = [srv EXCEPT ![c] = [o EXCEPT !.collected = TRUE]]
  BY <1>4 DEF Collect
<1>5. CASE EmitText(c)
  <2>1. o.phase = "running" /\ o.len < MaxLen - 1
    BY <1>5 DEF EmitText
  <2> DEFINE j == [o EXCEPT !.len = o.len + 1]
  <2>2. j \in Job /\ j.len = o.len + 1 /\ j.phase = "running" /\ j.collected = o.collected
    BY <1>0, <2>1, ChatClientConstants DEF Job
  <2>3. TurnShaped(j) /\ j.len >= o.len /\ j.len # o.len
    BY <1>0, <2>1, <2>2, ChatClientConstants DEF TurnShaped, Job
  <2> QED
    BY <1>1, <1>5, <2>1, <2>2, <2>3
<1>6. CASE EmitVerdict(c)
  <2>1. o.phase = "running"
    BY <1>6 DEF EmitVerdict
  <2> DEFINE j == [o EXCEPT !.len = o.len + 1, !.phase = "closing"]
  <2>2. o.len + 1 \in 2 .. MaxLen
    <3>1. o.len \in 1 .. MaxLen - 1
      BY <1>0, <2>1 DEF TurnShaped
    <3>2. MaxLen \in Nat
      BY ChatClientConstants
    <3> HIDE DEF o
    <3> QED
      BY <3>1, <3>2
  <2>3. j \in Job /\ j.len = o.len + 1 /\ j.phase = "closing" /\ j.collected = o.collected
    <3>1. o.len + 1 \in 0 .. MaxLen
      BY <1>0, <2>2 DEF Job
    <3> HIDE DEF o
    <3> QED
      BY <1>0, <3>1, JobWith DEF Job, Phases
  <2>4. TurnShaped(j) /\ j.len >= o.len /\ j.len # o.len
    BY <1>0, <2>2, <2>3, ChatClientConstants DEF TurnShaped, Job
  <2> QED
    BY <1>2, <1>6, <2>1, <2>3, <2>4
<1>7. CASE Seal(c)
  <2>1. o.phase = "closing"
    BY <1>7 DEF Seal
  <2> DEFINE j == [o EXCEPT !.phase = "over"]
  <2>2. j \in Job /\ j.len = o.len /\ j.phase = "over" /\ j.collected = o.collected
    BY <1>0 DEF Job, Phases
  <2>3. TurnShaped(j) /\ j.len >= o.len
    BY <1>0, <2>1, <2>2 DEF TurnShaped, Job
  <2> QED
    BY <1>3, <1>7, <2>1, <2>2, <2>3
<1>8. CASE Collect(c)
  <2> DEFINE j == [o EXCEPT !.collected = TRUE]
  <2>1. j \in Job /\ j.len = o.len /\ j.phase = o.phase /\ j.collected = TRUE
    BY <1>0 DEF Job
  <2>2. TurnShaped(j) /\ j.len >= o.len
    BY <1>0, <2>1 DEF TurnShaped, Job
  <2> QED
    BY <1>4, <1>8, <2>1, <2>2
<1> QED
  BY <1>5, <1>6, <1>7, <1>8

(* So the types survive them. *)
LEMMA ServerTyped ==
  ASSUME ClientTyped, NEW c \in Chats,
         EmitText(c) \/ EmitVerdict(c) \/ Seal(c) \/ Collect(c) \/ LoseCollect(c)
  PROVE  ClientTyped'
<1>1. CASE LoseCollect(c)
  <2>1. spent' \in [switches : Nat, reloads : Nat, cuts : Nat, lost : Nat]
    <3>1. spent \in [switches : Nat, reloads : Nat, cuts : Nat, lost : Nat]
      BY DEF ClientTyped, ClientTypeOK
    <3>2. spent' = [spent EXCEPT !.lost = spent.lost + 1]
      BY <1>1 DEF LoseCollect
    <3> QED
      BY <3>1, <3>2
  <2>2. acks' \subseteq Chats
    BY <1>1 DEF ClientTyped, ClientTypeOK, LoseCollect
  <2>3. UNCHANGED <<srv, curId, uiVars, recon, mergedJobs, transcript>>
    BY <1>1 DEF LoseCollect
  <2> QED
    BY <2>1, <2>2, <2>3
       DEF ClientTyped, ClientTypeOK, ReadersOwned, TurnsShaped, TurnShaped, uiVars
<1>2. CASE EmitText(c) \/ EmitVerdict(c) \/ Seal(c) \/ Collect(c)
  <2>1. srv' \in [Chats -> Job] /\ TurnsShaped'
    <3>1. PICK j \in Job : TurnShaped(j) /\ srv' = [srv EXCEPT ![c] = j]
      BY <1>2, ServerIs
    <3> QED
      BY <3>1, OneTurn
  <2>2. /\ UNCHANGED <<curId, uiVars, recon, mergedJobs, transcript, spent>>
        /\ acks' \subseteq Chats
    BY <1>2 DEF EmitText, EmitVerdict, Seal, Collect, ClientTyped, ClientTypeOK
  <2> QED
    BY <2>1, <2>2 DEF ClientTyped, ClientTypeOK, ReadersOwned, uiVars
<1> QED
  BY <1>1, <1>2

(* The parts of the type that the client's steps need, as functions. *)
LEMMA ClientShapes ==
  ASSUME ClientTyped
  PROVE  /\ srv \in [Chats -> Job] /\ liveJobs \in [Chats -> Entry]
         /\ transcript \in [Chats -> Nat] /\ curId \in Chats
         /\ sessions \in Seq(Session) /\ readers \in Seq(Reader)
         /\ sessions \in [DOMAIN sessions -> Session] /\ DOMAIN sessions = 1 .. Len(sessions)
         /\ readers \in [DOMAIN readers -> Reader] /\ DOMAIN readers = 1 .. Len(readers)
         /\ Len(sessions) \in Nat /\ Len(readers) \in Nat
         /\ \A r \in DOMAIN readers : readers[r].session \in DOMAIN sessions
<1>1. sessions \in Seq(Session) /\ readers \in Seq(Reader)
  BY DEF ClientTyped, ClientTypeOK
<1>2. /\ Len(sessions) \in Nat /\ DOMAIN sessions = 1 .. Len(sessions)
      /\ sessions \in [1 .. Len(sessions) -> Session]
  BY <1>1, LenProperties
<1>3. /\ Len(readers) \in Nat /\ DOMAIN readers = 1 .. Len(readers)
      /\ readers \in [1 .. Len(readers) -> Reader]
  BY <1>1, LenProperties
<1>4. \A r \in DOMAIN readers : readers[r].session \in DOMAIN sessions
  BY DEF ClientTyped, ReadersOwned
<1> QED
  BY <1>1, <1>2, <1>3, <1>4 DEF ClientTyped, ClientTypeOK

(* What a new session and a new response look like. *)
LEMMA FreshSession ==
  ASSUME NEW c \in Chats, NEW b \in BOOLEAN
  PROVE  /\ newSession(c, b) \in Session
         /\ newSession(c, b).chat = c /\ newSession(c, b).seen = <<>>
         /\ newSession(c, b).verdict = FALSE /\ newSession(c, b).detached = FALSE
         /\ newSession(c, b).jobId = b
<1>1. <<>> \in Seq(Nat)
  BY EmptySeq
<1> QED
  BY <1>1 DEF newSession, Session

(* One field of a record in a function, changed. *)
LEMMA FieldSet ==
  ASSUME NEW D, NEW S, NEW f \in [D -> S], NEW i \in D, NEW e \in S
  PROVE  /\ [f EXCEPT ![i] = e] \in [D -> S]
         /\ [f EXCEPT ![i] = e][i] = e
         /\ \A k \in D : k # i => [f EXCEPT ![i] = e][k] = f[k]
OBVIOUS

(* streamReply adds a session and its response. *)
LEMMA StreamReplyIs ==
  ASSUME ClientTyped, streamReply
  PROVE  \E n, m \in Nat :
           /\ n \notin DOMAIN sessions /\ m \notin DOMAIN readers
           /\ n # 0 /\ n <= MaxSessions /\ m <= MaxReaders
           /\ sessions' \in Seq(Session) /\ Len(sessions') = n
           /\ DOMAIN sessions' = DOMAIN sessions \cup {n}
           /\ readers' \in Seq(Reader) /\ Len(readers') = m
           /\ DOMAIN readers' = DOMAIN readers \cup {m}
           /\ \A i \in DOMAIN sessions : sessions'[i] = sessions[i]
           /\ sessions'[n] = newSession(curId, FALSE)
           /\ \A i \in DOMAIN readers : readers'[i] = readers[i]
           /\ readers'[m] = [session |-> n, kind |-> "post", next |-> 0, open |-> TRUE]
           /\ liveSession' = n
<1> DEFINE n == Len(sessions) + 1
           m == Len(readers) + 1
           x == newSession(curId, FALSE)
           y == [session |-> n, kind |-> "post", next |-> 0, open |-> TRUE]
<1>1. /\ sessions \in Seq(Session) /\ readers \in Seq(Reader) /\ curId \in Chats
      /\ Len(sessions) \in Nat /\ Len(readers) \in Nat
      /\ DOMAIN sessions = 1 .. Len(sessions) /\ DOMAIN readers = 1 .. Len(readers)
  BY ClientShapes
<1>2. x \in Session
  BY <1>1, FreshSession
<1>3. sessions' = Append(sessions, x)
  BY DEF streamReply
<1>4. n \in Nat /\ m \in Nat /\ n # 0 /\ n \notin DOMAIN sessions /\ m \notin DOMAIN readers
      /\ 1 .. n = DOMAIN sessions \cup {n} /\ 1 .. m = DOMAIN readers \cup {m}
  BY <1>1
<1>5. /\ sessions' \in Seq(Session) /\ Len(sessions') = n /\ DOMAIN sessions' = 1 .. n
      /\ \A i \in DOMAIN sessions : sessions'[i] = sessions[i]
      /\ sessions'[n] = x
  <2> HIDE DEF x
  <2> QED
    BY <1>1, <1>2, <1>3, AppendTyped
<1>6. liveSession' = n
  BY <1>5 DEF streamReply
<1>7. y \in Reader
  BY <1>4 DEF Reader
<1>8. readers' = Append(readers, y)
  BY <1>6 DEF streamReply
<1>9. /\ readers' \in Seq(Reader) /\ Len(readers') = m /\ DOMAIN readers' = 1 .. m
      /\ \A i \in DOMAIN readers : readers'[i] = readers[i]
      /\ readers'[m] = y
  BY <1>1, <1>7, <1>8, AppendTyped
<1>10. n <= MaxSessions /\ m <= MaxReaders
  <2>1. Len(sessions) < MaxSessions /\ Len(readers) < MaxReaders
    BY DEF streamReply
  <2>2. MaxSessions \in Nat /\ MaxReaders \in Nat
    BY ChatClientConstants
  <2> QED
    BY <1>1, <2>1, <2>2
<1> HIDE DEF n, m, x
<1>11. x = newSession(curId, FALSE)
  BY DEF x
<1> QED
  BY <1>4, <1>5, <1>6, <1>9, <1>10, <1>11

(* The types survive it. *)
LEMMA StreamReplyTyped == ASSUME ClientTyped, streamReply PROVE ClientTyped'
<1>1. PICK n, m \in Nat :
        /\ n # 0 /\ n <= MaxSessions /\ m <= MaxReaders
        /\ sessions' \in Seq(Session) /\ Len(sessions') = n
        /\ DOMAIN sessions' = DOMAIN sessions \cup {n}
        /\ readers' \in Seq(Reader) /\ Len(readers') = m
        /\ DOMAIN readers' = DOMAIN readers \cup {m}
        /\ \A i \in DOMAIN readers : readers'[i] = readers[i]
        /\ readers'[m] = [session |-> n, kind |-> "post", next |-> 0, open |-> TRUE]
        /\ liveSession' = n
  BY StreamReplyIs
<1>2. /\ srv \in [Chats -> Job] /\ liveJobs \in [Chats -> Entry] /\ curId \in Chats
      /\ \A r \in DOMAIN readers : readers[r].session \in DOMAIN sessions
  BY ClientShapes
<1>3. srv' \in [Chats -> Job] /\ TurnsShaped'
  <2> DEFINE j == [len |-> 1, phase |-> "running", collected |-> FALSE]
  <2>1. j \in Job
    BY ChatClientConstants DEF Job, Phases
  <2>2. TurnShaped(j)
    BY ChatClientConstants DEF TurnShaped
  <2>3. srv' = [srv EXCEPT ![curId] = j]
    BY DEF streamReply
  <2> QED
    BY <1>2, <2>1, <2>2, <2>3, OneTurn
<1>4. liveJobs' \in [Chats -> Entry]
  <2>1. [id |-> "prov", eventIndex |-> 0] \in Entry
    BY DEF Entry
  <2>2. liveJobs' = [liveJobs EXCEPT ![curId] = [id |-> "prov", eventIndex |-> 0]]
    BY DEF streamReply
  <2> QED
    BY <1>2, <2>1, <2>2
<1>5. liveJob' \in Chats /\ readerActive' \in BOOLEAN
  BY <1>2 DEF streamReply
<1>6. UNCHANGED <<curId, recon, mergedJobs, transcript, acks, spent>>
  BY DEF streamReply
<1>7. ReadersOwned'
  BY <1>1, <1>2 DEF ReadersOwned
<1>8. liveSession' \in 0 .. Len(sessions') /\ Len(sessions') <= MaxSessions
      /\ Len(readers') <= MaxReaders
  BY <1>1
<1> QED
  BY <1>1, <1>3, <1>4, <1>5, <1>6, <1>7, <1>8 DEF ClientTyped, ClientTypeOK

(* One event is read: what it does to the session of its response. *)
LEMMA ReadIs ==
  ASSUME ClientTyped, NEW r \in DOMAIN readers, readSse(r)
  PROVE  \E s \in DOMAIN sessions, n \in Nat, c \in Chats :
           /\ s = readers[r].session /\ n = readers[r].next /\ c = sessions[s].chat
           /\ readers[r].open /\ n < srv[c].len
           /\ sessions' \in [DOMAIN sessions -> Session]
           /\ \A i \in DOMAIN sessions : i # s => sessions'[i] = sessions[i]
           /\ sessions'[s].chat = c /\ sessions'[s].detached = sessions[s].detached
           /\ sessions'[s].jobId = (sessions[s].jobId \/ n = 0)
           /\ sessions'[s].verdict = (sessions[s].verdict \/ IsVerdict(c, n))
           /\ sessions'[s].seen = IF n = 0 \/ IsVerdict(c, n) THEN sessions[s].seen
                                  ELSE Append(sessions[s].seen, n)
<1> DEFINE s == readers[r].session
           n == readers[r].next
           c == sessions[s].chat
           v == IsVerdict(c, n)
           q == IF n = 0 \/ v THEN sessions[s].seen ELSE Append(sessions[s].seen, n)
           a == sessions[s].jobId \/ n = 0
           b == sessions[s].verdict \/ v
<1>1. /\ sessions \in [DOMAIN sessions -> Session] /\ s \in DOMAIN sessions
      /\ readers[r] \in Reader
  BY ClientShapes
<1>2. n \in Nat
  BY <1>1 DEF Reader
<1>3. sessions[s] \in Session
  BY <1>1
<1>4. c \in Chats /\ sessions[s].seen \in Seq(Nat)
  BY <1>3 DEF Session
<1>5. q \in Seq(Nat)
  BY <1>2, <1>4, AppendProperties
<1>6. v \in BOOLEAN
  BY DEF IsVerdict
<1>7. a \in BOOLEAN /\ b \in BOOLEAN
  BY <1>6
<1>8. sessions' = [sessions EXCEPT ![s].jobId = @ \/ n = 0,
                                   ![s].verdict = @ \/ v,
                                   ![s].seen = IF n = 0 \/ v THEN @ ELSE Append(@, n)]
  BY DEF readSse, SessionOf
<1>9. readers[r].open /\ n < srv[c].len
  BY DEF readSse, SessionOf
<1> HIDE DEF v, n, s
<1> HIDE DEF a, b, q
<1> DEFINE d == [sessions[s] EXCEPT !.jobId = a]
           e == [d EXCEPT !.verdict = b]
           x == [e EXCEPT !.seen = q]
<1>10. /\ d \in Session /\ d.chat = c /\ d.seen = sessions[s].seen
       /\ d.verdict = sessions[s].verdict /\ d.detached = sessions[s].detached
       /\ d.jobId = a
  BY <1>3, <1>7 DEF Session
<1>11. sessions' = [[[sessions EXCEPT ![s] = d] EXCEPT ![s].verdict = @ \/ v]
                      EXCEPT ![s].seen = IF n = 0 \/ v THEN @ ELSE Append(@, n)]
  BY <1>8 DEF a
<1> HIDE DEF d
<1>12. /\ e \in Session /\ e.chat = c /\ e.seen = sessions[s].seen
       /\ e.verdict = b /\ e.detached = sessions[s].detached /\ e.jobId = a
  BY <1>7, <1>10 DEF Session
<1>13. sessions' = [[sessions EXCEPT ![s] = e]
                      EXCEPT ![s].seen = IF n = 0 \/ v THEN @ ELSE Append(@, n)]
  <2>1. [sessions EXCEPT ![s] = d][s] = d
    BY <1>1
  <2>2. [[sessions EXCEPT ![s] = d] EXCEPT ![s].verdict = @ \/ v] =
          [[sessions EXCEPT ![s] = d] EXCEPT ![s] = e]
    BY <1>10, <2>1 DEF b
  <2>3. [[sessions EXCEPT ![s] = d] EXCEPT ![s] = e] = [sessions EXCEPT ![s] = e]
    BY <1>1
  <2> DEFINE f == [[sessions EXCEPT ![s] = d] EXCEPT ![s].verdict = @ \/ v]
             g == [sessions EXCEPT ![s] = e]
  <2>4. sessions' = [f EXCEPT ![s].seen = IF n = 0 \/ v THEN @ ELSE Append(@, n)]
    BY <1>11
  <2>5. f = g
    BY <2>2, <2>3
  <2> HIDE DEF f, g
  <2>6. sessions' = [g EXCEPT ![s].seen = IF n = 0 \/ v THEN @ ELSE Append(@, n)]
    BY <2>4, <2>5
  <2> QED
    BY <2>6 DEF g
<1> HIDE DEF e
<1>14. /\ x \in Session /\ x.chat = c /\ x.seen = q /\ x.verdict = b
       /\ x.detached = sessions[s].detached /\ x.jobId = a
  BY <1>5, <1>12 DEF Session
<1>15. sessions' = [sessions EXCEPT ![s] = x]
  <2>1. [sessions EXCEPT ![s] = e][s] = e
    BY <1>1
  <2>2. [[sessions EXCEPT ![s] = e] EXCEPT ![s].seen = IF n = 0 \/ v THEN @ ELSE Append(@, n)] =
          [[sessions EXCEPT ![s] = e] EXCEPT ![s] = x]
    BY <1>12, <2>1 DEF q
  <2>3. [[sessions EXCEPT ![s] = e] EXCEPT ![s] = x] = [sessions EXCEPT ![s] = x]
    BY <1>1
  <2> QED
    BY <1>13, <2>2, <2>3
<1> HIDE DEF x
<1>16. /\ s = readers[r].session /\ n = readers[r].next
       /\ q = IF n = 0 \/ v THEN sessions[s].seen ELSE Append(sessions[s].seen, n)
       /\ a = (sessions[s].jobId \/ n = 0) /\ b = (sessions[s].verdict \/ v)
       /\ v = IsVerdict(c, n)
  BY DEF s, n, q, a, b, v
<1>17. /\ sessions' \in [DOMAIN sessions -> Session] /\ sessions'[s] = x
       /\ \A i \in DOMAIN sessions : i # s => sessions'[i] = sessions[i]
  BY <1>1, <1>14, <1>15
<1> QED
  BY <1>1, <1>2, <1>4, <1>9, <1>14, <1>16, <1>17

(* And to the entries: the first event names the run, and the cursor of the entry that the *)
(* pointer names moves on.                                                                 *)
LEMMA ReadMoves ==
  ASSUME ClientTyped, NEW r \in DOMAIN readers, readSse(r),
         NEW n, n = readers[r].next, NEW c, c = sessions[readers[r].session].chat
  PROVE  /\ liveJob' = IF n = 0 THEN c ELSE liveJob
         /\ readers' = [readers EXCEPT ![r].next = n + 1]
         /\ n = 0 => liveJobs' = [liveJobs EXCEPT ![c] = [id |-> "known", eventIndex |-> 1]]
         /\ n # 0 => liveJobs' = IF liveJob # NoChat /\ liveJobs[liveJob].id = "known"
                                 THEN [liveJobs EXCEPT ![liveJob].eventIndex = @ + 1]
                                 ELSE liveJobs
         /\ UNCHANGED <<srv, curId, liveSession, readerActive, recon, mergedJobs,
                        transcript, acks, spent>>
<1>1. liveJobs \in [Chats -> Entry] /\ c \in Chats
  BY ClientShapes DEF Session
<1>2. c # NoChat
  BY <1>1, ChatClientConstants
<1>3. CASE n = 0
  <2>1. liveJobs' = [[liveJobs EXCEPT ![c] = [id |-> "known", eventIndex |-> 0]]
                       EXCEPT ![c].eventIndex = @ + 1]
    BY <1>1, <1>2, <1>3 DEF readSse, SessionOf
  <2>2. liveJobs' = [liveJobs EXCEPT ![c] = [id |-> "known", eventIndex |-> 1]]
    BY <1>1, <2>1 DEF Entry
  <2> QED
    BY <1>3, <2>2 DEF readSse, SessionOf
<1>4. CASE n # 0
  BY <1>4 DEF readSse, SessionOf
<1> QED
  BY <1>3, <1>4

(* The types survive it. *)
LEMMA ReadTyped ==
  ASSUME ClientTyped, NEW r \in DOMAIN readers, readSse(r) PROVE ClientTyped'
<1> DEFINE n == readers[r].next
           c == sessions[readers[r].session].chat
<1>1. /\ sessions \in Seq(Session) /\ liveJobs \in [Chats -> Entry]
      /\ readers \in Seq(Reader) /\ readers \in [DOMAIN readers -> Reader]
      /\ sessions \in [DOMAIN sessions -> Session]
      /\ \A q \in DOMAIN readers : readers[q].session \in DOMAIN sessions
  BY ClientShapes
<1>2. n \in Nat /\ c \in Chats
  BY <1>1 DEF Reader, Session
<1>3. sessions' \in [DOMAIN sessions -> Session]
  BY ReadIs
<1>4. sessions' \in Seq(Session) /\ Len(sessions') = Len(sessions)
      /\ DOMAIN sessions' = DOMAIN sessions
  BY <1>1, <1>3, SameLength
<1>5. /\ liveJob' = IF n = 0 THEN c ELSE liveJob
      /\ readers' = [readers EXCEPT ![r].next = n + 1]
      /\ n = 0 => liveJobs' = [liveJobs EXCEPT ![c] = [id |-> "known", eventIndex |-> 1]]
      /\ n # 0 => liveJobs' = IF liveJob # NoChat /\ liveJobs[liveJob].id = "known"
                              THEN [liveJobs EXCEPT ![liveJob].eventIndex = @ + 1]
                              ELSE liveJobs
      /\ UNCHANGED <<srv, curId, liveSession, readerActive, recon, mergedJobs,
                     transcript, acks, spent>>
  BY ReadMoves
<1> HIDE DEF n, c
<1>6. liveJob \in Chats \cup {NoChat}
  BY DEF ClientTyped, ClientTypeOK
<1>7. liveJobs' \in [Chats -> Entry]
  <2>1. CASE n = 0
    <3>1. [id |-> "known", eventIndex |-> 1] \in Entry
      BY DEF Entry
    <3> QED
      BY <1>1, <1>2, <1>5, <2>1, <3>1
  <2>2. CASE n # 0
    <3>1. CASE liveJob # NoChat /\ liveJobs[liveJob].id = "known"
      <4>1. liveJob \in Chats
        BY <1>6, <3>1
      <4>2. liveJobs[liveJob].eventIndex + 1 \in Nat
        BY <1>1, <4>1 DEF Entry
      <4>3. liveJobs' = [liveJobs EXCEPT ![liveJob].eventIndex = liveJobs[liveJob].eventIndex + 1]
        BY <1>5, <2>2, <3>1
      <4> DEFINE d == [liveJobs[liveJob] EXCEPT
                         !.eventIndex = liveJobs[liveJob].eventIndex + 1]
      <4>4. d \in Entry
        BY <1>1, <4>1, <4>2 DEF Entry
      <4>5. liveJobs' = [liveJobs EXCEPT ![liveJob] = d]
        BY <4>3
      <4> HIDE DEF d
      <4> QED
        BY <1>1, <4>1, <4>4, <4>5
    <3> QED
      BY <1>1, <1>5, <2>2, <3>1
  <2> QED
    BY <2>1, <2>2
<1>8. /\ readers' \in [DOMAIN readers -> Reader]
      /\ \A q \in DOMAIN readers : readers'[q].session = readers[q].session
  <2> DEFINE k == n + 1
  <2>1. k \in Nat
    BY <1>2
  <2>2. readers' = [readers EXCEPT ![r].next = k]
    BY <1>5
  <2> HIDE DEF k
  <2> DEFINE y == [readers[r] EXCEPT !.next = k]
  <2>3. y \in Reader /\ y.session = readers[r].session
    BY <1>1, <2>1 DEF Reader
  <2>4. readers' = [readers EXCEPT ![r] = y]
    BY <2>2
  <2> HIDE DEF y
  <2> QED
    BY <1>1, <2>3, <2>4
<1>9. readers' \in Seq(Reader) /\ Len(readers') = Len(readers)
      /\ DOMAIN readers' = DOMAIN readers
  BY <1>1, <1>8, SameLength
<1>10. ReadersOwned'
  BY <1>1, <1>4, <1>8, <1>9 DEF ReadersOwned
<1>11. liveJob' \in Chats \cup {NoChat}
  BY <1>2, <1>5, <1>6
<1> QED
  BY <1>4, <1>5, <1>7, <1>9, <1>10, <1>11
     DEF ClientTyped, ClientTypeOK, TurnsShaped, TurnShaped

(* A response is closed, and its run finalized where the session says that it is over. *)
LEMMA AfterReaderIs ==
  ASSUME ClientTyped, NEW r \in DOMAIN readers, AfterReader(r)
  PROVE  \E s \in DOMAIN sessions, c \in Chats :
           /\ s = readers[r].session /\ c = sessions[s].chat
           /\ SlowList \/ recon.list = {}
           /\ readers' \in [DOMAIN readers -> Reader] /\ ~readers'[r].open
           /\ readers'[r].session = readers[r].session
           /\ \A q \in DOMAIN readers : q # r => readers'[q] = readers[q]
           /\ readerActive' = FALSE
           /\ liveJobs' \in [Chats -> Entry]
           /\ \A x \in Chats : x # c => liveJobs'[x] = liveJobs[x]
           /\ UNCHANGED <<srv, curId, sessions, recon>>
           /\ ~sessions[s].detached /\ (sessions[s].verdict \/ ~sessions[s].jobId) =>
                /\ liveJobs'[c].id = NoChat
                /\ liveSession' = (IF liveSession = s THEN 0 ELSE liveSession)
                /\ liveJob' = (IF liveSession = s THEN NoChat ELSE liveJob)
                /\ IF sessions[s].verdict
                   THEN /\ transcript' = [transcript EXCEPT ![c] = @ + 1]
                        /\ mergedJobs' = mergedJobs \cup {c} /\ acks' = acks \cup {c}
                   ELSE UNCHANGED <<transcript, mergedJobs, acks>>
           /\ ~(~sessions[s].detached /\ (sessions[s].verdict \/ ~sessions[s].jobId)) =>
                UNCHANGED <<transcript, mergedJobs, acks, liveJobs, liveSession, liveJob>>
<1> DEFINE s == readers[r].session
           c == sessions[s].chat
           Fin == ~sessions[s].detached /\ (sessions[s].verdict \/ ~sessions[s].jobId)
           y == [readers[r] EXCEPT !.open = FALSE]
           d == [liveJobs[c] EXCEPT !.id = NoChat]
<1>1. /\ sessions \in [DOMAIN sessions -> Session] /\ s \in DOMAIN sessions
      /\ readers \in [DOMAIN readers -> Reader] /\ readers[r] \in Reader
      /\ liveJobs \in [Chats -> Entry]
  BY ClientShapes
<1>2. c \in Chats
  BY <1>1 DEF Session
<1>3. y \in Reader /\ ~y.open /\ y.session = readers[r].session
  BY <1>1 DEF Reader
<1>4. readers' = [readers EXCEPT ![r] = y]
  BY DEF AfterReader
<1>5. d \in Entry /\ d.id = NoChat
  BY <1>1, <1>2 DEF Entry
<1>6. /\ SlowList \/ recon.list = {}
      /\ readerActive' = FALSE /\ UNCHANGED <<srv, curId, sessions, recon>>
  BY DEF AfterReader
<1>7. ASSUME Fin
      PROVE  /\ liveJobs' = [liveJobs EXCEPT ![c] = d]
             /\ liveSession' = (IF liveSession = s THEN 0 ELSE liveSession)
             /\ liveJob' = (IF liveSession = s THEN NoChat ELSE liveJob)
             /\ IF sessions[s].verdict
                THEN /\ transcript' = [transcript EXCEPT ![c] = @ + 1]
                     /\ mergedJobs' = mergedJobs \cup {c} /\ acks' = acks \cup {c}
                ELSE UNCHANGED <<transcript, mergedJobs, acks>>
  BY <1>7 DEF AfterReader, finalizeSession
<1>8. ASSUME ~Fin
      PROVE  UNCHANGED <<transcript, mergedJobs, acks, liveJobs, liveSession, liveJob>>
  BY <1>8 DEF AfterReader
<1> HIDE DEF y, d
<1>9. /\ readers' \in [DOMAIN readers -> Reader] /\ readers'[r] = y
      /\ \A q \in DOMAIN readers : q # r => readers'[q] = readers[q]
  BY <1>1, <1>3, <1>4
<1>10. ASSUME Fin
       PROVE  /\ liveJobs' \in [Chats -> Entry] /\ liveJobs'[c].id = NoChat
              /\ \A x \in Chats : x # c => liveJobs'[x] = liveJobs[x]
  <2>1. liveJobs' = [liveJobs EXCEPT ![c] = d]
    BY <1>7, <1>10
  <2> HIDE DEF c, Fin
  <2> QED
    BY <1>1, <1>2, <1>5, <2>1
<1>11. s = readers[r].session /\ c = sessions[s].chat
  OBVIOUS
<1> QED
  <2>1. CASE Fin
    <3> HIDE DEF s, c
    <3> QED
      BY <1>1, <1>2, <1>3, <1>6, <1>7, <1>9, <1>10, <1>11, <2>1
  <2>2. CASE ~Fin
    <3> HIDE DEF s, c
    <3> QED
      BY <1>1, <1>2, <1>3, <1>6, <1>8, <1>9, <1>11, <2>2
  <2> QED
    BY <2>1, <2>2

(* The types survive the end of a response. *)
LEMMA AfterReaderTyped ==
  ASSUME ClientTyped, NEW r \in DOMAIN readers, AfterReader(r),
         spent' \in [switches : Nat, reloads : Nat, cuts : Nat, lost : Nat]
  PROVE  ClientTyped'
<1>1. PICK s \in DOMAIN sessions, c \in Chats :
        /\ readers' \in [DOMAIN readers -> Reader]
        /\ readers'[r].session = readers[r].session
        /\ \A q \in DOMAIN readers : q # r => readers'[q] = readers[q]
        /\ readerActive' = FALSE
        /\ liveJobs' \in [Chats -> Entry]
        /\ UNCHANGED <<srv, curId, sessions, recon>>
        /\ ~sessions[s].detached /\ (sessions[s].verdict \/ ~sessions[s].jobId) =>
             /\ liveSession' = (IF liveSession = s THEN 0 ELSE liveSession)
             /\ liveJob' = (IF liveSession = s THEN NoChat ELSE liveJob)
             /\ IF sessions[s].verdict
                THEN /\ transcript' = [transcript EXCEPT ![c] = @ + 1]
                     /\ mergedJobs' = mergedJobs \cup {c} /\ acks' = acks \cup {c}
                ELSE UNCHANGED <<transcript, mergedJobs, acks>>
        /\ ~(~sessions[s].detached /\ (sessions[s].verdict \/ ~sessions[s].jobId)) =>
             UNCHANGED <<transcript, mergedJobs, acks, liveJobs, liveSession, liveJob>>
  BY AfterReaderIs
<1>2. /\ readers \in Seq(Reader) /\ transcript \in [Chats -> Nat]
      /\ \A q \in DOMAIN readers : readers[q].session \in DOMAIN sessions
      /\ Len(sessions) \in Nat
  BY ClientShapes
<1>3. /\ liveSession \in 0 .. Len(sessions) /\ liveJob \in Chats \cup {NoChat}
      /\ mergedJobs \subseteq Chats /\ acks \subseteq Chats
  BY DEF ClientTyped, ClientTypeOK
<1>4. readers' \in Seq(Reader) /\ Len(readers') = Len(readers)
      /\ DOMAIN readers' = DOMAIN readers
  BY <1>1, <1>2, SameLength
<1>5. ReadersOwned'
  BY <1>1, <1>2, <1>4 DEF ReadersOwned
<1>6. /\ liveSession' \in 0 .. Len(sessions) /\ liveJob' \in Chats \cup {NoChat}
  BY <1>1, <1>2, <1>3
<1>7. transcript' \in [Chats -> Nat]
  <2>1. transcript[c] + 1 \in Nat
    BY <1>2
  <2> QED
    BY <1>1, <1>2, <2>1
<1>8. mergedJobs' \subseteq Chats /\ acks' \subseteq Chats
  BY <1>1, <1>3
<1> QED
  BY <1>1, <1>4, <1>5, <1>6, <1>7, <1>8
     DEF ClientTyped, ClientTypeOK, TurnsShaped, TurnShaped

(* They end by themselves, or die. *)
LEMMA StreamTyped ==
  ASSUME ClientTyped, NEW r \in DOMAIN readers, StreamEnds(r) \/ StreamDies(r)
  PROVE  ClientTyped' /\ AfterReader(r) /\ readers[r].open
<1>1. AfterReader(r) /\ readers[r].open
  BY DEF StreamEnds, StreamDies
<1>2. spent' \in [switches : Nat, reloads : Nat, cuts : Nat, lost : Nat]
  <2>1. spent \in [switches : Nat, reloads : Nat, cuts : Nat, lost : Nat]
    BY DEF ClientTyped, ClientTypeOK
  <2>2. spent' = spent \/ spent' = [spent EXCEPT !.cuts = spent.cuts + 1]
    BY DEF StreamEnds, StreamDies
  <2> QED
    BY <2>1, <2>2
<1> QED
  BY <1>1, <1>2, AfterReaderTyped

(* The user turns to another chat. *)
LEMMA SwitchIs ==
  ASSUME ClientTyped, NEW to \in Chats, switchChat(to)
  PROVE  /\ sessions' \in [DOMAIN sessions -> Session]
         /\ readers' \in [DOMAIN readers -> Reader]
         /\ \A q \in DOMAIN readers :
              /\ readers'[q].session = readers[q].session
              /\ readers'[q].open =>
                   readers[q].open /\ ~(readers[q].kind = "post" /\ readers[q].session = liveSession)
         /\ liveSession' = 0 /\ readerActive' = FALSE /\ curId' = to
         /\ liveJob' \in Chats \cup {NoChat}
         /\ UNCHANGED <<srv, liveJobs, recon, mergedJobs, transcript, acks>>
<1>1. /\ sessions \in [DOMAIN sessions -> Session] /\ DOMAIN sessions = 1 .. Len(sessions)
      /\ readers \in [DOMAIN readers -> Reader] /\ Len(sessions) \in Nat
  BY ClientShapes
<1>2. liveSession \in 0 .. Len(sessions)
  BY DEF ClientTyped, ClientTypeOK
<1>3. sessions' \in [DOMAIN sessions -> Session]
  <2>1. CASE liveSession = 0
    BY <1>1, <2>1 DEF switchChat
  <2>2. CASE liveSession # 0
    <3> DEFINE e == [sessions[liveSession] EXCEPT !.detached = TRUE]
    <3>1. liveSession \in DOMAIN sessions
      BY <1>1, <1>2, <2>2
    <3>2. e \in Session
      BY <1>1, <3>1 DEF Session
    <3>3. sessions' = [sessions EXCEPT ![liveSession] = e]
      BY <2>2 DEF switchChat
    <3> HIDE DEF e
    <3> QED
      BY <1>1, <3>1, <3>2, <3>3
  <2> QED
    BY <2>1, <2>2
<1>4. readers' = [r \in DOMAIN readers |->
        IF readers[r].kind = "post" /\ readers[r].session = liveSession
        THEN [readers[r] EXCEPT !.open = FALSE] ELSE readers[r]]
  BY DEF switchChat
<1>5. DOMAIN readers' = DOMAIN readers
  BY <1>4
<1>6. ASSUME NEW q \in DOMAIN readers
      PROVE  /\ readers'[q] \in Reader /\ readers'[q].session = readers[q].session
             /\ readers'[q].open =>
                  readers[q].open /\ ~(readers[q].kind = "post" /\ readers[q].session = liveSession)
  <2> DEFINE y == [readers[q] EXCEPT !.open = FALSE]
  <2>1. readers[q] \in Reader
    BY <1>1
  <2>2. y \in Reader /\ ~y.open /\ y.session = readers[q].session
    BY <2>1 DEF Reader
  <2>3. readers'[q] = IF readers[q].kind = "post" /\ readers[q].session = liveSession
                      THEN y ELSE readers[q]
    BY <1>4
  <2> HIDE DEF y
  <2> QED
    BY <2>1, <2>2, <2>3
<1>7. /\ liveSession' = 0 /\ readerActive' = FALSE /\ curId' = to
      /\ liveJob' \in Chats \cup {NoChat}
      /\ UNCHANGED <<srv, liveJobs, recon, mergedJobs, transcript, acks>>
  BY DEF switchChat
<1>8. readers' \in [DOMAIN readers -> Reader]
  BY <1>4, <1>5, <1>6
<1> QED
  BY <1>3, <1>6, <1>7, <1>8

(* The types survive that. *)
LEMMA SwitchTyped ==
  ASSUME ClientTyped, NEW to \in Chats, switchChat(to) PROVE ClientTyped'
<1>1. /\ sessions' \in [DOMAIN sessions -> Session]
      /\ readers' \in [DOMAIN readers -> Reader]
      /\ \A q \in DOMAIN readers : readers'[q].session = readers[q].session
      /\ liveSession' = 0 /\ readerActive' = FALSE /\ curId' = to
      /\ liveJob' \in Chats \cup {NoChat}
      /\ UNCHANGED <<srv, liveJobs, recon, mergedJobs, transcript, acks>>
  BY SwitchIs
<1>2. /\ sessions \in Seq(Session) /\ readers \in Seq(Reader) /\ Len(sessions) \in Nat
      /\ \A q \in DOMAIN readers : readers[q].session \in DOMAIN sessions
  BY ClientShapes
<1>3. /\ sessions' \in Seq(Session) /\ Len(sessions') = Len(sessions)
      /\ DOMAIN sessions' = DOMAIN sessions
  BY <1>1, <1>2, SameLength
<1>4. /\ readers' \in Seq(Reader) /\ Len(readers') = Len(readers)
      /\ DOMAIN readers' = DOMAIN readers
  BY <1>1, <1>2, SameLength
<1>5. ReadersOwned'
  BY <1>1, <1>2, <1>3, <1>4 DEF ReadersOwned
<1>6. spent' \in [switches : Nat, reloads : Nat, cuts : Nat, lost : Nat]
  <2>1. spent \in [switches : Nat, reloads : Nat, cuts : Nat, lost : Nat]
    BY DEF ClientTyped, ClientTypeOK
  <2>2. spent' = [spent EXCEPT !.switches = spent.switches + 1]
    BY DEF switchChat
  <2> QED
    BY <2>1, <2>2
<1>7. liveSession' \in 0 .. Len(sessions')
  BY <1>1, <1>2, <1>3
<1> QED
  BY <1>1, <1>3, <1>4, <1>5, <1>6, <1>7
     DEF ClientTyped, ClientTypeOK, TurnsShaped, TurnShaped

(* A reload closes every response and lets go of every session. *)
LEMMA ReloadIs ==
  ASSUME ClientTyped, Reload
  PROVE  /\ sessions' \in [DOMAIN sessions -> Session]
         /\ readers' \in [DOMAIN readers -> Reader]
         /\ \A q \in DOMAIN readers :
              readers'[q].session = readers[q].session /\ ~readers'[q].open
         /\ liveSession' = 0 /\ readerActive' = FALSE /\ liveJob' = NoChat
         /\ recon' = Idle /\ mergedJobs' = {}
         /\ acks = {} \/ MaxLostCollects > 0
         /\ UNCHANGED <<srv, curId, liveJobs, transcript, acks>>
<1>1. /\ sessions \in [DOMAIN sessions -> Session]
      /\ readers \in [DOMAIN readers -> Reader]
  BY ClientShapes
<1>2. /\ sessions' = [s \in DOMAIN sessions |-> [sessions[s] EXCEPT !.detached = TRUE]]
      /\ readers' = [r \in DOMAIN readers |-> [readers[r] EXCEPT !.open = FALSE]]
  BY DEF Reload
<1>3. DOMAIN sessions' = DOMAIN sessions /\ DOMAIN readers' = DOMAIN readers
  BY <1>2
<1>4. ASSUME NEW s \in DOMAIN sessions PROVE sessions'[s] \in Session
  <2> DEFINE e == [sessions[s] EXCEPT !.detached = TRUE]
  <2>1. e \in Session
    BY <1>1 DEF Session
  <2>2. sessions'[s] = e
    BY <1>2
  <2> QED
    BY <2>1, <2>2
<1>5. ASSUME NEW q \in DOMAIN readers
      PROVE  /\ readers'[q] \in Reader /\ readers'[q].session = readers[q].session
             /\ ~readers'[q].open
  <2> DEFINE y == [readers[q] EXCEPT !.open = FALSE]
  <2>1. y \in Reader /\ ~y.open /\ y.session = readers[q].session
    BY <1>1 DEF Reader
  <2>2. readers'[q] = y
    BY <1>2
  <2> QED
    BY <2>1, <2>2
<1>6. sessions' \in [DOMAIN sessions -> Session]
  BY <1>2, <1>3, <1>4
<1>7. readers' \in [DOMAIN readers -> Reader]
  BY <1>2, <1>3, <1>5
<1>8. /\ liveSession' = 0 /\ readerActive' = FALSE /\ liveJob' = NoChat
      /\ recon' = Idle /\ mergedJobs' = {}
      /\ acks = {} \/ MaxLostCollects > 0
      /\ UNCHANGED <<srv, curId, liveJobs, transcript, acks>>
  BY DEF Reload
<1> QED
  BY <1>5, <1>6, <1>7, <1>8

(* The types survive it. *)
LEMMA ReloadTyped == ASSUME ClientTyped, Reload PROVE ClientTyped'
<1>1. /\ sessions' \in [DOMAIN sessions -> Session]
      /\ readers' \in [DOMAIN readers -> Reader]
      /\ \A q \in DOMAIN readers : readers'[q].session = readers[q].session
      /\ liveSession' = 0 /\ readerActive' = FALSE /\ liveJob' = NoChat
      /\ recon' = Idle /\ mergedJobs' = {}
      /\ UNCHANGED <<srv, curId, liveJobs, transcript, acks>>
  BY ReloadIs
<1>2. /\ sessions \in Seq(Session) /\ readers \in Seq(Reader) /\ Len(sessions) \in Nat
      /\ \A q \in DOMAIN readers : readers[q].session \in DOMAIN sessions
  BY ClientShapes
<1>3. /\ sessions' \in Seq(Session) /\ Len(sessions') = Len(sessions)
      /\ DOMAIN sessions' = DOMAIN sessions
  BY <1>1, <1>2, SameLength
<1>4. /\ readers' \in Seq(Reader) /\ Len(readers') = Len(readers)
      /\ DOMAIN readers' = DOMAIN readers
  BY <1>1, <1>2, SameLength
<1>5. ReadersOwned'
  BY <1>1, <1>2, <1>3, <1>4 DEF ReadersOwned
<1>6. spent' \in [switches : Nat, reloads : Nat, cuts : Nat, lost : Nat]
  <2>1. spent \in [switches : Nat, reloads : Nat, cuts : Nat, lost : Nat]
    BY DEF ClientTyped, ClientTypeOK
  <2>2. spent' = [spent EXCEPT !.reloads = spent.reloads + 1]
    BY DEF Reload
  <2> QED
    BY <2>1, <2>2
<1>7. liveSession' \in 0 .. Len(sessions') /\ mergedJobs' \subseteq Chats
  BY <1>1, <1>2, <1>3
<1>8. recon' \in Reconcile
  BY <1>1 DEF Reconcile, Idle
<1> QED
  BY <1>1, <1>3, <1>4, <1>5, <1>6, <1>7, <1>8
     DEF ClientTyped, ClientTypeOK, TurnsShaped, TurnShaped

(* A reattach opens a response for the session on screen, or for a fresh one. *)
LEMMA ReattachIs ==
  ASSUME ClientTyped, attemptReattach
  PROVE  \E s, m \in Nat, from \in Nat :
           /\ from = IF liveSession = 0 THEN 0 ELSE liveJobs[curId].eventIndex
           /\ s \in DOMAIN sessions' /\ m \notin DOMAIN readers
           /\ s # 0 /\ Len(sessions') <= MaxSessions /\ m <= MaxReaders
           /\ sessions' \in Seq(Session)
           /\ DOMAIN sessions' = DOMAIN sessions \cup {s}
           /\ \A i \in DOMAIN sessions : sessions'[i] = sessions[i]
           /\ liveSession = 0 => s \notin DOMAIN sessions /\ sessions'[s] = newSession(curId, TRUE)
           /\ liveSession # 0 => s = liveSession
           /\ readers' \in Seq(Reader) /\ Len(readers') = m
           /\ DOMAIN readers' = DOMAIN readers \cup {m}
           /\ \A i \in DOMAIN readers : readers'[i] = readers[i]
           /\ readers'[m].session = s /\ readers'[m].open
           /\ from <= srv[curId].len => readers'[m].next = from
           /\ liveSession' = s /\ liveJob' = curId /\ readerActive' = TRUE
           /\ ~readerActive /\ liveJobs[curId].id = "known"
           /\ OpenWhileFetching \/ recon.fetching # curId
           /\ liveJobs' \in [Chats -> Entry]
           /\ liveJobs'[curId].id = "known" /\ liveJobs'[curId].eventIndex = from
           /\ \A x \in Chats : x # curId => liveJobs'[x] = liveJobs[x]
           /\ UNCHANGED <<srv, curId, recon, mergedJobs, transcript, acks, spent>>
<1> DEFINE from == IF liveSession = 0 THEN 0 ELSE liveJobs[curId].eventIndex
           s == IF liveSession = 0 THEN Len(sessions) + 1 ELSE liveSession
           m == Len(readers) + 1
           x == newSession(curId, TRUE)
           len == srv[curId].len
           y == [session |-> s, kind |-> "attach", open |-> TRUE,
                 next |-> IF from > len THEN len ELSE from]
           d == [liveJobs[curId] EXCEPT !.eventIndex = from]
<1>1. /\ sessions \in Seq(Session) /\ readers \in Seq(Reader) /\ curId \in Chats
      /\ Len(sessions) \in Nat /\ Len(readers) \in Nat
      /\ DOMAIN sessions = 1 .. Len(sessions) /\ DOMAIN readers = 1 .. Len(readers)
      /\ liveJobs \in [Chats -> Entry] /\ srv \in [Chats -> Job]
  BY ClientShapes
<1>2. liveSession \in 0 .. Len(sessions) /\ Len(sessions) <= MaxSessions
      /\ MaxSessions \in Nat /\ MaxReaders \in Nat
  BY ChatClientConstants DEF ClientTyped, ClientTypeOK
<1>3. x \in Session
  BY <1>1, FreshSession
<1>4. from \in Nat /\ len \in Nat /\ liveJobs[curId] \in Entry
  BY <1>1 DEF Entry, Job
<1>5. /\ s \in Nat /\ m \in Nat /\ s # 0 /\ m \notin DOMAIN readers
      /\ 1 .. m = DOMAIN readers \cup {m}
      /\ liveSession = 0 => s \notin DOMAIN sessions /\ 1 .. s = DOMAIN sessions \cup {s}
      /\ liveSession # 0 => s \in DOMAIN sessions /\ s = liveSession
  BY <1>1, <1>2
<1>6. /\ ~readerActive /\ liveJobs[curId].id = "known"
      /\ OpenWhileFetching \/ recon.fetching # curId
      /\ liveSession = 0 => Len(sessions) < MaxSessions
      /\ Len(readers) < MaxReaders
      /\ liveJob' = curId
      /\ sessions' = IF liveSession = 0 THEN Append(sessions, x) ELSE sessions
      /\ liveSession' = s
      /\ liveJobs' = [liveJobs EXCEPT ![curId].eventIndex = from]
      /\ readers' = Append(readers, y)
      /\ readerActive' = TRUE
      /\ UNCHANGED <<srv, curId, recon, mergedJobs, transcript, acks, spent>>
  BY DEF attemptReattach
<1>7. d \in Entry /\ d.id = "known" /\ d.eventIndex = from
  <2> HIDE DEF from
  <2> QED
    BY <1>4, <1>6 DEF Entry
<1>8. liveJobs' = [liveJobs EXCEPT ![curId] = d]
  <2> HIDE DEF from
  <2> QED
    BY <1>6
<1>9. y \in Reader /\ y.session = s /\ y.open /\ (from <= len => y.next = from)
  <2> DEFINE k == IF from > len THEN len ELSE from
  <2>1. k \in Nat /\ (from <= len => k = from)
    <3> HIDE DEF from, len
    <3> QED
      BY <1>4
  <2> HIDE DEF from, len, s, k
  <2>2. y = [session |-> s, kind |-> "attach", open |-> TRUE, next |-> k]
    BY DEF k
  <2> HIDE DEF y
  <2> QED
    BY <1>5, <2>1, <2>2 DEF Reader
<1> HIDE DEF from, s, m, x, y, d, len
<1>10. /\ readers' \in Seq(Reader) /\ Len(readers') = m /\ DOMAIN readers' = 1 .. m
       /\ \A i \in DOMAIN readers : readers'[i] = readers[i]
       /\ readers'[m] = y
  BY <1>1, <1>6, <1>9, AppendTyped DEF m
<1>11. /\ sessions' \in Seq(Session) /\ Len(sessions') <= MaxSessions
       /\ DOMAIN sessions' = DOMAIN sessions \cup {s}
       /\ \A i \in DOMAIN sessions : sessions'[i] = sessions[i]
       /\ liveSession = 0 => sessions'[s] = x
  <2>1. CASE liveSession = 0
    <3>1. s = Len(sessions) + 1
      BY <2>1 DEF s
    <3>2. sessions' = Append(sessions, x)
      BY <1>6, <2>1
    <3>3. /\ sessions' \in Seq(Session) /\ Len(sessions') = s /\ DOMAIN sessions' = 1 .. s
          /\ \A i \in DOMAIN sessions : sessions'[i] = sessions[i]
          /\ sessions'[s] = x
      BY <1>1, <1>3, <3>1, <3>2, AppendTyped
    <3>4. s <= MaxSessions
      BY <1>1, <1>2, <1>6, <2>1, <3>1
    <3> QED
      BY <1>5, <2>1, <3>3, <3>4
  <2>2. CASE liveSession # 0
    BY <1>1, <1>2, <1>5, <1>6, <2>2
  <2> QED
    BY <2>1, <2>2
<1>12. /\ liveJobs' \in [Chats -> Entry] /\ liveJobs'[curId] = d
       /\ \A z \in Chats : z # curId => liveJobs'[z] = liveJobs[z]
  BY <1>1, <1>7, <1>8
<1>13. m <= MaxReaders
  BY <1>1, <1>2, <1>6 DEF m
<1>14. /\ from = IF liveSession = 0 THEN 0 ELSE liveJobs[curId].eventIndex
       /\ x = newSession(curId, TRUE) /\ len = srv[curId].len
  BY DEF from, x, len
<1>15. s \in Nat /\ m \in Nat /\ from \in Nat
  BY <1>4, <1>5
<1>16. /\ s \in DOMAIN sessions' /\ s # 0 /\ m \notin DOMAIN readers
       /\ liveSession = 0 => s \notin DOMAIN sessions /\ sessions'[s] = newSession(curId, TRUE)
       /\ liveSession # 0 => s = liveSession
  BY <1>5, <1>11, <1>14
<1>17. /\ DOMAIN readers' = DOMAIN readers \cup {m}
       /\ readers'[m].session = s /\ readers'[m].open
       /\ from <= srv[curId].len => readers'[m].next = from
  BY <1>5, <1>9, <1>10, <1>14
<1>18. Len(sessions') <= MaxSessions /\ m <= MaxReaders /\ sessions' \in Seq(Session)
       /\ readers' \in Seq(Reader) /\ Len(readers') = m
  BY <1>10, <1>11, <1>13
<1>19. liveJobs'[curId].id = "known" /\ liveJobs'[curId].eventIndex = from
  BY <1>7, <1>12
<1> s \in Nat /\ m \in Nat /\ from \in Nat
  BY <1>15
<1> WITNESS s \in Nat, m \in Nat, from \in Nat
<1> QED
  BY <1>6, <1>10, <1>11, <1>12, <1>14, <1>16, <1>17, <1>18, <1>19

(* The types survive it. *)
LEMMA ReattachTyped == ASSUME ClientTyped, attemptReattach PROVE ClientTyped'
<1>1. PICK s, m \in Nat :
        /\ s \in DOMAIN sessions' /\ Len(sessions') <= MaxSessions /\ m <= MaxReaders
        /\ sessions' \in Seq(Session)
        /\ DOMAIN sessions' = DOMAIN sessions \cup {s}
        /\ readers' \in Seq(Reader) /\ Len(readers') = m
        /\ DOMAIN readers' = DOMAIN readers \cup {m}
        /\ \A i \in DOMAIN readers : readers'[i] = readers[i]
        /\ readers'[m].session = s
        /\ liveSession' = s /\ liveJob' = curId /\ readerActive' = TRUE
        /\ liveJobs' \in [Chats -> Entry]
        /\ UNCHANGED <<srv, curId, recon, mergedJobs, transcript, acks, spent>>
  BY ReattachIs
<1>2. \A q \in DOMAIN readers : readers[q].session \in DOMAIN sessions
  BY ClientShapes
<1>3. ReadersOwned'
  BY <1>1, <1>2 DEF ReadersOwned
<1>4. Len(sessions') \in Nat /\ DOMAIN sessions' = 1 .. Len(sessions')
  BY <1>1, LenProperties
<1>5. liveSession' \in 0 .. Len(sessions')
  BY <1>1, <1>4
<1> QED
  BY <1>1, <1>3, <1>5 DEF ClientTyped, ClientTypeOK, TurnsShaped, TurnShaped

(* The snapshot has one line for each turn of the server. *)
LEMMA ReconcileListIs ==
  ASSUME ClientTyped, ReconcileList
  PROVE  /\ recon' \in Reconcile /\ recon'.fetching = NoChat
         /\ \A j \in recon'.list : \E c \in Chats :
              /\ j.chat = c /\ srv[c].phase # "none"
              /\ j.running = (srv[c].phase # "over") /\ j.collected = srv[c].collected
              /\ j = [chat |-> c, running |-> srv[c].phase # "over",
                      collected |-> srv[c].collected]
         /\ UNCHANGED <<srv, curId, uiVars, mergedJobs, transcript, acks, spent>>
<1> DEFINE L == { [chat |-> c, running |-> srv[c].phase # "over",
                   collected |-> srv[c].collected] :
                  c \in {x \in Chats : srv[x].phase # "none"} }
<1>1. srv \in [Chats -> Job]
  BY ClientShapes
<1>2. recon' = [busy |-> TRUE, fetching |-> NoChat, list |-> L]
  BY DEF ReconcileList
<1>3. ASSUME NEW j \in L
      PROVE  /\ j \in [chat : Chats, running : BOOLEAN, collected : BOOLEAN]
             /\ \E c \in Chats :
                  /\ j.chat = c /\ srv[c].phase # "none"
                  /\ j.running = (srv[c].phase # "over") /\ j.collected = srv[c].collected
                  /\ j = [chat |-> c, running |-> srv[c].phase # "over",
                          collected |-> srv[c].collected]
  <2>1. PICK c \in Chats :
          /\ srv[c].phase # "none"
          /\ j = [chat |-> c, running |-> srv[c].phase # "over",
                  collected |-> srv[c].collected]
    OBVIOUS
  <2>2. srv[c].collected \in BOOLEAN
    BY <1>1 DEF Job
  <2>3. j.chat = c /\ j.running = (srv[c].phase # "over") /\ j.collected = srv[c].collected
    BY <2>1
  <2> QED
    BY <2>1, <2>2, <2>3
<1> HIDE DEF L
<1>4. recon' \in Reconcile
  BY <1>2, <1>3 DEF Reconcile
<1>5. recon'.list = L /\ recon'.fetching = NoChat
  BY <1>2
<1>6. UNCHANGED <<srv, curId, uiVars, mergedJobs, transcript, acks, spent>>
  BY DEF ReconcileList
<1> QED
  BY <1>3, <1>4, <1>5, <1>6

(* A line is worked off, and perhaps its result asked for. *)
LEMMA LineTaken ==
  ASSUME ClientTyped, NEW j \in recon.list, NEW f \in Chats \cup {NoChat}
  PROVE  LET r == [recon EXCEPT !.list = @ \ {j}, !.fetching = f]
         IN r \in Reconcile /\ r.list = recon.list \ {j} /\ r.fetching = f
<1> DEFINE l == recon.list \ {j}
           r == [[recon EXCEPT !.list = l] EXCEPT !.fetching = f]
<1>1. recon \in Reconcile
  BY DEF ClientTyped, ClientTypeOK
<1>2. l \in SUBSET [chat : Chats, running : BOOLEAN, collected : BOOLEAN]
  BY <1>1 DEF Reconcile
<1> HIDE DEF l
<1>3. r \in Reconcile /\ r.list = l /\ r.fetching = f
  BY <1>1, <1>2 DEF Reconcile
<1> QED
  BY <1>3 DEF l

(* A running run is adopted. *)
LEMMA ReconcileRunningIs ==
  ASSUME ClientTyped, NEW j \in recon.list, ReconcileRunning(j)
  PROVE  /\ j.chat \in Chats /\ j.running
         /\ recon' \in Reconcile /\ recon'.list = recon.list \ {j}
         /\ recon.fetching = NoChat /\ recon'.fetching = NoChat
         /\ liveJobs' \in [Chats -> Entry]
         /\ busyFor(j.chat) => liveJobs' = liveJobs
         /\ ~busyFor(j.chat) =>
              /\ liveJobs'[j.chat] = [id |-> "known", eventIndex |-> 0]
              /\ \A x \in Chats : x # j.chat => liveJobs'[x] = liveJobs[x]
         /\ UNCHANGED <<srv, curId, liveJob, sessions, liveSession, readers, readerActive,
                        mergedJobs, transcript, acks, spent>>
<1> DEFINE d == [id |-> "known", eventIndex |-> 0]
           l == recon.list \ {j}
<1>1. recon \in Reconcile /\ liveJobs \in [Chats -> Entry]
  BY DEF ClientTyped, ClientTypeOK
<1>2. j.chat \in Chats
  BY <1>1 DEF Reconcile
<1>3. d \in Entry
  BY DEF Entry
<1>4. /\ j.running /\ recon.fetching = NoChat
      /\ liveJobs' = IF busyFor(j.chat) THEN liveJobs ELSE [liveJobs EXCEPT ![j.chat] = d]
      /\ recon' = [recon EXCEPT !.list = l]
      /\ UNCHANGED <<srv, curId, liveJob, sessions, liveSession, readers, readerActive,
                     mergedJobs, transcript, acks, spent>>
  BY DEF ReconcileRunning
<1>5. l \in SUBSET [chat : Chats, running : BOOLEAN, collected : BOOLEAN]
  BY <1>1 DEF Reconcile
<1> HIDE DEF d, l
<1>6. recon' \in Reconcile /\ recon'.list = l /\ recon'.fetching = NoChat
  BY <1>1, <1>4, <1>5 DEF Reconcile
<1>7. /\ liveJobs' \in [Chats -> Entry]
      /\ busyFor(j.chat) => liveJobs' = liveJobs
      /\ ~busyFor(j.chat) => /\ liveJobs'[j.chat] = d
                             /\ \A x \in Chats : x # j.chat => liveJobs'[x] = liveJobs[x]
  BY <1>1, <1>2, <1>3, <1>4
<1> QED
  BY <1>2, <1>4, <1>6, <1>7 DEF d, l

(* A finished one is skipped, or its result asked for. *)
LEMMA ReconcileFinishedIs ==
  ASSUME ClientTyped, NEW j \in recon.list, ReconcileFinished(j)
  PROVE  /\ j.chat \in Chats /\ ~j.running
         /\ recon' \in Reconcile /\ recon'.list = recon.list \ {j}
         /\ recon.fetching = NoChat
         /\ IF j.collected \/ j.chat \in mergedJobs
                \/ (liveSession # 0 /\ sessions[liveSession].chat = j.chat)
            THEN recon'.fetching = NoChat ELSE recon'.fetching = j.chat
         /\ liveJobs' \in [Chats -> Entry]
         /\ liveJobs' # liveJobs => j.chat \in mergedJobs /\ liveJobs[j.chat].id = "known"
         /\ UNCHANGED <<srv, curId, liveJob, sessions, liveSession, readers, readerActive,
                        mergedJobs, transcript, acks, spent>>
<1> DEFINE skip == j.collected \/ j.chat \in mergedJobs
                   \/ (liveSession # 0 /\ sessions[liveSession].chat = j.chat)
           f == IF skip THEN NoChat ELSE j.chat
           d == [liveJobs[j.chat] EXCEPT !.id = NoChat]
<1>1. recon \in Reconcile /\ liveJobs \in [Chats -> Entry]
  BY DEF ClientTyped, ClientTypeOK
<1>2. j.chat \in Chats
  BY <1>1 DEF Reconcile
<1>3. d \in Entry
  BY <1>1, <1>2 DEF Entry
<1>4. /\ ~j.running /\ recon.fetching = NoChat
      /\ liveJobs' = IF ~j.collected /\ j.chat \in mergedJobs /\ liveJobs[j.chat].id = "known"
                     THEN [liveJobs EXCEPT ![j.chat] = d] ELSE liveJobs
      /\ recon' = [recon EXCEPT !.list = @ \ {j}, !.fetching = f]
      /\ UNCHANGED <<srv, curId, liveJob, sessions, liveSession, readers, readerActive,
                     mergedJobs, transcript, acks, spent>>
  BY DEF ReconcileFinished
<1>5. f \in Chats \cup {NoChat}
  BY <1>2
<1> HIDE DEF d, f
<1>6. recon' \in Reconcile /\ recon'.list = recon.list \ {j} /\ recon'.fetching = f
  BY <1>4, <1>5, LineTaken
<1>7. /\ liveJobs' \in [Chats -> Entry]
      /\ liveJobs' # liveJobs => j.chat \in mergedJobs /\ liveJobs[j.chat].id = "known"
  BY <1>1, <1>2, <1>3, <1>4
<1> QED
  BY <1>2, <1>4, <1>6, <1>7 DEF f

(* A result is delivered. *)
LEMMA DeliverIs ==
  ASSUME ClientTyped, deliverResult
  PROVE  \E c \in Chats :
           /\ c = recon.fetching
           /\ recon' \in Reconcile /\ recon'.list = recon.list /\ recon'.fetching = NoChat
           /\ mergedJobs' = mergedJobs \cup {c} /\ acks' = acks \cup {c}
           /\ transcript' = [transcript EXCEPT ![c] = @ + 1]
           /\ liveJobs' \in [Chats -> Entry] /\ liveJobs'[c].id # "known"
           /\ \A x \in Chats : x # c => liveJobs'[x] = liveJobs[x]
           /\ UNCHANGED <<srv, curId, liveJob, sessions, liveSession, readers,
                          readerActive, spent>>
<1> DEFINE c == recon.fetching
           d == [liveJobs[c] EXCEPT !.id = NoChat]
<1>1. recon \in Reconcile /\ liveJobs \in [Chats -> Entry]
  BY DEF ClientTyped, ClientTypeOK
<1>2. c # NoChat
  BY DEF deliverResult
<1>3. c \in Chats
  BY <1>1, <1>2 DEF Reconcile
<1>4. d \in Entry /\ d.id # "known"
  BY <1>1, <1>3 DEF Entry, NoChat
<1>5. /\ recon' = [recon EXCEPT !.fetching = NoChat]
      /\ mergedJobs' = mergedJobs \cup {c} /\ acks' = acks \cup {c}
      /\ transcript' = [transcript EXCEPT ![c] = @ + 1]
      /\ liveJobs' = IF liveJobs[c].id = "known" THEN [liveJobs EXCEPT ![c] = d]
                     ELSE liveJobs
      /\ UNCHANGED <<srv, curId, liveJob, sessions, liveSession, readers, readerActive, spent>>
  BY DEF deliverResult
<1> HIDE DEF d
<1>6. recon' \in Reconcile /\ recon'.list = recon.list /\ recon'.fetching = NoChat
  BY <1>1, <1>5 DEF Reconcile
<1>7. /\ liveJobs' \in [Chats -> Entry] /\ liveJobs'[c].id # "known"
      /\ \A x \in Chats : x # c => liveJobs'[x] = liveJobs[x]
  <2> HIDE DEF c
  <2> QED
    BY <1>1, <1>3, <1>4, <1>5
<1>8. c = recon.fetching
  OBVIOUS
<1> HIDE DEF c
<1> QED
  BY <1>3, <1>5, <1>6, <1>7, <1>8

(* The types survive every step of reconcileJobs. *)
LEMMA ReconcileTyped == ASSUME ClientTyped, ReconcileStep PROVE ClientTyped'
<1>1. CASE ReconcileList
  BY <1>1, ReconcileListIs
     DEF ClientTyped, ClientTypeOK, ReadersOwned, TurnsShaped, TurnShaped, uiVars
<1>2. CASE ReconcileDone
  <2>1. recon' \in Reconcile
    BY <1>2 DEF ReconcileDone, Reconcile, Idle
  <2>2. UNCHANGED <<srv, curId, uiVars, mergedJobs, transcript, acks, spent>>
    BY <1>2 DEF ReconcileDone
  <2> QED
    BY <2>1, <2>2 DEF ClientTyped, ClientTypeOK, ReadersOwned, TurnsShaped, TurnShaped, uiVars
<1>3. CASE deliverResult
  <2>1. PICK c \in Chats :
          /\ recon' \in Reconcile
          /\ mergedJobs' = mergedJobs \cup {c} /\ acks' = acks \cup {c}
          /\ transcript' = [transcript EXCEPT ![c] = @ + 1]
          /\ liveJobs' \in [Chats -> Entry]
          /\ UNCHANGED <<srv, curId, liveJob, sessions, liveSession, readers,
                         readerActive, spent>>
    BY <1>3, DeliverIs
  <2>2. transcript' \in [Chats -> Nat]
    <3>1. transcript \in [Chats -> Nat] /\ transcript[c] + 1 \in Nat
      BY ClientShapes
    <3> QED
      BY <2>1, <3>1
  <2>3. mergedJobs' \subseteq Chats /\ acks' \subseteq Chats
    BY <2>1 DEF ClientTyped, ClientTypeOK
  <2> QED
    BY <2>1, <2>2, <2>3 DEF ClientTyped, ClientTypeOK, ReadersOwned, TurnsShaped, TurnShaped
<1>4. ASSUME NEW j \in recon.list, ReconcileRunning(j) PROVE ClientTyped'
  <2>1. /\ recon' \in Reconcile /\ liveJobs' \in [Chats -> Entry]
        /\ UNCHANGED <<srv, curId, liveJob, sessions, liveSession, readers, readerActive,
                       mergedJobs, transcript, acks, spent>>
    BY <1>4, ReconcileRunningIs
  <2> QED
    BY <2>1 DEF ClientTyped, ClientTypeOK, ReadersOwned, TurnsShaped, TurnShaped
<1>5. ASSUME NEW j \in recon.list, ReconcileFinished(j) PROVE ClientTyped'
  <2>1. /\ recon' \in Reconcile /\ liveJobs' \in [Chats -> Entry]
        /\ UNCHANGED <<srv, curId, liveJob, sessions, liveSession, readers, readerActive,
                       mergedJobs, transcript, acks, spent>>
    BY <1>5, ReconcileFinishedIs
  <2> QED
    BY <2>1 DEF ClientTyped, ClientTypeOK, ReadersOwned, TurnsShaped, TurnShaped
<1> QED
  BY <1>1, <1>2, <1>3, <1>4, <1>5 DEF ReconcileStep

(* The types survive every step of the app. *)
LEMMA ClientStepTyped == ClientTyped /\ [ClientNext]_clientVars => ClientTyped'
<1> SUFFICES ASSUME ClientTyped, [ClientNext]_clientVars PROVE ClientTyped'
  OBVIOUS
<1>1. CASE UNCHANGED clientVars
  BY <1>1 DEF ClientTyped, ClientTypeOK, ReadersOwned, TurnsShaped, TurnShaped, clientVars
<1>2. CASE ServerStep \/ \E c \in Chats : Collect(c) \/ LoseCollect(c)
  BY <1>2, ServerTyped DEF ServerStep
<1>3. CASE streamReply
  BY <1>3, StreamReplyTyped
<1>4. CASE ReaderStep \/ \E r \in DOMAIN readers : StreamDies(r)
  BY <1>4, ReadTyped, StreamTyped DEF ReaderStep
<1>5. CASE attemptReattach
  BY <1>5, ReattachTyped
<1>6. CASE \E c \in Chats : switchChat(c)
  BY <1>6, SwitchTyped
<1>7. CASE Reload
  BY <1>7, ReloadTyped
<1>8. CASE ReconcileStep
  BY <1>8, ReconcileTyped
<1> QED
  BY <1>1, <1>2, <1>3, <1>4, <1>5, <1>6, <1>7, <1>8 DEF ClientNext

(* The types hold throughout, whatever the user and the clock may do. *)
LEMMA ClientStaysTyped == ClientSpec => []ClientTyped
BY ClientInitTyped, ClientStepTyped, PTL DEF ClientSpec

-----------------------------------------------------------------------------
(* What the user and the clock do not do here: leave a chat while a reattach stream is open, *)
(* merge a turn under a snapshot that is still being worked off, open a chat while its result *)
(* is being fetched, cut a stream between the verdict and the seal, lose an acknowledgement.   *)
Orderly ==
  /\ ~LeaveAttached /\ ~SlowList /\ ~OpenWhileFetching /\ ~CutWhileClosing
  /\ MaxLostCollects = 0

(* An entry stands for a turn that the server has. *)
EntriesServed == \A c \in Chats : busyFor(c) => srv[c].phase # "none"

(* A session, the entry of its chat and the turn agree: before the job event nothing is       *)
(* known, and from then on the session has seen what the cursor counts.                       *)
Follows(s, e, j) ==
  \/ e.id = "prov" /\ ~s.jobId /\ s.seen = <<>> /\ ~s.verdict /\ e.eventIndex = 0
  \/ /\ e.id = "known" /\ s.jobId /\ e.eventIndex <= j.len
     /\ s.verdict <=> j.phase \in {"closing", "over"} /\ e.eventIndex = j.len
     /\ s.seen = [i \in 1 .. TextCount(e.eventIndex, s.verdict) |-> i]

(* The session on screen is that of the chat on screen, whose run is not merged yet. *)
ScreenFollows ==
  liveSession # 0 =>
    /\ sessions[liveSession].chat = curId /\ ~sessions[liveSession].detached
    /\ transcript[curId] = 0
    /\ Follows(sessions[liveSession], liveJobs[curId], srv[curId])

(* The one open response reads for it, at its cursor. *)
OneReader ==
  \A r \in DOMAIN readers : readers[r].open =>
    /\ liveSession # 0 /\ readers[r].session = liveSession
    /\ readerActive /\ liveJob = curId
    /\ readers[r].next = liveJobs[curId].eventIndex
    /\ \A q \in DOMAIN readers : readers[q].open => q = r

(* A merged run is over and known to be merged, on this device or at the server. *)
Merged(c) ==
  /\ transcript[c] \in {0, 1}
  /\ transcript[c] = 1 => /\ srv[c].phase = "over" /\ liveJobs[c].id # "known"
                          /\ srv[c].collected \/ (c \in acks /\ c \in mergedJobs)
  /\ c \in mergedJobs => transcript[c] = 1

(* The snapshot that is being worked off is behind the server, but not on what was merged. *)
LineHolds(j) ==
  /\ srv[j.chat].phase # "none" /\ (~j.running => srv[j.chat].phase = "over")
  /\ transcript[j.chat] = 1 => ~j.running /\ (j.collected \/ j.chat \in mergedJobs)
  /\ j.chat # recon.fetching
  /\ \A k \in recon.list : k.chat = j.chat => k = j

(* A result is fetched once, and not for the run on screen. *)
FetchHolds(c) ==
  transcript[c] = 0 /\ srv[c].phase = "over" /\ (liveSession # 0 => curId # c)

(* Together they say who consumes which run. *)
ClientInv ==
  /\ EntriesServed /\ ScreenFollows /\ OneReader
  /\ \A c \in Chats : Merged(c)
  /\ \A j \in recon.list : LineHolds(j)
  /\ recon.fetching # NoChat => FetchHolds(recon.fetching)

(* The events counted as text. *)
LEMMA TextCounts ==
  ASSUME NEW n \in Nat
  PROVE  /\ TextCount(0, FALSE) = 0 /\ TextCount(1, FALSE) = 0
         /\ n >= 1 => TextCount(n, FALSE) = n - 1 /\ TextCount(n + 1, FALSE) = n
         /\ n >= 1 => TextCount(n + 1, TRUE) = n - 1
BY DEF TextCount

(* None of them is none. *)
LEMMA NothingSeen == <<>> = [i \in 1 .. 0 |-> i]
<1> DEFINE q == [i \in 1 .. 0 |-> i]
<1>1. q \in [1 .. 0 -> Nat] /\ DOMAIN q = 1 .. 0
  OBVIOUS
<1> HIDE DEF q
<1>2. q \in Seq(Nat)
  BY <1>1, SeqDef
<1>3. Len(q) \in Nat /\ DOMAIN q = 1 .. Len(q)
  BY <1>2, LenProperties
<1>4. Len(q) = 0
  BY <1>1, <1>3
<1>5. q = <<>>
  BY <1>2, <1>4, EmptySeq
<1> QED
  BY <1>5 DEF q

(* Reading on adds the next. *)
LEMMA SeenGrows ==
  ASSUME NEW n \in Nat, n >= 1
  PROVE  Append([i \in 1 .. n - 1 |-> i], n) = [i \in 1 .. n |-> i]
<1> DEFINE q == [i \in 1 .. n - 1 |-> i]
           t == [i \in 1 .. n |-> i]
<1>1. /\ n - 1 \in Nat /\ q \in [1 .. n - 1 -> Nat] /\ t \in [1 .. n -> Nat]
  OBVIOUS
<1>2. q \in Seq(Nat) /\ t \in Seq(Nat)
  BY <1>1, SeqDef
<1>3. Len(q) = n - 1 /\ Len(t) = n
  <2>1. /\ Len(q) \in Nat /\ DOMAIN q = 1 .. Len(q) /\ Len(t) \in Nat
        /\ DOMAIN t = 1 .. Len(t)
    BY <1>2, LenProperties
  <2>2. DOMAIN q = 1 .. n - 1 /\ DOMAIN t = 1 .. n
    OBVIOUS
  <2> HIDE DEF q, t
  <2> QED
    BY <1>1, <2>1, <2>2
<1>4. \A i \in 1 .. n - 1 : q[i] = i
  OBVIOUS
<1>5. \A i \in 1 .. n : t[i] = i
  OBVIOUS
<1> HIDE DEF q, t
<1>6. /\ Append(q, n) \in Seq(Nat) /\ Len(Append(q, n)) = n
      /\ \A i \in 1 .. n - 1 : Append(q, n)[i] = q[i]
      /\ Append(q, n)[n] = n
  <2>1. /\ Append(q, n) \in Seq(Nat) /\ Len(Append(q, n)) = Len(q) + 1
        /\ \A i \in 1 .. Len(q) : Append(q, n)[i] = q[i]
        /\ Append(q, n)[Len(q) + 1] = n
    BY <1>2, AppendTyped
  <2> QED
    BY <1>3, <2>1
<1>7. \A i \in 1 .. n : Append(q, n)[i] = t[i]
  <2> TAKE i \in 1 .. n
  <2>1. CASE i = n
    BY <1>5, <1>6, <2>1
  <2>2. CASE i # n
    <3>1. i \in 1 .. n - 1
      BY <2>2
    <3> QED
      BY <1>4, <1>5, <1>6, <3>1
  <2> QED
    BY <2>1, <2>2
<1>8. Append(q, n) = t
  BY <1>2, <1>3, <1>6, <1>7, SeqEqual
<1> QED
  BY <1>8 DEF q, t

(* The app starts with nothing to follow. *)
LEMMA ClientInitFollows == ClientInit => ClientInv
<1> SUFFICES ASSUME ClientInit PROVE ClientInv
  OBVIOUS
<1>1. /\ liveSession = 0 /\ DOMAIN readers = {} /\ mergedJobs = {}
      /\ recon.list = {} /\ recon.fetching = NoChat
      /\ \A c \in Chats : transcript[c] = 0 /\ liveJobs[c].id = NoChat
  BY DEF ClientInit, Idle
<1>2. EntriesServed /\ ScreenFollows /\ OneReader
  BY <1>1 DEF EntriesServed, ScreenFollows, OneReader, busyFor
<1>3. \A c \in Chats : Merged(c)
  BY <1>1 DEF Merged
<1> QED
  BY <1>1, <1>2, <1>3 DEF ClientInv

(* The server's steps leave the agreement alone: what a session has read stays read, and the *)
(* verdict comes after the events before it.                                                 *)
LEMMA TurnFollowed ==
  ASSUME NEW s, NEW e, e.eventIndex \in Nat, NEW o \in Job, NEW j \in Job,
         j.len >= o.len, o.phase # "none",
         o.phase = "over" => j.phase = "over" /\ j.len = o.len,
         o.phase = "closing" => j.phase \in {"closing", "over"} /\ j.len = o.len,
         o.phase = "running" => j.phase = "running" \/ j.len = o.len + 1,
         Follows(s, e, o), s.verdict \in BOOLEAN
  PROVE  Follows(s, e, j)
<1>1. CASE e.id = "prov" /\ ~s.jobId /\ s.seen = <<>> /\ ~s.verdict /\ e.eventIndex = 0
  BY <1>1 DEF Follows
<1>2. CASE /\ e.id = "known" /\ s.jobId /\ e.eventIndex <= o.len
           /\ s.verdict <=> o.phase \in {"closing", "over"} /\ e.eventIndex = o.len
           /\ s.seen = [i \in 1 .. TextCount(e.eventIndex, s.verdict) |-> i]
  <2>1. o.len \in Nat /\ j.len \in Nat
    BY DEF Job
  <2>2. e.eventIndex <= j.len
    BY <1>2, <2>1
  <2>3. s.verdict <=> j.phase \in {"closing", "over"} /\ e.eventIndex = j.len
    <3>1. CASE o.phase = "running"
      <4>1. ~s.verdict
        BY <1>2, <3>1
      <4>2. ~(j.phase \in {"closing", "over"} /\ e.eventIndex = j.len)
        BY <1>2, <2>1, <3>1
      <4> QED
        BY <4>1, <4>2
    <3>2. CASE o.phase \in {"closing", "over"}
      BY <1>2, <3>2
    <3>3. o.phase \in {"none", "running", "closing", "over"}
      BY DEF Job, Phases
    <3> QED
      BY <3>1, <3>2, <3>3
  <2> QED
    BY <1>2, <2>2, <2>3 DEF Follows
<1> QED
  BY <1>1, <1>2 DEF Follows

(* So the server's steps preserve the invariant. *)
LEMMA ServerKeeps ==
  ASSUME Orderly, ClientTyped, ClientInv, NEW c \in Chats,
         EmitText(c) \/ EmitVerdict(c) \/ Seal(c) \/ Collect(c) \/ LoseCollect(c)
  PROVE  ClientInv'
<1>1. ~LoseCollect(c)
  <2>1. spent.lost \in Nat
    BY DEF ClientTyped, ClientTypeOK
  <2> QED
    BY <2>1 DEF LoseCollect, Orderly
<1>2. PICK j \in Job :
        /\ srv' = [srv EXCEPT ![c] = j]
        /\ j.len >= srv[c].len
        /\ srv[c].phase # "none" => j.phase # "none"
        /\ srv[c].collected => j.collected
        /\ srv[c].phase = "over" => j.phase = "over" /\ j.len = srv[c].len
        /\ srv[c].phase = "closing" => j.phase \in {"closing", "over"} /\ j.len = srv[c].len
        /\ srv[c].phase = "running" => j.phase = "running" \/ j.len = srv[c].len + 1
  BY <1>1, ServerIs
<1>3. UNCHANGED <<curId, uiVars, recon, mergedJobs, transcript>>
  BY <1>1 DEF EmitText, EmitVerdict, Seal, Collect
<1>4. /\ srv \in [Chats -> Job] /\ liveJobs \in [Chats -> Entry] /\ curId \in Chats
      /\ sessions \in [DOMAIN sessions -> Session] /\ DOMAIN sessions = 1 .. Len(sessions)
      /\ Len(sessions) \in Nat
  BY ClientShapes
<1>5. srv'[c] = j /\ \A x \in Chats : x # c => srv'[x] = srv[x]
  BY <1>2, <1>4
<1>6. acks' = acks \/ (acks' = acks \ {c} /\ srv'[c].collected)
  <2>1. CASE Collect(c)
    BY <1>4, <2>1 DEF Collect, Job
  <2>2. CASE ~Collect(c)
    BY <1>1, <2>2 DEF EmitText, EmitVerdict, Seal
  <2> QED
    BY <2>1, <2>2
<1>7. \A x \in Chats : /\ srv[x].phase # "none" => srv'[x].phase # "none"
                       /\ srv[x].phase = "over" => srv'[x].phase = "over"
                       /\ srv[x].collected => srv'[x].collected
  BY <1>2, <1>5
<1>8. EntriesServed'
  BY <1>3, <1>7 DEF ClientInv, EntriesServed, busyFor, uiVars
<1>9. ScreenFollows'
  <2> SUFFICES ASSUME liveSession # 0
               PROVE  /\ sessions[liveSession].chat = curId /\ ~sessions[liveSession].detached
                      /\ transcript[curId] = 0
                      /\ Follows(sessions[liveSession], liveJobs[curId], srv'[curId])
    BY <1>3 DEF ScreenFollows, Follows, uiVars
  <2>1. /\ sessions[liveSession].chat = curId /\ ~sessions[liveSession].detached
        /\ transcript[curId] = 0
        /\ Follows(sessions[liveSession], liveJobs[curId], srv[curId])
    BY DEF ClientInv, ScreenFollows
  <2>2. liveSession \in DOMAIN sessions
    BY <1>4 DEF ClientTyped, ClientTypeOK
  <2>3. sessions[liveSession].verdict \in BOOLEAN /\ liveJobs[curId].eventIndex \in Nat
    BY <1>4, <2>2 DEF Session, Entry
  <2>4. srv[curId].phase # "none"
    <3>1. liveJobs[curId].id # NoChat
      BY <2>1 DEF Follows, NoChat
    <3> QED
      BY <1>4, <3>1 DEF ClientInv, EntriesServed, busyFor
  <2>5. Follows(sessions[liveSession], liveJobs[curId], srv'[curId])
    <3>1. CASE curId = c
      <4>1. srv[c] \in Job
        BY <1>4
      <4> QED
        BY <1>2, <1>5, <2>1, <2>3, <2>4, <3>1, <4>1, TurnFollowed
    <3>2. CASE curId # c
      BY <1>4, <1>5, <2>1, <3>2
    <3> QED
      BY <3>1, <3>2
  <2> QED
    BY <2>1, <2>5
<1>10. OneReader'
  BY <1>3 DEF ClientInv, OneReader, uiVars
<1>11. \A x \in Chats : Merged(x)'
  BY <1>3, <1>6, <1>7 DEF ClientInv, Merged, uiVars
<1>12. \A k \in recon'.list : LineHolds(k)'
  <2>1. \A k \in recon.list : k.chat \in Chats
    BY DEF ClientTyped, ClientTypeOK, Reconcile
  <2> QED
    BY <1>3, <1>7, <2>1 DEF ClientInv, LineHolds
<1>13. recon'.fetching # NoChat => FetchHolds(recon.fetching)'
  <2>1. recon.fetching # NoChat => recon.fetching \in Chats
    BY DEF ClientTyped, ClientTypeOK, Reconcile
  <2> QED
    BY <1>3, <1>7, <2>1 DEF ClientInv, FetchHolds, uiVars
<1> QED
  BY <1>3, <1>8, <1>9, <1>10, <1>11, <1>12, <1>13 DEF ClientInv

(* An open response reads for the session on screen. *)
LEMMA OpenReads ==
  ASSUME ClientTyped, ClientInv, NEW r \in DOMAIN readers, readers[r].open
  PROVE  /\ liveSession # 0 /\ readers[r].session = liveSession
         /\ liveSession \in DOMAIN sessions
         /\ sessions[liveSession].chat = curId /\ ~sessions[liveSession].detached
         /\ transcript[curId] = 0 /\ liveJob = curId /\ readerActive
         /\ Follows(sessions[liveSession], liveJobs[curId], srv[curId])
         /\ readers[r].next = liveJobs[curId].eventIndex
         /\ \A q \in DOMAIN readers : readers[q].open => q = r
         /\ srv[curId].phase # "none"
<1>1. /\ liveSession # 0 /\ readers[r].session = liveSession
      /\ liveJob = curId /\ readerActive
      /\ readers[r].next = liveJobs[curId].eventIndex
      /\ \A q \in DOMAIN readers : readers[q].open => q = r
  BY DEF ClientInv, OneReader
<1>2. /\ sessions[liveSession].chat = curId /\ ~sessions[liveSession].detached
      /\ transcript[curId] = 0
      /\ Follows(sessions[liveSession], liveJobs[curId], srv[curId])
  BY <1>1 DEF ClientInv, ScreenFollows
<1>3. liveSession \in DOMAIN sessions
  BY <1>1, ClientShapes DEF ClientTyped, ClientTypeOK
<1>4. srv[curId].phase # "none"
  <2>1. liveJobs[curId].id # NoChat /\ curId \in Chats
    BY <1>2, ClientShapes DEF Follows, NoChat
  <2> QED
    BY <2>1 DEF ClientInv, EntriesServed, busyFor
<1> QED
  BY <1>1, <1>2, <1>3, <1>4

(* Sending a turn preserves the invariant: nothing was on screen, nor merged. *)
LEMMA StreamReplyKeeps ==
  ASSUME ClientTyped, ClientInv, streamReply PROVE ClientInv'
<1>1. PICK n, m \in Nat :
        /\ m \notin DOMAIN readers /\ n # 0
        /\ DOMAIN readers' = DOMAIN readers \cup {m}
        /\ sessions'[n] = newSession(curId, FALSE)
        /\ \A i \in DOMAIN readers : readers'[i] = readers[i]
        /\ readers'[m] = [session |-> n, kind |-> "post", next |-> 0, open |-> TRUE]
        /\ liveSession' = n
  BY StreamReplyIs
<1>2. /\ curId \in Chats /\ srv \in [Chats -> Job] /\ liveJobs \in [Chats -> Entry]
      /\ recon \in Reconcile
  BY ClientShapes DEF ClientTyped, ClientTypeOK
<1>3. liveJobs[curId].id = NoChat /\ srv[curId].phase = "none"
  BY DEF streamReply, busyFor
<1>4. /\ srv' = [srv EXCEPT ![curId] = [len |-> 1, phase |-> "running", collected |-> FALSE]]
      /\ liveJobs' = [liveJobs EXCEPT ![curId] = [id |-> "prov", eventIndex |-> 0]]
      /\ liveJob' = curId /\ readerActive' = TRUE
      /\ UNCHANGED <<curId, recon, mergedJobs, transcript, acks>>
  BY DEF streamReply
<1>5. /\ srv'[curId].phase = "running"
      /\ liveJobs'[curId].id = "prov" /\ liveJobs'[curId].eventIndex = 0
      /\ \A x \in Chats : x # curId => srv'[x] = srv[x] /\ liveJobs'[x] = liveJobs[x]
  BY <1>2, <1>4
<1>6. liveSession = 0
  BY <1>3 DEF ClientInv, ScreenFollows, Follows, NoChat
<1>7. \A q \in DOMAIN readers : ~readers[q].open
  BY <1>6, OpenReads
<1>8. transcript[curId] = 0
  BY <1>2, <1>3 DEF ClientInv, Merged
<1>9. EntriesServed'
  BY <1>5 DEF ClientInv, EntriesServed, busyFor
<1>10. ScreenFollows'
  <2>1. /\ sessions'[n].chat = curId /\ sessions'[n].seen = <<>>
        /\ sessions'[n].verdict = FALSE /\ sessions'[n].detached = FALSE
        /\ sessions'[n].jobId = FALSE
    BY <1>1, <1>2, FreshSession
  <2> QED
    BY <1>1, <1>4, <1>5, <1>8, <2>1 DEF ScreenFollows, Follows
<1>11. OneReader'
  <2>1. \A q \in DOMAIN readers' : readers'[q].open => q = m
    BY <1>1, <1>7
  <2>2. readers'[m].session = n /\ readers'[m].next = 0
    BY <1>1
  <2> QED
    BY <1>1, <1>4, <1>5, <2>1, <2>2 DEF OneReader
<1>12. \A x \in Chats : Merged(x)'
  BY <1>4, <1>5, <1>8 DEF ClientInv, Merged
<1>13. \A k \in recon'.list : LineHolds(k)'
  <2>1. \A k \in recon.list : k.chat \in Chats /\ k.chat # curId
    BY <1>2, <1>3 DEF ClientInv, LineHolds, Reconcile
  <2> QED
    BY <1>4, <1>5, <2>1 DEF ClientInv, LineHolds
<1>14. recon'.fetching # NoChat => FetchHolds(recon.fetching)'
  <2>1. recon.fetching # NoChat => recon.fetching \in Chats /\ recon.fetching # curId
    BY <1>2, <1>3 DEF ClientInv, FetchHolds, Reconcile
  <2> QED
    BY <1>4, <1>5, <2>1 DEF ClientInv, FetchHolds
<1> QED
  BY <1>4, <1>9, <1>10, <1>11, <1>12, <1>13, <1>14 DEF ClientInv

(* One event more keeps the session, the entry and the turn in agreement. *)
LEMMA ReadFollows ==
  ASSUME NEW s, NEW t, NEW e, NEW d, NEW j \in Job, TurnShaped(j), NEW n \in Nat,
         n = e.eventIndex, n < j.len, Follows(s, e, j),
         s.verdict \in BOOLEAN,
         NEW v \in BOOLEAN, v <=> j.phase \in {"closing", "over"} /\ n = j.len - 1,
         t.jobId = (s.jobId \/ n = 0), t.verdict = (s.verdict \/ v),
         t.seen = IF n = 0 \/ v THEN s.seen ELSE Append(s.seen, n),
         d.id = "known", d.eventIndex = n + 1
  PROVE  Follows(t, d, j)
<1>1. j.len \in Nat /\ (j.phase \in {"closing", "over"} => j.len >= 2)
  BY DEF TurnShaped, Job
<1>2. ~s.verdict
  BY <1>1 DEF Follows
<1>3. t.verdict = v
  BY <1>2
<1>4. t.jobId
  BY DEF Follows
<1>5. d.eventIndex <= j.len
  BY <1>1
<1>6. t.verdict <=> j.phase \in {"closing", "over"} /\ d.eventIndex = j.len
  BY <1>1, <1>3
<1>7. t.seen = [i \in 1 .. TextCount(d.eventIndex, t.verdict) |-> i]
  <2>1. CASE n = 0
    <3>1. ~v
      BY <1>1, <2>1
    <3>2. TextCount(0, FALSE) = 0 /\ TextCount(1, FALSE) = 0
      BY TextCounts
    <3>3. s.seen = [i \in 1 .. 0 |-> i]
      <4>1. <<>> = [i \in 1 .. 0 |-> i]
        BY NothingSeen
      <4>2. CASE s.seen = <<>>
        BY <4>1, <4>2
      <4>3. CASE s.seen = [i \in 1 .. TextCount(e.eventIndex, s.verdict) |-> i]
        <5>1. s.verdict = FALSE
          BY <1>2
        <5> QED
          BY <2>1, <3>2, <4>3, <5>1
      <4> QED
        BY <4>2, <4>3 DEF Follows
    <3>4. t.verdict = FALSE /\ d.eventIndex = 1
      BY <1>3, <2>1, <3>1
    <3> QED
      BY <2>1, <3>2, <3>3, <3>4
  <2>2. CASE n # 0
    <3>1. s.seen = [i \in 1 .. TextCount(n, FALSE) |-> i]
      <4>1. s.verdict = FALSE
        BY <1>2
      <4> QED
        BY <2>2, <4>1 DEF Follows
    <3>2. n >= 1 /\ TextCount(n, FALSE) = n - 1
      <4>1. n >= 1
        BY <2>2
      <4> QED
        BY <4>1 DEF TextCount
    <3>3. s.seen = [i \in 1 .. n - 1 |-> i]
      BY <3>1, <3>2
    <3>4. CASE v
      <4>1. t.seen = s.seen /\ t.verdict = TRUE
        BY <1>3, <3>4
      <4>2. TextCount(n + 1, TRUE) = n - 1
        BY <3>2, TextCounts
      <4> QED
        BY <3>3, <4>1, <4>2
    <3>5. CASE ~v
      <4>1. t.seen = Append(s.seen, n) /\ t.verdict = FALSE
        BY <1>3, <2>2, <3>5
      <4>2. TextCount(n + 1, FALSE) = n
        BY <3>2, TextCounts
      <4>3. t.seen = [i \in 1 .. n |-> i]
        BY <3>2, <3>3, <4>1, SeenGrows
      <4> QED
        BY <4>1, <4>2, <4>3
    <3> QED
      BY <3>4, <3>5
  <2> QED
    BY <2>1, <2>2
<1> QED
  BY <1>4, <1>5, <1>6, <1>7 DEF Follows

(* Reading an event preserves the invariant: it is the session on screen that reads. *)
LEMMA ReadKeeps ==
  ASSUME ClientTyped, ClientInv, NEW r \in DOMAIN readers, readSse(r) PROVE ClientInv'
<1>1. PICK s \in DOMAIN sessions, n \in Nat, c \in Chats :
        /\ s = readers[r].session /\ n = readers[r].next /\ c = sessions[s].chat
        /\ readers[r].open /\ n < srv[c].len
        /\ sessions' \in [DOMAIN sessions -> Session]
        /\ \A i \in DOMAIN sessions : i # s => sessions'[i] = sessions[i]
        /\ sessions'[s].chat = c /\ sessions'[s].detached = sessions[s].detached
        /\ sessions'[s].jobId = (sessions[s].jobId \/ n = 0)
        /\ sessions'[s].verdict = (sessions[s].verdict \/ IsVerdict(c, n))
        /\ sessions'[s].seen = IF n = 0 \/ IsVerdict(c, n) THEN sessions[s].seen
                               ELSE Append(sessions[s].seen, n)
  BY ReadIs
<1>2. /\ liveSession # 0 /\ s = liveSession /\ c = curId /\ ~sessions[s].detached
      /\ transcript[c] = 0 /\ liveJob = c /\ readerActive
      /\ Follows(sessions[s], liveJobs[c], srv[c]) /\ n = liveJobs[c].eventIndex
      /\ \A q \in DOMAIN readers : readers[q].open => q = r
      /\ srv[c].phase # "none"
  BY <1>1, OpenReads
<1>3. /\ liveJob' = IF n = 0 THEN c ELSE liveJob
      /\ readers' = [readers EXCEPT ![r].next = n + 1]
      /\ n = 0 => liveJobs' = [liveJobs EXCEPT ![c] = [id |-> "known", eventIndex |-> 1]]
      /\ n # 0 => liveJobs' = IF liveJob # NoChat /\ liveJobs[liveJob].id = "known"
                              THEN [liveJobs EXCEPT ![liveJob].eventIndex = @ + 1]
                              ELSE liveJobs
      /\ UNCHANGED <<srv, curId, liveSession, readerActive, recon, mergedJobs,
                     transcript, acks, spent>>
  BY <1>1, ReadMoves
<1>4. /\ srv \in [Chats -> Job] /\ liveJobs \in [Chats -> Entry]
      /\ readers \in [DOMAIN readers -> Reader] /\ sessions \in [DOMAIN sessions -> Session]
  BY ClientShapes
<1>5. /\ liveJobs'[c].id = "known" /\ liveJobs'[c].eventIndex = n + 1
      /\ \A x \in Chats : x # c => liveJobs'[x] = liveJobs[x]
  <2>1. CASE n = 0
    BY <1>3, <1>4, <2>1
  <2>2. CASE n # 0
    <3>1. liveJobs[c].id = "known"
      BY <1>2, <2>2 DEF Follows
    <3>2. c # NoChat
      BY ChatClientConstants
    <3> DEFINE d == [liveJobs[c] EXCEPT !.eventIndex = liveJobs[c].eventIndex + 1]
    <3>3. d.id = "known" /\ d.eventIndex = n + 1
      BY <1>2, <1>4, <3>1 DEF Entry
    <3>4. liveJobs' = [liveJobs EXCEPT ![c] = d]
      BY <1>2, <1>3, <2>2, <3>1, <3>2
    <3> HIDE DEF d
    <3> QED
      BY <1>4, <3>3, <3>4
  <2> QED
    BY <2>1, <2>2
<1>6. /\ readers' \in [DOMAIN readers -> Reader] /\ readers'[r].next = n + 1
      /\ \A q \in DOMAIN readers : readers'[q].session = readers[q].session
                                   /\ readers'[q].open = readers[q].open
  <2> DEFINE y == [readers[r] EXCEPT !.next = n + 1]
  <2>1. /\ y \in Reader /\ y.session = readers[r].session /\ y.open = readers[r].open
        /\ y.next = n + 1
    <3>1. n + 1 \in Nat /\ readers[r] \in Reader
      BY <1>4
    <3> QED
      BY <3>1 DEF Reader
  <2>2. readers' = [readers EXCEPT ![r] = y]
    BY <1>3
  <2> HIDE DEF y
  <2> QED
    BY <1>4, <2>1, <2>2
<1>7. Follows(sessions'[s], liveJobs'[c], srv[c])
  <2> DEFINE v == IsVerdict(c, n)
  <2>1. v \in BOOLEAN /\ (v <=> srv[c].phase \in {"closing", "over"} /\ n = srv[c].len - 1)
    BY DEF IsVerdict
  <2>2. srv[c] \in Job /\ TurnShaped(srv[c])
    BY <1>4 DEF ClientTyped, TurnsShaped
  <2>3. sessions[s].verdict \in BOOLEAN
    BY <1>4 DEF Session
  <2>4. /\ sessions'[s].verdict = (sessions[s].verdict \/ v)
        /\ sessions'[s].seen = IF n = 0 \/ v THEN sessions[s].seen
                               ELSE Append(sessions[s].seen, n)
    BY <1>1
  <2> HIDE DEF v
  <2>5. PICK t, d : t = sessions'[s] /\ d = liveJobs'[c]
    OBVIOUS
  <2>6. Follows(t, d, srv[c])
    BY <1>1, <1>2, <1>5, <2>1, <2>2, <2>3, <2>4, <2>5, ReadFollows
  <2> QED
    BY <2>5, <2>6
<1>8. EntriesServed'
  BY <1>2, <1>3, <1>5 DEF ClientInv, EntriesServed, busyFor
<1>9. ScreenFollows'
  <2>1. sessions'[liveSession'] = sessions'[s] /\ curId' = c /\ srv' = srv
    BY <1>2, <1>3
  <2> QED
    BY <1>1, <1>2, <1>3, <1>7, <2>1 DEF ScreenFollows, Follows
<1>10. OneReader'
  <2>1. \A q \in DOMAIN readers' : readers'[q].open => q = r
    BY <1>2, <1>6
  <2>2. liveJob' = c /\ curId' = c /\ liveSession' = s /\ s # 0 /\ readerActive'
    BY <1>2, <1>3
  <2>3. readers'[r].session = s /\ readers'[r].next = liveJobs'[c].eventIndex
    BY <1>1, <1>5, <1>6
  <2> QED
    BY <2>1, <2>2, <2>3 DEF OneReader
<1>11. \A x \in Chats : Merged(x)'
  <2>1. transcript'[c] # 1
    BY <1>2, <1>3
  <2> QED
    BY <1>3, <1>5, <2>1 DEF ClientInv, Merged
<1>12. \A k \in recon'.list : LineHolds(k)'
  BY <1>3 DEF ClientInv, LineHolds
<1>13. recon'.fetching # NoChat => FetchHolds(recon.fetching)'
  BY <1>3 DEF ClientInv, FetchHolds
<1> QED
  BY <1>3, <1>8, <1>9, <1>10, <1>11, <1>12, <1>13 DEF ClientInv

(* The end of a response preserves it: an on-screen run is merged once, and only when it is *)
(* over.                                                                                    *)
LEMMA StreamKeeps ==
  ASSUME Orderly, ClientTyped, ClientInv, NEW r \in DOMAIN readers,
         StreamEnds(r) \/ StreamDies(r)
  PROVE  ClientInv'
<1>1. AfterReader(r) /\ readers[r].open
  BY DEF StreamEnds, StreamDies
<1>2. PICK s \in DOMAIN sessions, c \in Chats :
        /\ s = readers[r].session /\ c = sessions[s].chat
        /\ SlowList \/ recon.list = {}
        /\ readers' \in [DOMAIN readers -> Reader] /\ ~readers'[r].open
        /\ \A q \in DOMAIN readers : q # r => readers'[q] = readers[q]
        /\ readerActive' = FALSE
        /\ liveJobs' \in [Chats -> Entry]
        /\ \A x \in Chats : x # c => liveJobs'[x] = liveJobs[x]
        /\ UNCHANGED <<srv, curId, sessions, recon>>
        /\ ~sessions[s].detached /\ (sessions[s].verdict \/ ~sessions[s].jobId) =>
             /\ liveJobs'[c].id = NoChat
             /\ liveSession' = (IF liveSession = s THEN 0 ELSE liveSession)
             /\ IF sessions[s].verdict
                THEN /\ transcript' = [transcript EXCEPT ![c] = @ + 1]
                     /\ mergedJobs' = mergedJobs \cup {c} /\ acks' = acks \cup {c}
                ELSE UNCHANGED <<transcript, mergedJobs, acks>>
        /\ ~(~sessions[s].detached /\ (sessions[s].verdict \/ ~sessions[s].jobId)) =>
             UNCHANGED <<transcript, mergedJobs, acks, liveJobs, liveSession, liveJob>>
  BY <1>1, AfterReaderIs
<1>3. /\ liveSession # 0 /\ s = liveSession /\ c = curId /\ ~sessions[s].detached
      /\ transcript[c] = 0
      /\ Follows(sessions[s], liveJobs[c], srv[c]) /\ readers[r].next = liveJobs[c].eventIndex
      /\ \A q \in DOMAIN readers : readers[q].open => q = r
      /\ srv[c].phase # "none"
  BY <1>1, <1>2, OpenReads
<1>4. recon.list = {}
  BY <1>2 DEF Orderly
<1>5. \A q \in DOMAIN readers' : ~readers'[q].open
  BY <1>2, <1>3
<1>6. sessions[s].verdict => srv[c].phase = "over"
  <2>1. CASE StreamDies(r)
    BY <1>2, <2>1 DEF StreamDies, SessionOf, Orderly
  <2>2. CASE StreamEnds(r)
    BY <1>2, <2>2 DEF StreamEnds, SessionOf
  <2> QED
    BY <2>1, <2>2
<1>7. transcript \in [Chats -> Nat]
  BY ClientShapes
<1>8. OneReader'
  BY <1>5 DEF OneReader
<1>9. recon' = recon /\ (recon.fetching # NoChat => recon.fetching \in Chats)
  BY <1>2 DEF ClientTyped, ClientTypeOK, Reconcile
<1>10. \A k \in recon'.list : LineHolds(k)'
  BY <1>4, <1>9
<1>11. CASE sessions[s].verdict \/ ~sessions[s].jobId
  <2>1. liveSession' = 0 /\ liveJobs'[c].id = NoChat
    BY <1>2, <1>3, <1>11
  <2>2. ScreenFollows'
    BY <2>1 DEF ScreenFollows
  <2>3. EntriesServed'
    BY <1>2, <2>1 DEF ClientInv, EntriesServed, busyFor
  <2>4. ASSUME NEW x \in Chats PROVE Merged(x)'
    <3>1. CASE x = c /\ sessions[s].verdict
      <4>1. /\ transcript'[c] = 1 /\ c \in mergedJobs' /\ c \in acks' /\ srv'[c].phase = "over"
        BY <1>2, <1>3, <1>6, <1>7, <1>11, <3>1
      <4> QED
        BY <2>1, <3>1, <4>1 DEF Merged, NoChat
    <3>2. CASE x = c /\ ~sessions[s].verdict
      <4>1. UNCHANGED <<transcript, mergedJobs, acks, srv>>
        BY <1>2, <1>3, <1>11, <3>2
      <4> QED
        BY <1>3, <3>2, <4>1 DEF ClientInv, Merged
    <3>3. CASE x # c
      <4>1. /\ transcript'[x] = transcript[x] /\ (x \in mergedJobs' <=> x \in mergedJobs)
            /\ (x \in acks' <=> x \in acks) /\ liveJobs'[x] = liveJobs[x] /\ srv' = srv
        BY <1>2, <1>3, <1>7, <1>11, <3>3
      <4> QED
        BY <4>1 DEF ClientInv, Merged
    <3> QED
      BY <3>1, <3>2, <3>3
  <2>5. recon'.fetching # NoChat => FetchHolds(recon.fetching)'
    <3>1. recon.fetching # NoChat =>
            /\ recon.fetching # c /\ transcript'[recon.fetching] = transcript[recon.fetching]
      BY <1>2, <1>3, <1>7, <1>9, <1>11 DEF ClientInv, FetchHolds
    <3>2. srv' = srv
      BY <1>2
    <3> QED
      BY <1>9, <2>1, <3>1, <3>2 DEF ClientInv, FetchHolds
  <2> QED
    BY <1>8, <1>9, <1>10, <2>2, <2>3, <2>4, <2>5 DEF ClientInv
<1>12. CASE ~(sessions[s].verdict \/ ~sessions[s].jobId)
  <2>1. UNCHANGED <<srv, curId, sessions, recon, transcript, mergedJobs, acks, liveJobs,
                    liveSession>>
    BY <1>2, <1>12
  <2>2. ScreenFollows' /\ EntriesServed'
    BY <2>1 DEF ClientInv, ScreenFollows, EntriesServed, Follows, busyFor
  <2>3. \A x \in Chats : Merged(x)'
    BY <2>1 DEF ClientInv, Merged
  <2>4. recon'.fetching # NoChat => FetchHolds(recon.fetching)'
    BY <2>1 DEF ClientInv, FetchHolds
  <2> QED
    BY <1>8, <1>9, <1>10, <2>2, <2>3, <2>4 DEF ClientInv
<1> QED
  BY <1>11, <1>12

(* Leaving a chat preserves it: nothing reads on for a chat that is left. *)
LEMMA SwitchKeeps ==
  ASSUME Orderly, ClientTyped, ClientInv, NEW to \in Chats, switchChat(to) PROVE ClientInv'
<1>1. /\ readers' \in [DOMAIN readers -> Reader]
      /\ \A q \in DOMAIN readers :
           readers'[q].open =>
             readers[q].open /\ ~(readers[q].kind = "post" /\ readers[q].session = liveSession)
      /\ liveSession' = 0
      /\ UNCHANGED <<srv, liveJobs, recon, mergedJobs, transcript, acks>>
  BY SwitchIs
<1>2. \A q \in DOMAIN readers : readers[q].open => readers[q].kind # "attach"
  BY DEF switchChat, MayLeave, Orderly
<1>3. \A q \in DOMAIN readers : readers[q].kind \in {"post", "attach"}
  BY ClientShapes DEF Reader
<1>4. \A q \in DOMAIN readers : readers[q].open => readers[q].session = liveSession
  BY OpenReads
<1>5. \A q \in DOMAIN readers' : ~readers'[q].open
  BY <1>1, <1>2, <1>3, <1>4
<1>6. ScreenFollows' /\ OneReader'
  BY <1>1, <1>5 DEF ScreenFollows, OneReader
<1>7. EntriesServed' /\ \A x \in Chats : Merged(x)'
  BY <1>1 DEF ClientInv, EntriesServed, Merged, busyFor
<1>8. /\ \A k \in recon'.list : LineHolds(k)'
      /\ recon'.fetching # NoChat => FetchHolds(recon.fetching)'
  BY <1>1 DEF ClientInv, LineHolds, FetchHolds
<1> QED
  BY <1>1, <1>6, <1>7, <1>8 DEF ClientInv

(* So does a reload: what was merged the server has been told. *)
LEMMA ReloadKeeps ==
  ASSUME Orderly, ClientTyped, ClientInv, Reload PROVE ClientInv'
<1>1. /\ readers' \in [DOMAIN readers -> Reader]
      /\ \A q \in DOMAIN readers : ~readers'[q].open
      /\ liveSession' = 0 /\ recon' = Idle /\ mergedJobs' = {}
      /\ UNCHANGED <<srv, curId, liveJobs, transcript, acks>>
  BY ReloadIs
<1>2. acks = {}
  BY ReloadIs DEF Orderly
<1>3. recon'.list = {} /\ recon'.fetching = NoChat
  BY <1>1 DEF Idle
<1>4. ScreenFollows' /\ OneReader'
  BY <1>1 DEF ScreenFollows, OneReader
<1>5. EntriesServed' /\ \A x \in Chats : Merged(x)'
  BY <1>1, <1>2 DEF ClientInv, EntriesServed, Merged, busyFor
<1> QED
  BY <1>3, <1>4, <1>5 DEF ClientInv

(* A fresh session on a turn that the server has agrees with the cursor 0. *)
LEMMA FreshFollows ==
  ASSUME NEW c \in Chats, NEW d, d.id = "known", d.eventIndex = 0, NEW j,
         j.len \in Nat, j.len # 0
  PROVE  Follows(newSession(c, TRUE), d, j)
<1>1. PICK t : t = newSession(c, TRUE)
  OBVIOUS
<1>2. t.seen = <<>> /\ t.verdict = FALSE /\ t.jobId = TRUE
  BY <1>1 DEF newSession
<1>3. t.seen = [i \in 1 .. TextCount(d.eventIndex, t.verdict) |-> i]
  <2>1. TextCount(0, FALSE) = 0
    BY TextCounts
  <2>2. <<>> = [i \in 1 .. TextCount(0, FALSE) |-> i]
    BY <2>1, NothingSeen
  <2> QED
    BY <1>2, <2>2
<1>4. d.eventIndex <= j.len /\ d.eventIndex # j.len
  OBVIOUS
<1>5. Follows(t, d, j)
  <2> DEFINE p == [i \in 1 .. TextCount(d.eventIndex, t.verdict) |-> i]
  <2>1. t.seen = p
    BY <1>3
  <2> HIDE DEF p
  <2> QED
    BY <1>2, <1>4, <2>1 DEF Follows, p
<1> QED
  BY <1>1, <1>5

(* A reattach preserves it: a fresh session starts over, a kept one goes on at its cursor. *)
LEMMA ReattachKeeps ==
  ASSUME Orderly, ClientTyped, ClientInv, attemptReattach PROVE ClientInv'
<1>1. PICK s, m \in Nat, from \in Nat :
        /\ from = IF liveSession = 0 THEN 0 ELSE liveJobs[curId].eventIndex
        /\ m \notin DOMAIN readers /\ s # 0
        /\ \A i \in DOMAIN sessions : sessions'[i] = sessions[i]
        /\ liveSession = 0 => sessions'[s] = newSession(curId, TRUE)
        /\ liveSession # 0 => s = liveSession
        /\ DOMAIN readers' = DOMAIN readers \cup {m}
        /\ \A i \in DOMAIN readers : readers'[i] = readers[i]
        /\ readers'[m].session = s /\ readers'[m].open
        /\ from <= srv[curId].len => readers'[m].next = from
        /\ liveSession' = s /\ liveJob' = curId /\ readerActive' = TRUE
        /\ ~readerActive /\ liveJobs[curId].id = "known"
        /\ OpenWhileFetching \/ recon.fetching # curId
        /\ liveJobs'[curId].id = "known" /\ liveJobs'[curId].eventIndex = from
        /\ \A x \in Chats : x # curId => liveJobs'[x] = liveJobs[x]
        /\ UNCHANGED <<srv, curId, recon, mergedJobs, transcript, acks, spent>>
  BY ReattachIs
<1>2. /\ curId \in Chats /\ srv \in [Chats -> Job] /\ DOMAIN sessions = 1 .. Len(sessions)
      /\ Len(sessions) \in Nat
  BY ClientShapes
<1>3. \A q \in DOMAIN readers : ~readers[q].open
  BY <1>1, OpenReads
<1>4. transcript[curId] = 0
  BY <1>1, <1>2 DEF ClientInv, Merged
<1>5. srv[curId].phase # "none" /\ srv[curId].len \in Nat /\ srv[curId].len # 0
  <2>1. srv[curId] \in Job /\ TurnShaped(srv[curId])
    BY <1>2 DEF ClientTyped, TurnsShaped
  <2>2. srv[curId].phase # "none"
    BY <1>1, <1>2 DEF ClientInv, EntriesServed, busyFor, NoChat
  <2> QED
    BY <2>1, <2>2 DEF TurnShaped, Job
<1>6. /\ from <= srv[curId].len
      /\ sessions'[s].chat = curId /\ ~sessions'[s].detached
      /\ Follows(sessions'[s], liveJobs'[curId], srv[curId])
  <2>1. CASE liveSession = 0
    <3>1. PICK t : t = newSession(curId, TRUE)
      OBVIOUS
    <3>2. t = sessions'[s] /\ from = 0
      BY <1>1, <2>1, <3>1
    <3>3. t.chat = curId /\ t.detached = FALSE
      BY <3>1 DEF newSession
    <3>4. PICK d : d = liveJobs'[curId]
      OBVIOUS
    <3>5. d.id = "known" /\ d.eventIndex = 0
      BY <1>1, <3>2, <3>4
    <3>6. Follows(t, d, srv[curId])
      BY <1>2, <1>5, <3>1, <3>5, FreshFollows
    <3>7. Follows(sessions'[s], liveJobs'[curId], srv[curId])
      BY <3>2, <3>4, <3>6, Zenon
    <3>8. sessions'[s].chat = curId /\ ~sessions'[s].detached
      BY <3>2, <3>3
    <3> QED
      BY <1>5, <3>2, <3>7, <3>8
  <2>2. CASE liveSession # 0
    <3>1. liveSession \in DOMAIN sessions
      BY <1>2, <2>2 DEF ClientTyped, ClientTypeOK
    <3>2. /\ sessions[liveSession].chat = curId /\ ~sessions[liveSession].detached
          /\ Follows(sessions[liveSession], liveJobs[curId], srv[curId])
      BY <2>2 DEF ClientInv, ScreenFollows
    <3>3. PICK t, d : t = sessions'[s] /\ d = liveJobs'[curId]
      OBVIOUS
    <3>4. t = sessions[liveSession] /\ d.id = "known" /\ d.eventIndex = liveJobs[curId].eventIndex
      BY <1>1, <2>2, <3>1, <3>3
    <3>5. liveJobs[curId].id = "known" /\ liveJobs[curId].id # "prov"
      BY <1>1
    <3>6. Follows(t, d, srv[curId]) /\ liveJobs[curId].eventIndex <= srv[curId].len
      BY <3>2, <3>4, <3>5 DEF Follows
    <3> QED
      BY <1>1, <2>2, <3>2, <3>3, <3>4, <3>6
  <2> QED
    BY <2>1, <2>2
<1>7. ScreenFollows'
  <2>1. /\ liveSession' = s /\ curId' = curId /\ srv' = srv /\ transcript' = transcript
    BY <1>1
  <2> QED
    BY <1>4, <1>6, <2>1 DEF ScreenFollows, Follows
<1>8. OneReader'
  <2>1. \A q \in DOMAIN readers' : readers'[q].open => q = m
    BY <1>1, <1>3
  <2>2. readers'[m].next = liveJobs'[curId].eventIndex
    BY <1>1, <1>6
  <2>3. /\ liveSession' # 0 /\ readers'[m].session = liveSession' /\ readerActive'
        /\ liveJob' = curId' /\ curId' = curId
    BY <1>1
  <2> QED
    BY <2>1, <2>2, <2>3 DEF OneReader
<1>9. EntriesServed'
  BY <1>1, <1>5 DEF ClientInv, EntriesServed, busyFor
<1>10. \A x \in Chats : Merged(x)'
  BY <1>1, <1>4 DEF ClientInv, Merged
<1>11. \A k \in recon'.list : LineHolds(k)'
  BY <1>1 DEF ClientInv, LineHolds
<1>12. recon'.fetching # NoChat => FetchHolds(recon.fetching)'
  BY <1>1 DEF ClientInv, FetchHolds, Orderly
<1> QED
  BY <1>1, <1>7, <1>8, <1>9, <1>10, <1>11, <1>12 DEF ClientInv

(* And every step of reconcileJobs: a run that was merged is not delivered again. *)
LEMMA ReconcileKeeps ==
  ASSUME ClientTyped, ClientInv, ReconcileStep PROVE ClientInv'
<1>0. /\ recon \in Reconcile /\ (recon.fetching # NoChat => recon.fetching \in Chats)
      /\ \A j \in recon.list : j.chat \in Chats
      /\ transcript \in [Chats -> Nat] /\ curId \in Chats
  BY DEF ClientTyped, ClientTypeOK, Reconcile
<1>1. CASE ReconcileList
  <2>1. /\ recon'.fetching = NoChat
        /\ \A j \in recon'.list : \E c \in Chats :
             /\ j.chat = c /\ srv[c].phase # "none"
             /\ j.running = (srv[c].phase # "over") /\ j.collected = srv[c].collected
             /\ j = [chat |-> c, running |-> srv[c].phase # "over",
                     collected |-> srv[c].collected]
        /\ UNCHANGED <<srv, curId, uiVars, mergedJobs, transcript, acks, spent>>
    BY <1>1, ReconcileListIs
  <2>2. ScreenFollows' /\ OneReader' /\ EntriesServed' /\ \A x \in Chats : Merged(x)'
    BY <2>1 DEF ClientInv, ScreenFollows, OneReader, EntriesServed, Merged, Follows, busyFor,
                uiVars
  <2>3. ASSUME NEW k \in recon'.list PROVE LineHolds(k)'
    <3>1. PICK c \in Chats :
            /\ k.chat = c /\ srv[c].phase # "none"
            /\ k.running = (srv[c].phase # "over") /\ k.collected = srv[c].collected
            /\ k = [chat |-> c, running |-> srv[c].phase # "over",
                    collected |-> srv[c].collected]
      BY <2>1
    <3>2. transcript[c] = 1 => ~k.running /\ (k.collected \/ c \in mergedJobs)
      BY <3>1 DEF ClientInv, Merged
    <3>3. \A h \in recon'.list : h.chat = c => h = k
      BY <2>1, <3>1
    <3>4. c # NoChat
      BY ChatClientConstants
    <3>5. ~k.running => srv[c].phase = "over"
      BY <3>1
    <3> QED
      BY <2>1, <3>1, <3>2, <3>3, <3>4, <3>5 DEF LineHolds
  <2> QED
    BY <2>1, <2>2, <2>3 DEF ClientInv
<1>2. CASE ReconcileDone
  <2>1. /\ recon'.list = {} /\ recon'.fetching = NoChat
        /\ UNCHANGED <<srv, curId, uiVars, mergedJobs, transcript, acks, spent>>
    BY <1>2 DEF ReconcileDone, Idle
  <2>2. ScreenFollows' /\ OneReader' /\ EntriesServed' /\ \A x \in Chats : Merged(x)'
    BY <2>1 DEF ClientInv, ScreenFollows, OneReader, EntriesServed, Merged, Follows, busyFor,
                uiVars
  <2> QED
    BY <2>1, <2>2 DEF ClientInv
<1>3. CASE deliverResult
  <2>1. PICK c \in Chats :
          /\ c = recon.fetching
          /\ recon'.list = recon.list /\ recon'.fetching = NoChat
          /\ mergedJobs' = mergedJobs \cup {c} /\ acks' = acks \cup {c}
          /\ transcript' = [transcript EXCEPT ![c] = @ + 1]
          /\ liveJobs'[c].id # "known"
          /\ \A x \in Chats : x # c => liveJobs'[x] = liveJobs[x]
          /\ UNCHANGED <<srv, curId, liveJob, sessions, liveSession, readers,
                         readerActive, spent>>
    BY <1>3, DeliverIs
  <2>2. /\ transcript[c] = 0 /\ srv[c].phase = "over" /\ (liveSession # 0 => curId # c)
    BY <2>1, ChatClientConstants DEF ClientInv, FetchHolds
  <2>3. /\ transcript'[c] = 1 /\ \A x \in Chats : x # c => transcript'[x] = transcript[x]
    BY <1>0, <2>1, <2>2
  <2>4. ScreenFollows'
    <3>1. liveSession # 0 =>
            liveJobs'[curId] = liveJobs[curId] /\ transcript'[curId] = transcript[curId]
      BY <1>0, <2>1, <2>2, <2>3
    <3> QED
      BY <2>1, <3>1 DEF ClientInv, ScreenFollows, Follows
  <2>5. OneReader'
    <3>1. liveSession # 0 => liveJobs'[curId] = liveJobs[curId]
      BY <1>0, <2>1, <2>2
    <3> QED
      BY <2>1, <3>1 DEF ClientInv, OneReader
  <2>6. EntriesServed'
    BY <2>1, <2>2 DEF ClientInv, EntriesServed, busyFor
  <2>7. ASSUME NEW x \in Chats PROVE Merged(x)'
    <3>1. CASE x = c
      BY <2>1, <2>2, <2>3, <3>1 DEF Merged
    <3>2. CASE x # c
      BY <2>1, <2>3, <3>2 DEF ClientInv, Merged
    <3> QED
      BY <3>1, <3>2
  <2>8. ASSUME NEW k \in recon.list PROVE LineHolds(k)'
    <3>1. k.chat \in Chats /\ k.chat # c /\ LineHolds(k)
      BY <1>0, <2>1 DEF ClientInv, LineHolds
    <3>2. k.chat # NoChat
      BY <3>1, ChatClientConstants
    <3> QED
      BY <2>1, <2>3, <3>1, <3>2 DEF LineHolds
  <2> QED
    BY <2>1, <2>4, <2>5, <2>6, <2>7, <2>8 DEF ClientInv
<1>4. ASSUME NEW j \in recon.list, ReconcileRunning(j) PROVE ClientInv'
  <2> DEFINE c == j.chat
  <2>1. /\ c \in Chats /\ j.running
        /\ recon'.list = recon.list \ {j}
        /\ recon.fetching = NoChat /\ recon'.fetching = NoChat
        /\ busyFor(c) => liveJobs' = liveJobs
        /\ ~busyFor(c) => /\ liveJobs'[c] = [id |-> "known", eventIndex |-> 0]
                          /\ \A x \in Chats : x # c => liveJobs'[x] = liveJobs[x]
        /\ UNCHANGED <<srv, curId, liveJob, sessions, liveSession, readers, readerActive,
                       mergedJobs, transcript, acks, spent>>
    BY <1>4, ReconcileRunningIs
  <2>2. LineHolds(j)
    BY DEF ClientInv
  <2>3. transcript[c] = 0 /\ srv[c].phase # "none"
    <3>1. Merged(c)
      BY <2>1 DEF ClientInv
    <3> QED
      BY <2>1, <2>2, <3>1 DEF LineHolds, Merged
  <2>4. liveSession # 0 => liveJobs'[curId] = liveJobs[curId]
    <3>1. liveSession # 0 => busyFor(curId)
      BY DEF ClientInv, ScreenFollows, Follows, busyFor, NoChat
    <3> HIDE DEF c
    <3> QED
      BY <1>0, <2>1, <3>1
  <2>5. ScreenFollows'
    BY <2>1, <2>4 DEF ClientInv, ScreenFollows, Follows
  <2>6. OneReader'
    BY <2>1, <2>4 DEF ClientInv, OneReader
  <2> HIDE DEF c
  <2>7. EntriesServed'
    BY <2>1, <2>3 DEF ClientInv, EntriesServed, busyFor
  <2>8. ASSUME NEW x \in Chats PROVE Merged(x)'
    <3>1. CASE x = c
      BY <2>1, <2>3, <3>1 DEF ClientInv, Merged
    <3>2. CASE x # c
      BY <2>1, <3>2 DEF ClientInv, Merged
    <3> QED
      BY <3>1, <3>2
  <2>9. ASSUME NEW k \in recon'.list PROVE LineHolds(k)'
    <3>1. k \in recon.list
      BY <2>1
    <3> QED
      BY <2>1, <3>1 DEF ClientInv, LineHolds
  <2> QED
    BY <2>1, <2>5, <2>6, <2>7, <2>8, <2>9 DEF ClientInv
<1>5. ASSUME NEW j \in recon.list, ReconcileFinished(j) PROVE ClientInv'
  <2> DEFINE c == j.chat
  <2>1. /\ c \in Chats /\ ~j.running
        /\ recon'.list = recon.list \ {j} /\ recon.fetching = NoChat
        /\ IF j.collected \/ c \in mergedJobs
              \/ (liveSession # 0 /\ sessions[liveSession].chat = c)
           THEN recon'.fetching = NoChat ELSE recon'.fetching = c
        /\ liveJobs' # liveJobs => c \in mergedJobs /\ liveJobs[c].id = "known"
        /\ UNCHANGED <<srv, curId, liveJob, sessions, liveSession, readers, readerActive,
                       mergedJobs, transcript, acks, spent>>
    BY <1>5, ReconcileFinishedIs
  <2>2. LineHolds(j)
    BY DEF ClientInv
  <2>3. Merged(c)
    BY <2>1 DEF ClientInv
  <2>4. liveJobs' = liveJobs
    BY <2>1, <2>3 DEF Merged
  <2>5. ScreenFollows' /\ OneReader' /\ EntriesServed' /\ \A x \in Chats : Merged(x)'
    BY <2>1, <2>4 DEF ClientInv, ScreenFollows, OneReader, EntriesServed, Merged, Follows,
                      busyFor
  <2>6. ASSUME NEW k \in recon'.list PROVE LineHolds(k)'
    <3>1. k \in recon.list /\ k # j /\ LineHolds(k)
      BY <2>1 DEF ClientInv
    <3>2. k.chat # c
      BY <2>2, <3>1 DEF LineHolds
    <3>3. k.chat # recon'.fetching
      BY <2>1, <3>1, <3>2 DEF LineHolds
    <3> QED
      BY <2>1, <3>1, <3>3 DEF LineHolds
  <2>7. recon'.fetching # NoChat =>
          /\ transcript[c] = 0 /\ srv[c].phase = "over" /\ recon'.fetching = c
          /\ liveSession # 0 => curId # c
    <3>1. liveSession # 0 => sessions[liveSession].chat = curId
      BY DEF ClientInv, ScreenFollows
    <3> QED
      BY <2>1, <2>2, <2>3, <3>1 DEF LineHolds, Merged
  <2>8. recon'.fetching # NoChat => FetchHolds(recon.fetching)'
    BY <2>1, <2>7 DEF FetchHolds
  <2> QED
    BY <2>5, <2>6, <2>8 DEF ClientInv
<1> QED
  BY <1>1, <1>2, <1>3, <1>4, <1>5 DEF ReconcileStep

(* Every step of the app preserves the invariant. *)
LEMMA ClientStepKeeps ==
  ASSUME Orderly PROVE ClientTyped /\ ClientInv /\ [ClientNext]_clientVars => ClientInv'
<1> SUFFICES ASSUME ClientTyped, ClientInv, [ClientNext]_clientVars PROVE ClientInv'
  OBVIOUS
<1>1. CASE UNCHANGED clientVars
  BY <1>1 DEF ClientInv, EntriesServed, ScreenFollows, OneReader, Merged, LineHolds,
              FetchHolds, Follows, busyFor, clientVars
<1>2. CASE ServerStep \/ \E c \in Chats : Collect(c) \/ LoseCollect(c)
  BY <1>2, ServerKeeps DEF ServerStep
<1>3. CASE streamReply
  BY <1>3, StreamReplyKeeps
<1>4. CASE ReaderStep \/ \E r \in DOMAIN readers : StreamDies(r)
  BY <1>4, ReadKeeps, StreamKeeps DEF ReaderStep
<1>5. CASE attemptReattach
  BY <1>5, ReattachKeeps
<1>6. CASE \E c \in Chats : switchChat(c)
  BY <1>6, SwitchKeeps
<1>7. CASE Reload
  BY <1>7, ReloadKeeps
<1>8. CASE ReconcileStep
  BY <1>8, ReconcileKeeps
<1> QED
  BY <1>1, <1>2, <1>3, <1>4, <1>5, <1>6, <1>7, <1>8 DEF ClientNext

(* So it holds throughout. *)
LEMMA ClientKeeps == ASSUME Orderly PROVE ClientSpec => []ClientInv
<1>1. ClientTyped /\ ClientInv /\ [ClientNext]_clientVars => ClientInv'
  BY ClientStepKeeps
<1>2. ClientInit => ClientInv
  BY ClientInitFollows
<1>3. ClientSpec => []ClientTyped
  BY ClientStaysTyped
<1> QED
  BY <1>1, <1>2, <1>3, PTL DEF ClientSpec

(* The app is well typed, whatever the user and the clock may do. *)
THEOREM ClientTyping == ClientSpec => []ClientTypeOK
<1>1. ClientTyped => ClientTypeOK
  BY DEF ClientTyped
<1> QED
  BY <1>1, ClientStaysTyped, PTL

(* A run is merged into its chat at most once, by whichever of the two paths comes first, *)
(* however often the user changes chats or reloads (finalizeSession, deliverResult).       *)
THEOREM RunsMergedOnce == ASSUME Orderly PROVE ClientSpec => []MergedOnce
<1>1. ClientInv => MergedOnce
  BY DEF ClientInv, Merged, MergedOnce
<1> QED
  BY <1>1, ClientKeeps, PTL

-----------------------------------------------------------------------------
(* The cursor asks for less: only that no chat is left while its reattach stream is open. Then *)
(* an entry may go while its session reads on, when deliverResult or reconcileJobs drops it:   *)
(* the turn is over by then and no line of the snapshot adopts it again.                       *)
Dropped(c) ==
  /\ liveJobs[c].id = NoChat /\ srv[c].phase = "over"
  /\ \A j \in recon.list : j.chat = c => ~j.running

(* The cursor of a response whose chat has no entry. *)
At(n) == [id |-> "known", eventIndex |-> n]

(* The session on screen is that of the chat on screen and agrees with its entry. *)
ScreenReads ==
  liveSession # 0 =>
    /\ sessions[liveSession].chat = curId /\ ~sessions[liveSession].detached
    /\ Dropped(curId) \/ Follows(sessions[liveSession], liveJobs[curId], srv[curId])

(* The one open response reads for it, at its cursor or, without one, where the session is. *)
OneResponse ==
  \A r \in DOMAIN readers : readers[r].open =>
    /\ liveSession # 0 /\ readers[r].session = liveSession
    /\ readerActive /\ liveJob = curId
    /\ liveJobs[curId].id # NoChat => readers[r].next = liveJobs[curId].eventIndex
    /\ liveJobs[curId].id = NoChat =>
         Follows(sessions[liveSession], At(readers[r].next), srv[curId])
    /\ \A q \in DOMAIN readers : readers[q].open => q = r

(* What the snapshot says is over is over; a chat has one line, and none while it is fetched. *)
LineTrue(j) ==
  /\ srv[j.chat].phase # "none" /\ (~j.running => srv[j.chat].phase = "over")
  /\ j.chat # recon.fetching
  /\ \A k \in recon.list : k.chat = j.chat => k = j

(* Together they say what the session on screen has consumed. *)
CursorInv ==
  /\ EntriesServed /\ ScreenReads /\ OneResponse
  /\ \A j \in recon.list : LineTrue(j)
  /\ recon.fetching # NoChat => srv[recon.fetching].phase = "over"

(* Of an entry only the id and the cursor count. *)
LEMMA FollowsToo ==
  ASSUME NEW s, NEW e, NEW d, NEW j, d.id = e.id, d.eventIndex = e.eventIndex, Follows(s, e, j)
  PROVE  Follows(s, d, j)
BY DEF Follows

(* The app's first state has nothing on screen. *)
LEMMA ClientInitReads == ClientInit => CursorInv
<1> SUFFICES ASSUME ClientInit PROVE CursorInv
  OBVIOUS
<1>1. /\ liveSession = 0 /\ DOMAIN readers = {} /\ recon.list = {} /\ recon.fetching = NoChat
      /\ \A c \in Chats : liveJobs[c].id = NoChat
  BY DEF ClientInit, Idle
<1> QED
  BY <1>1 DEF CursorInv, EntriesServed, ScreenReads, OneResponse, busyFor

(* An open response reads for the session on screen, at a place that agrees with it. *)
LEMMA OpenAgrees ==
  ASSUME ClientTyped, CursorInv, NEW r \in DOMAIN readers, readers[r].open
  PROVE  /\ liveSession # 0 /\ readers[r].session = liveSession
         /\ liveSession \in DOMAIN sessions
         /\ sessions[liveSession].chat = curId /\ ~sessions[liveSession].detached
         /\ liveJob = curId /\ readerActive
         /\ \A q \in DOMAIN readers : readers[q].open => q = r
         /\ srv[curId].phase # "none"
         /\ \/ liveJobs[curId].id = NoChat /\ Dropped(curId)
               /\ Follows(sessions[liveSession], At(readers[r].next), srv[curId])
            \/ liveJobs[curId].id # NoChat /\ readers[r].next = liveJobs[curId].eventIndex
               /\ Follows(sessions[liveSession], liveJobs[curId], srv[curId])
<1>1. /\ liveSession # 0 /\ readers[r].session = liveSession
      /\ liveJob = curId /\ readerActive
      /\ \A q \in DOMAIN readers : readers[q].open => q = r
      /\ liveJobs[curId].id # NoChat => readers[r].next = liveJobs[curId].eventIndex
      /\ liveJobs[curId].id = NoChat =>
           Follows(sessions[liveSession], At(readers[r].next), srv[curId])
  BY DEF CursorInv, OneResponse
<1>2. /\ sessions[liveSession].chat = curId /\ ~sessions[liveSession].detached
      /\ Dropped(curId) \/ Follows(sessions[liveSession], liveJobs[curId], srv[curId])
  BY <1>1 DEF CursorInv, ScreenReads
<1>3. liveSession \in DOMAIN sessions /\ curId \in Chats
  BY <1>1, ClientShapes DEF ClientTyped, ClientTypeOK
<1>4. CASE liveJobs[curId].id = NoChat
  <2>1. Dropped(curId)
    BY <1>2, <1>4 DEF Follows, NoChat
  <2> QED
    BY <1>1, <1>2, <1>3, <1>4, <2>1 DEF Dropped
<1>5. CASE liveJobs[curId].id # NoChat
  <2>1. srv[curId].phase # "none"
    BY <1>3, <1>5 DEF CursorInv, EntriesServed, busyFor
  <2>2. Follows(sessions[liveSession], liveJobs[curId], srv[curId])
    BY <1>2, <1>5 DEF Dropped
  <2> QED
    BY <1>1, <1>2, <1>3, <1>5, <2>1, <2>2
<1> QED
  BY <1>4, <1>5

(* The server's steps leave the agreement alone. *)
LEMMA ServerAgrees ==
  ASSUME ClientTyped, CursorInv, NEW c \in Chats,
         EmitText(c) \/ EmitVerdict(c) \/ Seal(c) \/ Collect(c)
  PROVE  CursorInv'
<1>1. PICK j \in Job :
        /\ srv' = [srv EXCEPT ![c] = j]
        /\ j.len >= srv[c].len
        /\ srv[c].phase # "none" => j.phase # "none"
        /\ srv[c].phase = "over" => j.phase = "over" /\ j.len = srv[c].len
        /\ srv[c].phase = "closing" => j.phase \in {"closing", "over"} /\ j.len = srv[c].len
        /\ srv[c].phase = "running" => j.phase = "running" \/ j.len = srv[c].len + 1
  BY ServerIs
<1>2. UNCHANGED <<curId, uiVars, recon>>
  BY DEF EmitText, EmitVerdict, Seal, Collect
<1>3. /\ srv \in [Chats -> Job] /\ liveJobs \in [Chats -> Entry] /\ curId \in Chats
      /\ sessions \in [DOMAIN sessions -> Session] /\ DOMAIN sessions = 1 .. Len(sessions)
      /\ readers \in [DOMAIN readers -> Reader] /\ Len(sessions) \in Nat
  BY ClientShapes
<1>4. srv'[c] = j /\ \A x \in Chats : x # c => srv'[x] = srv[x]
  BY <1>1, <1>3
<1>5. \A x \in Chats : /\ srv[x].phase # "none" => srv'[x].phase # "none"
                       /\ srv[x].phase = "over" => srv'[x].phase = "over"
  BY <1>1, <1>4
<1>6. EntriesServed'
  BY <1>2, <1>5 DEF CursorInv, EntriesServed, busyFor, uiVars
<1>7. ASSUME liveSession # 0, NEW e, e.eventIndex \in Nat,
             Follows(sessions[liveSession], e, srv[curId]), srv[curId].phase # "none"
      PROVE  Follows(sessions[liveSession], e, srv'[curId])
  <2>1. sessions[liveSession].verdict \in BOOLEAN
    <3>1. liveSession \in DOMAIN sessions
      BY <1>3, <1>7 DEF ClientTyped, ClientTypeOK
    <3> QED
      BY <1>3, <3>1 DEF Session
  <2>2. CASE curId = c
    <3>1. srv[c] \in Job
      BY <1>3
    <3> QED
      BY <1>1, <1>4, <1>7, <2>1, <2>2, <3>1, TurnFollowed
  <2>3. CASE curId # c
    BY <1>3, <1>4, <1>7, <2>3
  <2> QED
    BY <2>2, <2>3
<1>8. liveJobs[curId].eventIndex \in Nat
  BY <1>3 DEF Entry
<1>9. ScreenReads'
  <2> SUFFICES ASSUME liveSession # 0
               PROVE  /\ sessions[liveSession].chat = curId /\ ~sessions[liveSession].detached
                      /\ \/ Dropped(curId)'
                         \/ Follows(sessions[liveSession], liveJobs[curId], srv'[curId])
    BY <1>2 DEF ScreenReads, Follows, Dropped, uiVars
  <2>1. /\ sessions[liveSession].chat = curId /\ ~sessions[liveSession].detached
        /\ Dropped(curId) \/ Follows(sessions[liveSession], liveJobs[curId], srv[curId])
    BY DEF CursorInv, ScreenReads
  <2>2. CASE Dropped(curId)
    BY <1>2, <1>3, <1>5, <2>1, <2>2 DEF Dropped, uiVars
  <2>3. CASE Follows(sessions[liveSession], liveJobs[curId], srv[curId])
    <3>1. srv[curId].phase # "none"
      <4>1. liveJobs[curId].id # NoChat
        BY <2>3 DEF Follows, NoChat
      <4> QED
        BY <1>3, <4>1 DEF CursorInv, EntriesServed, busyFor
    <3> QED
      BY <1>7, <1>8, <2>1, <2>3, <3>1
  <2> QED
    BY <2>1, <2>2, <2>3
<1>10. OneResponse'
  <2> SUFFICES ASSUME NEW r \in DOMAIN readers, readers[r].open
               PROVE  /\ liveSession # 0 /\ readers[r].session = liveSession
                      /\ readerActive /\ liveJob = curId
                      /\ liveJobs[curId].id # NoChat => readers[r].next = liveJobs[curId].eventIndex
                      /\ liveJobs[curId].id = NoChat =>
                           Follows(sessions[liveSession], At(readers[r].next), srv'[curId])
                      /\ \A q \in DOMAIN readers : readers[q].open => q = r
    BY <1>2 DEF OneResponse, Follows, At, uiVars
  <2>1. /\ liveSession # 0 /\ srv[curId].phase # "none"
        /\ liveJobs[curId].id = NoChat =>
             Follows(sessions[liveSession], At(readers[r].next), srv[curId])
    BY OpenAgrees DEF CursorInv, OneResponse
  <2>2. At(readers[r].next).eventIndex \in Nat
    BY <1>3 DEF At, Reader
  <2>3. liveJobs[curId].id = NoChat =>
          Follows(sessions[liveSession], At(readers[r].next), srv'[curId])
    BY <1>7, <2>1, <2>2
  <2> QED
    BY <2>3 DEF CursorInv, OneResponse
<1>11. \A k \in recon'.list : LineTrue(k)'
  <2>1. \A k \in recon.list : k.chat \in Chats
    BY DEF ClientTyped, ClientTypeOK, Reconcile
  <2> QED
    BY <1>2, <1>5, <2>1 DEF CursorInv, LineTrue
<1>12. recon'.fetching # NoChat => srv'[recon'.fetching].phase = "over"
  <2>1. recon.fetching # NoChat => recon.fetching \in Chats
    BY DEF ClientTyped, ClientTypeOK, Reconcile
  <2> QED
    BY <1>2, <1>5, <2>1 DEF CursorInv
<1> QED
  BY <1>6, <1>9, <1>10, <1>11, <1>12 DEF CursorInv

(* Sending a turn preserves it: nothing was on screen. *)
LEMMA StreamReplyAgrees ==
  ASSUME ClientTyped, CursorInv, streamReply PROVE CursorInv'
<1>1. PICK n, m \in Nat :
        /\ m \notin DOMAIN readers /\ n # 0
        /\ DOMAIN readers' = DOMAIN readers \cup {m}
        /\ sessions'[n] = newSession(curId, FALSE)
        /\ \A i \in DOMAIN readers : readers'[i] = readers[i]
        /\ readers'[m] = [session |-> n, kind |-> "post", next |-> 0, open |-> TRUE]
        /\ liveSession' = n
  BY StreamReplyIs
<1>2. /\ curId \in Chats /\ srv \in [Chats -> Job] /\ liveJobs \in [Chats -> Entry]
      /\ recon \in Reconcile
  BY ClientShapes DEF ClientTyped, ClientTypeOK
<1>3. liveJobs[curId].id = NoChat /\ srv[curId].phase = "none"
  BY DEF streamReply, busyFor
<1>4. /\ srv' = [srv EXCEPT ![curId] = [len |-> 1, phase |-> "running", collected |-> FALSE]]
      /\ liveJobs' = [liveJobs EXCEPT ![curId] = [id |-> "prov", eventIndex |-> 0]]
      /\ liveJob' = curId /\ readerActive' = TRUE
      /\ UNCHANGED <<curId, recon, mergedJobs, transcript, acks>>
  BY DEF streamReply
<1>5. /\ srv'[curId].phase = "running"
      /\ liveJobs'[curId].id = "prov" /\ liveJobs'[curId].eventIndex = 0
      /\ \A x \in Chats : x # curId => srv'[x] = srv[x] /\ liveJobs'[x] = liveJobs[x]
  BY <1>2, <1>4
<1>6. liveSession = 0
  BY <1>3 DEF CursorInv, ScreenReads, Follows, Dropped, NoChat
<1>7. \A q \in DOMAIN readers : ~readers[q].open
  BY <1>6, OpenAgrees
<1>8. EntriesServed'
  BY <1>5 DEF CursorInv, EntriesServed, busyFor
<1>9. ScreenReads'
  <2>1. /\ sessions'[n].chat = curId /\ sessions'[n].seen = <<>>
        /\ sessions'[n].verdict = FALSE /\ sessions'[n].detached = FALSE
        /\ sessions'[n].jobId = FALSE
    BY <1>1, <1>2, FreshSession
  <2> QED
    BY <1>1, <1>4, <1>5, <2>1 DEF ScreenReads, Follows
<1>10. OneResponse'
  <2>1. \A q \in DOMAIN readers' : readers'[q].open => q = m
    BY <1>1, <1>7
  <2>2. readers'[m].session = n /\ readers'[m].next = 0
    BY <1>1
  <2>3. liveJobs'[curId].id # NoChat
    BY <1>5 DEF NoChat
  <2> QED
    BY <1>1, <1>4, <1>5, <2>1, <2>2, <2>3 DEF OneResponse
<1>11. \A k \in recon'.list : LineTrue(k)'
  <2>1. \A k \in recon.list : k.chat \in Chats /\ k.chat # curId
    BY <1>2, <1>3 DEF CursorInv, LineTrue, Reconcile
  <2> QED
    BY <1>4, <1>5, <2>1 DEF CursorInv, LineTrue
<1>12. recon'.fetching # NoChat => srv'[recon'.fetching].phase = "over"
  <2>1. recon.fetching # NoChat => recon.fetching \in Chats /\ recon.fetching # curId
    BY <1>2, <1>3 DEF CursorInv, Reconcile
  <2> QED
    BY <1>4, <1>5, <2>1 DEF CursorInv
<1> QED
  BY <1>8, <1>9, <1>10, <1>11, <1>12 DEF CursorInv

(* Reading an event preserves it, with an entry or without: it is the session on screen that *)
(* reads, and its place that moves.                                                          *)
LEMMA ReadAgrees ==
  ASSUME ClientTyped, CursorInv, NEW r \in DOMAIN readers, readSse(r) PROVE CursorInv'
<1>1. PICK s \in DOMAIN sessions, n \in Nat, c \in Chats :
        /\ s = readers[r].session /\ n = readers[r].next /\ c = sessions[s].chat
        /\ readers[r].open /\ n < srv[c].len
        /\ sessions' \in [DOMAIN sessions -> Session]
        /\ \A i \in DOMAIN sessions : i # s => sessions'[i] = sessions[i]
        /\ sessions'[s].chat = c /\ sessions'[s].detached = sessions[s].detached
        /\ sessions'[s].jobId = (sessions[s].jobId \/ n = 0)
        /\ sessions'[s].verdict = (sessions[s].verdict \/ IsVerdict(c, n))
        /\ sessions'[s].seen = IF n = 0 \/ IsVerdict(c, n) THEN sessions[s].seen
                               ELSE Append(sessions[s].seen, n)
  BY ReadIs
<1>2. /\ liveSession # 0 /\ s = liveSession /\ c = curId /\ ~sessions[s].detached
      /\ liveJob = c /\ readerActive
      /\ \A q \in DOMAIN readers : readers[q].open => q = r
      /\ srv[c].phase # "none"
      /\ \/ liveJobs[c].id = NoChat /\ Dropped(c) /\ Follows(sessions[s], At(n), srv[c])
         \/ liveJobs[c].id # NoChat /\ n = liveJobs[c].eventIndex
            /\ Follows(sessions[s], liveJobs[c], srv[c])
  BY <1>1, OpenAgrees
<1>3. /\ liveJob' = IF n = 0 THEN c ELSE liveJob
      /\ readers' = [readers EXCEPT ![r].next = n + 1]
      /\ n = 0 => liveJobs' = [liveJobs EXCEPT ![c] = [id |-> "known", eventIndex |-> 1]]
      /\ n # 0 => liveJobs' = IF liveJob # NoChat /\ liveJobs[liveJob].id = "known"
                              THEN [liveJobs EXCEPT ![liveJob].eventIndex = @ + 1]
                              ELSE liveJobs
      /\ UNCHANGED <<srv, curId, liveSession, readerActive, recon, mergedJobs,
                     transcript, acks, spent>>
  BY <1>1, ReadMoves
<1>4. /\ srv \in [Chats -> Job] /\ liveJobs \in [Chats -> Entry]
      /\ readers \in [DOMAIN readers -> Reader] /\ sessions \in [DOMAIN sessions -> Session]
  BY ClientShapes
<1>5. PICK e : /\ Follows(sessions[s], e, srv[c]) /\ e.eventIndex = n
               /\ liveJobs[c].id # NoChat => e = liveJobs[c]
  <2>1. CASE liveJobs[c].id = NoChat
    <3>1. Follows(sessions[s], At(n), srv[c]) /\ At(n).eventIndex = n
      BY <1>2, <2>1 DEF At
    <3> QED
      BY <2>1, <3>1
  <2>2. CASE liveJobs[c].id # NoChat
    BY <1>2, <2>2
  <2> QED
    BY <2>1, <2>2
<1>6. ASSUME NEW d, d.id = "known", d.eventIndex = n + 1 PROVE Follows(sessions'[s], d, srv[c])
  <2> DEFINE v == IsVerdict(c, n)
  <2>1. v \in BOOLEAN /\ (v <=> srv[c].phase \in {"closing", "over"} /\ n = srv[c].len - 1)
    BY DEF IsVerdict
  <2>2. srv[c] \in Job /\ TurnShaped(srv[c])
    BY <1>4 DEF ClientTyped, TurnsShaped
  <2>3. sessions[s].verdict \in BOOLEAN
    BY <1>4 DEF Session
  <2>4. /\ sessions'[s].verdict = (sessions[s].verdict \/ v)
        /\ sessions'[s].seen = IF n = 0 \/ v THEN sessions[s].seen
                               ELSE Append(sessions[s].seen, n)
    BY <1>1
  <2> HIDE DEF v
  <2>5. PICK t : t = sessions'[s]
    OBVIOUS
  <2>6. Follows(t, d, srv[c])
    BY <1>1, <1>5, <1>6, <2>1, <2>2, <2>3, <2>4, <2>5, ReadFollows
  <2> QED
    BY <2>5, <2>6
<1>7. /\ \A x \in Chats : x # c => liveJobs'[x] = liveJobs[x]
      /\ \/ liveJobs'[c].id = "known" /\ liveJobs'[c].eventIndex = n + 1
         \/ liveJobs' = liveJobs /\ Dropped(c)
  <2>1. CASE n = 0
    BY <1>3, <1>4, <2>1
  <2>2. CASE n # 0 /\ liveJobs[c].id = NoChat
    BY <1>2, <1>3, <2>2 DEF NoChat
  <2>3. CASE n # 0 /\ liveJobs[c].id # NoChat
    <3>1. liveJobs[c].id = "known"
      BY <1>2, <2>3 DEF Follows
    <3>2. c # NoChat
      BY ChatClientConstants
    <3> DEFINE d == [liveJobs[c] EXCEPT !.eventIndex = liveJobs[c].eventIndex + 1]
    <3>3. d.id = "known" /\ d.eventIndex = n + 1
      BY <1>2, <1>4, <2>3, <3>1 DEF Entry
    <3>4. liveJobs' = [liveJobs EXCEPT ![c] = d]
      BY <1>2, <1>3, <2>3, <3>1, <3>2
    <3> HIDE DEF d
    <3> QED
      BY <1>4, <3>3, <3>4
  <2> QED
    BY <2>1, <2>2, <2>3
<1>8. /\ readers' \in [DOMAIN readers -> Reader] /\ readers'[r].next = n + 1
      /\ \A q \in DOMAIN readers : readers'[q].session = readers[q].session
                                   /\ readers'[q].open = readers[q].open
  <2> DEFINE y == [readers[r] EXCEPT !.next = n + 1]
  <2>1. /\ y \in Reader /\ y.session = readers[r].session /\ y.open = readers[r].open
        /\ y.next = n + 1
    <3>1. n + 1 \in Nat /\ readers[r] \in Reader
      BY <1>4
    <3> QED
      BY <3>1 DEF Reader
  <2>2. readers' = [readers EXCEPT ![r] = y]
    BY <1>3
  <2> HIDE DEF y
  <2> QED
    BY <1>4, <2>1, <2>2
<1>9. EntriesServed'
  BY <1>2, <1>3, <1>7 DEF CursorInv, EntriesServed, busyFor
<1>10. ScreenReads'
  <2>1. /\ liveSession' = s /\ curId' = c /\ srv' = srv /\ recon' = recon
        /\ sessions'[s].chat = c /\ ~sessions'[s].detached
    BY <1>1, <1>2, <1>3
  <2>2. CASE liveJobs'[c].id = "known" /\ liveJobs'[c].eventIndex = n + 1
    <3>1. Follows(sessions'[s], liveJobs'[c], srv[c])
      BY <1>6, <2>2
    <3> QED
      BY <2>1, <3>1 DEF ScreenReads, Follows
  <2>3. CASE liveJobs' = liveJobs /\ Dropped(c)
    BY <2>1, <2>3 DEF ScreenReads, Dropped
  <2> QED
    BY <1>7, <2>2, <2>3
<1>11. OneResponse'
  <2>1. \A q \in DOMAIN readers' : readers'[q].open => q = r
    BY <1>2, <1>8
  <2>2. /\ liveJob' = c /\ curId' = c /\ liveSession' = s /\ s # 0 /\ readerActive'
        /\ srv' = srv
    BY <1>2, <1>3
  <2>3. readers'[r].session = s /\ readers'[r].next = n + 1
    BY <1>1, <1>8
  <2>4. liveJobs'[c].id # NoChat => readers'[r].next = liveJobs'[c].eventIndex
    BY <1>7, <2>3 DEF Dropped
  <2>5. Follows(sessions'[s], At(n + 1), srv[c])
    BY <1>6 DEF At
  <2> QED
    BY <2>1, <2>2, <2>3, <2>4, <2>5 DEF OneResponse
<1>12. /\ \A k \in recon'.list : LineTrue(k)'
       /\ recon'.fetching # NoChat => srv'[recon'.fetching].phase = "over"
  BY <1>3 DEF CursorInv, LineTrue
<1> QED
  BY <1>9, <1>10, <1>11, <1>12 DEF CursorInv

(* The end of a response preserves it: the session that is done leaves the screen. *)
LEMMA StreamAgrees ==
  ASSUME ClientTyped, CursorInv, NEW r \in DOMAIN readers, StreamEnds(r) \/ StreamDies(r)
  PROVE  CursorInv'
<1>1. AfterReader(r) /\ readers[r].open
  BY DEF StreamEnds, StreamDies
<1>2. PICK s \in DOMAIN sessions, c \in Chats :
        /\ s = readers[r].session /\ c = sessions[s].chat
        /\ readers' \in [DOMAIN readers -> Reader] /\ ~readers'[r].open
        /\ \A q \in DOMAIN readers : q # r => readers'[q] = readers[q]
        /\ \A x \in Chats : x # c => liveJobs'[x] = liveJobs[x]
        /\ UNCHANGED <<srv, curId, sessions, recon>>
        /\ ~sessions[s].detached /\ (sessions[s].verdict \/ ~sessions[s].jobId) =>
             /\ liveJobs'[c].id = NoChat
             /\ liveSession' = (IF liveSession = s THEN 0 ELSE liveSession)
             /\ IF sessions[s].verdict
                THEN /\ transcript' = [transcript EXCEPT ![c] = @ + 1]
                     /\ mergedJobs' = mergedJobs \cup {c} /\ acks' = acks \cup {c}
                ELSE UNCHANGED <<transcript, mergedJobs, acks>>
        /\ ~(~sessions[s].detached /\ (sessions[s].verdict \/ ~sessions[s].jobId)) =>
             UNCHANGED <<transcript, mergedJobs, acks, liveJobs, liveSession, liveJob>>
  BY <1>1, AfterReaderIs
<1>3. /\ liveSession # 0 /\ s = liveSession /\ c = curId /\ ~sessions[s].detached
      /\ \A q \in DOMAIN readers : readers[q].open => q = r
  BY <1>1, <1>2, OpenAgrees
<1>4. OneResponse'
  <2>1. \A q \in DOMAIN readers' : ~readers'[q].open
    BY <1>2, <1>3
  <2> QED
    BY <2>1 DEF OneResponse
<1>5. /\ \A k \in recon'.list : LineTrue(k)'
      /\ recon'.fetching # NoChat => srv'[recon'.fetching].phase = "over"
  BY <1>2 DEF CursorInv, LineTrue
<1>6. CASE sessions[s].verdict \/ ~sessions[s].jobId
  <2>1. liveSession' = 0 /\ liveJobs'[c].id = NoChat
    BY <1>2, <1>3, <1>6
  <2>2. ScreenReads'
    BY <2>1 DEF ScreenReads
  <2>3. EntriesServed'
    BY <1>2, <2>1 DEF CursorInv, EntriesServed, busyFor
  <2> QED
    BY <1>4, <1>5, <2>2, <2>3 DEF CursorInv
<1>7. CASE ~(sessions[s].verdict \/ ~sessions[s].jobId)
  <2>1. UNCHANGED <<srv, curId, sessions, recon, liveJobs, liveSession>>
    BY <1>2, <1>7
  <2>2. ScreenReads' /\ EntriesServed'
    BY <2>1 DEF CursorInv, ScreenReads, EntriesServed, Dropped, Follows, busyFor
  <2> QED
    BY <1>4, <1>5, <2>2 DEF CursorInv
<1> QED
  BY <1>6, <1>7

(* Leaving a chat preserves it: nothing reads on for a chat that is left. *)
LEMMA SwitchAgrees ==
  ASSUME ~LeaveAttached, ClientTyped, CursorInv, NEW to \in Chats, switchChat(to)
  PROVE  CursorInv'
<1>1. /\ readers' \in [DOMAIN readers -> Reader]
      /\ \A q \in DOMAIN readers :
           readers'[q].open =>
             readers[q].open /\ ~(readers[q].kind = "post" /\ readers[q].session = liveSession)
      /\ liveSession' = 0
      /\ UNCHANGED <<srv, liveJobs, recon>>
  BY SwitchIs
<1>2. \A q \in DOMAIN readers : readers[q].open => readers[q].kind # "attach"
  BY DEF switchChat, MayLeave
<1>3. \A q \in DOMAIN readers : readers[q].kind \in {"post", "attach"}
  BY ClientShapes DEF Reader
<1>4. \A q \in DOMAIN readers : readers[q].open => readers[q].session = liveSession
  BY OpenAgrees
<1>5. \A q \in DOMAIN readers' : ~readers'[q].open
  BY <1>1, <1>2, <1>3, <1>4
<1>6. ScreenReads' /\ OneResponse'
  BY <1>1, <1>5 DEF ScreenReads, OneResponse
<1> QED
  BY <1>1, <1>6 DEF CursorInv, EntriesServed, LineTrue, busyFor

(* So does a reload, which leaves nothing on screen. *)
LEMMA ReloadAgrees ==
  ASSUME ClientTyped, CursorInv, Reload PROVE CursorInv'
<1>1. /\ readers' \in [DOMAIN readers -> Reader]
      /\ \A q \in DOMAIN readers : ~readers'[q].open
      /\ liveSession' = 0 /\ recon' = Idle
      /\ UNCHANGED <<srv, curId, liveJobs>>
  BY ReloadIs
<1>2. recon'.list = {} /\ recon'.fetching = NoChat
  BY <1>1 DEF Idle
<1>3. ScreenReads' /\ OneResponse'
  BY <1>1 DEF ScreenReads, OneResponse
<1> QED
  BY <1>1, <1>2, <1>3 DEF CursorInv, EntriesServed, busyFor

(* A reattach preserves it: a fresh session starts over, a kept one goes on at its cursor. *)
LEMMA ReattachAgrees ==
  ASSUME ClientTyped, CursorInv, attemptReattach PROVE CursorInv'
<1>1. PICK s, m \in Nat, from \in Nat :
        /\ from = IF liveSession = 0 THEN 0 ELSE liveJobs[curId].eventIndex
        /\ m \notin DOMAIN readers /\ s # 0
        /\ \A i \in DOMAIN sessions : sessions'[i] = sessions[i]
        /\ liveSession = 0 => sessions'[s] = newSession(curId, TRUE)
        /\ liveSession # 0 => s = liveSession
        /\ DOMAIN readers' = DOMAIN readers \cup {m}
        /\ \A i \in DOMAIN readers : readers'[i] = readers[i]
        /\ readers'[m].session = s /\ readers'[m].open
        /\ from <= srv[curId].len => readers'[m].next = from
        /\ liveSession' = s /\ liveJob' = curId /\ readerActive' = TRUE
        /\ ~readerActive /\ liveJobs[curId].id = "known"
        /\ liveJobs'[curId].id = "known" /\ liveJobs'[curId].eventIndex = from
        /\ \A x \in Chats : x # curId => liveJobs'[x] = liveJobs[x]
        /\ UNCHANGED <<srv, curId, recon>>
  BY ReattachIs
<1>2. /\ curId \in Chats /\ srv \in [Chats -> Job] /\ DOMAIN sessions = 1 .. Len(sessions)
      /\ Len(sessions) \in Nat
  BY ClientShapes
<1>3. \A q \in DOMAIN readers : ~readers[q].open
  BY <1>1, OpenAgrees
<1>4. srv[curId].phase # "none" /\ srv[curId].len \in Nat /\ srv[curId].len # 0
  <2>1. srv[curId] \in Job /\ TurnShaped(srv[curId])
    BY <1>2 DEF ClientTyped, TurnsShaped
  <2>2. srv[curId].phase # "none"
    BY <1>1, <1>2 DEF CursorInv, EntriesServed, busyFor, NoChat
  <2> QED
    BY <2>1, <2>2 DEF TurnShaped, Job
<1>5. /\ from <= srv[curId].len
      /\ sessions'[s].chat = curId /\ ~sessions'[s].detached
      /\ Follows(sessions'[s], liveJobs'[curId], srv[curId])
  <2>1. CASE liveSession = 0
    <3>1. PICK t : t = newSession(curId, TRUE)
      OBVIOUS
    <3>2. t = sessions'[s] /\ from = 0
      BY <1>1, <2>1, <3>1
    <3>3. t.chat = curId /\ t.detached = FALSE
      BY <3>1 DEF newSession
    <3>4. PICK d : d = liveJobs'[curId]
      OBVIOUS
    <3>5. d.id = "known" /\ d.eventIndex = 0
      BY <1>1, <3>2, <3>4
    <3>6. Follows(t, d, srv[curId])
      BY <1>2, <1>4, <3>1, <3>5, FreshFollows
    <3>7. Follows(sessions'[s], liveJobs'[curId], srv[curId])
      BY <3>2, <3>4, <3>6, Zenon
    <3>8. sessions'[s].chat = curId /\ ~sessions'[s].detached
      BY <3>2, <3>3
    <3> QED
      BY <1>4, <3>2, <3>7, <3>8
  <2>2. CASE liveSession # 0
    <3>1. liveSession \in DOMAIN sessions
      BY <1>2, <2>2 DEF ClientTyped, ClientTypeOK
    <3>2. /\ sessions[liveSession].chat = curId /\ ~sessions[liveSession].detached
          /\ Follows(sessions[liveSession], liveJobs[curId], srv[curId])
      BY <1>1, <2>2 DEF CursorInv, ScreenReads, Dropped, NoChat
    <3>3. PICK t, d : t = sessions'[s] /\ d = liveJobs'[curId]
      OBVIOUS
    <3>4. t = sessions[liveSession] /\ d.id = "known" /\ d.eventIndex = liveJobs[curId].eventIndex
      BY <1>1, <2>2, <3>1, <3>3
    <3>5. liveJobs[curId].id = "known" /\ liveJobs[curId].id # "prov"
      BY <1>1
    <3>6. Follows(t, d, srv[curId]) /\ liveJobs[curId].eventIndex <= srv[curId].len
      BY <3>2, <3>4, <3>5 DEF Follows
    <3> QED
      BY <1>1, <2>2, <3>2, <3>3, <3>4, <3>6
  <2> QED
    BY <2>1, <2>2
<1>6. ScreenReads'
  <2>1. /\ liveSession' = s /\ curId' = curId /\ srv' = srv
    BY <1>1
  <2> QED
    BY <1>5, <2>1 DEF ScreenReads, Follows
<1>7. OneResponse'
  <2>1. \A q \in DOMAIN readers' : readers'[q].open => q = m
    BY <1>1, <1>3
  <2>2. readers'[m].next = liveJobs'[curId].eventIndex /\ liveJobs'[curId].id # NoChat
    BY <1>1, <1>5 DEF NoChat
  <2>3. /\ liveSession' # 0 /\ readers'[m].session = liveSession' /\ readerActive'
        /\ liveJob' = curId' /\ curId' = curId
    BY <1>1
  <2> QED
    BY <2>1, <2>2, <2>3 DEF OneResponse
<1>8. EntriesServed'
  BY <1>1, <1>4 DEF CursorInv, EntriesServed, busyFor
<1>9. /\ \A k \in recon'.list : LineTrue(k)'
      /\ recon'.fetching # NoChat => srv'[recon'.fetching].phase = "over"
  BY <1>1 DEF CursorInv, LineTrue
<1> QED
  BY <1>6, <1>7, <1>8, <1>9 DEF CursorInv

(* An entry that goes while its session reads on leaves the session where it is: the turn is *)
(* over, and the snapshot has no line left that would bring the entry back.                   *)
LEMMA DropAgrees ==
  ASSUME ClientTyped, CursorInv, NEW c \in Chats, liveJobs[c].id = "known",
         srv[c].phase = "over", liveJobs'[c].id = NoChat,
         \A x \in Chats : x # c => liveJobs'[x] = liveJobs[x],
         \A j \in recon'.list : j \in recon.list /\ j.chat # c,
         UNCHANGED <<srv, curId, liveJob, sessions, liveSession, readers, readerActive>>
  PROVE  EntriesServed' /\ ScreenReads' /\ OneResponse'
<1>1. curId \in Chats
  BY ClientShapes
<1>2. EntriesServed'
  BY DEF CursorInv, EntriesServed, busyFor
<1>3. CASE curId = c
  <2>1. Dropped(c)'
    BY DEF Dropped
  <2>2. ScreenReads'
    BY <1>3, <2>1 DEF CursorInv, ScreenReads
  <2>3. ASSUME NEW r \in DOMAIN readers, readers[r].open
        PROVE  Follows(sessions[liveSession], At(readers[r].next), srv[curId])
    <3>1. /\ readers[r].next = liveJobs[curId].eventIndex
          /\ Follows(sessions[liveSession], liveJobs[curId], srv[curId])
      BY <1>3, <2>3, OpenAgrees DEF NoChat
    <3>2. At(readers[r].next).id = liveJobs[curId].id
          /\ At(readers[r].next).eventIndex = liveJobs[curId].eventIndex
      BY <1>3, <3>1 DEF At
    <3> QED
      BY <3>1, <3>2, FollowsToo
  <2>4. OneResponse'
    BY <1>3, <2>3 DEF CursorInv, OneResponse, Follows, At
  <2> QED
    BY <1>2, <2>2, <2>4
<1>4. CASE curId # c
  <2>1. liveJobs'[curId] = liveJobs[curId]
    BY <1>1, <1>4
  <2>2. ScreenReads'
    BY <2>1 DEF CursorInv, ScreenReads, Dropped, Follows
  <2>3. OneResponse'
    BY <2>1 DEF CursorInv, OneResponse, Follows, At
  <2> QED
    BY <1>2, <2>2, <2>3
<1> QED
  BY <1>3, <1>4

(* So every step of reconcileJobs preserves the invariant. *)
LEMMA ReconcileAgrees ==
  ASSUME ClientTyped, CursorInv, ReconcileStep PROVE CursorInv'
<1>0. /\ recon \in Reconcile /\ (recon.fetching # NoChat => recon.fetching \in Chats)
      /\ \A j \in recon.list : j.chat \in Chats
      /\ curId \in Chats /\ liveJobs \in [Chats -> Entry]
  BY DEF ClientTyped, ClientTypeOK, Reconcile
<1>1. CASE ReconcileList
  <2>1. /\ recon'.fetching = NoChat
        /\ \A j \in recon'.list : \E c \in Chats :
             /\ j.chat = c /\ srv[c].phase # "none"
             /\ j.running = (srv[c].phase # "over") /\ j.collected = srv[c].collected
             /\ j = [chat |-> c, running |-> srv[c].phase # "over",
                     collected |-> srv[c].collected]
        /\ UNCHANGED <<srv, curId, uiVars, mergedJobs, transcript, acks, spent>>
    BY <1>1, ReconcileListIs
  <2>2. OneResponse' /\ EntriesServed'
    BY <2>1 DEF CursorInv, OneResponse, EntriesServed, Follows, At, busyFor, uiVars
  <2>3. ScreenReads'
    <3>1. ASSUME Dropped(curId), NEW j \in recon'.list, j.chat = curId PROVE ~j.running
      <4>1. PICK c \in Chats : j.chat = c /\ j.running = (srv[c].phase # "over")
        BY <2>1
      <4>2. c = curId /\ srv[c].phase = "over"
        BY <3>1, <4>1 DEF Dropped
      <4> QED
        BY <4>1, <4>2
    <3>2. Dropped(curId) => Dropped(curId)'
      BY <2>1, <3>1 DEF Dropped, uiVars
    <3> QED
      BY <2>1, <3>2 DEF CursorInv, ScreenReads, Follows, uiVars
  <2>4. ASSUME NEW k \in recon'.list PROVE LineTrue(k)'
    <3>1. PICK c \in Chats :
            /\ k.chat = c /\ srv[c].phase # "none"
            /\ k.running = (srv[c].phase # "over") /\ k.collected = srv[c].collected
            /\ k = [chat |-> c, running |-> srv[c].phase # "over",
                    collected |-> srv[c].collected]
      BY <2>1
    <3>2. \A h \in recon'.list : h.chat = c => h = k
      BY <2>1, <3>1
    <3>3. c # NoChat
      BY ChatClientConstants
    <3>4. ~k.running => srv[c].phase = "over"
      BY <3>1
    <3> QED
      BY <2>1, <3>1, <3>2, <3>3, <3>4 DEF LineTrue
  <2> QED
    BY <2>1, <2>2, <2>3, <2>4 DEF CursorInv
<1>2. CASE ReconcileDone
  <2>1. /\ recon'.list = {} /\ recon'.fetching = NoChat
        /\ UNCHANGED <<srv, curId, uiVars, mergedJobs, transcript, acks, spent>>
    BY <1>2 DEF ReconcileDone, Idle
  <2>2. ScreenReads' /\ OneResponse' /\ EntriesServed'
    BY <2>1 DEF CursorInv, ScreenReads, OneResponse, EntriesServed, Dropped, Follows, At,
                busyFor, uiVars
  <2> QED
    BY <2>1, <2>2 DEF CursorInv
<1>3. CASE deliverResult
  <2>1. PICK c \in Chats :
          /\ c = recon.fetching
          /\ recon'.list = recon.list /\ recon'.fetching = NoChat
          /\ mergedJobs' = mergedJobs \cup {c} /\ acks' = acks \cup {c}
          /\ transcript' = [transcript EXCEPT ![c] = @ + 1]
          /\ liveJobs' \in [Chats -> Entry]
          /\ \A x \in Chats : x # c => liveJobs'[x] = liveJobs[x]
          /\ UNCHANGED <<srv, curId, liveJob, sessions, liveSession, readers,
                         readerActive, spent>>
    BY <1>3, DeliverIs
  <2>2. srv[c].phase = "over" /\ \A j \in recon.list : j.chat # c
    BY <2>1, ChatClientConstants DEF CursorInv, LineTrue
  <2>3. liveJobs' = IF liveJobs[c].id = "known"
                    THEN [liveJobs EXCEPT ![c].id = NoChat] ELSE liveJobs
    BY <1>3, <2>1 DEF deliverResult
  <2>4. EntriesServed' /\ ScreenReads' /\ OneResponse'
    <3>1. CASE liveJobs[c].id = "known"
      <4>1. liveJobs'[c].id = NoChat
        BY <1>0, <2>3, <3>1 DEF Entry
      <4> QED
        BY <2>1, <2>2, <3>1, <4>1, DropAgrees
    <3>2. CASE liveJobs[c].id # "known"
      BY <2>1, <2>3, <3>2 DEF CursorInv, ScreenReads, OneResponse, EntriesServed, Dropped,
                              Follows, At, busyFor
    <3> QED
      BY <3>1, <3>2
  <2>5. ASSUME NEW k \in recon.list PROVE LineTrue(k)'
    <3>1. k.chat \in Chats /\ LineTrue(k)
      BY <1>0 DEF CursorInv
    <3>2. k.chat # NoChat
      BY <3>1, ChatClientConstants
    <3> QED
      BY <2>1, <3>1, <3>2 DEF LineTrue
  <2> QED
    BY <2>1, <2>4, <2>5 DEF CursorInv
<1>4. ASSUME NEW j \in recon.list, ReconcileRunning(j) PROVE CursorInv'
  <2> DEFINE c == j.chat
  <2>1. /\ c \in Chats /\ j.running
        /\ recon'.list = recon.list \ {j}
        /\ recon.fetching = NoChat /\ recon'.fetching = NoChat
        /\ busyFor(c) => liveJobs' = liveJobs
        /\ ~busyFor(c) => /\ liveJobs'[c] = [id |-> "known", eventIndex |-> 0]
                          /\ \A x \in Chats : x # c => liveJobs'[x] = liveJobs[x]
        /\ UNCHANGED <<srv, curId, liveJob, sessions, liveSession, readers, readerActive,
                       mergedJobs, transcript, acks, spent>>
    BY <1>4, ReconcileRunningIs
  <2>2. LineTrue(j)
    BY DEF CursorInv
  <2>3. liveSession # 0 => liveJobs'[curId] = liveJobs[curId]
    <3>1. liveSession # 0 => busyFor(curId) \/ curId # c
      BY <2>1 DEF CursorInv, ScreenReads, Follows, Dropped, busyFor, NoChat
    <3> HIDE DEF c
    <3> QED
      BY <1>0, <2>1, <3>1
  <2> HIDE DEF c
  <2>4. ScreenReads'
    <3>1. liveSession # 0 /\ Dropped(curId) => Dropped(curId)'
      BY <2>1, <2>3 DEF Dropped
    <3> QED
      BY <2>1, <2>3, <3>1 DEF CursorInv, ScreenReads, Follows
  <2>5. OneResponse'
    BY <2>1, <2>3 DEF CursorInv, OneResponse, Follows, At
  <2>6. EntriesServed'
    <3>1. srv[c].phase # "none"
      BY <2>2 DEF LineTrue, c
    <3> QED
      BY <2>1, <3>1 DEF CursorInv, EntriesServed, busyFor
  <2>7. ASSUME NEW k \in recon'.list PROVE LineTrue(k)'
    <3>1. k \in recon.list
      BY <2>1
    <3> QED
      BY <2>1, <3>1 DEF CursorInv, LineTrue
  <2> QED
    BY <2>1, <2>4, <2>5, <2>6, <2>7 DEF CursorInv
<1>5. ASSUME NEW j \in recon.list, ReconcileFinished(j) PROVE CursorInv'
  <2> DEFINE c == j.chat
  <2>1. /\ c \in Chats /\ ~j.running
        /\ recon'.list = recon.list \ {j} /\ recon.fetching = NoChat
        /\ IF j.collected \/ c \in mergedJobs
              \/ (liveSession # 0 /\ sessions[liveSession].chat = c)
           THEN recon'.fetching = NoChat ELSE recon'.fetching = c
        /\ liveJobs' \in [Chats -> Entry]
        /\ UNCHANGED <<srv, curId, liveJob, sessions, liveSession, readers, readerActive,
                       mergedJobs, transcript, acks, spent>>
    BY <1>5, ReconcileFinishedIs
  <2>2. LineTrue(j) /\ srv[c].phase = "over"
    BY <2>1 DEF CursorInv, LineTrue
  <2>3. liveJobs' = IF ~j.collected /\ c \in mergedJobs /\ liveJobs[c].id = "known"
                    THEN [liveJobs EXCEPT ![c].id = NoChat] ELSE liveJobs
    BY <1>5 DEF ReconcileFinished
  <2>4. \A k \in recon'.list : k \in recon.list /\ k.chat # c
    BY <2>1, <2>2 DEF LineTrue
  <2> HIDE DEF c
  <2>5. EntriesServed' /\ ScreenReads' /\ OneResponse'
    <3>1. CASE ~j.collected /\ c \in mergedJobs /\ liveJobs[c].id = "known"
      <4>1. liveJobs'[c].id = NoChat /\ \A x \in Chats : x # c => liveJobs'[x] = liveJobs[x]
        BY <1>0, <2>1, <2>3, <3>1 DEF Entry
      <4> QED
        BY <2>1, <2>2, <2>4, <3>1, <4>1, DropAgrees
    <3>2. CASE ~(~j.collected /\ c \in mergedJobs /\ liveJobs[c].id = "known")
      <4>1. liveJobs' = liveJobs
        BY <2>3, <3>2
      <4>2. Dropped(curId) => Dropped(curId)'
        BY <2>1, <2>4, <4>1 DEF Dropped
      <4> QED
        BY <2>1, <4>1, <4>2 DEF CursorInv, ScreenReads, OneResponse, EntriesServed,
                                Follows, At, busyFor
    <3> QED
      BY <3>1, <3>2
  <2>6. ASSUME NEW k \in recon'.list PROVE LineTrue(k)'
    <3>1. k \in recon.list /\ k.chat # c /\ LineTrue(k)
      BY <2>4 DEF CursorInv
    <3>2. k.chat # recon'.fetching
      BY <2>1, <3>1 DEF LineTrue
    <3> QED
      BY <2>1, <3>1, <3>2 DEF LineTrue
  <2>7. recon'.fetching # NoChat => srv'[recon'.fetching].phase = "over"
    BY <2>1, <2>2
  <2> QED
    BY <2>5, <2>6, <2>7 DEF CursorInv
<1> QED
  BY <1>1, <1>2, <1>3, <1>4, <1>5 DEF ReconcileStep

(* Every step of the app preserves it, as long as no chat is left with its reattach open. *)
LEMMA ClientStepAgrees ==
  ASSUME ~LeaveAttached
  PROVE  ClientTyped /\ CursorInv /\ [ClientNext]_clientVars => CursorInv'
<1> SUFFICES ASSUME ClientTyped, CursorInv, [ClientNext]_clientVars PROVE CursorInv'
  OBVIOUS
<1>1. CASE UNCHANGED clientVars
  BY <1>1 DEF CursorInv, EntriesServed, ScreenReads, OneResponse, LineTrue, Dropped, Follows,
              At, busyFor, clientVars
<1>2. CASE \E c \in Chats : LoseCollect(c)
  <2>1. UNCHANGED <<srv, curId, uiVars, recon>>
    BY <1>2 DEF LoseCollect
  <2> QED
    BY <2>1 DEF CursorInv, EntriesServed, ScreenReads, OneResponse, LineTrue, Dropped,
                Follows, At, busyFor, uiVars
<1>3. CASE ServerStep \/ \E c \in Chats : Collect(c)
  BY <1>3, ServerAgrees DEF ServerStep
<1>4. CASE streamReply
  BY <1>4, StreamReplyAgrees
<1>5. CASE ReaderStep \/ \E r \in DOMAIN readers : StreamDies(r)
  BY <1>5, ReadAgrees, StreamAgrees DEF ReaderStep
<1>6. CASE attemptReattach
  BY <1>6, ReattachAgrees
<1>7. CASE \E c \in Chats : switchChat(c)
  BY <1>7, SwitchAgrees
<1>8. CASE Reload
  BY <1>8, ReloadAgrees
<1>9. CASE ReconcileStep
  BY <1>9, ReconcileAgrees
<1> QED
  BY <1>1, <1>2, <1>3, <1>4, <1>5, <1>6, <1>7, <1>8, <1>9 DEF ClientNext

(* The resume cursor counts exactly the events that the session on screen has consumed, so *)
(* that a reattach neither skips nor repeats one (processEvent, attemptReattach), whatever  *)
(* becomes of the entry and of the snapshot, and however often a stream dies.                *)
THEOREM CursorIsExact == ASSUME ~LeaveAttached PROVE ClientSpec => []CursorExact
<1>1. CursorInv => CursorExact
  <2> SUFFICES ASSUME CursorInv, liveSession # 0, NEW s, s = sessions[liveSession],
                      liveJobs[s.chat].id = "known"
               PROVE  s.seen = [i \in 1 .. TextCount(liveJobs[s.chat].eventIndex, s.verdict) |-> i]
    BY DEF CursorExact
  <2>1. s.chat = curId /\ Follows(s, liveJobs[curId], srv[curId])
    BY DEF CursorInv, ScreenReads, Dropped, NoChat
  <2> QED
    BY <2>1 DEF Follows
<1>2. ClientTyped /\ CursorInv /\ [ClientNext]_clientVars => CursorInv'
  BY ClientStepAgrees
<1>3. ClientInit => CursorInv
  BY ClientInitReads
<1>4. ClientSpec => []ClientTyped
  BY ClientStaysTyped
<1> QED
  BY <1>1, <1>2, <1>3, <1>4, PTL DEF ClientSpec
=============================================================================
